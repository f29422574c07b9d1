-------------------------- MODULE MotorCoveEscrow --------------------------
(***************************************************************************)
(* The sale escrow (chain/src/MotorCoveEscrow.sol) together with the token *)
(* it holds.  A call of an account is one step, except that a call into a  *)
(* contract recipient (ERC-721 receiver hook, ether transfer) opens a      *)
(* call frame: until it returns or reverts, contracts may take further     *)
(* steps, and what they do is rolled back with it.  A contract account may *)
(* make several calls one after another in one transaction: here they are  *)
(* as many steps, and calls of others may fall between them.  A            *)
(* transaction that reverts as a whole leaves what no step would.          *)
(***************************************************************************)
EXTENDS VehicleNFT, Sequences, Functions

CONSTANTS
    Contracts,     \* users with code: they may re-enter and may reject
    Prices,        \* prices and payments, in wei
    FundingPeriod, \* fundingPeriodSeconds
    MaxUint64,     \* largest uint64
    MaxSales,      \* bound: sales ever created
    MaxTime,       \* bound: last block timestamp
    MaxForced,     \* bound: wei forced into the escrow
    MaxLogs        \* bound: events of one outermost call before a token moves again

ASSUME EscrowAssumption ==
    /\ Contracts \subseteq Users
    /\ Prices \subseteq Nat \ {0}
    /\ FundingPeriod \in Nat \ {0}
    /\ MaxUint64 \in Nat /\ MaxSales \in Nat /\ MaxTime \in Nat /\ MaxForced \in Nat
    /\ MaxLogs \in Nat

VARIABLES
    sales,          \* _sales
    claims,         \* _claims
    custodySaleId,
    saleCount,
    totalLiability,
    balance,        \* address(escrow).balance
    forced,         \* history: wei that arrived without a call
    now,            \* block.timestamp
    call,           \* the call frame that is open
    emitted         \* events logged by the latest outermost call

bookVars == <<sales, claims, custodySaleId, saleCount, totalLiability>>
vars == <<nftVars, bookVars, balance, forced, now, call, emitted>>

SaleIds == 1..MaxSales

NoSale == [tokenId |-> 0, seller |-> Nobody, allowedBuyer |-> Nobody, buyer |-> Nobody,
           priceWei |-> 0, expiresAt |-> 0, status |-> "NONE", tokenReclaimed |-> FALSE]
NoClaim == [beneficiary |-> Nobody, amountWei |-> 0, kind |-> "NONE", status |-> "NONE"]
NoCall == [op |-> "none"]

Init ==
    /\ NftInit
    /\ sales = [s \in SaleIds |-> NoSale]
    /\ claims = [s \in SaleIds |-> NoClaim]
    /\ custodySaleId = [t \in TokenIds |-> 0]
    /\ saleCount = 0 /\ totalLiability = 0
    /\ balance = 0 /\ forced = 0
    /\ now = 0 /\ call = NoCall /\ emitted = <<>>

-----------------------------------------------------------------------------
(* Calls, call frames and logs.                                            *)

\* Inside a frame only code runs, so only contracts act.
CanExecute(a) == call = NoCall \/ a \in Contracts

\* Fault: the modifier is missing.
Reentrant == TRUE

\* The nonReentrant modifier of every mutator of the escrow.
NonReentrant == call = NoCall

\* A receipt is the logs of the outermost calls of its transaction, one after
\* the other; they are collected call by call.
Emit(events) == emitted' = (IF call = NoCall THEN <<>> ELSE emitted) \o events

TransferEvent(tokenId, from, to) ==
    [kind |-> "Transfer", tokenId |-> tokenId, from |-> from, to |-> to]
SaleEvent(kind, s) == [kind |-> kind, saleId |-> s]

\* Everything a revert of the open frame restores.
State == [ownerOf |-> ownerOf, getApproved |-> getApproved, approvedForAll |-> approvedForAll,
          sales |-> sales, claims |-> claims, custodySaleId |-> custodySaleId,
          saleCount |-> saleCount, totalLiability |-> totalLiability,
          balance |-> balance, forced |-> forced]

\* _checkLiability, and the operations that end with it.
LiabilityCovered(funds, liability) == funds >= liability
FinalCheck(op, funds, liability) == op # "reclaim" => LiabilityCovered(funds, liability)

\* The last statement of an operation is a call to recipient: it succeeds at
\* once when there is no code there, otherwise the frame opens.  `events` are
\* emitted before the call and `closing` after it.
CallRecipient(op, recipient, events, closing) ==
    \/ /\ recipient \notin Contracts
       /\ FinalCheck(op, balance', totalLiability')
       /\ Emit(events \o closing)
       /\ UNCHANGED call
    \/ /\ recipient \in Contracts
       /\ Emit(events)
       /\ call' = [op |-> op, closing |-> closing, saved |-> State]

\* The callee accepts; the operation emits its last events and ends.
ReturnFromCall ==
    /\ call # NoCall
    /\ FinalCheck(call.op, balance, totalLiability)
    /\ emitted' = emitted \o call.closing
    /\ call' = NoCall
    /\ UNCHANGED <<nftVars, bookVars, balance, forced, now>>

\* The callee rejects the token or the ether: the outermost call is undone, and
\* a transaction that goes on after it goes on with another call.
RevertCall ==
    /\ call # NoCall
    /\ ownerOf' = call.saved.ownerOf
    /\ getApproved' = call.saved.getApproved
    /\ approvedForAll' = call.saved.approvedForAll
    /\ sales' = call.saved.sales
    /\ claims' = call.saved.claims
    /\ custodySaleId' = call.saved.custodySaleId
    /\ saleCount' = call.saved.saleCount
    /\ totalLiability' = call.saved.totalLiability
    /\ balance' = call.saved.balance
    /\ forced' = call.saved.forced
    /\ call' = NoCall /\ emitted' = <<>>
    /\ UNCHANGED <<nextTokenId, now>>

-----------------------------------------------------------------------------
(* The operations of the escrow.                                           *)

\* The token arrives through safeTransferFrom, whose hook onERC721Received
\* accepts exactly the pending receipt; both run inside this call.
CreateSale(seller, tokenId, priceWei, allowedBuyer) ==
    LET s == saleCount + 1 IN
    /\ NonReentrant /\ CanExecute(seller)
    /\ s \in SaleIds
    /\ allowedBuyer # seller
    /\ ownerOf[tokenId] = seller
    /\ custodySaleId[tokenId] = 0
    /\ TransferFrom(EscrowAddress, tokenId, EscrowAddress)
    /\ saleCount' = s
    /\ sales' = [sales EXCEPT ![s] =
          [NoSale EXCEPT !.tokenId = tokenId, !.seller = seller, !.allowedBuyer = allowedBuyer,
                         !.priceWei = priceWei, !.status = "LISTED"]]
    /\ custodySaleId' = [custodySaleId EXCEPT ![tokenId] = s]
    /\ Emit(<<TransferEvent(tokenId, seller, EscrowAddress),
              [kind |-> "SaleCreated", saleId |-> s, tokenId |-> tokenId, seller |-> seller,
               allowedBuyer |-> allowedBuyer, priceWei |-> priceWei]>>)
    /\ UNCHANGED <<claims, totalLiability, balance, forced, now, call>>

\* Fault: a payment above the price is taken.
EnoughPayment(s, value) == value >= sales[s].priceWei

ExactPayment(s, value) == value = sales[s].priceWei

FundSale(buyer, s, value) ==
    LET expiresAt == now + FundingPeriod IN
    /\ NonReentrant /\ CanExecute(buyer)
    /\ sales[s].status = "LISTED"
    /\ buyer # sales[s].seller
    /\ buyer = sales[s].allowedBuyer
    /\ ExactPayment(s, value)
    /\ expiresAt <= MaxUint64              \* checked uint64 addition
    /\ LiabilityCovered(balance + value, totalLiability + value)
    /\ sales' = [sales EXCEPT ![s] =
          [@ EXCEPT !.buyer = buyer, !.expiresAt = expiresAt, !.status = "FUNDED"]]
    /\ totalLiability' = totalLiability + value
    /\ balance' = balance + value
    /\ Emit(<<[kind |-> "SaleFunded", saleId |-> s, buyer |-> buyer, amountWei |-> value,
               expiresAt |-> expiresAt]>>)
    /\ UNCHANGED <<nftVars, claims, custodySaleId, saleCount, forced, now, call>>

\* Faults: the claim is for all the escrow owes, or always for the buyer.
ClaimOfEverything(s, beneficiary, kind) ==
    [beneficiary |-> beneficiary, amountWei |-> totalLiability, kind |-> kind,
     status |-> "CLAIMABLE"]
ClaimOfBuyer(s, beneficiary, kind) ==
    [beneficiary |-> sales[s].buyer, amountWei |-> sales[s].priceWei, kind |-> kind,
     status |-> "CLAIMABLE"]

\* The claim that completion and expiry record for the principal of a sale.
PaymentClaim(s, beneficiary, kind) ==
    [beneficiary |-> beneficiary, amountWei |-> sales[s].priceWei, kind |-> kind,
     status |-> "CLAIMABLE"]
ClaimCreated(s, claim) ==
    [kind |-> "PaymentClaimCreated", saleId |-> s, beneficiary |-> claim.beneficiary,
     amountWei |-> claim.amountWei, claimKind |-> claim.kind]

CompleteSale(caller, s) ==
    LET t == sales[s].tokenId
        claim == PaymentClaim(s, sales[s].seller, "SELLER_PROCEEDS") IN
    /\ NonReentrant /\ CanExecute(caller)
    /\ sales[s].status = "FUNDED"
    /\ caller = sales[s].buyer
    /\ now < sales[s].expiresAt
    /\ sales' = [sales EXCEPT ![s].status = "COMPLETED"]
    /\ custodySaleId' = [custodySaleId EXCEPT ![t] = 0]
    /\ claims' = [claims EXCEPT ![s] = claim]
    /\ TransferFrom(EscrowAddress, t, sales[s].buyer)
    /\ UNCHANGED <<saleCount, totalLiability, balance, forced, now>>
    /\ CallRecipient("complete", sales[s].buyer,
                     <<SaleEvent("SaleCompleted", s), ClaimCreated(s, claim),
                       TransferEvent(t, EscrowAddress, sales[s].buyer)>>, <<>>)

CancelSale(caller, s) ==
    /\ NonReentrant /\ CanExecute(caller)
    /\ sales[s].status = "LISTED"
    /\ caller = sales[s].seller
    /\ sales' = [sales EXCEPT ![s].status = "CANCELLED"]
    /\ Emit(<<SaleEvent("SaleCancelled", s)>>)
    /\ UNCHANGED <<nftVars, claims, custodySaleId, saleCount, totalLiability, balance,
                   forced, now, call>>

\* Fault: only at the very second of the deadline.
AtDeadline(s) == now = sales[s].expiresAt

DeadlineReached(s) == now >= sales[s].expiresAt

\* Anyone may expire a sale.
ExpireSale(s) ==
    LET claim == PaymentClaim(s, sales[s].buyer, "BUYER_REFUND") IN
    /\ NonReentrant
    /\ sales[s].status = "FUNDED"
    /\ DeadlineReached(s)
    /\ sales' = [sales EXCEPT ![s].status = "EXPIRED"]
    /\ claims' = [claims EXCEPT ![s] = claim]
    /\ LiabilityCovered(balance, totalLiability)
    /\ Emit(<<SaleEvent("SaleExpired", s), ClaimCreated(s, claim)>>)
    /\ UNCHANGED <<nftVars, custodySaleId, saleCount, totalLiability, balance, forced,
                   now, call>>

\* Fault: the payment leaves and the liability stays.
PayOutUnrecorded(amount) ==
    /\ amount <= balance
    /\ balance' = balance - amount
    /\ UNCHANGED totalLiability

\* The liability is reduced (checked subtraction), then the ether is sent.
PayOut(amount) ==
    /\ amount <= totalLiability
    /\ amount <= balance
    /\ totalLiability' = totalLiability - amount
    /\ balance' = balance - amount

WithdrawPayment(caller, s, recipient) ==
    LET claim == claims[s] IN
    /\ NonReentrant /\ CanExecute(caller)
    /\ claim.status = "CLAIMABLE"
    /\ caller = claim.beneficiary
    /\ recipient # EscrowAddress
    /\ claims' = [claims EXCEPT ![s].status = "WITHDRAWN"]
    /\ PayOut(claim.amountWei)
    /\ UNCHANGED <<nftVars, sales, custodySaleId, saleCount, forced, now>>
    /\ CallRecipient("withdraw", recipient, <<>>,
                     <<[kind |-> "PaymentWithdrawn", saleId |-> s,
                        beneficiary |-> claim.beneficiary, recipient |-> recipient,
                        amountWei |-> claim.amountWei, claimKind |-> claim.kind]>>)

\* Fault: a token that was already taken back can be taken back again.
ReclaimableAgain(s) == sales[s].status \in {"CANCELLED", "EXPIRED"}

Reclaimable(s) ==
    /\ sales[s].status \in {"CANCELLED", "EXPIRED"}
    /\ ~ sales[s].tokenReclaimed

ReclaimToken(caller, s, recipient) ==
    LET t == sales[s].tokenId IN
    /\ NonReentrant /\ CanExecute(caller)
    /\ caller = sales[s].seller
    /\ Reclaimable(s)
    /\ recipient # EscrowAddress
    /\ sales' = [sales EXCEPT ![s].tokenReclaimed = TRUE]
    /\ custodySaleId' = [custodySaleId EXCEPT ![t] = 0]
    /\ TransferFrom(EscrowAddress, t, recipient)
    /\ UNCHANGED <<claims, saleCount, totalLiability, balance, forced, now>>
    /\ CallRecipient("reclaim", recipient, <<TransferEvent(t, EscrowAddress, recipient)>>,
                     <<[kind |-> "TokenReclaimed", saleId |-> s, tokenId |-> t,
                        recipient |-> recipient]>>)

-----------------------------------------------------------------------------
(* Token calls outside the escrow, and the environment.             *)

outsideNft == <<bookVars, balance, forced, now, call>>

\* Only the collection's owner, an externally owned account, mints.
MintToken(to) ==
    /\ call = NoCall
    /\ Mint(to)
    /\ Emit(<<TransferEvent(nextTokenId, Nobody, to)>>)
    /\ UNCHANGED outsideNft

TransferToken(owner, tokenId, to) ==
    /\ CanExecute(owner)
    /\ call # NoCall => Len(emitted) < MaxLogs
    /\ ownerOf[tokenId] = owner
    /\ TransferFrom(owner, tokenId, to)
    /\ Emit(<<TransferEvent(tokenId, owner, to)>>)
    /\ UNCHANGED outsideNft

ApproveEscrow(owner) ==
    /\ CanExecute(owner)
    /\ SetApprovalForAll(owner) \/ \E t \in TokenIds : Approve(owner, t)
    /\ Emit(<<>>)
    /\ UNCHANGED outsideNft

\* Ether forced in by self-destruction or block rewards.
ForceEther ==
    /\ forced < MaxForced
    /\ balance' = balance + 1 /\ forced' = forced + 1
    /\ Emit(<<>>)
    /\ UNCHANGED <<nftVars, bookVars, now, call>>

\* A later block.
Tick ==
    /\ call = NoCall
    /\ now < MaxTime
    /\ now' = now + 1
    /\ Emit(<<>>)
    /\ UNCHANGED <<nftVars, bookVars, balance, forced, call>>

Next ==
    \/ \E a, b \in Users, t \in TokenIds, p \in Prices : CreateSale(a, t, p, b)
    \/ \E s \in SaleIds, a \in Users :
          \/ \E v \in Prices : FundSale(a, s, v)
          \/ CompleteSale(a, s)
          \/ CancelSale(a, s)
          \/ \E r \in Users :
                \/ WithdrawPayment(a, s, r)
                \/ ReclaimToken(a, s, r)
    \/ \E s \in SaleIds : ExpireSale(s)
    \/ ReturnFromCall
    \/ RevertCall
    \/ \E to \in Holders : MintToken(to)
    \/ \E a \in Users, t \in TokenIds, to \in Holders : TransferToken(a, t, to)
    \/ \E a \in Users : ApproveEscrow(a)
    \/ ForceEther
    \/ Tick

Spec == Init /\ [][Next]_vars

-----------------------------------------------------------------------------
(* Properties.                                                             *)

\* A sale that was never funded, and one that was.
OpenSale == [tokenId : TokenIds, seller : Users, allowedBuyer : Users, buyer : {Nobody},
             priceWei : Prices, expiresAt : {0}, status : {"LISTED", "CANCELLED"},
             tokenReclaimed : BOOLEAN]
PaidSale == [tokenId : TokenIds, seller : Users, allowedBuyer : Users, buyer : Users,
             priceWei : Prices, expiresAt : Nat, status : {"FUNDED", "COMPLETED", "EXPIRED"},
             tokenReclaimed : BOOLEAN]
Sale == {NoSale} \cup OpenSale \cup PaidSale

ClaimKinds == {"SELLER_PROCEEDS", "BUYER_REFUND"}
OwnClaim == [beneficiary : Users, amountWei : Prices, kind : ClaimKinds,
             status : {"CLAIMABLE", "WITHDRAWN"}]
Claim == {NoClaim} \cup OwnClaim

Event ==
    [kind : {"Transfer"}, tokenId : TokenIds, from : Holders \cup {Nobody}, to : Holders]
    \cup [kind : {"SaleCreated"}, saleId : SaleIds, tokenId : TokenIds, seller : Users,
          allowedBuyer : Users, priceWei : Prices]
    \cup [kind : {"SaleFunded"}, saleId : SaleIds, buyer : Users, amountWei : Prices,
          expiresAt : Nat]
    \cup [kind : {"SaleCompleted", "SaleCancelled", "SaleExpired"}, saleId : SaleIds]
    \cup [kind : {"PaymentClaimCreated"}, saleId : SaleIds, beneficiary : Users,
          amountWei : Prices, claimKind : ClaimKinds]
    \cup [kind : {"PaymentWithdrawn"}, saleId : SaleIds, beneficiary : Users,
          recipient : Users, amountWei : Prices, claimKind : ClaimKinds]
    \cup [kind : {"TokenReclaimed"}, saleId : SaleIds, tokenId : TokenIds, recipient : Users]
Logs == Seq(Event)
ContractState ==
    [ownerOf : [TokenIds -> Holders \cup {Nobody}], getApproved : SUBSET TokenIds,
     approvedForAll : SUBSET Users, sales : [SaleIds -> Sale], claims : [SaleIds -> Claim],
     custodySaleId : [TokenIds -> {0} \cup SaleIds], saleCount : {0} \cup SaleIds,
     totalLiability : Nat, balance : Nat, forced : Nat]
Frame == [op : {"complete", "withdraw", "reclaim"}, closing : Logs, saved : ContractState]

\* Every variable, the logs and the state saved by an open frame included,
\* has its type: balances never wrap below zero, claims never leave the prices.
TypeOK ==
    /\ NftTypeOK
    /\ sales \in [SaleIds -> Sale] /\ claims \in [SaleIds -> Claim]
    /\ custodySaleId \in [TokenIds -> {0} \cup SaleIds] /\ saleCount \in {0} \cup SaleIds
    /\ totalLiability \in Nat /\ balance \in Nat /\ forced \in Nat /\ now \in Nat
    /\ call \in {NoCall} \cup Frame
    /\ emitted \in Logs

\* A sale whose token the escrow still has to hand to somebody.
Holds(sale) ==
    \/ sale.status \in {"LISTED", "FUNDED"}
    \/ sale.status \in {"CANCELLED", "EXPIRED"} /\ ~ sale.tokenReclaimed

\* Every token the escrow owns is held for exactly one sale, the one that
\* custodySaleId names, and every sale that still holds a token has it: no
\* token is stranded or promised twice, not even while a recipient runs.
CustodyMatchesSales == \A t \in TokenIds :
    /\ (custodySaleId[t] # 0) <=> (ownerOf[t] = EscrowAddress)
    /\ \A s \in SaleIds :
          custodySaleId[t] = s <=> (Holds(sales[s]) /\ sales[s].tokenId = t)

Owed(s) == (IF sales[s].status = "FUNDED" THEN sales[s].priceWei ELSE 0)
         + (IF claims[s].status = "CLAIMABLE" THEN claims[s].amountWei ELSE 0)

\* totalLiability counts every principal that is held or claimable, once
\* (chain/test/invariant/EscrowInvariant.t.sol states it between calls; here
\* it also holds while a recipient runs).
LiabilityIsOwed == totalLiability = SumFunction([s \in SaleIds |-> Owed(s)])

\* The escrow's ether is its liability plus what was forced in: it is never
\* short, and no principal stays behind once its claim is withdrawn.
SurplusWasForced == balance = totalLiability + forced

\* A claim exists exactly for completed and expired sales, and names the party
\* and the principal that outcome calls for; the buyer is the reserved one.
ClaimsFollowOutcome == \A s \in SaleIds :
    LET sale == sales[s] IN
    /\ sale.status = "COMPLETED" => \E st \in {"CLAIMABLE", "WITHDRAWN"} :
          claims[s] = [beneficiary |-> sale.seller, amountWei |-> sale.priceWei,
                       kind |-> "SELLER_PROCEEDS", status |-> st]
    /\ sale.status = "EXPIRED" => \E st \in {"CLAIMABLE", "WITHDRAWN"} :
          claims[s] = [beneficiary |-> sale.buyer, amountWei |-> sale.priceWei,
                       kind |-> "BUYER_REFUND", status |-> st]
    /\ sale.status \notin {"COMPLETED", "EXPIRED"} => claims[s] = NoClaim
    /\ sale.status \in {"FUNDED", "COMPLETED", "EXPIRED"} => sale.buyer = sale.allowedBuyer

\* The events that the code around an open frame has yet to log.
Unlogged == IF call = NoCall THEN {} ELSE Range(call.closing)

\* When a token has a later sale, every earlier sale of it has given the token
\* up, and no TokenReclaimed of it is left to log, although reclaimToken logs it
\* after the recipient ran: over any number of calls, frames and reverts, no
\* reader meets the listing of a token before the end of the sale that held it.
RelistedAfterRelease == \A earlier, later \in SaleIds :
    (/\ earlier < later
     /\ sales[earlier].status # "NONE" /\ sales[later].status # "NONE"
     /\ sales[earlier].tokenId = sales[later].tokenId)
        => /\ ~ Holds(sales[earlier])
           /\ \A e \in Unlogged : ~ (e.kind = "TokenReclaimed" /\ e.saleId = earlier)

-----------------------------------------------------------------------------
(* The promise, and how the committed state of the escrow keeps it.        *)

\* The state a new outermost call would see: that of before an open frame.
Committed == IF call = NoCall THEN State ELSE call.saved

DealOf(state, s) ==
    LET sale == state.sales[s]
        claim == state.claims[s]
        inCustody == state.custodySaleId[sale.tokenId] = s
                        /\ state.ownerOf[sale.tokenId] = EscrowAddress
        forSeller == claim.beneficiary = sale.seller IN
    [token |-> IF sale.status = "NONE" THEN "none"
               ELSE IF inCustody
               THEN IF sale.status \in {"LISTED", "FUNDED"} THEN "held" ELSE "dueToSeller"
               ELSE IF sale.status = "COMPLETED" THEN "delivered" ELSE "returned",
     money |-> IF sale.status = "FUNDED" THEN "held"
               ELSE IF claim.status = "CLAIMABLE"
               THEN IF forSeller THEN "dueToSeller" ELSE "dueToBuyer"
               ELSE IF claim.status = "WITHDRAWN"
               THEN IF forSeller THEN "paidToSeller" ELSE "paidToBuyer"
               ELSE "none",
     price |-> sale.priceWei]

Promise == INSTANCE Settlement WITH
    Deals <- SaleIds,
    deals <- [s \in SaleIds |-> DealOf(Committed, s)],
    pot <- Committed.balance - Committed.forced

\* Every outermost call of the escrow is one step of the promise or none: frames,
\* re-entry, rejections and other tokens' transfers show nothing in between.
KeepsPromise == Promise!Spec

-----------------------------------------------------------------------------
(* Liveness.  A frame ends (its gas does), blocks keep coming, and an      *)
(* account that keeps sending an admissible transaction gets it included:  *)
(* somebody expires an overdue sale, a beneficiary asks for its payment    *)
(* and a seller for its token at an address without code.  Nobody is       *)
(* obliged to fund, complete or cancel.                                    *)
Fairness ==
    /\ WF_vars(ReturnFromCall \/ RevertCall)
    /\ SF_vars(Tick)
    /\ \A s \in SaleIds :
          /\ SF_vars(ExpireSale(s))
          /\ SF_vars(\E a \in Users, r \in Users \ Contracts : WithdrawPayment(a, s, r))
          /\ SF_vars(\E a \in Users, r \in Users \ Contracts : ReclaimToken(a, s, r))

FairSpec == Spec /\ Fairness

\* Once a sale is funded, whatever recipients reject and contracts do, its
\* principal is collected and its token leaves the escrow.
FundedSalesResolve == \A s \in SaleIds :
    sales[s].status = "FUNDED"
        ~> (claims[s].status = "WITHDRAWN" /\ ~ Holds(sales[s]) /\ call = NoCall)
=============================================================================
