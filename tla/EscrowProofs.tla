---------------------------- MODULE EscrowProofs ----------------------------
(***************************************************************************)
(* Theorems about MotorCoveEscrow, for every set of users, contracts and   *)
(* prices and every bound.                                                 *)
(***************************************************************************)
EXTENDS MotorCoveEscrow, FiniteSetTheorems, TLAPS

USE NftAssumption, EscrowAssumption

-----------------------------------------------------------------------------
(* Types: what the operations build out of typed parts is typed.           *)

LEMMA Numbers ==
    /\ SaleIds \subseteq Nat \ {0} /\ TokenIds \subseteq Nat \ {0}
    /\ Prices \subseteq Nat
    /\ Nobody \notin Users
  BY DEF SaleIds, TokenIds, Holders

LEMMA EmitTypes ==
    ASSUME TypeOK, NEW events \in Logs, Emit(events)
    PROVE  emitted' \in Logs
  BY DEF Emit, TypeOK, Logs

\* A call to a recipient keeps the frame and the logs well typed.
LEMMA CallRecipientTypes ==
    ASSUME TypeOK, NEW op \in {"complete", "withdraw", "reclaim"}, NEW recipient \in Users,
           NEW events \in Logs, NEW closing \in Logs,
           CallRecipient(op, recipient, events, closing)
    PROVE  call' \in {NoCall} \cup Frame /\ emitted' \in Logs
<1>1. State \in ContractState
  BY DEF State, ContractState, TypeOK, NftTypeOK
<1>2. emitted' \in Logs
  <2>1. events \o closing \in Logs
    BY DEF Logs
  <2> QED BY <2>1, EmitTypes DEF CallRecipient
<1>3. call' \in {NoCall} \cup Frame
  BY <1>1 DEF CallRecipient, TypeOK, Frame
<1> QED BY <1>2, <1>3

LEMMA TransferFromTypes ==
    ASSUME NftTypeOK, NEW op, NEW t \in TokenIds, NEW to \in Holders, TransferFrom(op, t, to)
    PROVE  NftTypeOK'
  BY DEF NftTypeOK, TransferFrom, Update

\* The ways in which operations rewrite a sale.
LEMMA ListedType ==
    ASSUME NEW t \in TokenIds, NEW a \in Users, NEW b \in Users, NEW p \in Prices
    PROVE  [NoSale EXCEPT !.tokenId = t, !.seller = a, !.allowedBuyer = b,
                          !.priceWei = p, !.status = "LISTED"] \in Sale
  BY DEF NoSale, Sale, OpenSale

LEMMA FundedType ==
    ASSUME NEW sale \in Sale, sale.status = "LISTED", NEW b \in Users, NEW x \in Nat
    PROVE  [sale EXCEPT !.buyer = b, !.expiresAt = x, !.status = "FUNDED"] \in Sale
<1>1. sale \in OpenSale
  BY DEF Sale, NoSale, PaidSale
<1> QED BY <1>1 DEF OpenSale, Sale, PaidSale

LEMMA SettledType ==
    ASSUME NEW sale \in Sale, sale.status = "FUNDED", NEW st \in {"COMPLETED", "EXPIRED"}
    PROVE  [sale EXCEPT !.status = st] \in Sale /\ sale \in PaidSale
<1>1. sale \in PaidSale
  BY DEF Sale, NoSale, OpenSale
<1> QED BY <1>1 DEF Sale, PaidSale

LEMMA CancelledType ==
    ASSUME NEW sale \in Sale, sale.status = "LISTED"
    PROVE  [sale EXCEPT !.status = "CANCELLED"] \in Sale
<1>1. sale \in OpenSale
  BY DEF Sale, NoSale, PaidSale
<1> QED BY <1>1 DEF Sale, OpenSale

LEMMA ReclaimedType ==
    ASSUME NEW sale \in Sale, sale.status # "NONE"
    PROVE  /\ [sale EXCEPT !.tokenReclaimed = TRUE] \in Sale
           /\ sale.tokenId \in TokenIds
<1>1. CASE sale \in OpenSale
  BY <1>1 DEF OpenSale, Sale
<1>2. CASE sale \in PaidSale
  BY <1>2 DEF PaidSale, Sale
<1> QED BY <1>1, <1>2 DEF Sale, NoSale

LEMMA PaymentClaimType ==
    ASSUME NEW s \in SaleIds, sales[s] \in PaidSale, NEW a \in Users, NEW k \in ClaimKinds
    PROVE  /\ PaymentClaim(s, a, k) \in Claim
           /\ ClaimCreated(s, PaymentClaim(s, a, k)) \in Event
<1>1. PaymentClaim(s, a, k) \in OwnClaim
  BY DEF PaymentClaim, OwnClaim, PaidSale
<1>2. ASSUME NEW c \in OwnClaim PROVE ClaimCreated(s, c) \in Event
  BY DEF ClaimCreated, OwnClaim, Event
<1> QED BY <1>1, <1>2 DEF Claim

LEMMA EmptyLogs == <<>> \in Logs
  BY DEF Logs

LEMMA LogsTypes ==
    ASSUME NEW e1 \in Event, NEW e2 \in Event, NEW e3 \in Event
    PROVE  /\ <<>> \in Logs /\ <<e1>> \in Logs /\ <<e1, e2>> \in Logs
           /\ <<e1, e2, e3>> \in Logs
  BY DEF Logs

LEMMA TransferEventType ==
    ASSUME NEW t \in TokenIds, NEW from \in Holders \cup {Nobody}, NEW to \in Holders
    PROVE  TransferEvent(t, from, to) \in Event
  BY DEF Event, TransferEvent

LEMMA SaleEventType ==
    ASSUME NEW s \in SaleIds, NEW k \in {"SaleCompleted", "SaleCancelled", "SaleExpired"}
    PROVE  SaleEvent(k, s) \in Event
  BY DEF Event, SaleEvent

-----------------------------------------------------------------------------
(* Each action preserves TypeOK.                                           *)

LEMMA CreateSaleTypes ==
    ASSUME TypeOK, NEW a \in Users, NEW t \in TokenIds, NEW p \in Prices, NEW b \in Users,
           CreateSale(a, t, p, b)
    PROVE  TypeOK'
<1> DEFINE s == saleCount + 1
<1>1. s \in SaleIds /\ s # 0
  BY Numbers DEF CreateSale
<1>2. NftTypeOK'
  BY TransferFromTypes DEF CreateSale, TypeOK, Holders
<1>3. sales' \in [SaleIds -> Sale]
  BY <1>1, ListedType DEF CreateSale, TypeOK
<1>4. custodySaleId' \in [TokenIds -> {0} \cup SaleIds] /\ saleCount' \in {0} \cup SaleIds
  BY <1>1 DEF CreateSale, TypeOK
<1>5. emitted' \in Logs
  <2> DEFINE e1 == TransferEvent(t, a, EscrowAddress)
             e2 == [kind |-> "SaleCreated", saleId |-> s, tokenId |-> t, seller |-> a,
                    allowedBuyer |-> b, priceWei |-> p]
  <2>1. e1 \in Event
    BY TransferEventType DEF Holders
  <2>2. e2 \in Event
    BY <1>1 DEF Event
  <2>3. <<e1, e2>> \in Logs
    BY <2>1, <2>2, LogsTypes
  <2>4. Emit(<<e1, e2>>)
    BY DEF CreateSale
  <2> QED BY <2>3, <2>4, EmitTypes
<1>6. /\ claims' \in [SaleIds -> Claim] /\ totalLiability' \in Nat /\ balance' \in Nat
      /\ forced' \in Nat /\ now' \in Nat /\ call' \in {NoCall} \cup Frame
  BY DEF CreateSale, TypeOK
<1> QED BY <1>2, <1>3, <1>4, <1>5, <1>6 DEF TypeOK

LEMMA FundSaleTypes ==
    ASSUME TypeOK, NEW a \in Users, NEW s \in SaleIds, NEW v \in Prices, FundSale(a, s, v)
    PROVE  TypeOK'
<1>1. now + FundingPeriod \in Nat
  BY DEF TypeOK
<1>2. sales' \in [SaleIds -> Sale]
  <2>1. [sales[s] EXCEPT !.buyer = a, !.expiresAt = now + FundingPeriod,
                         !.status = "FUNDED"] \in Sale
    BY <1>1, FundedType DEF FundSale, TypeOK
  <2> QED BY <2>1 DEF FundSale, TypeOK
<1>3. totalLiability' \in Nat /\ balance' \in Nat
  BY Numbers DEF FundSale, TypeOK
<1>4. emitted' \in Logs
  <2> DEFINE e == [kind |-> "SaleFunded", saleId |-> s, buyer |-> a, amountWei |-> v,
                   expiresAt |-> now + FundingPeriod]
  <2>1. e \in Event
    BY <1>1 DEF Event
  <2>2. <<e>> \in Logs
    BY <2>1 DEF Logs
  <2> QED BY <2>2, EmitTypes DEF FundSale
<1> QED BY <1>2, <1>3, <1>4 DEF TypeOK, NftTypeOK, nftVars, FundSale

LEMMA CompleteSaleTypes ==
    ASSUME TypeOK, NEW a \in Users, NEW s \in SaleIds, CompleteSale(a, s)
    PROVE  TypeOK'
<1> DEFINE t == sales[s].tokenId
           claim == PaymentClaim(s, sales[s].seller, "SELLER_PROCEEDS")
<1>1. sales[s] \in PaidSale /\ [sales[s] EXCEPT !.status = "COMPLETED"] \in Sale
  BY SettledType DEF CompleteSale, TypeOK
<1>2. t \in TokenIds /\ sales[s].buyer \in Users /\ sales[s].seller \in Users
  BY <1>1 DEF PaidSale
<1>3. claim \in Claim /\ ClaimCreated(s, claim) \in Event
  BY <1>1, <1>2, PaymentClaimType DEF ClaimKinds
<1>4. NftTypeOK'
  BY <1>2, TransferFromTypes DEF CompleteSale, TypeOK, Holders
<1>5. call' \in {NoCall} \cup Frame /\ emitted' \in Logs
  <2> DEFINE e1 == SaleEvent("SaleCompleted", s)
             e2 == ClaimCreated(s, claim)
             e3 == TransferEvent(t, EscrowAddress, sales[s].buyer)
  <2>1. e1 \in Event /\ e2 \in Event /\ e3 \in Event
    BY <1>2, <1>3, SaleEventType, TransferEventType DEF Holders
  <2>2. <<e1, e2, e3>> \in Logs /\ <<>> \in Logs
    BY <2>1, LogsTypes
  <2>3. CallRecipient("complete", sales[s].buyer, <<e1, e2, e3>>, <<>>)
    BY DEF CompleteSale
  <2> QED BY <1>2, <2>2, <2>3, CallRecipientTypes
<1>6. sales' \in [SaleIds -> Sale] /\ claims' \in [SaleIds -> Claim]
  BY <1>1, <1>3 DEF CompleteSale, TypeOK
<1>7. /\ custodySaleId' \in [TokenIds -> {0} \cup SaleIds] /\ saleCount' \in {0} \cup SaleIds
      /\ totalLiability' \in Nat /\ balance' \in Nat /\ forced' \in Nat /\ now' \in Nat
  BY DEF CompleteSale, TypeOK
<1> QED BY <1>4, <1>5, <1>6, <1>7 DEF TypeOK

LEMMA CancelSaleTypes ==
    ASSUME TypeOK, NEW a \in Users, NEW s \in SaleIds, CancelSale(a, s)
    PROVE  TypeOK'
<1>1. sales' \in [SaleIds -> Sale]
  BY CancelledType DEF CancelSale, TypeOK
<1>2. emitted' \in Logs
  BY EmitTypes, SaleEventType, LogsTypes DEF CancelSale
<1> QED BY <1>1, <1>2 DEF TypeOK, NftTypeOK, nftVars, CancelSale

LEMMA ExpireSaleTypes ==
    ASSUME TypeOK, NEW s \in SaleIds, ExpireSale(s)
    PROVE  TypeOK'
<1> DEFINE claim == PaymentClaim(s, sales[s].buyer, "BUYER_REFUND")
<1>1. sales[s] \in PaidSale /\ [sales[s] EXCEPT !.status = "EXPIRED"] \in Sale
  BY SettledType DEF ExpireSale, TypeOK
<1>2. claim \in Claim /\ ClaimCreated(s, claim) \in Event
  BY <1>1, PaymentClaimType DEF ClaimKinds, PaidSale
<1>3. emitted' \in Logs
  <2>1. SaleEvent("SaleExpired", s) \in Event
    BY SaleEventType
  <2>2. <<SaleEvent("SaleExpired", s), ClaimCreated(s, claim)>> \in Logs
    BY <1>2, <2>1, LogsTypes
  <2> QED BY <2>2, EmitTypes DEF ExpireSale
<1>4. sales' \in [SaleIds -> Sale] /\ claims' \in [SaleIds -> Claim]
  BY <1>1, <1>2 DEF ExpireSale, TypeOK
<1> QED BY <1>3, <1>4 DEF TypeOK, NftTypeOK, nftVars, ExpireSale

LEMMA WithdrawPaymentTypes ==
    ASSUME TypeOK, NEW a \in Users, NEW s \in SaleIds, NEW r \in Users,
           WithdrawPayment(a, s, r)
    PROVE  TypeOK'
<1>1. claims[s] \in OwnClaim
  BY DEF WithdrawPayment, TypeOK, Claim, NoClaim
<1>2. claims' \in [SaleIds -> Claim]
  <2>1. [claims[s] EXCEPT !.status = "WITHDRAWN"] \in Claim
    BY <1>1 DEF OwnClaim, Claim
  <2> QED BY <2>1 DEF WithdrawPayment, TypeOK
<1>3. call' \in {NoCall} \cup Frame /\ emitted' \in Logs
  <2> DEFINE e == [kind |-> "PaymentWithdrawn", saleId |-> s,
                   beneficiary |-> claims[s].beneficiary, recipient |-> r,
                   amountWei |-> claims[s].amountWei, claimKind |-> claims[s].kind]
  <2>1. e \in Event
    BY <1>1 DEF OwnClaim, Event
  <2>2. <<e>> \in Logs /\ <<>> \in Logs
    BY <2>1, LogsTypes
  <2>3. CallRecipient("withdraw", r, <<>>, <<e>>)
    BY DEF WithdrawPayment
  <2> QED BY <2>2, <2>3, CallRecipientTypes
<1>4. totalLiability' \in Nat /\ balance' \in Nat
  BY <1>1, Numbers DEF OwnClaim, WithdrawPayment, PayOut, TypeOK
<1> QED BY <1>2, <1>3, <1>4 DEF TypeOK, NftTypeOK, nftVars, WithdrawPayment

LEMMA ReclaimTokenTypes ==
    ASSUME TypeOK, NEW a \in Users, NEW s \in SaleIds, NEW r \in Users,
           ReclaimToken(a, s, r)
    PROVE  TypeOK'
<1> DEFINE t == sales[s].tokenId
<1>1. [sales[s] EXCEPT !.tokenReclaimed = TRUE] \in Sale /\ t \in TokenIds
  BY ReclaimedType DEF ReclaimToken, Reclaimable, TypeOK
<1>2. NftTypeOK'
  BY <1>1, TransferFromTypes DEF ReclaimToken, TypeOK, Holders
<1>3. call' \in {NoCall} \cup Frame /\ emitted' \in Logs
  <2> DEFINE e1 == TransferEvent(t, EscrowAddress, r)
             e2 == [kind |-> "TokenReclaimed", saleId |-> s, tokenId |-> t, recipient |-> r]
  <2>1. e1 \in Event
    BY <1>1, TransferEventType DEF Holders
  <2>2. e2 \in Event
    BY <1>1 DEF Event
  <2>3. <<e1>> \in Logs /\ <<e2>> \in Logs
    BY <2>1, <2>2, LogsTypes
  <2>4. CallRecipient("reclaim", r, <<e1>>, <<e2>>)
    BY DEF ReclaimToken
  <2> QED BY <2>3, <2>4, CallRecipientTypes
<1>4. sales' \in [SaleIds -> Sale] /\ custodySaleId' \in [TokenIds -> {0} \cup SaleIds]
  BY <1>1 DEF ReclaimToken, TypeOK
<1> QED BY <1>2, <1>3, <1>4 DEF TypeOK, ReclaimToken

LEMMA FrameEndTypes ==
    ASSUME TypeOK, ReturnFromCall \/ RevertCall
    PROVE  TypeOK'
<1>1. call \in Frame
  BY DEF ReturnFromCall, RevertCall, TypeOK
<1>2. CASE ReturnFromCall
  <2>1. emitted' \in Logs
    BY <1>1, <1>2 DEF ReturnFromCall, TypeOK, Frame, Logs
  <2> QED BY <1>2, <2>1 DEF ReturnFromCall, TypeOK, NftTypeOK, nftVars, bookVars
<1>3. CASE RevertCall
  <2>1. call.saved \in ContractState
    BY <1>1 DEF Frame
  <2>2. emitted' \in Logs
    BY <1>3 DEF RevertCall, Logs
  <2> QED BY <1>3, <2>1, <2>2 DEF RevertCall, TypeOK, NftTypeOK, ContractState
<1> QED BY <1>2, <1>3

LEMMA OutsideTypes ==
    ASSUME TypeOK,
           \/ \E to \in Holders : MintToken(to)
           \/ \E a \in Users, t \in TokenIds, to \in Holders : TransferToken(a, t, to)
           \/ \E a \in Users : ApproveEscrow(a)
           \/ ForceEther
           \/ Tick
    PROVE  TypeOK'
<1>1. CASE \E to \in Holders : MintToken(to)
  <2> SUFFICES ASSUME NEW to \in Holders, MintToken(to) PROVE TypeOK'
    BY <1>1
  <2>1. nextTokenId \in TokenIds
    BY DEF MintToken, Mint
  <2>2. NftTypeOK'
    BY <2>1 DEF MintToken, Mint, Update, TypeOK, NftTypeOK, TokenIds
  <2>3. emitted' \in Logs
    BY <2>1, EmitTypes, LogsTypes, TransferEventType DEF MintToken
  <2> QED BY <2>2, <2>3 DEF TypeOK, MintToken, outsideNft, bookVars
<1>2. CASE \E a \in Users, t \in TokenIds, to \in Holders : TransferToken(a, t, to)
  <2> SUFFICES ASSUME NEW a \in Users, NEW t \in TokenIds, NEW to \in Holders,
                      TransferToken(a, t, to)
               PROVE  TypeOK'
    BY <1>2
  <2>1. NftTypeOK'
    BY TransferFromTypes DEF TransferToken, TypeOK
  <2>2. TransferEvent(t, a, to) \in Event
    BY TransferEventType DEF Holders
  <2>3. emitted' \in Logs
    BY <2>2, EmitTypes, LogsTypes DEF TransferToken
  <2> QED BY <2>1, <2>3 DEF TypeOK, TransferToken, outsideNft, bookVars
<1>3. CASE \E a \in Users : ApproveEscrow(a)
  <2> SUFFICES ASSUME NEW a \in Users, ApproveEscrow(a) PROVE TypeOK'
    BY <1>3
  <2>1. NftTypeOK'
    BY DEF ApproveEscrow, SetApprovalForAll, Approve, TypeOK, NftTypeOK
  <2>2. emitted' \in Logs
    BY EmitTypes, EmptyLogs DEF ApproveEscrow
  <2> QED BY <2>1, <2>2 DEF TypeOK, ApproveEscrow, outsideNft, bookVars
<1>4. CASE ForceEther \/ Tick
  <2>1. emitted' \in Logs
    BY <1>4, EmitTypes, EmptyLogs DEF ForceEther, Tick
  <2>2. balance' \in Nat /\ forced' \in Nat /\ now' \in Nat
    BY <1>4 DEF ForceEther, Tick, TypeOK
  <2> QED BY <1>4, <2>1, <2>2 DEF TypeOK, NftTypeOK, ForceEther, Tick, nftVars, bookVars
<1> QED BY <1>1, <1>2, <1>3, <1>4

LEMMA InitTypes == Init => TypeOK
<1> SUFFICES ASSUME Init PROVE TypeOK
  OBVIOUS
<1>1. NftTypeOK
  BY DEF Init, NftInit, NftTypeOK, TokenIds
<1>2. emitted \in Logs
  BY DEF Init, Logs
<1> QED BY <1>1, <1>2 DEF Init, TypeOK, Sale, Claim

\* Every variable keeps its type: in particular no reachable frame, rolled
\* back, restores an ill-typed state, and liability and balance never wrap.
THEOREM TypeCorrect == Spec => []TypeOK
<1>1. ASSUME TypeOK, [Next]_vars PROVE TypeOK'
  <2>1. CASE UNCHANGED vars
    BY <1>1, <2>1 DEF vars, nftVars, bookVars, TypeOK, NftTypeOK
  <2>2. CASE Next
    BY <1>1, <2>2, CreateSaleTypes, FundSaleTypes, CompleteSaleTypes, CancelSaleTypes,
       ExpireSaleTypes, WithdrawPaymentTypes, ReclaimTokenTypes, FrameEndTypes, OutsideTypes
       DEF Next
  <2> QED BY <1>1, <2>1, <2>2
<1> QED BY <1>1, InitTypes, PTL DEF Spec

-----------------------------------------------------------------------------
(* The inductive invariant.  A revert restores the saved state, so whatever *)
(* is claimed of the current state is claimed of the saved one too.        *)

Funds(funds, liability, surplus) == funds = liability + surplus

Custody(owner, book, custody) == \A t \in TokenIds :
    /\ (custody[t] # 0) <=> (owner[t] = EscrowAddress)
    /\ \A s \in SaleIds : custody[t] = s <=> (Holds(book[s]) /\ book[s].tokenId = t)

\* Tokens and sales not yet created are blank; only ended sales are reclaimed.
Fresh(owner, book, count) ==
    /\ \A t \in TokenIds : t >= nextTokenId => owner[t] = Nobody
    /\ \A s \in SaleIds : s > count => book[s] = NoSale
    /\ \A s \in SaleIds : book[s].tokenReclaimed => book[s].status \in {"CANCELLED", "EXPIRED"}

Outcome(sale, claim) ==
    /\ sale.status = "COMPLETED" => \E st \in {"CLAIMABLE", "WITHDRAWN"} :
          claim = [beneficiary |-> sale.seller, amountWei |-> sale.priceWei,
                   kind |-> "SELLER_PROCEEDS", status |-> st]
    /\ sale.status = "EXPIRED" => \E st \in {"CLAIMABLE", "WITHDRAWN"} :
          claim = [beneficiary |-> sale.buyer, amountWei |-> sale.priceWei,
                   kind |-> "BUYER_REFUND", status |-> st]
    /\ sale.status \notin {"COMPLETED", "EXPIRED"} => claim = NoClaim
    /\ sale.status \in {"FUNDED", "COMPLETED", "EXPIRED"} => sale.buyer = sale.allowedBuyer
Outcomes(book, owed) == \A s \in SaleIds : Outcome(book[s], owed[s])

Sound(st) ==
    /\ Funds(st.balance, st.totalLiability, st.forced)
    /\ Custody(st.ownerOf, st.sales, st.custodySaleId)
    /\ Fresh(st.ownerOf, st.sales, st.saleCount)
    /\ Outcomes(st.sales, st.claims)

IInv ==
    /\ Sound(State)
    /\ call # NoCall => Sound(call.saved)

LEMMA SoundState ==
    Sound(State) <=> /\ Funds(balance, totalLiability, forced)
                     /\ Custody(ownerOf, sales, custodySaleId)
                     /\ Fresh(ownerOf, sales, saleCount)
                     /\ Outcomes(sales, claims)
  BY DEF Sound, State

LEMMA SoundNextState ==
    Sound(State)' <=> /\ Funds(balance, totalLiability, forced)'
                      /\ Custody(ownerOf, sales, custodySaleId)'
                      /\ Fresh(ownerOf, sales, saleCount)'
                      /\ Outcomes(sales, claims)'
  BY DEF Sound, State

\* A step that leaves the frame alone, closes it, or opens one here, keeps the
\* saved half of the invariant.
LEMMA SavedStaysSound ==
    ASSUME IInv, nextTokenId' = nextTokenId,
           \/ UNCHANGED call
           \/ call' = NoCall
           \/ call'.saved = State
    PROVE  (call # NoCall => Sound(call.saved))'
  BY DEF IInv, Sound, Fresh

LEMMA CallRecipientSaves ==
    ASSUME NEW op, NEW recipient, NEW events, NEW closing,
           CallRecipient(op, recipient, events, closing)
    PROVE  UNCHANGED call \/ call'.saved = State
  BY DEF CallRecipient

-----------------------------------------------------------------------------
(* Each action preserves it.                                               *)

LEMMA CreateSaleSound ==
    ASSUME TypeOK, IInv, NEW a \in Users, NEW t \in TokenIds, NEW p \in Prices, NEW b \in Users,
           CreateSale(a, t, p, b)
    PROVE  IInv'
<1> DEFINE s == saleCount + 1
           new == [NoSale EXCEPT !.tokenId = t, !.seller = a, !.allowedBuyer = b,
                                 !.priceWei = p, !.status = "LISTED"]
<1> USE SoundState DEF IInv
<1>1. /\ s \in SaleIds /\ s > saleCount /\ saleCount \in Nat
      /\ sales[s] = NoSale
  BY Numbers DEF CreateSale, Fresh, TypeOK
<1>2. /\ sales' = [sales EXCEPT ![s] = new]
      /\ custodySaleId' = [custodySaleId EXCEPT ![t] = s]
      /\ ownerOf' = [ownerOf EXCEPT ![t] = EscrowAddress]
      /\ saleCount' = s /\ custodySaleId[t] = 0 /\ ownerOf[t] = a
      /\ UNCHANGED <<nextTokenId, claims, balance, totalLiability, forced, call>>
  BY DEF CreateSale, TransferFrom, Update
<1>3. /\ new.tokenId = t /\ new.status = "LISTED" /\ new.tokenReclaimed = FALSE
      /\ Holds(new) /\ ~ Holds(NoSale)
  BY DEF NoSale, Holds
<1>4. Custody(ownerOf, sales, custodySaleId)'
  BY <1>1, <1>2, <1>3, Numbers DEF Custody, TypeOK, NftTypeOK
<1>5. Fresh(ownerOf, sales, saleCount)'
  <2>1. ~ (t >= nextTokenId)
    BY <1>2, Numbers DEF Fresh
  <2>2. \A u \in TokenIds : u >= nextTokenId => ownerOf'[u] = Nobody
    BY <1>2, <2>1 DEF Fresh, TypeOK, NftTypeOK
  <2>3. \A r \in SaleIds : r > s => r > saleCount /\ r # s
    BY <1>1, Numbers
  <2>4. \A r \in SaleIds : r > s => sales'[r] = NoSale
    BY <1>1, <1>2, <2>3 DEF Fresh, TypeOK
  <2>5. \A r \in SaleIds : sales'[r].tokenReclaimed
                              => sales'[r].status \in {"CANCELLED", "EXPIRED"}
    BY <1>1, <1>2, <1>3 DEF Fresh, TypeOK
  <2> QED BY <1>2, <2>2, <2>4, <2>5 DEF Fresh
<1>6. Outcomes(sales, claims)'
  <2>1. claims[s] = NoClaim
    <3>1. sales[s].status = "NONE" /\ Outcome(sales[s], claims[s])
      BY <1>1 DEF Outcomes, NoSale
    <3> QED BY <3>1 DEF Outcome
  <2>2. Outcome(new, claims[s])
    BY <1>3, <2>1 DEF Outcome
  <2> QED BY <1>1, <1>2, <2>2 DEF Outcomes, TypeOK
<1>7. Funds(balance, totalLiability, forced)'
  BY <1>2 DEF Funds
<1> QED BY <1>2, <1>4, <1>5, <1>6, <1>7, SavedStaysSound, SoundNextState

\* Rewriting a sale that goes on holding its token.
LEMMA KeepHolding ==
    ASSUME TypeOK, Custody(ownerOf, sales, custodySaleId), Fresh(ownerOf, sales, saleCount),
           NEW s \in SaleIds, NEW new,
           sales[s] # NoSale, new.tokenId = sales[s].tokenId, Holds(new) <=> Holds(sales[s]),
           new.tokenReclaimed => new.status \in {"CANCELLED", "EXPIRED"},
           sales' = [sales EXCEPT ![s] = new],
           UNCHANGED <<ownerOf, custodySaleId, saleCount, nextTokenId>>
    PROVE  Custody(ownerOf, sales, custodySaleId)' /\ Fresh(ownerOf, sales, saleCount)'
<1>1. \A r \in SaleIds : sales'[r] = IF r = s THEN new ELSE sales[r]
  BY DEF TypeOK
<1>2. Custody(ownerOf, sales, custodySaleId)'
  BY <1>1 DEF Custody
<1>3. Fresh(ownerOf, sales, saleCount)'
  BY <1>1 DEF Fresh
<1> QED BY <1>2, <1>3

\* Rewriting a sale that hands its token to somebody.
LEMMA Release ==
    ASSUME TypeOK, Custody(ownerOf, sales, custodySaleId), Fresh(ownerOf, sales, saleCount),
           NEW s \in SaleIds, NEW new, NEW t \in TokenIds, NEW to \in Users,
           t = sales[s].tokenId, Holds(sales[s]),
           new.tokenId = t, ~ Holds(new),
           new.tokenReclaimed => new.status \in {"CANCELLED", "EXPIRED"},
           sales' = [sales EXCEPT ![s] = new],
           custodySaleId' = [custodySaleId EXCEPT ![t] = 0],
           ownerOf' = [ownerOf EXCEPT ![t] = to],
           UNCHANGED <<saleCount, nextTokenId>>
    PROVE  Custody(ownerOf, sales, custodySaleId)' /\ Fresh(ownerOf, sales, saleCount)'
<1>1. \A r \in SaleIds : sales'[r] = IF r = s THEN new ELSE sales[r]
  BY DEF TypeOK
<1>2. \A u \in TokenIds : /\ custodySaleId'[u] = IF u = t THEN 0 ELSE custodySaleId[u]
                          /\ ownerOf'[u] = IF u = t THEN to ELSE ownerOf[u]
  BY DEF TypeOK, NftTypeOK
<1>3. custodySaleId[t] = s /\ ownerOf[t] = EscrowAddress
  BY Numbers DEF Custody
<1>4. Custody(ownerOf, sales, custodySaleId)'
  <2>1. ASSUME NEW u \in TokenIds
        PROVE  (custodySaleId'[u] # 0) <=> (ownerOf'[u] = EscrowAddress)
    BY <1>2 DEF Custody
  <2>2. ASSUME NEW u \in TokenIds, NEW r \in SaleIds
        PROVE  custodySaleId'[u] = r <=> (Holds(sales'[r]) /\ sales'[r].tokenId = u)
    BY <1>1, <1>2, <1>3, Numbers DEF Custody
  <2> QED BY <2>1, <2>2 DEF Custody
<1>5. Fresh(ownerOf, sales, saleCount)'
  <2>1. ~ (t >= nextTokenId)
    BY <1>3 DEF Fresh
  <2>2. ~ (s > saleCount)
    BY DEF Fresh, Holds, NoSale
  <2> QED BY <1>1, <1>2, <2>1, <2>2 DEF Fresh
<1> QED BY <1>4, <1>5

\* Rewriting one sale and its claim to an agreeing pair.
LEMMA KeepOutcomes ==
    ASSUME TypeOK, Outcomes(sales, claims), NEW s \in SaleIds, NEW sale, NEW claim,
           Outcome(sale, claim),
           sales' = [sales EXCEPT ![s] = sale],
           claims' = [claims EXCEPT ![s] = claim]
    PROVE  Outcomes(sales, claims)'
<1>1. \A r \in SaleIds : /\ sales'[r] = IF r = s THEN sale ELSE sales[r]
                         /\ claims'[r] = IF r = s THEN claim ELSE claims[r]
  BY DEF TypeOK
<1> QED BY <1>1 DEF Outcomes

LEMMA SoundParts ==
    ASSUME IInv
    PROVE  /\ Funds(balance, totalLiability, forced)
           /\ Custody(ownerOf, sales, custodySaleId)
           /\ Fresh(ownerOf, sales, saleCount)
           /\ Outcomes(sales, claims)
  BY SoundState DEF IInv

LEMMA FundSaleSound ==
    ASSUME TypeOK, IInv, NEW a \in Users, NEW s \in SaleIds, NEW v \in Prices, FundSale(a, s, v)
    PROVE  IInv'
<1> DEFINE new == [sales[s] EXCEPT !.buyer = a, !.expiresAt = now + FundingPeriod,
                                   !.status = "FUNDED"]
<1>1. /\ sales' = [sales EXCEPT ![s] = new]
      /\ claims' = [claims EXCEPT ![s] = claims[s]]
      /\ totalLiability' = totalLiability + v /\ balance' = balance + v
      /\ sales[s].status = "LISTED" /\ a = sales[s].allowedBuyer
      /\ UNCHANGED <<ownerOf, nextTokenId, custodySaleId, saleCount, forced, call>>
  BY DEF FundSale, nftVars, TypeOK
<1>2. sales[s] \in OpenSale /\ sales[s] # NoSale
  BY <1>1 DEF TypeOK, Sale, NoSale, PaidSale
<1>3. /\ new.tokenId = sales[s].tokenId /\ new.status = "FUNDED" /\ new.buyer = a
      /\ new.allowedBuyer = sales[s].allowedBuyer
      /\ new.tokenReclaimed = sales[s].tokenReclaimed
  BY <1>2 DEF OpenSale
<1>4. ~ new.tokenReclaimed
  BY <1>1, <1>3, SoundParts DEF Fresh
<1>5. Custody(ownerOf, sales, custodySaleId)' /\ Fresh(ownerOf, sales, saleCount)'
  BY <1>1, <1>2, <1>3, <1>4, SoundParts, KeepHolding DEF Holds
<1>6. Outcomes(sales, claims)'
  <2>1. Outcome(sales[s], claims[s])
    BY SoundParts DEF Outcomes
  <2>2. Outcome(new, claims[s])
    BY <1>1, <1>3, <2>1 DEF Outcome
  <2> QED BY <1>1, <2>2, SoundParts, KeepOutcomes
<1>7. Funds(balance, totalLiability, forced)'
  BY <1>1, SoundParts, Numbers DEF Funds, TypeOK
<1> QED BY <1>1, <1>5, <1>6, <1>7, SavedStaysSound, SoundNextState DEF IInv

LEMMA CompleteSaleSound ==
    ASSUME TypeOK, IInv, NEW a \in Users, NEW s \in SaleIds, CompleteSale(a, s)
    PROVE  IInv'
<1> DEFINE new == [sales[s] EXCEPT !.status = "COMPLETED"]
           t == sales[s].tokenId
           claim == PaymentClaim(s, sales[s].seller, "SELLER_PROCEEDS")
<1>1. sales[s] \in PaidSale
  BY SettledType DEF CompleteSale, TypeOK
<1>2. /\ sales' = [sales EXCEPT ![s] = new]
      /\ claims' = [claims EXCEPT ![s] = claim]
      /\ custodySaleId' = [custodySaleId EXCEPT ![t] = 0]
      /\ ownerOf' = [ownerOf EXCEPT ![t] = sales[s].buyer]
      /\ sales[s].status = "FUNDED"
      /\ UNCHANGED <<nextTokenId, saleCount, totalLiability, balance, forced>>
  BY DEF CompleteSale, TransferFrom, Update
<1>3. /\ new.tokenId = t /\ new.status = "COMPLETED" /\ new.seller = sales[s].seller
      /\ new.priceWei = sales[s].priceWei /\ new.buyer = sales[s].buyer
      /\ new.allowedBuyer = sales[s].allowedBuyer
      /\ new.tokenReclaimed = sales[s].tokenReclaimed
      /\ t \in TokenIds /\ sales[s].buyer \in Users
  BY <1>1 DEF PaidSale
<1>4. ~ new.tokenReclaimed
  BY <1>2, <1>3, SoundParts DEF Fresh
<1>5. Custody(ownerOf, sales, custodySaleId)' /\ Fresh(ownerOf, sales, saleCount)'
  <2>1. Holds(sales[s]) /\ ~ Holds(new)
    BY <1>2, <1>3 DEF Holds
  <2> QED BY <1>2, <1>3, <1>4, <2>1, SoundParts, Release
<1>6. Outcomes(sales, claims)'
  <2>1. Outcome(sales[s], claims[s])
    BY SoundParts DEF Outcomes
  <2>2. Outcome(new, claim)
    BY <1>2, <1>3, <2>1 DEF Outcome, PaymentClaim
  <2> QED BY <1>2, <2>2, SoundParts, KeepOutcomes
<1>7. Funds(balance, totalLiability, forced)'
  BY <1>2, SoundParts DEF Funds
<1>8. UNCHANGED call \/ call'.saved = State
  BY CallRecipientSaves DEF CompleteSale
<1> QED BY <1>2, <1>5, <1>6, <1>7, <1>8, SavedStaysSound, SoundNextState DEF IInv

LEMMA CancelSaleSound ==
    ASSUME TypeOK, IInv, NEW a \in Users, NEW s \in SaleIds, CancelSale(a, s)
    PROVE  IInv'
<1> DEFINE new == [sales[s] EXCEPT !.status = "CANCELLED"]
<1>1. /\ sales' = [sales EXCEPT ![s] = new]
      /\ claims' = [claims EXCEPT ![s] = claims[s]]
      /\ sales[s].status = "LISTED"
      /\ UNCHANGED <<ownerOf, nextTokenId, custodySaleId, saleCount, totalLiability, balance,
                     forced, call>>
  BY DEF CancelSale, nftVars, TypeOK
<1>2. sales[s] \in OpenSale /\ sales[s] # NoSale
  BY <1>1 DEF TypeOK, Sale, NoSale, PaidSale
<1>3. /\ new.tokenId = sales[s].tokenId /\ new.status = "CANCELLED"
      /\ new.tokenReclaimed = sales[s].tokenReclaimed
  BY <1>2 DEF OpenSale
<1>4. ~ new.tokenReclaimed
  BY <1>1, <1>3, SoundParts DEF Fresh
<1>5. Custody(ownerOf, sales, custodySaleId)' /\ Fresh(ownerOf, sales, saleCount)'
  BY <1>1, <1>2, <1>3, <1>4, SoundParts, KeepHolding DEF Holds
<1>6. Outcomes(sales, claims)'
  <2>1. Outcome(sales[s], claims[s])
    BY SoundParts DEF Outcomes
  <2>2. Outcome(new, claims[s])
    BY <1>1, <1>3, <2>1 DEF Outcome
  <2> QED BY <1>1, <2>2, SoundParts, KeepOutcomes
<1>7. Funds(balance, totalLiability, forced)'
  BY <1>1, SoundParts DEF Funds
<1> QED BY <1>1, <1>5, <1>6, <1>7, SavedStaysSound, SoundNextState DEF IInv

LEMMA ExpireSaleSound ==
    ASSUME TypeOK, IInv, NEW s \in SaleIds, ExpireSale(s)
    PROVE  IInv'
<1> DEFINE new == [sales[s] EXCEPT !.status = "EXPIRED"]
           claim == PaymentClaim(s, sales[s].buyer, "BUYER_REFUND")
<1>1. sales[s] \in PaidSale
  BY SettledType DEF ExpireSale, TypeOK
<1>2. /\ sales' = [sales EXCEPT ![s] = new]
      /\ claims' = [claims EXCEPT ![s] = claim]
      /\ sales[s].status = "FUNDED"
      /\ UNCHANGED <<ownerOf, nextTokenId, custodySaleId, saleCount, totalLiability, balance,
                     forced, call>>
  BY DEF ExpireSale, nftVars
<1>3. /\ new.tokenId = sales[s].tokenId /\ new.status = "EXPIRED"
      /\ new.priceWei = sales[s].priceWei /\ new.buyer = sales[s].buyer
      /\ new.allowedBuyer = sales[s].allowedBuyer
      /\ new.tokenReclaimed = sales[s].tokenReclaimed /\ sales[s] # NoSale
  BY <1>1, <1>2 DEF PaidSale, NoSale
<1>4. ~ new.tokenReclaimed
  BY <1>2, <1>3, SoundParts DEF Fresh
<1>5. Custody(ownerOf, sales, custodySaleId)' /\ Fresh(ownerOf, sales, saleCount)'
  BY <1>2, <1>3, <1>4, SoundParts, KeepHolding DEF Holds
<1>6. Outcomes(sales, claims)'
  <2>1. Outcome(sales[s], claims[s])
    BY SoundParts DEF Outcomes
  <2>2. Outcome(new, claim)
    BY <1>2, <1>3, <2>1 DEF Outcome, PaymentClaim
  <2> QED BY <1>2, <2>2, SoundParts, KeepOutcomes
<1>7. Funds(balance, totalLiability, forced)'
  BY <1>2, SoundParts DEF Funds
<1> QED BY <1>2, <1>5, <1>6, <1>7, SavedStaysSound, SoundNextState DEF IInv

LEMMA WithdrawPaymentSound ==
    ASSUME TypeOK, IInv, NEW a \in Users, NEW s \in SaleIds, NEW r \in Users,
           WithdrawPayment(a, s, r)
    PROVE  IInv'
<1> DEFINE claim == [claims[s] EXCEPT !.status = "WITHDRAWN"]
<1>1. /\ claims' = [claims EXCEPT ![s] = claim]
      /\ sales' = [sales EXCEPT ![s] = sales[s]]
      /\ claims[s].status = "CLAIMABLE" /\ PayOut(claims[s].amountWei)
      /\ UNCHANGED <<ownerOf, nextTokenId, sales, custodySaleId, saleCount, forced>>
  BY DEF WithdrawPayment, nftVars, TypeOK
<1>2. claims[s] \in OwnClaim
  BY <1>1 DEF TypeOK, Claim, NoClaim
<1>3. Custody(ownerOf, sales, custodySaleId)' /\ Fresh(ownerOf, sales, saleCount)'
  BY <1>1, SoundParts DEF Custody, Fresh
<1>4. Outcomes(sales, claims)'
  <2>1. Outcome(sales[s], claims[s])
    BY SoundParts DEF Outcomes
  <2>2. Outcome(sales[s], claim)
    BY <1>1, <1>2, <2>1 DEF Outcome, NoClaim, OwnClaim
  <2> QED BY <1>1, <2>2, SoundParts, KeepOutcomes
<1>5. Funds(balance, totalLiability, forced)'
  <2>1. claims[s].amountWei \in Nat
    BY <1>2, Numbers DEF OwnClaim
  <2> QED BY <1>1, <2>1, SoundParts DEF Funds, PayOut, TypeOK
<1>6. UNCHANGED call \/ call'.saved = State
  BY CallRecipientSaves DEF WithdrawPayment
<1> QED BY <1>1, <1>3, <1>4, <1>5, <1>6, SavedStaysSound, SoundNextState DEF IInv

LEMMA ReclaimTokenSound ==
    ASSUME TypeOK, IInv, NEW a \in Users, NEW s \in SaleIds, NEW r \in Users,
           ReclaimToken(a, s, r)
    PROVE  IInv'
<1> DEFINE new == [sales[s] EXCEPT !.tokenReclaimed = TRUE]
           t == sales[s].tokenId
<1>1. /\ sales' = [sales EXCEPT ![s] = new]
      /\ claims' = [claims EXCEPT ![s] = claims[s]]
      /\ custodySaleId' = [custodySaleId EXCEPT ![t] = 0]
      /\ ownerOf' = [ownerOf EXCEPT ![t] = r]
      /\ sales[s].status \in {"CANCELLED", "EXPIRED"} /\ ~ sales[s].tokenReclaimed
      /\ UNCHANGED <<nextTokenId, saleCount, totalLiability, balance, forced>>
  BY DEF ReclaimToken, Reclaimable, TransferFrom, Update, TypeOK
<1>2. /\ t \in TokenIds /\ new.tokenId = t /\ new.status = sales[s].status
      /\ new.seller = sales[s].seller /\ new.priceWei = sales[s].priceWei
      /\ new.buyer = sales[s].buyer /\ new.allowedBuyer = sales[s].allowedBuyer
      /\ new.tokenReclaimed = TRUE
  <2>1. sales[s] \in OpenSale \cup PaidSale
    BY <1>1 DEF TypeOK, Sale, NoSale
  <2> QED BY <2>1 DEF OpenSale, PaidSale
<1>3. Custody(ownerOf, sales, custodySaleId)' /\ Fresh(ownerOf, sales, saleCount)'
  <2>1. Holds(sales[s]) /\ ~ Holds(new)
    BY <1>1, <1>2 DEF Holds
  <2> QED BY <1>1, <1>2, <2>1, SoundParts, Release
<1>4. Outcomes(sales, claims)'
  <2>1. Outcome(sales[s], claims[s])
    BY SoundParts DEF Outcomes
  <2>2. Outcome(new, claims[s])
    BY <1>2, <2>1 DEF Outcome
  <2> QED BY <1>1, <2>2, SoundParts, KeepOutcomes
<1>5. Funds(balance, totalLiability, forced)'
  BY <1>1, SoundParts DEF Funds
<1>6. UNCHANGED call \/ call'.saved = State
  BY CallRecipientSaves DEF ReclaimToken
<1> QED BY <1>1, <1>3, <1>4, <1>5, <1>6, SavedStaysSound, SoundNextState DEF IInv

LEMMA FrameEndSound ==
    ASSUME TypeOK, IInv, ReturnFromCall \/ RevertCall
    PROVE  IInv'
<1>1. (call # NoCall => Sound(call.saved))'
  BY SavedStaysSound DEF ReturnFromCall, RevertCall, nftVars
<1>2. CASE ReturnFromCall
  <2>1. Sound(State)'
    BY <1>2, SoundParts, SoundNextState
       DEF ReturnFromCall, nftVars, bookVars, Funds, Custody, Fresh, Outcomes
  <2> QED BY <1>1, <2>1 DEF IInv
<1>3. CASE RevertCall
  <2>1. Sound(call.saved)
    BY <1>3 DEF RevertCall, IInv
  <2>2. /\ Funds(balance, totalLiability, forced)'
        /\ Custody(ownerOf, sales, custodySaleId)'
        /\ Fresh(ownerOf, sales, saleCount)'
        /\ Outcomes(sales, claims)'
    BY <1>3, <2>1 DEF RevertCall, Sound, Funds, Custody, Fresh, Outcomes
  <2> QED BY <1>1, <2>2, SoundNextState DEF IInv
<1> QED BY <1>2, <1>3

\* Tokens that move outside the escrow neither come from it nor enter it.
LEMMA OutsideNftSound ==
    ASSUME TypeOK, IInv, NEW t \in TokenIds, NEW to \in Users,
           ownerOf[t] # EscrowAddress, ownerOf' = [ownerOf EXCEPT ![t] = to],
           UNCHANGED outsideNft,
           \/ t < nextTokenId /\ nextTokenId' = nextTokenId
           \/ t = nextTokenId /\ nextTokenId' = nextTokenId + 1 /\ call = NoCall
    PROVE  IInv'
<1>1. \A u \in TokenIds : ownerOf'[u] = IF u = t THEN to ELSE ownerOf[u]
  BY DEF TypeOK, NftTypeOK
<1>2. Custody(ownerOf, sales, custodySaleId)'
  BY <1>1, SoundParts DEF Custody, outsideNft, bookVars
<1>3. Fresh(ownerOf, sales, saleCount)'
  BY <1>1, SoundParts, Numbers DEF Fresh, outsideNft, bookVars, TypeOK, NftTypeOK
<1>4. Funds(balance, totalLiability, forced)' /\ Outcomes(sales, claims)'
  BY SoundParts DEF Funds, Outcomes, outsideNft, bookVars
<1>5. (call # NoCall => Sound(call.saved))'
  BY SavedStaysSound DEF outsideNft
<1> QED BY <1>2, <1>3, <1>4, <1>5, SoundNextState DEF IInv

LEMMA OutsideSound ==
    ASSUME TypeOK, IInv,
           \/ \E to \in Holders : MintToken(to)
           \/ \E a \in Users, t \in TokenIds, to \in Holders : TransferToken(a, t, to)
           \/ \E a \in Users : ApproveEscrow(a)
           \/ ForceEther
           \/ Tick
    PROVE  IInv'
<1>1. CASE \E to \in Holders : MintToken(to)
  <2> SUFFICES ASSUME NEW to \in Holders, MintToken(to) PROVE IInv'
    BY <1>1
  <2>1. /\ nextTokenId \in TokenIds /\ ownerOf' = [ownerOf EXCEPT ![nextTokenId] = to]
        /\ nextTokenId' = nextTokenId + 1 /\ call = NoCall /\ UNCHANGED outsideNft
    BY DEF MintToken, Mint, Update
  <2>2. to \in Users
    BY DEF MintToken, Mint, Update, Holders
  <2>3. ownerOf[nextTokenId] # EscrowAddress
    BY <2>1, SoundParts, Numbers DEF Fresh
  <2> QED BY <2>1, <2>2, <2>3, OutsideNftSound
<1>2. CASE \E a \in Users, t \in TokenIds, to \in Holders : TransferToken(a, t, to)
  <2> SUFFICES ASSUME NEW a \in Users, NEW t \in TokenIds, NEW to \in Holders,
                      TransferToken(a, t, to)
               PROVE  IInv'
    BY <1>2
  <2>1. /\ ownerOf[t] = a /\ ownerOf' = [ownerOf EXCEPT ![t] = to]
        /\ UNCHANGED nextTokenId /\ UNCHANGED outsideNft /\ a # EscrowAddress
    BY DEF TransferToken, TransferFrom, Update
  <2>2. to \in Users
    BY <2>1 DEF TransferToken, TransferFrom, Update, Holders
  <2>3. t < nextTokenId
    BY <2>1, SoundParts, Numbers DEF Fresh, TypeOK, NftTypeOK
  <2> QED BY <2>1, <2>2, <2>3, OutsideNftSound
<1>3. CASE (\E a \in Users : ApproveEscrow(a)) \/ Tick
  <2>1. UNCHANGED <<ownerOf, nextTokenId, bookVars, balance, forced, call>>
    BY <1>3 DEF ApproveEscrow, SetApprovalForAll, Approve, Tick, nftVars, outsideNft
  <2>2. Sound(State)'
    BY <2>1, SoundParts, SoundNextState DEF bookVars, Funds, Custody, Fresh, Outcomes
  <2> QED BY <2>1, <2>2, SavedStaysSound DEF IInv
<1>4. CASE ForceEther
  <2>1. /\ UNCHANGED <<ownerOf, nextTokenId, bookVars, call>>
        /\ balance' = balance + 1 /\ forced' = forced + 1
    BY <1>4 DEF ForceEther, nftVars
  <2>2. Funds(balance, totalLiability, forced)'
    BY <2>1, SoundParts DEF Funds, bookVars, TypeOK
  <2>3. Sound(State)'
    BY <2>1, <2>2, SoundParts, SoundNextState DEF bookVars, Custody, Fresh, Outcomes
  <2> QED BY <2>1, <2>3, SavedStaysSound DEF IInv
<1> QED BY <1>1, <1>2, <1>3, <1>4

LEMMA InitSound == Init => IInv
<1> SUFFICES ASSUME Init PROVE IInv
  OBVIOUS
<1>1. Funds(balance, totalLiability, forced)
  BY DEF Init, Funds
<1>2. Custody(ownerOf, sales, custodySaleId)
  BY Numbers DEF Init, NftInit, Custody, Holds, NoSale
<1>3. Fresh(ownerOf, sales, saleCount)
  BY DEF Init, NftInit, Fresh, NoSale
<1>4. Outcomes(sales, claims)
  BY DEF Init, Outcomes, Outcome, NoSale
<1> QED BY <1>1, <1>2, <1>3, <1>4, SoundState DEF IInv, Init

\* The inductive invariant holds of every reachable state and of every state
\* that a rejecting recipient can bring back.
THEOREM Inductive == Spec => []IInv
<1>1. ASSUME TypeOK, IInv, [Next]_vars PROVE IInv'
  <2>1. CASE UNCHANGED vars
    BY <1>1, <2>1 DEF vars, nftVars, bookVars, IInv, State, Sound, Fresh
  <2>2. CASE Next
    BY <1>1, <2>2, CreateSaleSound, FundSaleSound, CompleteSaleSound, CancelSaleSound,
       ExpireSaleSound, WithdrawPaymentSound, ReclaimTokenSound, FrameEndSound, OutsideSound
       DEF Next
  <2> QED BY <1>1, <2>1, <2>2
<1> QED BY <1>1, InitSound, TypeCorrect, PTL DEF Spec

\* Solvency: the escrow holds its whole liability plus the ether forced in,
\* whatever re-entering or rejecting recipients do (fundSale,
\* withdrawPayment).
THEOREM Solvency == Spec => []SurplusWasForced
<1>1. IInv => SurplusWasForced
  BY SoundState DEF IInv, Funds, SurplusWasForced
<1> QED BY <1>1, Inductive, PTL

\* Custody: custodySaleId, the sale records and the token's owner agree on
\* every token, and no token enters the escrow behind its back (createSale,
\* completeSale, reclaimToken, VehicleNFT._update).
THEOREM CustodySafe == Spec => []CustodyMatchesSales
<1>1. IInv => CustodyMatchesSales
  BY SoundState DEF IInv, Custody, CustodyMatchesSales
<1> QED BY <1>1, Inductive, PTL

\* A claim is recorded exactly for completed and expired sales, for the right
\* party and amount, and it never changes hands (completeSale, expireSale,
\* withdrawPayment).
THEOREM OutcomeSafe == Spec => []ClaimsFollowOutcome
<1>1. IInv => ClaimsFollowOutcome
  BY SoundState DEF IInv, Outcomes, Outcome, ClaimsFollowOutcome
<1> QED BY <1>1, Inductive, PTL

-----------------------------------------------------------------------------
(* Relisting.  createSale needs a token that nobody holds and gives the    *)
(* sale the largest id; while a reclaim waits for its recipient no sale    *)
(* changes, because every mutator is nonReentrant.                         *)

\* Of the sales of one token only the last can hold it.
LastHolds(book) == \A earlier, later \in SaleIds :
    (/\ earlier < later
     /\ book[earlier].status # "NONE" /\ book[later].status # "NONE"
     /\ book[earlier].tokenId = book[later].tokenId) => ~ Holds(book[earlier])

\* No sale of the token follows s.
IsLast(s) == \A later \in SaleIds :
    (s < later /\ sales[later].status # "NONE") => sales[later].tokenId # sales[s].tokenId

OwesReleaseOf(s) == \E e \in Unlogged : e.kind = "TokenReclaimed" /\ e.saleId = s

Relisting ==
    /\ LastHolds(sales)
    /\ call # NoCall => LastHolds(call.saved.sales)
    /\ \A s \in SaleIds : OwesReleaseOf(s) => sales[s].status # "NONE" /\ IsLast(s)

LEMMA UnloggedOf ==
    ASSUME NEW e
    PROVE  Range(<<>>) = {} /\ Range(<<e>>) = {e}
  BY DEF Range

\* A sale is rewritten that existed, keeps its token, and takes none back.
LEMMA RewriteKeepsLast ==
    ASSUME TypeOK, LastHolds(sales), NEW s \in SaleIds, NEW new,
           sales[s].status # "NONE", new.tokenId = sales[s].tokenId,
           Holds(new) => Holds(sales[s]),
           sales' = [sales EXCEPT ![s] = new]
    PROVE  LastHolds(sales)'
<1>1. \A r \in SaleIds : sales'[r] = IF r = s THEN new ELSE sales[r]
  BY DEF TypeOK
<1>2. \A r \in SaleIds : /\ sales'[r].tokenId = sales[r].tokenId
                         /\ sales'[r].status # "NONE" => sales[r].status # "NONE"
                         /\ Holds(sales'[r]) => Holds(sales[r])
  BY <1>1
<1> QED BY <1>2 DEF LastHolds

LEMMA CreateSaleRelisting ==
    ASSUME TypeOK, IInv, Relisting, NEW a \in Users, NEW t \in TokenIds, NEW p \in Prices,
           NEW b \in Users, CreateSale(a, t, p, b)
    PROVE  Relisting'
<1> DEFINE s == saleCount + 1
           new == [NoSale EXCEPT !.tokenId = t, !.seller = a, !.allowedBuyer = b,
                                 !.priceWei = p, !.status = "LISTED"]
<1>1. /\ s \in SaleIds /\ saleCount \in Nat /\ custodySaleId[t] = 0
      /\ sales' = [sales EXCEPT ![s] = new] /\ call = NoCall /\ call' = NoCall
  BY Numbers DEF CreateSale, NonReentrant, TypeOK
<1>2. new.tokenId = t
  BY DEF NoSale
<1>3. \A r \in SaleIds : sales'[r] = IF r = s THEN new ELSE sales[r]
  BY <1>1 DEF TypeOK
<1>4. \A r \in SaleIds : Holds(sales[r]) => sales[r].tokenId # t
  BY <1>1, SoundParts, Numbers DEF Custody
<1>5. \A r \in SaleIds : sales[r].status # "NONE" => r < s
  BY <1>1, SoundParts, Numbers DEF Fresh, NoSale
<1> HIDE DEF s, new
<1>6. LastHolds(sales)'
  <2> SUFFICES ASSUME NEW r \in SaleIds, NEW q \in SaleIds, r < q,
                      sales'[r].status # "NONE", sales'[q].status # "NONE",
                      sales'[r].tokenId = sales'[q].tokenId
               PROVE  ~ Holds(sales'[r])
    BY DEF LastHolds
  <2>1. r # s
    BY <1>1, <1>3, <1>5, Numbers
  <2>2. CASE q = s
    BY <1>2, <1>3, <1>4, <2>1, <2>2
  <2>3. CASE q # s
    BY <1>3, <2>1, <2>3 DEF Relisting, LastHolds
  <2> QED BY <2>2, <2>3
<1> QED BY <1>1, <1>6 DEF Relisting, OwesReleaseOf, Unlogged

\* Outside a frame a step that opens none leaves nothing unlogged.
LEMMA UnframedRelisting ==
    ASSUME LastHolds(sales)', call' = NoCall
    PROVE  Relisting'
  BY DEF Relisting, OwesReleaseOf, Unlogged

\* A call may stay open that owes the release of r, the last sale of its token.
LEMMA FramedRelisting ==
    ASSUME Relisting, call = NoCall, LastHolds(sales)', NEW r \in SaleIds,
           NEW op, NEW recipient, NEW events, NEW closing,
           CallRecipient(op, recipient, events, closing),
           \A e \in Range(closing) : e.kind = "TokenReclaimed" => e.saleId = r,
           \/ sales'[r].status # "NONE" /\ IsLast(r)'
           \/ \A e \in Range(closing) : e.kind # "TokenReclaimed"
    PROVE  Relisting'
<1>1. CASE UNCHANGED call
  BY <1>1, UnframedRelisting
<1>2. CASE call' = [op |-> op, closing |-> closing, saved |-> State]
  <2>1. LastHolds(call'.saved.sales)
    BY <1>2 DEF State, Relisting
  <2>2. Unlogged' \subseteq Range(closing)
    BY <1>2 DEF Unlogged
  <2>3. \A s \in SaleIds : OwesReleaseOf(s)' => s = r /\ sales'[r].status # "NONE" /\ IsLast(r)'
    BY <2>2 DEF OwesReleaseOf
  <2> QED BY <2>1, <2>3 DEF Relisting
<1> QED BY <1>1, <1>2 DEF CallRecipient

LEMMA ReclaimTokenRelisting ==
    ASSUME TypeOK, IInv, Relisting, NEW a \in Users, NEW s \in SaleIds, NEW r \in Users,
           ReclaimToken(a, s, r)
    PROVE  Relisting'
<1> DEFINE new == [sales[s] EXCEPT !.tokenReclaimed = TRUE]
           t == sales[s].tokenId
           e1 == TransferEvent(t, EscrowAddress, r)
           e2 == [kind |-> "TokenReclaimed", saleId |-> s, tokenId |-> t, recipient |-> r]
<1>1. /\ sales' = [sales EXCEPT ![s] = new] /\ call = NoCall
      /\ sales[s].status \in {"CANCELLED", "EXPIRED"} /\ ~ sales[s].tokenReclaimed
      /\ CallRecipient("reclaim", r, <<e1>>, <<e2>>)
  BY DEF ReclaimToken, Reclaimable, NonReentrant
<1>2. new.tokenId = t /\ new.status = sales[s].status /\ new.tokenReclaimed = TRUE
  <2>1. sales[s] \in OpenSale \cup PaidSale
    BY <1>1 DEF TypeOK, Sale, NoSale
  <2> QED BY <2>1 DEF OpenSale, PaidSale
<1>3. Holds(sales[s]) /\ ~ Holds(new)
  BY <1>1, <1>2 DEF Holds
<1>4. LastHolds(sales)'
  BY <1>1, <1>2, <1>3, RewriteKeepsLast DEF Relisting
<1>5. IsLast(s)
  BY <1>1, <1>3 DEF Relisting, LastHolds, IsLast
<1>6. \A q \in SaleIds : sales'[q] = IF q = s THEN new ELSE sales[q]
  BY <1>1 DEF TypeOK
<1>7. sales'[s].status # "NONE" /\ IsLast(s)'
  BY <1>1, <1>2, <1>5, <1>6 DEF IsLast
<1>8. Range(<<e2>>) = {e2} /\ e2.saleId = s
  BY UnloggedOf
<1> HIDE DEF e1, e2
<1> QED BY <1>1, <1>4, <1>7, <1>8, FramedRelisting

LEMMA BookRelisting ==
    ASSUME TypeOK, Relisting, NEW a \in Users, NEW s \in SaleIds,
           \/ \E v \in Prices : FundSale(a, s, v)
           \/ CompleteSale(a, s)
           \/ CancelSale(a, s)
           \/ ExpireSale(s)
           \/ \E r \in Users : WithdrawPayment(a, s, r)
    PROVE  Relisting'
<1> USE DEF Relisting
<1>1. CASE \E v \in Prices : FundSale(a, s, v)
  <2> SUFFICES ASSUME NEW v \in Prices, FundSale(a, s, v) PROVE Relisting'
    BY <1>1
  <2> DEFINE new == [sales[s] EXCEPT !.buyer = a, !.expiresAt = now + FundingPeriod,
                                     !.status = "FUNDED"]
  <2>1. sales' = [sales EXCEPT ![s] = new] /\ call' = NoCall /\ sales[s].status = "LISTED"
    BY DEF FundSale, NonReentrant
  <2>2. sales[s] \in OpenSale
    BY <2>1 DEF TypeOK, Sale, NoSale, PaidSale
  <2>3. new.tokenId = sales[s].tokenId
    BY <2>2 DEF OpenSale
  <2> QED BY <2>1, <2>3, RewriteKeepsLast, UnframedRelisting DEF Holds
<1>2. CASE CompleteSale(a, s)
  <2> DEFINE new == [sales[s] EXCEPT !.status = "COMPLETED"]
             claim == PaymentClaim(s, sales[s].seller, "SELLER_PROCEEDS")
             events == <<SaleEvent("SaleCompleted", s), ClaimCreated(s, claim),
                         TransferEvent(sales[s].tokenId, EscrowAddress, sales[s].buyer)>>
  <2>1. sales' = [sales EXCEPT ![s] = new] /\ call = NoCall /\ sales[s].status = "FUNDED"
    BY <1>2 DEF CompleteSale, NonReentrant
  <2>2. sales[s] \in PaidSale
    BY <2>1, SettledType DEF TypeOK
  <2>3. new.tokenId = sales[s].tokenId /\ new.status = "COMPLETED"
    BY <2>2 DEF PaidSale
  <2>4. LastHolds(sales)'
    BY <2>1, <2>3, RewriteKeepsLast DEF Holds
  <2>5. CallRecipient("complete", sales[s].buyer, events, <<>>)
    BY <1>2 DEF CompleteSale
  <2>6. \A d \in Range(<<>>) : d.kind # "TokenReclaimed"
    BY UnloggedOf
  <2> HIDE DEF events, new
  <2> QED BY <2>1, <2>4, <2>5, <2>6, FramedRelisting
<1>3. CASE CancelSale(a, s)
  <2> DEFINE new == [sales[s] EXCEPT !.status = "CANCELLED"]
  <2>1. sales' = [sales EXCEPT ![s] = new] /\ call' = NoCall /\ sales[s].status = "LISTED"
    BY <1>3 DEF CancelSale, NonReentrant
  <2>2. sales[s] \in OpenSale
    BY <2>1 DEF TypeOK, Sale, NoSale, PaidSale
  <2>3. new.tokenId = sales[s].tokenId
    BY <2>2 DEF OpenSale
  <2> QED BY <2>1, <2>3, RewriteKeepsLast, UnframedRelisting DEF Holds
<1>4. CASE ExpireSale(s)
  <2> DEFINE new == [sales[s] EXCEPT !.status = "EXPIRED"]
  <2>1. sales' = [sales EXCEPT ![s] = new] /\ call' = NoCall /\ sales[s].status = "FUNDED"
    BY <1>4 DEF ExpireSale, NonReentrant
  <2>2. sales[s] \in PaidSale
    BY <2>1, SettledType DEF TypeOK
  <2>3. new.tokenId = sales[s].tokenId
    BY <2>2 DEF PaidSale
  <2> QED BY <2>1, <2>3, RewriteKeepsLast, UnframedRelisting DEF Holds
<1>5. CASE \E r \in Users : WithdrawPayment(a, s, r)
  <2> SUFFICES ASSUME NEW r \in Users, WithdrawPayment(a, s, r) PROVE Relisting'
    BY <1>5
  <2> DEFINE e == [kind |-> "PaymentWithdrawn", saleId |-> s,
                   beneficiary |-> claims[s].beneficiary, recipient |-> r,
                   amountWei |-> claims[s].amountWei, claimKind |-> claims[s].kind]
  <2>1. /\ call = NoCall /\ UNCHANGED sales
        /\ CallRecipient("withdraw", r, <<>>, <<e>>)
    BY DEF WithdrawPayment, NonReentrant
  <2>2. e.kind # "TokenReclaimed"
    OBVIOUS
  <2>3. LastHolds(sales)'
    BY <2>1 DEF LastHolds
  <2>4. Range(<<e>>) = {e}
    BY UnloggedOf
  <2>5. \A d \in Range(<<e>>) : d.kind # "TokenReclaimed"
    BY <2>2, <2>4
  <2> HIDE DEF e
  <2> QED BY <2>1, <2>3, <2>5, FramedRelisting
<1> QED BY <1>1, <1>2, <1>3, <1>4, <1>5

\* What changes no sale and no frame.
LEMMA QuietRelisting ==
    ASSUME Relisting, UNCHANGED <<sales, call>>
    PROVE  Relisting'
  BY DEF Relisting, LastHolds, OwesReleaseOf, Unlogged, IsLast

LEMMA FrameEndRelisting ==
    ASSUME Relisting, ReturnFromCall \/ RevertCall
    PROVE  Relisting'
<1>1. LastHolds(sales)' /\ call' = NoCall
  BY DEF Relisting, LastHolds, ReturnFromCall, RevertCall, bookVars
<1> QED BY <1>1, UnframedRelisting

\* Of the sales of one token only the last can hold it, in the current and in
\* the saved state, and only the last can still owe the event of its release.
THEOREM LastSaleHolds == Spec => []Relisting
<1>1. ASSUME TypeOK, IInv, Relisting, [Next]_vars PROVE Relisting'
  <2>1. CASE UNCHANGED vars
    BY <1>1, <2>1, QuietRelisting DEF vars, bookVars
  <2>2. CASE \/ \E to \in Holders : MintToken(to)
             \/ \E a \in Users, t \in TokenIds, to \in Holders : TransferToken(a, t, to)
             \/ \E a \in Users : ApproveEscrow(a)
             \/ ForceEther
             \/ Tick
    BY <1>1, <2>2, QuietRelisting
       DEF MintToken, TransferToken, ApproveEscrow, ForceEther, Tick, outsideNft, bookVars
  <2>3. CASE \E s \in SaleIds : ExpireSale(s)
    <3>1. PICK s \in SaleIds : ExpireSale(s)
      BY <2>3
    <3>2. sales[s] \in PaidSale
      BY <1>1, <3>1, SettledType DEF ExpireSale, TypeOK
    <3>3. sales[s].buyer \in Users
      BY <3>2 DEF PaidSale
    <3> QED BY <1>1, <3>1, <3>3, BookRelisting
  <2> QED BY <1>1, <2>1, <2>2, <2>3, CreateSaleRelisting, BookRelisting,
             ReclaimTokenRelisting, FrameEndRelisting DEF Next
<1>2. Init => Relisting
  BY DEF Init, Relisting, LastHolds, OwesReleaseOf, Unlogged, NoSale
<1> QED BY <1>1, <1>2, TypeCorrect, Inductive, PTL DEF Spec

\* A token is listed again only after the earlier sale gave it up and logged so,
\* over any number of calls and whatever recipients do in the middle of one:
\* readers that fold events in order never meet the listing first (createSale,
\* reclaimToken).
THEOREM RelistedSafely == Spec => []RelistedAfterRelease
<1>1. Relisting => RelistedAfterRelease
  BY DEF Relisting, LastHolds, OwesReleaseOf, IsLast, RelistedAfterRelease
<1> QED BY <1>1, LastSaleHolds, PTL

(***************************************************************************)
(* The liability of the escrow is the sum of what it owes.                 *)
(***************************************************************************)
-----------------------------------------------------------------------------
(* Sums.  A fold takes the elements of a set in an unspecified but fixed   *)
(* order; two sums over the same set take them in the same order.          *)

Pick(s) == CHOOSE x \in s : TRUE

Step(h, w, s) == IF s = {} THEN 0 ELSE w[Pick(s)] + h[s \ {Pick(s)}]

\* h holds the partial sums of w.
Sums(h, w) == h = [s \in SUBSET DOMAIN w |-> Step(h, w, s)]

LEMMA SumIs ==
    ASSUME NEW w
    PROVE  SumFunction(w) = (CHOOSE h : Sums(h, w))[DOMAIN w]
  BY DEF SumFunction, SumFunctionOnSet, FoldFunctionOnSet, MapThenFoldSet, Sums, Step, Pick

\* A set of numbers has a least one: what replaces induction below.
LEMMA Least ==
    ASSUME NEW T \in SUBSET Nat, T # {}
    PROVE  \E n \in T : \A m \in T : n <= m
<1> DEFINE R == {ss \in Nat \X Nat : ss[1] < ss[2]}
<1>1. IsWellFoundedOn(R, Nat)
  BY NatLessThanWellFounded DEF OpToRel
<1>2. \A x, y \in Nat : x < y => <<x, y>> \in R
  OBVIOUS
<1> HIDE DEF R
<1>3. PICK x \in T : \A y \in T : ~ (<<y, x>> \in R)
  BY <1>1, WFMin
<1>4. \A y \in T : x \in Nat /\ y \in Nat /\ ~ (y < x)
  BY <1>2, <1>3
<1>5. \A y \in T : x <= y
  BY <1>4
<1> QED BY <1>5

\* One element fewer.
LEMMA Fewer ==
    ASSUME NEW D, IsFiniteSet(D), NEW s \in SUBSET D
    PROVE  /\ Cardinality(s) \in Nat /\ Cardinality(s) <= Cardinality(D)
           /\ Cardinality(s) = 0 <=> s = {}
           /\ s # {} => /\ Pick(s) \in s /\ Pick(s) \in D /\ s \ {Pick(s)} \in SUBSET D
                        /\ Cardinality(s \ {Pick(s)}) = Cardinality(s) - 1
<1>1. IsFiniteSet(s) /\ Cardinality(s) <= Cardinality(D)
  BY FS_Subset
<1>2. Cardinality(s) \in Nat /\ (Cardinality(s) = 0 <=> s = {})
  BY <1>1, FS_CardinalityType, FS_EmptySet
<1>3. s # {} => Pick(s) \in s
  BY DEF Pick
<1>4. s # {} => Cardinality(s \ {Pick(s)}) = Cardinality(s) - 1
  BY <1>1, <1>3, FS_RemoveElement
<1> QED BY <1>1, <1>2, <1>3, <1>4

\* If some set is bad, there is a bad one that is empty or good with one
\* element fewer.
LEMMA Smallest ==
    ASSUME NEW D, IsFiniteSet(D), NEW B \in SUBSET SUBSET D, B # {}
    PROVE  \E s \in B : s # {} => s \ {Pick(s)} \notin B
<1> DEFINE T == {Cardinality(s) : s \in B}
<1>1. T \in SUBSET Nat /\ T # {}
  <2>1. \A s \in B : Cardinality(s) \in Nat
    BY Fewer
  <2> QED BY <2>1
<1>2. PICK n \in T : \A m \in T : n <= m
  BY <1>1, Least
<1>3. PICK s \in B : n = Cardinality(s)
  BY <1>2
<1>4. ASSUME s # {}, s \ {Pick(s)} \in B PROVE FALSE
  <2>1. Cardinality(s) <= Cardinality(s \ {Pick(s)})
    BY <1>2, <1>3, <1>4
  <2>2. Cardinality(s) \in Nat /\ Cardinality(s \ {Pick(s)}) = Cardinality(s) - 1
    BY <1>4, Fewer
  <2> QED BY <2>1, <2>2
<1> QED BY <1>4

LEMMA SumsExist ==
    ASSUME NEW D, IsFiniteSet(D), NEW w \in [D -> Nat]
    PROVE  \E h : Sums(h, w)
<1> DEFINE Upto(n) == \E h \in [SUBSET D -> Nat] : \A s \in SUBSET D :
                         Cardinality(s) <= n => h[s] = Step(h, w, s)
           T == {n \in Nat : ~ Upto(n)}
<1> HIDE DEF Upto
<1>0. \A s \in SUBSET D : Cardinality(s) \in Nat /\ (Cardinality(s) = 0 => s = {})
  BY Fewer
<1>1. Upto(0)
  <2> DEFINE h == [s \in SUBSET D |-> 0]
  <2>1. ASSUME NEW s \in SUBSET D, Cardinality(s) <= 0 PROVE h[s] = Step(h, w, s)
    <3>1. s = {}
      <4>1. Cardinality(s) \in Nat /\ (Cardinality(s) = 0 => s = {})
        BY <1>0
      <4> QED BY <2>1, <4>1
    <3> QED BY <3>1 DEF Step
  <2>2. h \in [SUBSET D -> Nat]
    OBVIOUS
  <2> HIDE DEF h
  <2> QED BY <2>1, <2>2 DEF Upto
<1>2. ASSUME NEW n \in Nat, Upto(n) PROVE Upto(n + 1)
  <2>1. PICK h \in [SUBSET D -> Nat] : \A s \in SUBSET D :
           Cardinality(s) <= n => h[s] = Step(h, w, s)
    BY <1>2 DEF Upto
  <2>2. ASSUME NEW s \in SUBSET D PROVE Step(h, w, s) \in Nat
    <3>1. s # {} => Pick(s) \in D /\ s \ {Pick(s)} \in SUBSET D
      BY Fewer
    <3>2. s # {} => w[Pick(s)] \in Nat /\ h[s \ {Pick(s)}] \in Nat
      BY <3>1
    <3> QED BY <3>2 DEF Step
  <2> DEFINE g == [s \in SUBSET D |-> Step(h, w, s)]
  <2>3. g \in [SUBSET D -> Nat]
    BY <2>2
  <2>4. ASSUME NEW s \in SUBSET D, Cardinality(s) <= n + 1 PROVE g[s] = Step(g, w, s)
    <3>1. CASE s = {}
      BY <3>1 DEF Step
    <3>2. CASE s # {}
      <4> DEFINE r == s \ {Pick(s)}
      <4>1. r \in SUBSET D /\ Cardinality(r) <= n
        BY <2>4, <3>2, Fewer
      <4>2. h[r] = Step(h, w, r) /\ g[r] = Step(h, w, r)
        BY <2>1, <4>1
      <4>3. g[s] = Step(h, w, s)
        OBVIOUS
      <4> HIDE DEF g
      <4> QED BY <3>2, <4>2, <4>3 DEF Step
    <3> QED BY <3>1, <3>2
  <2> HIDE DEF g
  <2> QED BY <2>3, <2>4 DEF Upto
<1>3. T = {}
  <2> SUFFICES ASSUME T # {} PROVE FALSE
    OBVIOUS
  <2>1. PICK n \in T : \A m \in T : n <= m
    BY Least
  <2>2. n \in Nat /\ n # 0 /\ ~ Upto(n)
    BY <1>1, <2>1
  <2>3. n - 1 \in Nat /\ ~ (n <= n - 1)
    BY <2>2
  <2>4. Upto(n - 1)
    BY <2>1, <2>3
  <2>5. Upto(n - 1 + 1)
    BY <1>2, <2>3, <2>4
  <2>6. n - 1 + 1 = n
    BY <2>2
  <2> QED BY <2>2, <2>5, <2>6
<1>4. Upto(Cardinality(D))
  <2>1. Cardinality(D) \in Nat
    BY FS_CardinalityType
  <2> QED BY <1>3, <2>1
<1>5. PICK h \in [SUBSET D -> Nat] : \A s \in SUBSET D :
         Cardinality(s) <= Cardinality(D) => h[s] = Step(h, w, s)
  BY <1>4 DEF Upto
<1>6. ASSUME NEW s \in SUBSET D PROVE h[s] = Step(h, w, s)
  <2>1. Cardinality(s) <= Cardinality(D)
    BY Fewer
  <2> QED BY <1>5, <2>1
<1>7. h = [s \in SUBSET D |-> Step(h, w, s)]
  BY <1>6
<1> QED BY <1>7 DEF Sums

LEMMA SumOf ==
    ASSUME NEW D, IsFiniteSet(D), NEW w \in [D -> Nat]
    PROVE  \E h : /\ SumFunction(w) = h[D]
                  /\ \A s \in SUBSET D : h[s] \in Nat /\ h[s] = Step(h, w, s)
<1> DEFINE h == CHOOSE h : Sums(h, w)
<1>1. Sums(h, w)
  BY SumsExist
<1>2. SumFunction(w) = h[D]
  BY SumIs
<1> HIDE DEF h
<1>3. \A s \in SUBSET D : h[s] = Step(h, w, s)
  BY <1>1 DEF Sums
<1> DEFINE B == {s \in SUBSET D : h[s] \notin Nat}
<1>4. B = {}
  <2> SUFFICES ASSUME B # {} PROVE FALSE
    OBVIOUS
  <2>1. PICK s \in B : s # {} => s \ {Pick(s)} \notin B
    BY Smallest
  <2>2. h[s] = Step(h, w, s) /\ s \in SUBSET D /\ h[s] \notin Nat
    BY <1>3, <2>1
  <2>3. CASE s = {}
    BY <2>2, <2>3 DEF Step
  <2>4. CASE s # {}
    <3>1. Pick(s) \in D /\ s \ {Pick(s)} \in SUBSET D
      BY <2>2, <2>4, Fewer
    <3>2. w[Pick(s)] \in Nat /\ h[s \ {Pick(s)}] \in Nat
      BY <2>1, <2>4, <3>1
    <3> QED BY <2>2, <2>4, <3>1, <3>2 DEF Step
  <2> QED BY <2>3, <2>4
<1> QED BY <1>2, <1>3, <1>4

\* A sum in which one addend changed.
LEMMA SumChanges ==
    ASSUME NEW D, IsFiniteSet(D), NEW v \in [D -> Nat], NEW w \in [D -> Nat], NEW x \in D,
           \A y \in D : y # x => w[y] = v[y]
    PROVE  /\ SumFunction(v) \in Nat /\ SumFunction(w) \in Nat
           /\ SumFunction(w) + v[x] = SumFunction(v) + w[x]
<1>2. PICK g : /\ SumFunction(v) = g[D]
               /\ \A s \in SUBSET D : g[s] \in Nat /\ g[s] = Step(g, v, s)
  BY SumOf
<1>3. PICK h : /\ SumFunction(w) = h[D]
               /\ \A s \in SUBSET D : h[s] \in Nat /\ h[s] = Step(h, w, s)
  BY SumOf
<1> DEFINE B == {s \in SUBSET D : ~ (IF x \in s THEN h[s] + v[x] = g[s] + w[x] ELSE h[s] = g[s])}
<1>4. B = {}
  <2> SUFFICES ASSUME B # {} PROVE FALSE
    OBVIOUS
  <2>1. PICK s \in B : s # {} => s \ {Pick(s)} \notin B
    BY Smallest
  <2>2. /\ s \in SUBSET D /\ h[s] = Step(h, w, s) /\ g[s] = Step(g, v, s)
        /\ ~ (IF x \in s THEN h[s] + v[x] = g[s] + w[x] ELSE h[s] = g[s])
    BY <1>2, <1>3, <2>1
  <2>3. CASE s = {}
    BY <2>2, <2>3 DEF Step
  <2>4. CASE s # {}
    <3> DEFINE p == Pick(s)
               r == s \ {p}
    <3>1. p \in s /\ p \in D /\ r \in SUBSET D
      BY <2>2, <2>4, Fewer
    <3>2. IF x \in r THEN h[r] + v[x] = g[r] + w[x] ELSE h[r] = g[r]
      BY <2>1, <2>4, <3>1
    <3>3. h[s] = w[p] + h[r] /\ g[s] = v[p] + g[r]
      BY <2>2, <2>4 DEF Step
    <3>4. /\ h[r] \in Nat /\ g[r] \in Nat /\ w[p] \in Nat /\ v[p] \in Nat
          /\ w[x] \in Nat /\ v[x] \in Nat
      BY <1>2, <1>3, <3>1
    <3>5. (x \in r <=> x \in s /\ x # p) /\ (p # x => w[p] = v[p])
      BY <3>1
    <3> HIDE DEF r, p
    <3>6. CASE x = p
      BY <2>2, <3>1, <3>2, <3>3, <3>4, <3>5, <3>6
    <3>7. CASE x # p /\ x \in s
      BY <2>2, <3>2, <3>3, <3>4, <3>5, <3>7
    <3>8. CASE x \notin s
      BY <2>2, <3>1, <3>2, <3>3, <3>4, <3>5, <3>8
    <3> QED BY <3>6, <3>7, <3>8
  <2> QED BY <2>3, <2>4
<1>5. h[D] + v[x] = g[D] + w[x]
  BY <1>4
<1> QED BY <1>2, <1>3, <1>5

LEMMA SumOfNothing ==
    ASSUME NEW D, IsFiniteSet(D)
    PROVE  SumFunction([x \in D |-> 0]) = 0
<1> DEFINE w == [x \in D |-> 0]
<1>1. w \in [D -> Nat] /\ \A x \in D : w[x] = 0
  OBVIOUS
<1> HIDE DEF w
<1>2. PICK h : /\ SumFunction(w) = h[D]
               /\ \A s \in SUBSET D : h[s] \in Nat /\ h[s] = Step(h, w, s)
  BY <1>1, SumOf
<1> DEFINE B == {s \in SUBSET D : h[s] # 0}
<1>3. B = {}
  <2> SUFFICES ASSUME B # {} PROVE FALSE
    OBVIOUS
  <2>1. PICK s \in B : s # {} => s \ {Pick(s)} \notin B
    BY Smallest
  <2>2. s \in SUBSET D /\ h[s] # 0 /\ h[s] = Step(h, w, s)
    BY <1>2, <2>1
  <2>3. CASE s = {}
    BY <2>2, <2>3 DEF Step
  <2>4. CASE s # {}
    <3>1. Pick(s) \in D /\ s \ {Pick(s)} \in SUBSET D
      BY <2>2, <2>4, Fewer
    <3>2. h[s \ {Pick(s)}] = 0 /\ w[Pick(s)] = 0
      BY <1>1, <2>1, <2>4, <3>1
    <3> QED BY <2>2, <2>4, <3>2 DEF Step
  <2> QED BY <2>3, <2>4
<1>4. h[D] = 0
  BY <1>3
<1> QED BY <1>2, <1>4 DEF w

-----------------------------------------------------------------------------
(* What a sale makes the escrow owe.                                       *)

OwedOf(sale, claim) == (IF sale.status = "FUNDED" THEN sale.priceWei ELSE 0)
                     + (IF claim.status = "CLAIMABLE" THEN claim.amountWei ELSE 0)

Owing(book, owed) == SumFunction([s \in SaleIds |-> OwedOf(book[s], owed[s])])

\* The liability counts what is owed; so does the one a revert restores.
Accounted ==
    /\ totalLiability = Owing(sales, claims)
    /\ call # NoCall => call.saved.totalLiability = Owing(call.saved.sales, call.saved.claims)

LEMMA OwedType ==
    ASSUME NEW sale \in Sale, NEW claim \in Claim
    PROVE  OwedOf(sale, claim) \in Nat
<1>1. (IF sale.status = "FUNDED" THEN sale.priceWei ELSE 0) \in Nat
  <2>1. sale.status = "FUNDED" => sale \in PaidSale
    BY SettledType
  <2>2. sale \in PaidSale => sale.priceWei \in Nat
    BY Numbers DEF PaidSale
  <2> QED BY <2>1, <2>2
<1>2. (IF claim.status = "CLAIMABLE" THEN claim.amountWei ELSE 0) \in Nat
  <2>1. claim.status = "CLAIMABLE" => claim \in OwnClaim
    BY DEF Claim, NoClaim
  <2>2. claim \in OwnClaim => claim.amountWei \in Nat
    BY Numbers DEF OwnClaim
  <2> QED BY <2>1, <2>2
<1> QED BY <1>1, <1>2 DEF OwedOf

LEMMA SaleIdsFinite == IsFiniteSet(SaleIds)
  BY FS_Interval DEF SaleIds

\* Rewriting the records of one sale and moving the liability along.
LEMMA StaysAccounted ==
    ASSUME TypeOK, TypeOK', totalLiability = Owing(sales, claims), NEW s \in SaleIds,
           NEW sale, NEW claim,
           sales' = [sales EXCEPT ![s] = sale], claims' = [claims EXCEPT ![s] = claim],
           totalLiability' + OwedOf(sales[s], claims[s]) = totalLiability + OwedOf(sale, claim)
    PROVE  totalLiability' = Owing(sales', claims')
<1> DEFINE v == [r \in SaleIds |-> OwedOf(sales[r], claims[r])]
           w == [r \in SaleIds |-> OwedOf(sales'[r], claims'[r])]
<1>1. v \in [SaleIds -> Nat]
  BY OwedType DEF TypeOK
<1>2. w \in [SaleIds -> Nat]
  BY OwedType DEF TypeOK
<1>3. v[s] = OwedOf(sales[s], claims[s]) /\ w[s] = OwedOf(sale, claim)
  BY DEF TypeOK
<1>4. \A r \in SaleIds : r # s => w[r] = v[r]
  BY DEF TypeOK
<1>5. Owing(sales, claims) = SumFunction(v) /\ Owing(sales', claims') = SumFunction(w)
  BY DEF Owing
<1> HIDE DEF v, w
<1>6. /\ SumFunction(v) \in Nat /\ SumFunction(w) \in Nat
      /\ SumFunction(w) + v[s] = SumFunction(v) + w[s]
  BY <1>1, <1>2, <1>4, SaleIdsFinite, SumChanges
<1>7. v[s] \in Nat /\ w[s] \in Nat /\ totalLiability' \in Nat
  BY <1>1, <1>2 DEF TypeOK
<1> QED BY <1>3, <1>5, <1>6, <1>7

\* A step that leaves the frame alone, closes it, or opens one here, keeps the
\* saved half of the invariant.
LEMMA SavedStaysAccounted ==
    ASSUME Accounted,
           \/ UNCHANGED call
           \/ call' = NoCall
           \/ call'.saved = State
    PROVE  call' # NoCall =>
              call'.saved.totalLiability = Owing(call'.saved.sales, call'.saved.claims)
<1>1. State.totalLiability = totalLiability /\ State.sales = sales /\ State.claims = claims
  BY DEF State
<1> QED BY <1>1 DEF Accounted

-----------------------------------------------------------------------------
(* Each action keeps the account.                                          *)

LEMMA CreateSaleAccounted ==
    ASSUME TypeOK, TypeOK', IInv, Accounted, NEW a \in Users, NEW t \in TokenIds, NEW p \in Prices,
           NEW b \in Users, CreateSale(a, t, p, b)
    PROVE  Accounted'
<1> DEFINE s == saleCount + 1
           new == [NoSale EXCEPT !.tokenId = t, !.seller = a, !.allowedBuyer = b,
                                 !.priceWei = p, !.status = "LISTED"]
<1>1. s \in SaleIds /\ s > saleCount
  BY Numbers DEF CreateSale, TypeOK
<1>2. sales[s] = NoSale /\ claims[s] = NoClaim
  <2>1. sales[s] = NoSale
    BY <1>1, SoundParts DEF Fresh
  <2>2. Outcome(sales[s], claims[s])
    BY <1>1, SoundParts DEF Outcomes
  <2> QED BY <2>1, <2>2 DEF Outcome, NoSale
<1>3. /\ sales' = [sales EXCEPT ![s] = new] /\ claims' = [claims EXCEPT ![s] = claims[s]]
      /\ totalLiability' = totalLiability /\ UNCHANGED call
  BY DEF CreateSale, TypeOK
<1>4. new.status = "LISTED"
  BY DEF NoSale
<1> HIDE DEF s, new
<1>5. OwedOf(sales[s], claims[s]) = 0 /\ OwedOf(new, claims[s]) = 0
  BY <1>2, <1>4 DEF OwedOf, NoSale, NoClaim
<1>6. totalLiability' = Owing(sales', claims')
  BY <1>1, <1>3, <1>5, StaysAccounted DEF Accounted
<1> QED BY <1>3, <1>6, SavedStaysAccounted DEF Accounted

LEMMA FundSaleAccounted ==
    ASSUME TypeOK, TypeOK', IInv, Accounted, NEW a \in Users, NEW s \in SaleIds, NEW v \in Prices,
           FundSale(a, s, v)
    PROVE  Accounted'
<1> DEFINE new == [sales[s] EXCEPT !.buyer = a, !.expiresAt = now + FundingPeriod,
                                   !.status = "FUNDED"]
<1>1. /\ sales' = [sales EXCEPT ![s] = new] /\ claims' = [claims EXCEPT ![s] = claims[s]]
      /\ totalLiability' = totalLiability + v /\ v = sales[s].priceWei
      /\ sales[s].status = "LISTED" /\ UNCHANGED call
  BY DEF FundSale, ExactPayment, TypeOK
<1>2. sales[s] \in OpenSale
  BY <1>1 DEF TypeOK, Sale, NoSale, PaidSale
<1>3. new.status = "FUNDED" /\ new.priceWei = v
  BY <1>1, <1>2 DEF OpenSale
<1> HIDE DEF new
<1>4. claims[s] = NoClaim
  <2>1. Outcome(sales[s], claims[s])
    BY SoundParts DEF Outcomes
  <2> QED BY <1>1, <2>1 DEF Outcome
<1>5. OwedOf(sales[s], claims[s]) = 0 /\ OwedOf(new, claims[s]) = v
  BY <1>1, <1>3, <1>4, Numbers DEF OwedOf, NoClaim
<1>6. totalLiability' + OwedOf(sales[s], claims[s]) = totalLiability + OwedOf(new, claims[s])
  BY <1>1, <1>5, Numbers DEF TypeOK
<1>7. totalLiability' = Owing(sales', claims')
  BY <1>1, <1>6, StaysAccounted DEF Accounted
<1> QED BY <1>1, <1>7, SavedStaysAccounted DEF Accounted

\* Completion and expiry turn the principal into a claim for it.
LEMMA SettlementAccounted ==
    ASSUME TypeOK, TypeOK', IInv, Accounted, NEW s \in SaleIds, sales[s].status = "FUNDED",
           NEW st \in {"COMPLETED", "EXPIRED"}, NEW a \in Users, NEW k \in ClaimKinds,
           sales' = [sales EXCEPT ![s].status = st],
           claims' = [claims EXCEPT ![s] = PaymentClaim(s, a, k)],
           totalLiability' = totalLiability,
           UNCHANGED call \/ call'.saved = State
    PROVE  Accounted'
<1> DEFINE new == [sales[s] EXCEPT !.status = st]
           claim == PaymentClaim(s, a, k)
<1>1. sales[s] \in PaidSale
  BY SettledType DEF TypeOK
<1>2. /\ new.status = st /\ new.priceWei = sales[s].priceWei /\ sales[s].priceWei \in Nat
      /\ claim.status = "CLAIMABLE" /\ claim.amountWei = sales[s].priceWei
  BY <1>1, Numbers DEF PaidSale, PaymentClaim
<1>3. sales' = [sales EXCEPT ![s] = new] /\ claims' = [claims EXCEPT ![s] = claim]
  OBVIOUS
<1> HIDE DEF new, claim
<1>4. claims[s] = NoClaim
  <2>1. Outcome(sales[s], claims[s])
    BY SoundParts DEF Outcomes
  <2> QED BY <2>1 DEF Outcome
<1>5. OwedOf(sales[s], claims[s]) = sales[s].priceWei /\ OwedOf(new, claim) = sales[s].priceWei
  BY <1>2, <1>4 DEF OwedOf, NoClaim
<1>6. totalLiability' + OwedOf(sales[s], claims[s]) = totalLiability + OwedOf(new, claim)
  BY <1>5
<1>7. totalLiability = Owing(sales, claims)
  BY DEF Accounted
<1>8. totalLiability' = Owing(sales', claims')
  BY <1>3, <1>6, <1>7, StaysAccounted
<1> QED BY <1>8, SavedStaysAccounted DEF Accounted

LEMMA WithdrawPaymentAccounted ==
    ASSUME TypeOK, TypeOK', IInv, Accounted, NEW a \in Users, NEW s \in SaleIds, NEW r \in Users,
           WithdrawPayment(a, s, r)
    PROVE  Accounted'
<1> DEFINE new == [claims[s] EXCEPT !.status = "WITHDRAWN"]
<1>1. claims' = [claims EXCEPT ![s] = new] /\ claims[s].status = "CLAIMABLE"
  BY DEF WithdrawPayment
<1>2. PICK sale : sales' = [sales EXCEPT ![s] = sale] /\ sale = sales[s]
  BY DEF WithdrawPayment, TypeOK
<1>3. claims[s] \in OwnClaim
  BY <1>1 DEF TypeOK, Claim, NoClaim
<1>4. new.status = "WITHDRAWN" /\ claims[s].amountWei \in Nat
  BY <1>3, Numbers DEF OwnClaim
<1> HIDE DEF new
<1>5. sales[s].status # "FUNDED"
  <2>1. Outcome(sales[s], claims[s])
    BY SoundParts DEF Outcomes
  <2> QED BY <1>1, <2>1 DEF Outcome, NoClaim
<1>6. OwedOf(sales[s], claims[s]) = claims[s].amountWei /\ OwedOf(sale, new) = 0
  BY <1>1, <1>2, <1>4, <1>5 DEF OwedOf
<1>7. totalLiability' = totalLiability - claims[s].amountWei /\ totalLiability \in Nat
  BY DEF WithdrawPayment, PayOut, TypeOK
<1>8. totalLiability' + OwedOf(sales[s], claims[s]) = totalLiability + OwedOf(sale, new)
  BY <1>4, <1>6, <1>7
<1>9. totalLiability' = Owing(sales', claims')
  BY <1>1, <1>2, <1>8, StaysAccounted DEF Accounted
<1>10. UNCHANGED call \/ call'.saved = State
  BY CallRecipientSaves DEF WithdrawPayment
<1> QED BY <1>9, <1>10, SavedStaysAccounted DEF Accounted

\* Rewriting a sale that holds no money.
LEMMA UnpaidAccounted ==
    ASSUME TypeOK, TypeOK', IInv, Accounted, NEW s \in SaleIds, NEW new,
           sales[s].status # "FUNDED", new.status # "FUNDED",
           sales' = [sales EXCEPT ![s] = new], UNCHANGED <<claims, totalLiability>>,
           UNCHANGED call \/ call'.saved = State
    PROVE  Accounted'
<1>1. PICK claim : claims' = [claims EXCEPT ![s] = claim] /\ claim = claims[s]
  BY DEF TypeOK
<1>2. OwedOf(sales[s], claims[s]) = OwedOf(new, claim)
  BY <1>1 DEF OwedOf
<1>3. totalLiability' = Owing(sales', claims')
  BY <1>1, <1>2, StaysAccounted DEF Accounted
<1> QED BY <1>3, SavedStaysAccounted DEF Accounted

LEMMA CancelAndReclaimAccounted ==
    ASSUME TypeOK, TypeOK', IInv, Accounted, NEW a \in Users, NEW s \in SaleIds, NEW r \in Users,
           CancelSale(a, s) \/ ReclaimToken(a, s, r)
    PROVE  Accounted'
<1>1. CASE CancelSale(a, s)
  <2> DEFINE new == [sales[s] EXCEPT !.status = "CANCELLED"]
  <2>1. /\ sales' = [sales EXCEPT ![s] = new] /\ sales[s].status = "LISTED"
        /\ UNCHANGED <<claims, totalLiability, call>>
    BY <1>1 DEF CancelSale
  <2>2. sales[s] \in OpenSale
    BY <2>1 DEF TypeOK, Sale, NoSale, PaidSale
  <2>3. new.status = "CANCELLED"
    BY <2>2 DEF OpenSale
  <2> HIDE DEF new
  <2> QED BY <2>1, <2>3, UnpaidAccounted
<1>2. CASE ReclaimToken(a, s, r)
  <2> DEFINE new == [sales[s] EXCEPT !.tokenReclaimed = TRUE]
  <2>1. /\ sales' = [sales EXCEPT ![s] = new] /\ sales[s].status \in {"CANCELLED", "EXPIRED"}
        /\ UNCHANGED <<claims, totalLiability>>
    BY <1>2 DEF ReclaimToken, Reclaimable
  <2>2. new.status = sales[s].status
    BY <2>1 DEF TypeOK, Sale, NoSale, OpenSale, PaidSale
  <2>3. UNCHANGED call \/ call'.saved = State
    BY <1>2, CallRecipientSaves DEF ReclaimToken
  <2> HIDE DEF new
  <2> QED BY <2>1, <2>2, <2>3, UnpaidAccounted
<1> QED BY <1>1, <1>2

LEMMA NextAccounted ==
    ASSUME TypeOK, TypeOK', IInv, Accounted, [Next]_vars
    PROVE  Accounted'
<1>1. CASE \E a, b \in Users, t \in TokenIds, p \in Prices : CreateSale(a, t, p, b)
  BY <1>1, CreateSaleAccounted
<1>2. CASE \E s \in SaleIds, a \in Users : \E v \in Prices : FundSale(a, s, v)
  BY <1>2, FundSaleAccounted
<1>3. CASE \E s \in SaleIds, a \in Users : CompleteSale(a, s)
  <2> SUFFICES ASSUME NEW s \in SaleIds, NEW a \in Users, CompleteSale(a, s) PROVE Accounted'
    BY <1>3
  <2>1. UNCHANGED call \/ call'.saved = State
    BY CallRecipientSaves DEF CompleteSale
  <2>2. /\ sales[s].status = "FUNDED" /\ sales' = [sales EXCEPT ![s].status = "COMPLETED"]
        /\ claims' = [claims EXCEPT ![s] = PaymentClaim(s, sales[s].seller, "SELLER_PROCEEDS")]
        /\ totalLiability' = totalLiability
    BY DEF CompleteSale
  <2>3. sales[s].seller \in Users
    <3>1. sales[s] \in PaidSale
      BY <2>2, SettledType DEF TypeOK
    <3> QED BY <3>1 DEF PaidSale
  <2>4. "SELLER_PROCEEDS" \in ClaimKinds
    BY DEF ClaimKinds
  <2> QED BY <2>1, <2>2, <2>3, <2>4, SettlementAccounted
<1>4. CASE \E s \in SaleIds : ExpireSale(s)
  <2> SUFFICES ASSUME NEW s \in SaleIds, ExpireSale(s) PROVE Accounted'
    BY <1>4
  <2>1. /\ sales[s].status = "FUNDED" /\ sales' = [sales EXCEPT ![s].status = "EXPIRED"]
        /\ claims' = [claims EXCEPT ![s] = PaymentClaim(s, sales[s].buyer, "BUYER_REFUND")]
        /\ totalLiability' = totalLiability /\ UNCHANGED call
    BY DEF ExpireSale
  <2>2. sales[s].buyer \in Users
    <3>1. sales[s] \in PaidSale
      BY <2>1, SettledType DEF TypeOK
    <3> QED BY <3>1 DEF PaidSale
  <2>3. "BUYER_REFUND" \in ClaimKinds
    BY DEF ClaimKinds
  <2> QED BY <2>1, <2>2, <2>3, SettlementAccounted
<1>5. CASE \E s \in SaleIds, a \in Users : CancelSale(a, s)
  BY <1>5, CancelAndReclaimAccounted
<1>6. CASE \E s \in SaleIds, a, r \in Users : WithdrawPayment(a, s, r) \/ ReclaimToken(a, s, r)
  BY <1>6, WithdrawPaymentAccounted, CancelAndReclaimAccounted
<1>7. CASE ReturnFromCall
  <2>1. call' = NoCall /\ sales' = sales /\ claims' = claims /\ totalLiability' = totalLiability
    BY <1>7 DEF ReturnFromCall, bookVars
  <2> QED BY <2>1 DEF Accounted
<1>8. CASE RevertCall
  <2>1. /\ call # NoCall /\ call' = NoCall
        /\ sales' = call.saved.sales /\ claims' = call.saved.claims
        /\ totalLiability' = call.saved.totalLiability
    BY <1>8 DEF RevertCall
  <2> QED BY <2>1 DEF Accounted
<1>9. CASE \/ UNCHANGED vars
           \/ \E to \in Holders : MintToken(to)
           \/ \E a \in Users, t \in TokenIds, to \in Holders : TransferToken(a, t, to)
           \/ \E a \in Users : ApproveEscrow(a)
           \/ ForceEther
           \/ Tick
  <2>1. UNCHANGED bookVars /\ UNCHANGED call
    BY <1>9 DEF vars, MintToken, TransferToken, ApproveEscrow, ForceEther, Tick, outsideNft
  <2> QED BY <2>1 DEF bookVars, Accounted
<1>10. CASE \E s \in SaleIds, a \in Users :
              \/ \E v \in Prices : FundSale(a, s, v)
              \/ CompleteSale(a, s)
              \/ CancelSale(a, s)
              \/ \E r \in Users : WithdrawPayment(a, s, r) \/ ReclaimToken(a, s, r)
  BY <1>2, <1>3, <1>5, <1>6, <1>10
<1> QED BY <1>1, <1>4, <1>7, <1>8, <1>9, <1>10 DEF Next

LEMMA InitAccounted == Init => Accounted
<1> SUFFICES ASSUME Init PROVE Accounted
  OBVIOUS
<1>1. ASSUME NEW s \in SaleIds PROVE OwedOf(sales[s], claims[s]) = 0
  <2>1. sales[s] = NoSale /\ claims[s] = NoClaim
    BY DEF Init
  <2> QED BY <2>1 DEF OwedOf, NoSale, NoClaim
<1>2. [s \in SaleIds |-> OwedOf(sales[s], claims[s])] = [s \in SaleIds |-> 0]
  BY <1>1
<1>3. Owing(sales, claims) = 0
  BY <1>2, SaleIdsFinite, SumOfNothing DEF Owing
<1> QED BY <1>3 DEF Init, Accounted

\* The liability is what the escrow owes, and so is the one that a revert of
\* the open frame restores.
THEOREM AlwaysAccounted == Spec => []Accounted
<1>1. TypeOK /\ TypeOK' /\ IInv /\ Accounted /\ [Next]_vars => Accounted'
  BY NextAccounted
<1> QED BY <1>1, InitAccounted, TypeCorrect, Inductive, PTL DEF Spec

\* totalLiability counts every principal that is held or claimable, once: no
\* principal is lost, counted twice or forgotten, while recipients run too.
THEOREM LiabilityCorrect == Spec => []LiabilityIsOwed
<1>1. Accounted => LiabilityIsOwed
  BY DEF Accounted, Owing, OwedOf, LiabilityIsOwed, Owed
<1> QED BY <1>1, AlwaysAccounted, PTL

(***************************************************************************)
(* The escrow implements its promise (module Settlement): each transaction *)
(* is one step of the promise or none, whatever happens inside its call    *)
(* frames.                                                                 *)
(***************************************************************************)
-----------------------------------------------------------------------------
(* A deal as the sale and the claim tell it.                               *)

TokenOf(sale) ==
    IF sale.status = "NONE" THEN "none"
    ELSE IF Holds(sale)
    THEN IF sale.status \in {"LISTED", "FUNDED"} THEN "held" ELSE "dueToSeller"
    ELSE IF sale.status = "COMPLETED" THEN "delivered" ELSE "returned"

MoneyOf(sale, claim) ==
    IF sale.status = "FUNDED" THEN "held"
    ELSE IF claim.status = "CLAIMABLE"
    THEN IF claim.beneficiary = sale.seller THEN "dueToSeller" ELSE "dueToBuyer"
    ELSE IF claim.status = "WITHDRAWN"
    THEN IF claim.beneficiary = sale.seller THEN "paidToSeller" ELSE "paidToBuyer"
    ELSE "none"

Deal(sale, claim) ==
    [token |-> TokenOf(sale), money |-> MoneyOf(sale, claim), price |-> sale.priceWei]

DealsOf(book, owed) == [s \in SaleIds |-> Deal(book[s], owed[s])]

\* Buyer and seller are two parties: which of them a claim is for is visible.
Apart(book) == \A s \in SaleIds :
    book[s].status \in {"FUNDED", "COMPLETED", "EXPIRED"} => book[s].buyer # book[s].seller

-----------------------------------------------------------------------------
(* The steps of the promise, from deals d and pot p to d2 and p2.          *)

Moved(d, s, token, money) == [d EXCEPT ![s].token = token, ![s].money = money]

\* What a transaction with a call to its recipient does.
Handing(d, p, d2, p2) == \E s \in SaleIds :
    \/ d[s].money = "held" /\ d2 = Moved(d, s, "delivered", "dueToSeller") /\ p2 = p
    \/ /\ \/ d[s].money = "dueToSeller" /\ d2 = Moved(d, s, d[s].token, "paidToSeller")
          \/ d[s].money = "dueToBuyer" /\ d2 = Moved(d, s, d[s].token, "paidToBuyer")
       /\ p2 = p - d[s].price
    \/ d[s].token = "dueToSeller" /\ d2 = Moved(d, s, "returned", d[s].money) /\ p2 = p

\* What the others do.
Agreeing(d, p, d2, p2) == \E s \in SaleIds :
    \/ \E price \in Prices :
          /\ d[s] = [token |-> "none", money |-> "none", price |-> 0]
          /\ d2 = [d EXCEPT ![s] = [token |-> "held", money |-> "none", price |-> price]]
          /\ p2 = p
    \/ /\ d[s].token = "held" /\ d[s].money = "none"
       /\ d2 = Moved(d, s, "held", "held") /\ p2 = p + d[s].price
    \/ /\ d[s].token = "held" /\ d[s].money = "none"
       /\ d2 = Moved(d, s, "dueToSeller", "none") /\ p2 = p
    \/ d[s].money = "held" /\ d2 = Moved(d, s, "dueToSeller", "dueToBuyer") /\ p2 = p

\* Inside a frame the transaction has already made its step, which the saved
\* state does not show yet.
Pending ==
    /\ Apart(sales)
    /\ call # NoCall =>
          /\ Apart(call.saved.sales)
          /\ Handing(DealsOf(call.saved.sales, call.saved.claims), call.saved.totalLiability,
                     DealsOf(sales, claims), totalLiability)

-----------------------------------------------------------------------------
(* What a step on the records of one sale does to its deal.                *)

LEMMA Rewritten ==
    ASSUME TypeOK, NEW s \in SaleIds, NEW sale, NEW claim,
           sales' = [sales EXCEPT ![s] = sale], claims' = [claims EXCEPT ![s] = claim]
    PROVE  DealsOf(sales', claims') = [DealsOf(sales, claims) EXCEPT ![s] = Deal(sale, claim)]
<1>1. \A r \in SaleIds : /\ sales'[r] = IF r = s THEN sale ELSE sales[r]
                         /\ claims'[r] = IF r = s THEN claim ELSE claims[r]
  BY DEF TypeOK
<1>2. DealsOf(sales', claims') = [r \in SaleIds |-> IF r = s THEN Deal(sale, claim)
                                                   ELSE Deal(sales[r], claims[r])]
  BY <1>1 DEF DealsOf
<1>3. [DealsOf(sales, claims) EXCEPT ![s] = Deal(sale, claim)]
        = [r \in SaleIds |-> IF r = s THEN Deal(sale, claim) ELSE Deal(sales[r], claims[r])]
  BY DEF DealsOf
<1> QED BY <1>2, <1>3

LEMMA DealAt ==
    ASSUME NEW book, NEW owed, NEW s \in SaleIds
    PROVE  /\ DealsOf(book, owed)[s] = Deal(book[s], owed[s])
           /\ DealsOf(book, owed)[s].token = TokenOf(book[s])
           /\ DealsOf(book, owed)[s].money = MoneyOf(book[s], owed[s])
           /\ DealsOf(book, owed)[s].price = book[s].priceWei
  BY DEF DealsOf, Deal

LEMMA MovedIs ==
    ASSUME NEW book, NEW owed, NEW s \in SaleIds, NEW token, NEW money
    PROVE  Moved(DealsOf(book, owed), s, token, money)
             = [DealsOf(book, owed) EXCEPT ![s] =
                       [token |-> token, money |-> money, price |-> book[s].priceWei]]
<1> DEFINE d == DealsOf(book, owed)
           old == Deal(book[s], owed[s])
<1>1. d[s] = old /\ d = [r \in SaleIds |-> d[r]]
  BY DEF DealsOf
<1>2. [[old EXCEPT !.token = token] EXCEPT !.money = money]
        = [token |-> token, money |-> money, price |-> book[s].priceWei]
  <2>1. [old EXCEPT !.token = token]
       = [token |-> token, money |-> old.money, price |-> book[s].priceWei]
    BY DEF Deal
  <2>2. \A x : [[token |-> token, money |-> x, price |-> book[s].priceWei] EXCEPT !.money = money]
                 = [token |-> token, money |-> money, price |-> book[s].priceWei]
    OBVIOUS
  <2> HIDE DEF old
  <2> QED BY <2>1, <2>2
<1> HIDE DEF d, old
<1> DEFINE half == [d EXCEPT ![s] = [old EXCEPT !.token = token]]
<1>3. half = [d EXCEPT ![s].token = token]
  BY <1>1
<1>4. half[s] = [old EXCEPT !.token = token] /\ half = [r \in SaleIds |-> half[r]]
  BY <1>1
<1>5. Moved(d, s, token, money) = [half EXCEPT ![s].money = money]
  BY <1>3 DEF Moved
<1> HIDE DEF half
<1>6. [half EXCEPT ![s].money = money]
        = [half EXCEPT ![s] = [[old EXCEPT !.token = token] EXCEPT !.money = money]]
  BY <1>4
<1>7. \A new : [half EXCEPT ![s] = new] = [d EXCEPT ![s] = new]
  <2> SUFFICES ASSUME NEW new PROVE [half EXCEPT ![s] = new] = [d EXCEPT ![s] = new]
    OBVIOUS
  <2>1. \A r \in SaleIds : r # s => half[r] = d[r]
    BY <1>1 DEF half
  <2> QED BY <1>1, <1>4, <2>1
<1> QED BY <1>2, <1>5, <1>6, <1>7 DEF d

\* A sale keeps its price in each of its later steps.
LEMMA Advanced ==
    ASSUME TypeOK, NEW s \in SaleIds, NEW sale, NEW claim, NEW token, NEW money,
           sales' = [sales EXCEPT ![s] = sale], claims' = [claims EXCEPT ![s] = claim],
           sale.priceWei = sales[s].priceWei, TokenOf(sale) = token, MoneyOf(sale, claim) = money
    PROVE  DealsOf(sales', claims') = Moved(DealsOf(sales, claims), s, token, money)
<1>1. Deal(sale, claim) = [token |-> token, money |-> money, price |-> sales[s].priceWei]
  BY DEF Deal
<1>2. DealsOf(sales', claims') = [DealsOf(sales, claims) EXCEPT ![s] = Deal(sale, claim)]
  BY Rewritten
<1> QED BY <1>1, <1>2, MovedIs

\* The same of a rewritten sale's parties.
LEMMA StillApart ==
    ASSUME TypeOK, Apart(sales), NEW s \in SaleIds, NEW sale, sales' = [sales EXCEPT ![s] = sale],
           sale.status \in {"FUNDED", "COMPLETED", "EXPIRED"} => sale.buyer # sale.seller
    PROVE  Apart(sales')
<1>1. \A r \in SaleIds : sales'[r] = IF r = s THEN sale ELSE sales[r]
  BY DEF TypeOK
<1> QED BY <1>1 DEF Apart

-----------------------------------------------------------------------------
(* The transactions.                                                       *)

LEMMA CreateSaleAgrees ==
    ASSUME TypeOK, IInv, Apart(sales), NEW a \in Users, NEW t \in TokenIds, NEW p \in Prices,
           NEW b \in Users,
           CreateSale(a, t, p, b)
    PROVE  /\ Agreeing(DealsOf(sales, claims), totalLiability,
                       DealsOf(sales', claims'), totalLiability')
           /\ Apart(sales')
<1> DEFINE s == saleCount + 1
           new == [NoSale EXCEPT !.tokenId = t, !.seller = a, !.allowedBuyer = b,
                                 !.priceWei = p, !.status = "LISTED"]
<1>1. s \in SaleIds /\ s > saleCount
  BY Numbers DEF CreateSale, TypeOK
<1>2. sales[s] = NoSale /\ claims[s] = NoClaim
  <2>1. sales[s] = NoSale
    BY <1>1, SoundParts DEF Fresh
  <2>2. Outcome(sales[s], claims[s])
    BY <1>1, SoundParts DEF Outcomes
  <2> QED BY <2>1, <2>2 DEF Outcome, NoSale
<1>3. /\ sales' = [sales EXCEPT ![s] = new] /\ claims' = [claims EXCEPT ![s] = claims[s]]
      /\ totalLiability' = totalLiability
  BY DEF CreateSale, TypeOK
<1>4. new.status = "LISTED" /\ new.priceWei = p
  BY DEF NoSale
<1> HIDE DEF s, new
<1>5. Deal(new, NoClaim) = [token |-> "held", money |-> "none", price |-> p]
  BY <1>4 DEF Deal, TokenOf, Holds, MoneyOf, NoClaim
<1>6. Deal(NoSale, NoClaim) = [token |-> "none", money |-> "none", price |-> 0]
  BY DEF Deal, TokenOf, Holds, MoneyOf, NoClaim, NoSale
<1>7. DealsOf(sales', claims')
        = [DealsOf(sales, claims) EXCEPT ![s] = [token |-> "held", money |-> "none", price |-> p]]
  BY <1>1, <1>2, <1>3, <1>5, Rewritten
<1>8. DealsOf(sales, claims)[s] = [token |-> "none", money |-> "none", price |-> 0]
  BY <1>1, <1>2, <1>6, DealAt
<1>9. Apart(sales')
  BY <1>1, <1>3, <1>4, StillApart
<1> QED BY <1>1, <1>3, <1>7, <1>8, <1>9 DEF Agreeing

LEMMA FundSaleAgrees ==
    ASSUME TypeOK, IInv, Apart(sales), NEW a \in Users, NEW s \in SaleIds, NEW v \in Prices,
           FundSale(a, s, v)
    PROVE  /\ Agreeing(DealsOf(sales, claims), totalLiability,
                       DealsOf(sales', claims'), totalLiability')
           /\ Apart(sales')
<1> DEFINE new == [sales[s] EXCEPT !.buyer = a,
              !.expiresAt = now + FundingPeriod, !.status = "FUNDED"]
<1>1. /\ sales' = [sales EXCEPT ![s] = new] /\ claims' = [claims EXCEPT ![s] = claims[s]]
      /\ totalLiability' = totalLiability + v /\ v = sales[s].priceWei
      /\ sales[s].status = "LISTED" /\ a # sales[s].seller
  BY DEF FundSale, ExactPayment, TypeOK
<1>2. sales[s] \in OpenSale
  BY <1>1 DEF TypeOK, Sale, NoSale, PaidSale
<1>3./\  new.status = "FUNDED" /\ new.buyer = a
     /\ new.seller = sales[s].seller /\ new.priceWei = sales[s].priceWei
  BY <1>2 DEF OpenSale
<1> HIDE DEF new
<1>4. claims[s] = NoClaim
  <2>1. Outcome(sales[s], claims[s])
    BY SoundParts DEF Outcomes
  <2> QED BY <1>1, <2>1 DEF Outcome
<1>5. TokenOf(sales[s]) = "held" /\ MoneyOf(sales[s], claims[s]) = "none"
  BY <1>1, <1>4 DEF TokenOf, Holds, MoneyOf, NoClaim
<1>6. TokenOf(new) = "held" /\ MoneyOf(new, claims[s]) = "held"
  BY <1>3 DEF TokenOf, Holds, MoneyOf
<1>7. DealsOf(sales', claims') = Moved(DealsOf(sales, claims), s, "held", "held")
  BY <1>1, <1>3, <1>6, Advanced
<1>8. Apart(sales')
  BY <1>1, <1>3, StillApart
<1> QED BY <1>1, <1>5, <1>7, <1>8, DealAt DEF Agreeing

LEMMA CompleteSaleHands ==
    ASSUME TypeOK, IInv, Apart(sales), NEW a \in Users, NEW s \in SaleIds, CompleteSale(a, s)
    PROVE  /\ Handing(DealsOf(sales, claims), totalLiability,
                      DealsOf(sales', claims'), totalLiability')
           /\ Apart(sales')
<1> DEFINE new == [sales[s] EXCEPT !.status = "COMPLETED"]
           claim == PaymentClaim(s, sales[s].seller, "SELLER_PROCEEDS")
<1>1. /\ sales' = [sales EXCEPT ![s] = new] /\ claims' = [claims EXCEPT ![s] = claim]
      /\ totalLiability' = totalLiability /\ sales[s].status = "FUNDED"
  BY DEF CompleteSale
<1>2. sales[s] \in PaidSale
  BY <1>1, SettledType DEF TypeOK
<1>3. /\ new.status = "COMPLETED" /\ new.buyer = sales[s].buyer /\ new.seller = sales[s].seller
      /\ new.priceWei = sales[s].priceWei
      /\ claim.status = "CLAIMABLE" /\ claim.beneficiary = sales[s].seller
  BY <1>2 DEF PaidSale, PaymentClaim
<1> HIDE DEF new, claim
<1>4. MoneyOf(sales[s], claims[s]) = "held"
  BY <1>1 DEF MoneyOf
<1>5. TokenOf(new) = "delivered" /\ MoneyOf(new, claim) = "dueToSeller"
  BY <1>3 DEF TokenOf, Holds, MoneyOf
<1>6. DealsOf(sales', claims') = Moved(DealsOf(sales, claims), s, "delivered", "dueToSeller")
  BY <1>1, <1>3, <1>5, Advanced
<1>7. Apart(sales')
  BY <1>1, <1>3, StillApart DEF Apart
<1> QED BY <1>1, <1>4, <1>6, <1>7, DealAt DEF Handing

LEMMA CancelSaleAgrees ==
    ASSUME TypeOK, IInv, Apart(sales), NEW a \in Users, NEW s \in SaleIds, CancelSale(a, s)
    PROVE  /\ Agreeing(DealsOf(sales, claims), totalLiability,
                       DealsOf(sales', claims'), totalLiability')
           /\ Apart(sales')
<1> DEFINE new == [sales[s] EXCEPT !.status = "CANCELLED"]
<1>1. /\ sales' = [sales EXCEPT ![s] = new] /\ claims' = [claims EXCEPT ![s] = claims[s]]
      /\ totalLiability' = totalLiability /\ sales[s].status = "LISTED"
  BY DEF CancelSale, TypeOK
<1>2. sales[s] \in OpenSale
  BY <1>1 DEF TypeOK, Sale, NoSale, PaidSale
<1>3. /\ new.status = "CANCELLED" /\ new.tokenReclaimed = sales[s].tokenReclaimed
      /\ new.priceWei = sales[s].priceWei
  BY <1>2 DEF OpenSale
<1> HIDE DEF new
<1>4. claims[s] = NoClaim /\ ~ sales[s].tokenReclaimed
  <2>1. Outcome(sales[s], claims[s])
    BY SoundParts DEF Outcomes
  <2>2. sales[s].tokenReclaimed => sales[s].status \in {"CANCELLED", "EXPIRED"}
    BY SoundParts DEF Fresh
  <2> QED BY <1>1, <2>1, <2>2 DEF Outcome
<1>5. TokenOf(sales[s]) = "held" /\ MoneyOf(sales[s], claims[s]) = "none"
  BY <1>1, <1>4 DEF TokenOf, Holds, MoneyOf, NoClaim
<1>6. TokenOf(new) = "dueToSeller" /\ MoneyOf(new, claims[s]) = "none"
  BY <1>3, <1>4 DEF TokenOf, Holds, MoneyOf, NoClaim
<1>7. DealsOf(sales', claims') = Moved(DealsOf(sales, claims), s, "dueToSeller", "none")
  BY <1>1, <1>3, <1>6, Advanced
<1>8. Apart(sales')
  BY <1>1, <1>3, StillApart
<1> QED BY <1>1, <1>5, <1>7, <1>8, DealAt DEF Agreeing

LEMMA ExpireSaleAgrees ==
    ASSUME TypeOK, IInv, Apart(sales), NEW s \in SaleIds, ExpireSale(s)
    PROVE  /\ Agreeing(DealsOf(sales, claims), totalLiability,
                       DealsOf(sales', claims'), totalLiability')
           /\ Apart(sales')
<1> DEFINE new == [sales[s] EXCEPT !.status = "EXPIRED"]
           claim == PaymentClaim(s, sales[s].buyer, "BUYER_REFUND")
<1>1. /\ sales' = [sales EXCEPT ![s] = new] /\ claims' = [claims EXCEPT ![s] = claim]
      /\ totalLiability' = totalLiability /\ sales[s].status = "FUNDED"
  BY DEF ExpireSale
<1>2. sales[s] \in PaidSale
  BY <1>1, SettledType DEF TypeOK
<1>3. /\ new.status = "EXPIRED" /\ new.buyer = sales[s].buyer /\ new.seller = sales[s].seller
      /\ new.priceWei = sales[s].priceWei /\ new.tokenReclaimed = sales[s].tokenReclaimed
      /\ claim.status = "CLAIMABLE" /\ claim.beneficiary = sales[s].buyer
  BY <1>2 DEF PaidSale, PaymentClaim
<1> HIDE DEF new, claim
<1>4. ~ sales[s].tokenReclaimed /\ sales[s].buyer # sales[s].seller
  <2>1. sales[s].tokenReclaimed => sales[s].status \in {"CANCELLED", "EXPIRED"}
    BY SoundParts DEF Fresh
  <2> QED BY <1>1, <2>1 DEF Apart
<1>5. MoneyOf(sales[s], claims[s]) = "held"
  BY <1>1 DEF MoneyOf
<1>6. TokenOf(new) = "dueToSeller" /\ MoneyOf(new, claim) = "dueToBuyer"
  BY <1>3, <1>4 DEF TokenOf, Holds, MoneyOf
<1>7. DealsOf(sales', claims') = Moved(DealsOf(sales, claims), s, "dueToSeller", "dueToBuyer")
  BY <1>1, <1>3, <1>6, Advanced
<1>8. Apart(sales')
  BY <1>1, <1>3, <1>4, StillApart
<1> QED BY <1>1, <1>5, <1>7, <1>8, DealAt DEF Agreeing

LEMMA WithdrawPaymentHands ==
    ASSUME TypeOK, IInv, Apart(sales), NEW a \in Users, NEW s \in SaleIds, NEW r \in Users,
           WithdrawPayment(a, s, r)
    PROVE  /\ Handing(DealsOf(sales, claims), totalLiability,
                      DealsOf(sales', claims'), totalLiability')
           /\ Apart(sales')
<1>1. /\ totalLiability' = totalLiability - claims[s].amountWei
      /\ claims[s].status = "CLAIMABLE"
  BY DEF WithdrawPayment, PayOut
<1>2. Apart(sales')
  BY DEF WithdrawPayment
<1>3. PICK sale, token : /\ sales' = [sales EXCEPT ![s] = sale] /\ sale = sales[s]
                         /\ token = TokenOf(sale)
  BY DEF WithdrawPayment, TypeOK
<1>4. PICK claim : /\ claims' = [claims EXCEPT ![s] = claim]
                   /\ claim.status = "WITHDRAWN" /\ claim.beneficiary = claims[s].beneficiary
  <2>1. claims[s] \in OwnClaim
    BY <1>1 DEF TypeOK, Claim, NoClaim
  <2>2. [claims[s] EXCEPT !.status = "WITHDRAWN"].status = "WITHDRAWN"
    BY <2>1 DEF OwnClaim
  <2>3. [claims[s] EXCEPT !.status = "WITHDRAWN"].beneficiary = claims[s].beneficiary
    BY <2>1 DEF OwnClaim
  <2>4. claims' = [claims EXCEPT ![s] = [claims[s] EXCEPT !.status = "WITHDRAWN"]]
    BY DEF WithdrawPayment
  <2> QED BY <2>2, <2>3, <2>4
<1>5. sales[s].status \in {"COMPLETED", "EXPIRED"} /\ claims[s].amountWei = sales[s].priceWei
  <2>1. Outcome(sales[s], claims[s])
    BY SoundParts DEF Outcomes
  <2> QED BY <1>1, <2>1 DEF Outcome, NoClaim
<1>6. totalLiability' = totalLiability - DealsOf(sales, claims)[s].price
      /\ DealsOf(sales, claims)[s].token = token
  BY <1>1, <1>3, <1>5, DealAt
<1>7. CASE claims[s].beneficiary = sales[s].seller
  <2>1. MoneyOf(sales[s], claims[s]) = "dueToSeller" /\ MoneyOf(sale, claim) = "paidToSeller"
    BY <1>1, <1>3, <1>4, <1>5, <1>7 DEF MoneyOf
  <2>2. sale.priceWei = sales[s].priceWei /\ TokenOf(sale) = token
    BY <1>3
  <2>3. sales' = [sales EXCEPT ![s] = sale] /\ claims' = [claims EXCEPT ![s] = claim]
    BY <1>3, <1>4
  <2>4. DealsOf(sales', claims') = Moved(DealsOf(sales, claims), s, token, "paidToSeller")
    BY <2>1, <2>2, <2>3, Advanced
  <2> QED BY <1>2, <1>6, <2>1, <2>4, DealAt DEF Handing
<1>8. CASE claims[s].beneficiary # sales[s].seller
  <2>1. MoneyOf(sales[s], claims[s]) = "dueToBuyer" /\ MoneyOf(sale, claim) = "paidToBuyer"
    BY <1>1, <1>3, <1>4, <1>5, <1>8 DEF MoneyOf
  <2>2. sale.priceWei = sales[s].priceWei /\ TokenOf(sale) = token
    BY <1>3
  <2>3. sales' = [sales EXCEPT ![s] = sale] /\ claims' = [claims EXCEPT ![s] = claim]
    BY <1>3, <1>4
  <2>4. DealsOf(sales', claims') = Moved(DealsOf(sales, claims), s, token, "paidToBuyer")
    BY <2>1, <2>2, <2>3, Advanced
  <2> QED BY <1>2, <1>6, <2>1, <2>4, DealAt DEF Handing
<1> QED BY <1>7, <1>8

LEMMA ReclaimTokenHands ==
    ASSUME TypeOK, IInv, Apart(sales), NEW a \in Users, NEW s \in SaleIds, NEW r \in Users,
           ReclaimToken(a, s, r)
    PROVE  /\ Handing(DealsOf(sales, claims), totalLiability,
                      DealsOf(sales', claims'), totalLiability')
           /\ Apart(sales')
<1> DEFINE new == [sales[s] EXCEPT !.tokenReclaimed = TRUE]
<1>1. /\ sales' = [sales EXCEPT ![s] = new] /\ claims' = [claims EXCEPT ![s] = claims[s]]
      /\ totalLiability' = totalLiability
      /\ sales[s].status \in {"CANCELLED", "EXPIRED"} /\ ~ sales[s].tokenReclaimed
  BY DEF ReclaimToken, Reclaimable, TypeOK
<1>2. sales[s] \in OpenSale \cup PaidSale
  BY <1>1 DEF TypeOK, Sale, NoSale
<1>3. /\ new.status = sales[s].status /\ new.buyer = sales[s].buyer /\ new.seller = sales[s].seller
      /\ new.priceWei = sales[s].priceWei /\ new.tokenReclaimed = TRUE
  BY <1>2 DEF OpenSale, PaidSale
<1> HIDE DEF new
<1>4. TokenOf(sales[s]) = "dueToSeller" /\ TokenOf(new) = "returned"
  BY <1>1, <1>3 DEF TokenOf, Holds
<1>5. MoneyOf(new, claims[s]) = MoneyOf(sales[s], claims[s])
  BY <1>3 DEF MoneyOf
<1>6. DealsOf(sales', claims') =
     Moved(DealsOf(sales, claims), s, "returned", MoneyOf(sales[s], claims[s]))
  BY <1>1, <1>3, <1>4, <1>5, Advanced
<1>7. Apart(sales')
  BY <1>1, <1>3, StillApart DEF Apart
<1> QED BY <1>1, <1>4, <1>6, <1>7, DealAt DEF Handing

-----------------------------------------------------------------------------
(* What the committed state shows.                                         *)

ShownDeals == [s \in SaleIds |-> DealOf(Committed, s)]
ShownPot == Committed.balance - Committed.forced

\* The custody records agree with the sale: the deal can be told from the sale
\* and the claim, and the pot is the liability.
LEMMA SoundShows ==
    ASSUME NEW st \in ContractState,
           Custody(st.ownerOf, st.sales, st.custodySaleId),
           Funds(st.balance, st.totalLiability, st.forced)
    PROVE  /\ [s \in SaleIds |-> DealOf(st, s)] = DealsOf(st.sales, st.claims)
           /\ st.balance - st.forced = st.totalLiability
<1>1. ASSUME NEW s \in SaleIds PROVE DealOf(st, s) = Deal(st.sales[s], st.claims[s])
  <2> DEFINE sale == st.sales[s]
  <2>1. sale \in Sale
    BY DEF ContractState
  <2>2. CASE sale.status = "NONE"
    BY <2>2 DEF DealOf, Deal, TokenOf, MoneyOf
  <2>3. CASE sale.status # "NONE"
    <3>1. sale.tokenId \in TokenIds
      BY <2>1, <2>3 DEF Sale, NoSale, OpenSale, PaidSale
    <3>2. (st.custodySaleId[sale.tokenId] = s /\ st.ownerOf[sale.tokenId] = EscrowAddress)
         <=> Holds(sale)
      <4> HIDE DEF Holds
      <4>1. st.custodySaleId[sale.tokenId] = s <=> (Holds(sale) /\ sale.tokenId = sale.tokenId)
        BY <3>1 DEF Custody
      <4>2. st.custodySaleId[sale.tokenId] # 0 <=> st.ownerOf[sale.tokenId] = EscrowAddress
        BY <3>1 DEF Custody
      <4>3. s # 0
        BY Numbers
      <4> QED BY <4>1, <4>2, <4>3
    <3> HIDE DEF Holds
    <3> QED BY <2>3, <3>2 DEF DealOf, Deal, TokenOf, MoneyOf
  <2> QED BY <2>2, <2>3
<1>2. st.balance - st.forced = st.totalLiability
  BY DEF Funds, ContractState
<1> QED BY <1>1, <1>2 DEF DealsOf

LEMMA Shows ==
    ASSUME TypeOK, IInv
    PROVE  /\ ShownDeals = DealsOf(Committed.sales, Committed.claims)
           /\ ShownPot = Committed.totalLiability
<1>1. Committed \in ContractState
  <2>1. State \in ContractState
    BY DEF State, ContractState, TypeOK, NftTypeOK
  <2>2. call # NoCall => call.saved \in ContractState
    BY DEF TypeOK, Frame
  <2> QED BY <2>1, <2>2 DEF Committed
<1>2. Sound(Committed)
  BY DEF IInv, Committed
<1> HIDE DEF Committed
<1> QED BY <1>1, <1>2, SoundShows DEF Sound, ShownDeals, ShownPot

LEMMA ShowsNext ==
    ASSUME TypeOK', IInv'
    PROVE  /\ ShownDeals' = DealsOf(Committed'.sales, Committed'.claims)
           /\ ShownPot' = Committed'.totalLiability
<1>1. Committed' \in ContractState
  <2>1. State' \in ContractState
    BY DEF State, ContractState, TypeOK, NftTypeOK
  <2>2. call' # NoCall => call'.saved \in ContractState
    BY DEF TypeOK, Frame
  <2> QED BY <2>1, <2>2 DEF Committed
<1>2. Custody(Committed'.ownerOf, Committed'.sales, Committed'.custodySaleId)
      /\ Funds(Committed'.balance, Committed'.totalLiability, Committed'.forced)
  <2>1. Sound(Committed)'
    BY DEF IInv, Committed
  <2> QED BY <2>1 DEF Sound
<1> HIDE DEF Committed
<1> QED BY <1>1, <1>2, SoundShows DEF ShownDeals, ShownPot

\* Without a frame, the committed state is the current one.
LEMMA CommittedStateIs ==
    /\ call = NoCall => /\ Committed.sales = sales /\ Committed.claims = claims
                        /\ Committed.totalLiability = totalLiability
    /\ call # NoCall => Committed = call.saved
    /\ call' = NoCall => /\ Committed'.sales = sales' /\ Committed'.claims = claims'
                         /\ Committed'.totalLiability = totalLiability'
    /\ call' # NoCall => Committed' = call'.saved
  BY DEF Committed, State

\* The steps of the promise are those of the module Settlement.
LEMMA AgreeingIsPromised ==
    ASSUME Agreeing(ShownDeals, ShownPot, ShownDeals', ShownPot')
    PROVE  Promise!Next
  BY DEF Agreeing, Moved, ShownDeals, ShownPot, Promise!Next, Promise!Offer, Promise!Pay,
       Promise!CallOff,
     Promise!GiveUp, Promise!Move, Promise!NoDeal

LEMMA HandingIsPromised ==
    ASSUME Handing(ShownDeals, ShownPot, ShownDeals', ShownPot')
    PROVE  Promise!Next
  BY DEF Handing, Moved, ShownDeals, ShownPot, Promise!Next, Promise!Exchange, Promise!Collect,
     Promise!TakeBack, Promise!Move

-----------------------------------------------------------------------------
(* Each step of the escrow keeps Pending, and shows a step of the promise  *)
(* or nothing.                                                             *)

Keeps == Pending' /\ (Promise!Next \/ (ShownDeals' = ShownDeals /\ ShownPot' = ShownPot))

\* A transaction that opens no frame shows at once.
LEMMA CommittedStep ==
    ASSUME TypeOK, IInv, TypeOK', IInv', call = NoCall, call' = NoCall, Apart(sales'),
           \/ Agreeing(DealsOf(sales, claims), totalLiability,
                       DealsOf(sales', claims'), totalLiability')
           \/ Handing(DealsOf(sales, claims), totalLiability,
                      DealsOf(sales', claims'), totalLiability')
    PROVE  Keeps
<1>1. Pending'
  BY DEF Pending
<1>2. /\ ShownDeals = DealsOf(sales, claims) /\ ShownPot = totalLiability
      /\ ShownDeals' = DealsOf(sales', claims') /\ ShownPot' = totalLiability'
  BY Shows, ShowsNext, CommittedStateIs
<1>3. Promise!Next
  BY <1>2, AgreeingIsPromised, HandingIsPromised
<1> QED BY <1>1, <1>3 DEF Keeps

\* One that ends in a call to its recipient shows when the frame has returned.
LEMMA CallRecipientKeeps ==
    ASSUME TypeOK, IInv, TypeOK', IInv', call = NoCall, Apart(sales), Apart(sales'),
           NEW op \in {"complete", "withdraw", "reclaim"}, NEW recipient, NEW events, NEW closing,
           CallRecipient(op, recipient, events, closing),
           Handing(DealsOf(sales, claims), totalLiability,
                   DealsOf(sales', claims'), totalLiability')
    PROVE  Keeps
<1>1. CASE UNCHANGED call
  BY <1>1, CommittedStep
<1>2. CASE call' = [op |-> op, closing |-> closing, saved |-> State]
  <2>1. call' # NoCall /\ call'.saved = State
    BY <1>2 DEF NoCall
  <2>2. State.sales = sales /\ State.claims = claims /\ State.totalLiability = totalLiability
    BY DEF State
  <2>3. Pending'
    BY <2>1, <2>2 DEF Pending
  <2>4. Committed' = Committed
    BY <2>1 DEF Committed
  <2>5. ShownDeals' = ShownDeals /\ ShownPot' = ShownPot
    BY <2>4, Shows, ShowsNext
  <2> QED BY <2>3, <2>5 DEF Keeps
<1> QED BY <1>1, <1>2 DEF CallRecipient

\* When a frame returns, its transaction shows.
LEMMA ReturnKeeps ==
    ASSUME TypeOK, IInv, TypeOK', IInv', Pending, ReturnFromCall
    PROVE  Keeps
<1>1. /\ call # NoCall /\ call' = NoCall
      /\ sales' = sales /\ claims' = claims /\ totalLiability' = totalLiability
  BY DEF ReturnFromCall, bookVars
<1>2. Pending'
  BY <1>1 DEF Pending
<1>3. /\ ShownDeals = DealsOf(call.saved.sales, call.saved.claims)
      /\ ShownPot = call.saved.totalLiability
      /\ ShownDeals' = DealsOf(sales, claims) /\ ShownPot' = totalLiability
  BY <1>1, Shows, ShowsNext, CommittedStateIs
<1>4. Handing(ShownDeals, ShownPot, ShownDeals', ShownPot')
  BY <1>1, <1>3 DEF Pending
<1> QED BY <1>2, <1>4, HandingIsPromised DEF Keeps

\* When a frame reverts, nothing shows.
LEMMA RevertKeeps ==
    ASSUME TypeOK, IInv, TypeOK', IInv', Pending, RevertCall
    PROVE  Keeps
<1>1. /\ call # NoCall /\ call' = NoCall
      /\ sales' = call.saved.sales /\ claims' = call.saved.claims
      /\ totalLiability' = call.saved.totalLiability
  BY DEF RevertCall
<1>2. Pending'
  BY <1>1 DEF Pending
<1>3. ShownDeals' = ShownDeals /\ ShownPot' = ShownPot
  BY <1>1, Shows, ShowsNext, CommittedStateIs
<1> QED BY <1>2, <1>3 DEF Keeps

\* Steps that leave the books alone do not show.
LEMMA OutsideKeeps ==
    ASSUME TypeOK, IInv, TypeOK', IInv', Pending, UNCHANGED bookVars, UNCHANGED call
    PROVE  Keeps
<1>1. sales' = sales /\ claims' = claims /\ totalLiability' = totalLiability /\ call' = call
  BY DEF bookVars
<1>2. Pending'
  BY <1>1 DEF Pending
<1>3. /\ Committed'.sales = Committed.sales /\ Committed'.claims = Committed.claims
      /\ Committed'.totalLiability = Committed.totalLiability
  BY <1>1, CommittedStateIs
<1>4. ShownDeals' = ShownDeals /\ ShownPot' = ShownPot
  BY <1>3, Shows, ShowsNext
<1> QED BY <1>2, <1>4 DEF Keeps

LEMMA ExpireSaleKeeps ==
    ASSUME TypeOK, IInv, TypeOK', IInv', Pending, NEW s \in SaleIds, ExpireSale(s)
    PROVE  Keeps
<1>1. call = NoCall /\ call' = NoCall /\ Apart(sales)
  BY DEF ExpireSale, NonReentrant, Pending
<1> QED BY <1>1, ExpireSaleAgrees, CommittedStep

\* The other transactions of the escrow start without a frame.
LEMMA TransactionKeeps ==
    ASSUME TypeOK, IInv, TypeOK', IInv', Pending, NEW a \in Users, NEW s \in SaleIds,
           \/ \E t \in TokenIds, p \in Prices, b \in Users : CreateSale(a, t, p, b)
           \/ \E v \in Prices : FundSale(a, s, v)
           \/ CompleteSale(a, s)
           \/ CancelSale(a, s)
           \/ \E r \in Users : WithdrawPayment(a, s, r)
           \/ \E r \in Users : ReclaimToken(a, s, r)
    PROVE  Keeps
<1>1. Apart(sales)
  BY DEF Pending
<1>2. CASE \E t \in TokenIds, p \in Prices, b \in Users : CreateSale(a, t, p, b)
  <2> SUFFICES ASSUME NEW t \in TokenIds, NEW p \in Prices, NEW b \in Users, CreateSale(a, t, p, b)
               PROVE  Keeps
    BY <1>2
  <2>1. call = NoCall /\ call' = NoCall
    BY DEF CreateSale, NonReentrant
  <2> QED BY <1>1, <2>1, CreateSaleAgrees, CommittedStep
<1>3. CASE \E v \in Prices : FundSale(a, s, v)
  <2> SUFFICES ASSUME NEW v \in Prices, FundSale(a, s, v) PROVE Keeps
    BY <1>3
  <2>1. call = NoCall /\ call' = NoCall
    BY DEF FundSale, NonReentrant
  <2> QED BY <1>1, <2>1, FundSaleAgrees, CommittedStep
<1>4. CASE CompleteSale(a, s)
  <2>1. call = NoCall
    BY <1>4 DEF CompleteSale, NonReentrant
  <2>2. \E recipient, events, closing : CallRecipient("complete", recipient, events, closing)
    BY <1>4 DEF CompleteSale
  <2> QED BY <1>1, <1>4, <2>1, <2>2, CompleteSaleHands, CallRecipientKeeps
<1>5. CASE CancelSale(a, s)
  <2>1. call = NoCall /\ call' = NoCall
    BY <1>5 DEF CancelSale, NonReentrant
  <2> QED BY <1>1, <1>5, <2>1, CancelSaleAgrees, CommittedStep
<1>6. CASE \E r \in Users : WithdrawPayment(a, s, r)
  <2> SUFFICES ASSUME NEW r \in Users, WithdrawPayment(a, s, r) PROVE Keeps
    BY <1>6
  <2>1. call = NoCall
    BY DEF WithdrawPayment, NonReentrant
  <2>2. \E recipient, events, closing : CallRecipient("withdraw", recipient, events, closing)
    BY DEF WithdrawPayment
  <2> QED BY <1>1, <2>1, <2>2, WithdrawPaymentHands, CallRecipientKeeps
<1>7. CASE \E r \in Users : ReclaimToken(a, s, r)
  <2> SUFFICES ASSUME NEW r \in Users, ReclaimToken(a, s, r) PROVE Keeps
    BY <1>7
  <2>1. call = NoCall
    BY DEF ReclaimToken, NonReentrant
  <2>2. \E recipient, events, closing : CallRecipient("reclaim", recipient, events, closing)
    BY DEF ReclaimToken
  <2> QED BY <1>1, <2>1, <2>2, ReclaimTokenHands, CallRecipientKeeps
<1> QED BY <1>2, <1>3, <1>4, <1>5, <1>6, <1>7

LEMMA NextKeeps ==
    ASSUME TypeOK, IInv, TypeOK', IInv', Pending, [Next]_vars
    PROVE  Keeps
<1>1. CASE \/ UNCHANGED vars
           \/ \E to \in Holders : MintToken(to)
           \/ \E a \in Users, t \in TokenIds, to \in Holders : TransferToken(a, t, to)
           \/ \E a \in Users : ApproveEscrow(a)
           \/ ForceEther
           \/ Tick
  <2>1. UNCHANGED bookVars /\ UNCHANGED call
    BY <1>1 DEF vars, MintToken, TransferToken, ApproveEscrow, ForceEther, Tick, outsideNft
  <2> QED BY <2>1, OutsideKeeps
<1>2. CASE ReturnFromCall \/ RevertCall
  BY <1>2, ReturnKeeps, RevertKeeps
<1>3. CASE \E s \in SaleIds : ExpireSale(s)
  BY <1>3, ExpireSaleKeeps
<1>4. CASE \E a, b \in Users, t \in TokenIds, p \in Prices : CreateSale(a, t, p, b)
  <2> SUFFICES ASSUME NEW a \in Users, NEW b \in Users, NEW t \in TokenIds, NEW p \in Prices,
                      CreateSale(a, t, p, b)
               PROVE  Keeps
    BY <1>4
  <2>1. saleCount + 1 \in SaleIds
    BY DEF CreateSale
  <2> QED BY <2>1, TransactionKeeps
<1>5. CASE \E s \in SaleIds, a \in Users :
              \/ \E v \in Prices : FundSale(a, s, v)
              \/ CompleteSale(a, s)
              \/ CancelSale(a, s)
              \/ \E r \in Users : WithdrawPayment(a, s, r) \/ ReclaimToken(a, s, r)
  BY <1>5, TransactionKeeps
<1> QED BY <1>1, <1>2, <1>3, <1>4, <1>5 DEF Next

LEMMA InitShows ==
    ASSUME Init
    PROVE  Pending /\ Promise!Init
<1>1. Pending
  BY DEF Init, Pending, Apart, NoSale
<1>2. Committed = State /\ State.balance = 0 /\ State.forced = 0
  BY DEF Init, Committed, State
<1>3. ASSUME NEW s \in SaleIds
      PROVE  DealOf(State, s) = [token |-> "none", money |-> "none", price |-> 0]
  <2>1. State.sales[s] = NoSale /\ State.claims[s] = NoClaim
    BY DEF Init, State
  <2> QED BY <2>1 DEF DealOf, NoSale, NoClaim
<1> QED BY <1>1, <1>2, <1>3 DEF Promise!Init, Promise!NoDeal

\* What is not yet shown of a transaction inside its frame is exactly one step
\* of the promise.
THEOREM PendingIsOneStep == Spec => []Pending
<1>1. TypeOK /\ IInv /\ TypeOK' /\ IInv' /\ Pending /\ [Next]_vars => Pending'
  BY NextKeeps DEF Keeps
<1>2. Init => Pending
  BY InitShows
<1> QED BY <1>1, <1>2, TypeCorrect, Inductive, PTL DEF Spec

\* The token and the principal of every sale change hands together or both go
\* back, each once, and the pot is what nobody has collected yet: whatever
\* recipients do inside their frames, and whatever is rolled back.
THEOREM PromiseKept == Spec => KeepsPromise
<1>1. TypeOK /\ IInv /\ TypeOK' /\ IInv' /\ Pending /\ [Next]_vars
        => [Promise!Next]_<<ShownDeals, ShownPot>>
  BY NextKeeps DEF Keeps
<1>2. Init => Promise!Init
  BY InitShows
<1> QED BY <1>1, <1>2, TypeCorrect, Inductive, PendingIsOneStep, PTL
        DEF Spec, KeepsPromise, Promise!Spec, ShownDeals, ShownPot
=============================================================================
