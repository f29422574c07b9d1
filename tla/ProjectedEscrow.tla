-------------------------- MODULE ProjectedEscrow --------------------------
(***************************************************************************)
(* The escrow and its read model: when an outermost call ends, the indexer *)
(* applies what it logged.  A receipt is the logs of one or more such      *)
(* calls and a batch those of one or more receipts; folding is by event,   *)
(* so that while no fold fails it does not matter where a batch ends.  The *)
(* blocks, reorganisations and crashes in between are the subject of       *)
(* Indexer; here every event arrives once and in order, and the question   *)
(* is whether the projectors understand every receipt the contracts can    *)
(* write, nested calls and reverts included.                               *)
(***************************************************************************)
EXTENDS MotorCoveEscrow

CONSTANT NoRow

VARIABLES
    projection, \* the rows of the read model
    fundings    \* the SaleFunded events among the stored chain events

\* The rows of the sale and claim tables.
SaleRows ==
    [tokenId : TokenIds, seller : Users, allowedBuyer : Users, buyer : Users \cup {NoRow},
     priceWei : Prices, expiresAt : Nat \cup {NoRow},
     status : {"LISTED", "FUNDED", "COMPLETED", "CANCELLED", "EXPIRED"},
     tokenReclaimed : BOOLEAN]
ClaimRows ==
    [beneficiary : Users, amountWei : Prices, kind : ClaimKinds,
     status : {"CLAIMABLE", "WITHDRAWN"}, recipient : Users \cup {NoRow}]

ASSUME NoRowAssumption == NoRow \notin SaleRows \cup ClaimRows

P == INSTANCE Projection WITH RowTokens <- TokenIds, RowSales <- SaleIds

ProjectedInit == Init /\ projection = P!EmptyProjection /\ fundings = {}

FundingsIn(events) == {e \in Range(events) : e.kind = "SaleFunded"}

\* The logs of a call reach the indexer when they are final: its events are
\* stored and projected together, or neither.
IndexLogs ==
    LET committed == P!CommitEvents(projection, emitted') IN
    /\ projection' = IF call' = NoCall THEN committed ELSE projection
    /\ fundings' = IF call' = NoCall /\ committed.fault = "none"
                   THEN fundings \cup FundingsIn(emitted') ELSE fundings

ProjectedNext == Next /\ IndexLogs

ProjectedSpec == ProjectedInit /\ [][ProjectedNext]_<<vars, projection, fundings>>

-----------------------------------------------------------------------------
(* What observeFunding says of a sale when asked for its funding event.    *)

\* The row of the sale joined with the one of its claim.
ReadSale(s) == [row |-> projection.sales[s], claim |-> projection.claims[s]]

SameFunding(row, e) ==
    <<row.buyer, row.priceWei, row.expiresAt>> = <<e.buyer, e.amountWei, e.expiresAt>>

\* Fault: an expired sale does not bear out its funding.
EffectWhileOpen(e) ==
    LET sale == ReadSale(e.saleId) IN
    IF /\ sale.row # NoRow
       /\ sale.row.status \in {"FUNDED", "COMPLETED"}
       /\ sale.row.status = "FUNDED" => sale.claim = NoRow
       /\ SameFunding(sale.row, e)
    THEN "CONSISTENT" ELSE "INCONSISTENT"

ProjectionEffect(e) ==
    LET sale == ReadSale(e.saleId) IN
    IF /\ sale.row # NoRow
       /\ sale.row.status \in {"FUNDED", "COMPLETED", "EXPIRED"}
       /\ sale.row.status = "FUNDED" => sale.claim = NoRow
       /\ SameFunding(sale.row, e)
    THEN "CONSISTENT" ELSE "INCONSISTENT"

\* The event is looked up by its position, and must be the funding asked for.
ObserveFunding(e) == IF e \in fundings THEN ProjectionEffect(e) ELSE "NOT_ASSESSED"

-----------------------------------------------------------------------------
(* Reconciliation at the block of the last call.                           *)

\* What getSale, getPaymentClaim and ownerOf answer, as a row.
ChainSale(s) ==
    IF s > saleCount THEN NoRow
    ELSE [sales[s] EXCEPT !.buyer = IF @ = Nobody THEN NoRow ELSE @,
                          !.expiresAt = IF @ = 0 THEN NoRow ELSE @]
ChainClaim(s) == IF claims[s].status = "NONE" THEN NoRow ELSE claims[s]
ChainOwner(t) == IF t < nextTokenId THEN ownerOf[t] ELSE NoRow

\* A claim row without the recipient, which the contract does not store.
ClaimRow(s) ==
    LET row == projection.claims[s] IN
    IF row = NoRow THEN NoRow
    ELSE [beneficiary |-> row.beneficiary, amountWei |-> row.amountWei, kind |-> row.kind,
          status |-> row.status]

Differences ==
    {<<"sale", s>> : s \in {s \in SaleIds : projection.sales[s] # ChainSale(s)}}
    \cup {<<"paymentClaim", s>> : s \in {s \in SaleIds : ClaimRow(s) # ChainClaim(s)}}
    \cup {<<"currentOwner", t>> : t \in {t \in TokenIds : projection.owners[t] # ChainOwner(t)}}

\* No receipt of the contracts makes a projector throw: neither the barrier of
\* a missing prerequisite nor the endless failure of the same batch is reached
\* by what an honest chain reports (sale-projector.ts, payment-projector.ts).
ProjectorsAcceptReceipts == projection.fault = "none"

\* Between calls reconciliation finds no difference: folding events is
\* as good as reading storage, although events of a nested call come before
\* the closing event of the call around it (reconcile.ts).
ReconciliationMatches == call = NoCall => Differences = {}

\* Whatever becomes of a sale after it was funded, and whatever receipts follow,
\* a buyer who asks the API for the funding event is told that the read model
\* bears it out: the observation is made from the event of one receipt and from
\* rows that later receipts rewrote (observeFunding of the sales reader).
FundingStaysConsistent == \A e \in fundings : ObserveFunding(e) = "CONSISTENT"
=============================================================================
