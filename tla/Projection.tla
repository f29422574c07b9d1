---------------------------- MODULE Projection ----------------------------
(***************************************************************************)
(* The read model of the indexer: how the events of a block range rewrite  *)
(* the owner, sale and claim rows (apps/indexer/src/domain/projectors and  *)
(* applyEvent of the SQLite store), and how reconciliation compares those  *)
(* rows with the contracts.  The time of funding is left out: it is        *)
(* expiresAt less a constant.                                              *)
(***************************************************************************)
EXTENDS Naturals, SequencesExt

CONSTANTS
    NoRow,     \* undefined, and SQL NULL
    RowTokens, \* token ids with a row
    RowSales   \* sale ids with a row

EmptyProjection ==
    [owners |-> [t \in RowTokens |-> NoRow], sales |-> [s \in RowSales |-> NoRow],
     claims |-> [s \in RowSales |-> NoRow], fault |-> "none"]

\* "integrity": a prerequisite is missing and recovery is required;
\* "error": any other exception.
PaymentFault(claim, e) ==
    IF e.kind = "PaymentClaimCreated" /\ claim # NoRow THEN "error"
    ELSE IF e.kind # "PaymentWithdrawn" THEN "none"
    ELSE IF claim = NoRow THEN "integrity"
    ELSE IF claim.status # "CLAIMABLE" THEN "error"
    ELSE "none"

ProjectPayment(claim, e) ==
    CASE e.kind = "PaymentClaimCreated" ->
           [beneficiary |-> e.beneficiary, amountWei |-> e.amountWei, kind |-> e.claimKind,
            status |-> "CLAIMABLE", recipient |-> NoRow]
      [] e.kind = "PaymentWithdrawn" ->
           [claim EXCEPT !.status = "WITHDRAWN", !.recipient = e.recipient]
      [] OTHER -> claim

\* The statuses in which a sale may see an event.
Before ==
    [SaleFunded |-> {"LISTED"}, SaleCompleted |-> {"FUNDED"}, SaleCancelled |-> {"LISTED"},
     SaleExpired |-> {"FUNDED"}, TokenReclaimed |-> {"CANCELLED", "EXPIRED"}]

\* Fault: a returned token is taken for the end of an expired sale only.
SaleFaultStrict(sale, e) ==
    IF e.kind = "SaleCreated" THEN IF sale # NoRow THEN "error" ELSE "none"
    ELSE IF e.kind \notin DOMAIN Before THEN "none"
    ELSE IF sale = NoRow THEN "integrity"
    ELSE IF sale.status \notin Before[e.kind] \ {"CANCELLED"} THEN "error"
    ELSE IF e.kind = "SaleFunded" /\ e.buyer # sale.allowedBuyer THEN "integrity"
    ELSE "none"

SaleFault(sale, e) ==
    IF e.kind = "SaleCreated" THEN IF sale # NoRow THEN "error" ELSE "none"
    ELSE IF e.kind \notin DOMAIN Before THEN "none"
    ELSE IF sale = NoRow THEN "integrity"
    ELSE IF sale.status \notin Before[e.kind] THEN "error"
    ELSE IF e.kind = "SaleFunded" /\ e.buyer # sale.allowedBuyer THEN "integrity"
    ELSE "none"

\* Fault: the deadline of a funded sale is not stored.
ProjectSaleUndated(sale, e) ==
    CASE e.kind = "SaleCreated" ->
           [tokenId |-> e.tokenId, seller |-> e.seller, allowedBuyer |-> e.allowedBuyer,
            buyer |-> NoRow, priceWei |-> e.priceWei, expiresAt |-> NoRow,
            status |-> "LISTED", tokenReclaimed |-> FALSE]
      [] e.kind = "SaleFunded" -> [sale EXCEPT !.buyer = e.buyer, !.status = "FUNDED"]
      [] e.kind = "SaleCompleted" -> [sale EXCEPT !.status = "COMPLETED"]
      [] e.kind = "SaleCancelled" -> [sale EXCEPT !.status = "CANCELLED"]
      [] e.kind = "SaleExpired" -> [sale EXCEPT !.status = "EXPIRED"]
      [] e.kind = "TokenReclaimed" -> [sale EXCEPT !.tokenReclaimed = TRUE]
      [] OTHER -> sale

ProjectSale(sale, e) ==
    CASE e.kind = "SaleCreated" ->
           [tokenId |-> e.tokenId, seller |-> e.seller, allowedBuyer |-> e.allowedBuyer,
            buyer |-> NoRow, priceWei |-> e.priceWei, expiresAt |-> NoRow,
            status |-> "LISTED", tokenReclaimed |-> FALSE]
      [] e.kind = "SaleFunded" ->
           [sale EXCEPT !.buyer = e.buyer, !.expiresAt = e.expiresAt, !.status = "FUNDED"]
      [] e.kind = "SaleCompleted" -> [sale EXCEPT !.status = "COMPLETED"]
      [] e.kind = "SaleCancelled" -> [sale EXCEPT !.status = "CANCELLED"]
      [] e.kind = "SaleExpired" -> [sale EXCEPT !.status = "EXPIRED"]
      [] e.kind = "TokenReclaimed" -> [sale EXCEPT !.tokenReclaimed = TRUE]
      [] OTHER -> sale

\* applyEvent: the claim of the sale first, then the sale; a fault stops it.
ApplyEvent(p, e) ==
    IF p.fault # "none" THEN p
    ELSE IF e.kind = "Transfer" THEN [p EXCEPT !.owners[e.tokenId] = e.to]
    ELSE LET claim == p.claims[e.saleId]
             sale == p.sales[e.saleId]
             fault == IF PaymentFault(claim, e) # "none" THEN PaymentFault(claim, e)
                      ELSE SaleFault(sale, e) IN
         IF fault # "none" THEN [p EXCEPT !.fault = fault]
         ELSE [p EXCEPT !.claims[e.saleId] = ProjectPayment(claim, e),
                        !.sales[e.saleId] = ProjectSale(sale, e)]

\* One SQL transaction: all the events, or none and the fault.
CommitEvents(p, events) ==
    LET q == FoldLeft(ApplyEvent, p, events) IN
    IF q.fault = "none" THEN q ELSE [p EXCEPT !.fault = q.fault]
===========================================================================
