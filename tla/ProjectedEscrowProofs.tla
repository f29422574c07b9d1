----------------------- MODULE ProjectedEscrowProofs -----------------------
(***************************************************************************)
(* The read model follows the escrow, for every set of users, contracts    *)
(* and prices and every bound: whatever happens inside call frames, the    *)
(* projectors accept every receipt and end at the rows that the contracts  *)
(* would answer.                                                           *)
(***************************************************************************)
EXTENDS ProjectedEscrow, EscrowProofs, SequenceTheorems

USE NftAssumption, EscrowAssumption

-----------------------------------------------------------------------------
(* Folding the logs: the events one by one, from the first to the last.    *)

LastOf(S) == CHOOSE x \in S : \A y \in S : x >= y

FoldStep(h, p, r, S) ==
    IF S = {} THEN p ELSE P!ApplyEvent(h[S \ {LastOf(S)}], r[LastOf(S)])

Folds(h, p, r) == h = [S \in SUBSET DOMAIN r |-> FoldStep(h, p, r, S)]

Fold(p, r) == (CHOOSE h : Folds(h, p, r))[DOMAIN r]

LEMMA CommitIsFold ==
    ASSUME NEW p, NEW r
    PROVE  P!CommitEvents(p, r) = IF Fold(p, r).fault = "none" THEN Fold(p, r)
                                  ELSE [p EXCEPT !.fault = Fold(p, r).fault]
  BY DEF P!CommitEvents, P!FoldLeft, P!MapThenFoldSet, P!Max, Folds, Fold, FoldStep, LastOf

LEMMA LastExists ==
    ASSUME NEW n \in Nat, NEW S \in SUBSET (1..n), S # {}
    PROVE  LastOf(S) \in S /\ \A y \in S : y <= LastOf(S)
<1> DEFINE T == {m \in Nat : \A y \in S : y <= m}
<1>1. n \in T
  OBVIOUS
<1>2. PICK m \in T : \A k \in T : m <= k
  BY <1>1, Least
<1>3. m \in S
  <2> SUFFICES ASSUME m \notin S PROVE FALSE
    OBVIOUS
  <2>1. PICK y \in S : TRUE
    OBVIOUS
  <2>2. m \in Nat /\ m # 0 /\ m - 1 \in Nat
    BY <1>2, <2>1
  <2>3. \A z \in S : z \in Nat /\ z <= m /\ z # m
    BY <1>2
  <2>4. \A z \in S : z <= m - 1
    BY <2>2, <2>3
  <2>5. m - 1 \in T
    BY <2>2, <2>4
  <2> QED BY <1>2, <2>2, <2>5
<1>4. \A y \in S : m >= y /\ y \in Nat
  BY <1>2
<1>5. \E x \in S : \A y \in S : x >= y
  BY <1>3, <1>4
<1>6. LastOf(S) \in S /\ \A y \in S : LastOf(S) >= y
  BY <1>5 DEF LastOf
<1> QED BY <1>4, <1>6

LEMMA LastOfSegment ==
    ASSUME NEW k \in Nat, k # 0
    PROVE  1..k # {} /\ LastOf(1..k) = k /\ (1..k) \ {k} = 1..(k - 1)
<1>1. k \in 1..k
  OBVIOUS
<1>2. LastOf(1..k) \in 1..k /\ k <= LastOf(1..k)
  BY <1>1, LastExists
<1> QED BY <1>1, <1>2

\* Folds exist: upto every number of elements, and there are finitely many.
LEMMA FoldsExist ==
    ASSUME NEW p, NEW n \in Nat, NEW r, DOMAIN r = 1..n
    PROVE  \E h : Folds(h, p, r)
<1> DEFINE D == 1..n
           Upto(m) == \E h : \A S \in SUBSET D : Cardinality(S) <= m => h[S] = FoldStep(h, p, r, S)
           T == {m \in Nat : ~ Upto(m)}
<1>0. /\ IsFiniteSet(D)
      /\ \A S \in SUBSET D : /\ IsFiniteSet(S) /\ Cardinality(S) \in Nat
                             /\ Cardinality(S) <= Cardinality(D)
                             /\ Cardinality(S) = 0 => S = {}
  <2>1. IsFiniteSet(D)
    BY FS_Interval
  <2> QED BY <2>1, FS_Subset, FS_CardinalityType, FS_EmptySet
<1> HIDE DEF D, Upto
<1>1. Upto(0)
  <2> DEFINE h == [S \in SUBSET D |-> p]
  <2>1. ASSUME NEW S \in SUBSET D, Cardinality(S) <= 0 PROVE h[S] = FoldStep(h, p, r, S)
    <3>1. S = {}
      BY <1>0, <2>1
    <3> QED BY <3>1 DEF FoldStep
  <2> HIDE DEF h
  <2> QED BY <2>1 DEF Upto
<1>2. ASSUME NEW m \in Nat, Upto(m) PROVE Upto(m + 1)
  <2>1. PICK h : \A S \in SUBSET D : Cardinality(S) <= m => h[S] = FoldStep(h, p, r, S)
    BY <1>2 DEF Upto
  <2> DEFINE g == [S \in SUBSET D |-> FoldStep(h, p, r, S)]
  <2>2. ASSUME NEW S \in SUBSET D, Cardinality(S) <= m + 1 PROVE g[S] = FoldStep(g, p, r, S)
    <3>1. CASE S = {}
      BY <3>1 DEF FoldStep
    <3>2. CASE S # {}
      <4> DEFINE R == S \ {LastOf(S)}
      <4>1. LastOf(S) \in S
        BY <3>2, LastExists DEF D
      <4>2. R \in SUBSET D /\ Cardinality(R) = Cardinality(S) - 1
        BY <1>0, <4>1, FS_RemoveElement
      <4>3. Cardinality(R) <= m
        BY <1>0, <2>2, <4>2
      <4>4. h[R] = FoldStep(h, p, r, R)
        BY <2>1, <4>2, <4>3
      <4>5. g[R] = FoldStep(h, p, r, R) /\ g[S] = FoldStep(h, p, r, S)
        BY <4>2
      <4> HIDE DEF g
      <4> QED BY <3>2, <4>4, <4>5 DEF FoldStep
    <3> QED BY <3>1, <3>2
  <2> HIDE DEF g
  <2> QED BY <2>2 DEF Upto
<1>3. T = {}
  <2> SUFFICES ASSUME T # {} PROVE FALSE
    OBVIOUS
  <2>1. PICK m \in T : \A k \in T : m <= k
    BY Least
  <2>2. m \in Nat /\ m # 0 /\ ~ Upto(m)
    BY <1>1, <2>1
  <2>3. m - 1 \in Nat /\ ~ (m <= m - 1)
    BY <2>2
  <2>4. Upto(m - 1)
    BY <2>1, <2>3
  <2>5. Upto(m - 1 + 1)
    BY <1>2, <2>3, <2>4
  <2>6. m - 1 + 1 = m
    BY <2>2
  <2> QED BY <2>2, <2>5, <2>6
<1>4. Upto(Cardinality(D))
  <2>1. Cardinality(D) \in Nat
    BY <1>0
  <2> QED BY <1>3, <2>1
<1>5. PICK h : \A S \in SUBSET D : Cardinality(S) <= Cardinality(D) => h[S] = FoldStep(h, p, r, S)
  BY <1>4 DEF Upto
<1> DEFINE g == [S \in SUBSET D |-> FoldStep(h, p, r, S)]
<1>6. ASSUME NEW S \in SUBSET D PROVE g[S] = FoldStep(g, p, r, S)
  <2>1. CASE S = {}
    BY <2>1 DEF FoldStep
  <2>2. CASE S # {}
    <3> DEFINE R == S \ {LastOf(S)}
    <3>1. R \in SUBSET D
      OBVIOUS
    <3>2. h[R] = FoldStep(h, p, r, R)
      BY <1>0, <1>5, <3>1
    <3>3. g[R] = FoldStep(h, p, r, R) /\ g[S] = FoldStep(h, p, r, S)
      BY <3>1
    <3> HIDE DEF g
    <3> QED BY <2>2, <3>2, <3>3 DEF FoldStep
  <2> QED BY <2>1, <2>2
<1>7. g = [S \in SUBSET DOMAIN r |-> g[S]]
  BY DEF D
<1> HIDE DEF g
<1> QED BY <1>6, <1>7 DEF Folds, D

\* h holds the fold of the first k events, for every k up to n.
Unfolds(h, p, r, n) ==
    /\ h[1..0] = p
    /\ \A k \in 1..n : h[1..k] = P!ApplyEvent(h[1..(k - 1)], r[k])

LEMMA FoldOf ==
    ASSUME NEW p, NEW n \in Nat, NEW r, DOMAIN r = 1..n
    PROVE  \E h : Fold(p, r) = h[1..n] /\ Unfolds(h, p, r, n)
<1> DEFINE h == CHOOSE h : Folds(h, p, r)
<1>1. Folds(h, p, r)
  BY FoldsExist
<1>2. Fold(p, r) = h[1..n]
  BY DEF Fold
<1> HIDE DEF h
<1>3. \A S \in SUBSET (1..n) : h[S] = FoldStep(h, p, r, S)
  BY <1>1 DEF Folds
<1>4. h[1..0] = p
  <2>1. 1..0 = {} /\ 1..0 \in SUBSET (1..n)
    OBVIOUS
  <2> QED BY <1>3, <2>1 DEF FoldStep
<1>5. ASSUME NEW k \in 1..n PROVE h[1..k] = P!ApplyEvent(h[1..(k - 1)], r[k])
  <2>1. k \in Nat /\ k # 0 /\ 1..k \in SUBSET (1..n)
    OBVIOUS
  <2>2. 1..k # {} /\ LastOf(1..k) = k /\ (1..k) \ {k} = 1..(k - 1)
    BY <2>1, LastOfSegment
  <2>3. h[1..k] = FoldStep(h, p, r, 1..k)
    BY <1>3, <2>1
  <2> QED BY <2>2, <2>3 DEF FoldStep
<1> QED BY <1>2, <1>4, <1>5 DEF Unfolds

\* Two folds that start alike over logs that start alike.
LEMMA FoldsAgree ==
    ASSUME NEW p, NEW g, NEW h, NEW r, NEW q, NEW n \in Nat,
           Unfolds(g, p, r, n), Unfolds(h, p, q, n),
           \A k \in 1..n : r[k] = q[k]
    PROVE  \A k \in 0..n : g[1..k] = h[1..k]
<1> DEFINE T == {k \in 0..n : g[1..k] # h[1..k]}
<1> SUFFICES ASSUME T # {} PROVE FALSE
  OBVIOUS
<1>1. T \in SUBSET Nat
  OBVIOUS
<1>2. PICK k \in T : \A m \in T : k <= m
  BY <1>1, Least
<1>3. k \in 0..n /\ g[1..k] # h[1..k]
  BY <1>2
<1>4. k # 0
  BY <1>3 DEF Unfolds
<1>5. k \in 1..n /\ k - 1 \in 0..n /\ ~ (k <= k - 1)
  BY <1>3, <1>4
<1>6. g[1..(k - 1)] = h[1..(k - 1)]
  BY <1>2, <1>5
<1> QED BY <1>3, <1>5, <1>6 DEF Unfolds

LEMMA FoldEmpty ==
    ASSUME NEW p
    PROVE  Fold(p, <<>>) = p
<1>1. PICK n \in Nat : n = 0
  OBVIOUS
<1>2. DOMAIN <<>> = 1..n
  BY <1>1
<1>3. PICK h : Fold(p, <<>>) = h[1..n] /\ Unfolds(h, p, <<>>, n)
  BY <1>2, FoldOf
<1> QED BY <1>1, <1>3 DEF Unfolds

LEMMA FoldAppend ==
    ASSUME NEW p, NEW r \in Logs, NEW e \in Event
    PROVE  Fold(p, Append(r, e)) = P!ApplyEvent(Fold(p, r), e)
<1> DEFINE n == Len(r)
           q == Append(r, e)
<1>1. /\ n \in Nat /\ DOMAIN r = 1..n /\ n + 1 \in Nat /\ DOMAIN q = 1..(n + 1)
      /\ q[n + 1] = e /\ \A k \in 1..n : q[k] = r[k]
  BY DEF Logs
<1> HIDE DEF n, q
<1>2. PICK g : Fold(p, r) = g[1..n] /\ Unfolds(g, p, r, n)
  BY <1>1, FoldOf
<1>3. PICK h : Fold(p, q) = h[1..(n + 1)] /\ Unfolds(h, p, q, n + 1)
  BY <1>1, FoldOf
<1>4. Unfolds(h, p, q, n) /\ \A k \in 1..n : r[k] = q[k]
  BY <1>1, <1>3 DEF Unfolds
<1>5. \A k \in 0..n : g[1..k] = h[1..k]
  BY <1>1, <1>2, <1>4, FoldsAgree
<1>6. n \in 0..n /\ n + 1 \in 1..(n + 1) /\ n + 1 - 1 = n
  BY <1>1
<1>7. h[1..(n + 1)] = P!ApplyEvent(h[1..n], e)
  BY <1>1, <1>3, <1>6 DEF Unfolds
<1> QED BY <1>2, <1>3, <1>5, <1>6, <1>7 DEF q

\* The logs that operations write.
LEMMA FoldOne ==
    ASSUME NEW p, NEW e1 \in Event
    PROVE  Fold(p, <<e1>>) = P!ApplyEvent(p, e1)
<1>1. <<>> \in Logs /\ Append(<<>>, e1) = <<e1>>
  BY EmptyLogs
<1>2. Fold(p, <<e1>>) = P!ApplyEvent(Fold(p, <<>>), e1)
  BY <1>1, FoldAppend
<1> QED BY <1>2, FoldEmpty

LEMMA FoldTwo ==
    ASSUME NEW p, NEW e1 \in Event, NEW e2 \in Event
    PROVE  Fold(p, <<e1, e2>>) = P!ApplyEvent(P!ApplyEvent(p, e1), e2)
<1>1. PICK r \in Logs : r = <<e1>>
  BY LogsTypes
<1>2. Append(r, e2) = <<e1, e2>>
  <2>1. Append(r, e2) \in Seq(Event) /\ <<e1, e2>> \in Seq(Event)
    BY <1>1, LogsTypes DEF Logs
  <2>2. Len(Append(r, e2)) = 2 /\ Len(<<e1, e2>>) = 2
    BY <1>1 DEF Logs
  <2>3. Append(r, e2)[1] = e1 /\ Append(r, e2)[2] = e2
    BY <1>1 DEF Logs
  <2>4. ASSUME NEW i \in 1..2 PROVE Append(r, e2)[i] = <<e1, e2>>[i]
    <3>1. CASE i = 1
      BY <2>3, <3>1
    <3>2. CASE i = 2
      BY <2>3, <3>2
    <3>3. i = 1 \/ i = 2
      OBVIOUS
    <3> QED BY <3>1, <3>2, <3>3
  <2> QED BY <2>1, <2>2, <2>4, SeqEqual
<1>3. Fold(p, Append(r, e2)) = P!ApplyEvent(Fold(p, r), e2)
  BY FoldAppend
<1> QED BY <1>1, <1>2, <1>3, FoldOne

LEMMA FoldThree ==
    ASSUME NEW p, NEW e1 \in Event, NEW e2 \in Event, NEW e3 \in Event
    PROVE  Fold(p, <<e1, e2, e3>>) = P!ApplyEvent(P!ApplyEvent(P!ApplyEvent(p, e1), e2), e3)
<1>1. PICK r \in Logs : r = <<e1, e2>>
  BY LogsTypes
<1>2. Append(r, e3) = <<e1, e2, e3>>
  <2>1. Append(r, e3) \in Seq(Event) /\ <<e1, e2, e3>> \in Seq(Event)
    BY <1>1, LogsTypes DEF Logs
  <2>2. Len(Append(r, e3)) = 3 /\ Len(<<e1, e2, e3>>) = 3
    BY <1>1 DEF Logs
  <2>3. Append(r, e3)[1] = e1 /\ Append(r, e3)[2] = e2 /\ Append(r, e3)[3] = e3
    BY <1>1 DEF Logs
  <2>4. ASSUME NEW i \in 1..3 PROVE Append(r, e3)[i] = <<e1, e2, e3>>[i]
    <3>1. CASE i = 1
      BY <2>3, <3>1
    <3>2. CASE i = 2
      BY <2>3, <3>2
    <3>3. CASE i = 3
      BY <2>3, <3>3
    <3>4. i = 1 \/ i = 2 \/ i = 3
      OBVIOUS
    <3> QED BY <3>1, <3>2, <3>3, <3>4
  <2> QED BY <2>1, <2>2, <2>4, SeqEqual
<1>3. Fold(p, Append(r, e3)) = P!ApplyEvent(Fold(p, r), e3)
  BY FoldAppend
<1> QED BY <1>1, <1>2, <1>3, FoldTwo

LEMMA FoldOneMore ==
    ASSUME NEW p, NEW r \in Logs, NEW e \in Event
    PROVE  /\ Fold(p, r \o <<e>>) = P!ApplyEvent(Fold(p, r), e)
           /\ Fold(p, r \o <<>>) = Fold(p, r)
<1>1. r \o <<e>> = Append(r, e) /\ r \o <<>> = r
  BY DEF Logs
<1> QED BY <1>1, FoldAppend

-----------------------------------------------------------------------------
(* The tables that mirror a state of the contracts.                        *)

Tables(owners, rows, claimRows) ==
    [owners |-> owners, sales |-> rows, claims |-> claimRows, fault |-> "none"]

OwnerRows(owner, next) == [t \in TokenIds |-> IF t < next THEN owner[t] ELSE NoRow]

RowOf(sale) ==
    [tokenId |-> sale.tokenId, seller |-> sale.seller, allowedBuyer |-> sale.allowedBuyer,
     buyer |-> IF sale.buyer = Nobody THEN NoRow ELSE sale.buyer, priceWei |-> sale.priceWei,
     expiresAt |-> IF sale.expiresAt = 0 THEN NoRow ELSE sale.expiresAt,
     status |-> sale.status, tokenReclaimed |-> sale.tokenReclaimed]

BookRows(book, count) == [s \in SaleIds |-> IF s > count THEN NoRow ELSE RowOf(book[s])]

\* A claim row and the claim that the contract stores, which has no recipient.
SameClaim(row, claim) ==
    IF claim.status = "NONE" THEN row = NoRow
    ELSE /\ row \in ClaimRows
         /\ claim = [beneficiary |-> row.beneficiary, amountWei |-> row.amountWei,
                     kind |-> row.kind, status |-> row.status]

SameClaims(claimRows, owed) ==
    /\ claimRows = [s \in SaleIds |-> claimRows[s]]
    /\ \A s \in SaleIds : SameClaim(claimRows[s], owed[s])

Mirrors(p, owner, next, book, count, owed) ==
    /\ p = Tables(OwnerRows(owner, next), BookRows(book, count), p.claims)
    /\ SameClaims(p.claims, owed)

\* What the closing event of an open frame has still to tell, and what the
\* transaction did to the records of its sale.
Frames(op, closing, oldBook, oldOwed, book, owed) == \E s \in SaleIds :
    \/ /\ op = "complete" /\ closing = <<>>
       /\ oldBook[s].status = "FUNDED"
       /\ book = [oldBook EXCEPT ![s] = [oldBook[s] EXCEPT !.status = "COMPLETED"]]
    \/ /\ op = "withdraw"
       /\ oldOwed[s].status = "CLAIMABLE"
       /\ book = oldBook
       /\ owed = [oldOwed EXCEPT ![s] = [oldOwed[s] EXCEPT !.status = "WITHDRAWN"]]
       /\ \E e \in Event : e.kind = "PaymentWithdrawn" /\ e.saleId = s /\ closing = <<e>>
    \/ /\ op = "reclaim"
       /\ oldBook[s].status \in {"CANCELLED", "EXPIRED"}
       /\ book = [oldBook EXCEPT ![s] = [oldBook[s] EXCEPT !.tokenReclaimed = TRUE]]
       /\ owed = oldOwed
       /\ \E e \in Event : e.kind = "TokenReclaimed" /\ e.saleId = s /\ closing = <<e>>

\* The records that the logs of an open frame tell so far.
ToldBook == IF call.op = "complete" THEN sales ELSE call.saved.sales
ToldOwed == IF call.op = "complete" THEN claims ELSE call.saved.claims

\* A funding and the sale it was for.
Bears(book, e) ==
    /\ e.saleId \in SaleIds
    /\ book[e.saleId].status \in {"FUNDED", "COMPLETED", "EXPIRED"}
    /\ book[e.saleId].expiresAt # 0
    /\ SameFunding(book[e.saleId], e)

\* A sequence of events without one of a kind.
Lacks(events, kind) == \A i \in 1..Len(events) : events[i].kind # kind

LEMMA ConcatLacks ==
    ASSUME NEW r1 \in Logs, NEW r2 \in Logs, NEW kind, Lacks(r1, kind), Lacks(r2, kind)
    PROVE  Lacks(r1 \o r2, kind)
<1>1. Len(r1) \in Nat /\ Len(r2) \in Nat /\ Len(r1 \o r2) = Len(r1) + Len(r2)
  BY DEF Logs
<1>2. ASSUME NEW i \in 1..Len(r1 \o r2) PROVE (r1 \o r2)[i].kind # kind
  <2>1. CASE i <= Len(r1)
    <3>1. (r1 \o r2)[i] = r1[i] /\ i \in 1..Len(r1)
      BY <1>1, <2>1 DEF Logs
    <3> QED BY <3>1 DEF Lacks
  <2>2. CASE i > Len(r1)
    <3>1. (r1 \o r2)[i] = r2[i - Len(r1)] /\ i - Len(r1) \in 1..Len(r2)
      BY <1>1, <2>2 DEF Logs
    <3> QED BY <3>1 DEF Lacks
  <2> QED BY <1>1, <2>1, <2>2
<1> QED BY <1>2 DEF Lacks

LEMMA ShortLacks ==
    ASSUME NEW e1, NEW e2, NEW e3, NEW kind, e1.kind # kind, e2.kind # kind, e3.kind # kind
    PROVE  /\ Lacks(<<>>, kind) /\ Lacks(<<e1>>, kind) /\ Lacks(<<e1, e2>>, kind)
           /\ Lacks(<<e1, e2, e3>>, kind)
  BY DEF Lacks

ReadModel ==
    /\ Mirrors(projection, Committed.ownerOf, nextTokenId, Committed.sales,
               Committed.saleCount, Committed.claims)
    /\ \A e \in fundings : Bears(Committed.sales, e)
    /\ call # NoCall =>
          /\ saleCount = call.saved.saleCount
          /\ Frames(call.op, call.closing, call.saved.sales, call.saved.claims, sales, claims)
          /\ Mirrors(Fold(projection, emitted), ownerOf, nextTokenId, ToldBook, saleCount,
                     ToldOwed)
          /\ Lacks(emitted, "SaleFunded")

-----------------------------------------------------------------------------
(* What each event does to the tables.                                     *)

LEMMA ApplyTransfer ==
    ASSUME NEW o, NEW b, NEW c, NEW e, e.kind = "Transfer"
    PROVE  P!ApplyEvent(Tables(o, b, c), e) = Tables([o EXCEPT ![e.tokenId] = e.to], b, c)
  BY DEF P!ApplyEvent, Tables

LEMMA ApplyToRows ==
    ASSUME NEW o, NEW b, NEW c, NEW e, e.kind # "Transfer", NEW row, NEW claimRow,
           P!PaymentFault(c[e.saleId], e) = "none", P!SaleFault(b[e.saleId], e) = "none",
           P!ProjectSale(b[e.saleId], e) = row, P!ProjectPayment(c[e.saleId], e) = claimRow
    PROVE  P!ApplyEvent(Tables(o, b, c), e)
             = Tables(o, [b EXCEPT ![e.saleId] = row], [c EXCEPT ![e.saleId] = claimRow])
<1> DEFINE p == Tables(o, b, c)
           s == e.saleId
<1>1. p.fault = "none" /\ p.sales = b /\ p.claims = c
  BY DEF Tables
<1>2. P!ApplyEvent(p, e) = [p EXCEPT !.claims[s] = claimRow, !.sales[s] = row]
  BY <1>1 DEF P!ApplyEvent
<1>3. [p EXCEPT !.claims[s] = claimRow, !.sales[s] = row]
        = Tables(o, [b EXCEPT ![s] = row], [c EXCEPT ![s] = claimRow])
  <2>1. [p EXCEPT !.claims[s] = claimRow] = Tables(o, b, [c EXCEPT ![s] = claimRow])
    BY DEF Tables
  <2>2. \A d : [Tables(o, b, d) EXCEPT !.sales[s] = row] = Tables(o, [b EXCEPT ![s] = row], d)
    BY DEF Tables
  <2>3. [p EXCEPT !.claims[s] = claimRow, !.sales[s] = row]
          = [[p EXCEPT !.claims[s] = claimRow] EXCEPT !.sales[s] = row]
    BY DEF Tables
  <2> QED BY <2>1, <2>2, <2>3
<1> QED BY <1>2, <1>3

LEMMA BookRewritten ==
    ASSUME NEW book, book = [r \in SaleIds |-> book[r]], NEW count, NEW s \in SaleIds, NEW sale,
           ~ (s > count)
    PROVE  /\ BookRows(book, count)[s] = RowOf(book[s])
           /\ [BookRows(book, count) EXCEPT ![s] = RowOf(sale)]
                = BookRows([book EXCEPT ![s] = sale], count)
<1> DEFINE new == [book EXCEPT ![s] = sale]
<1>1. \A r \in SaleIds : new[r] = IF r = s THEN sale ELSE book[r]
  OBVIOUS
<1> HIDE DEF new
<1>2. BookRows(new, count) = [r \in SaleIds |-> IF r = s THEN RowOf(sale)
                                                ELSE BookRows(book, count)[r]]
  BY <1>1 DEF BookRows
<1> QED BY <1>2 DEF BookRows, new

LEMMA ClaimsKept ==
    ASSUME NEW c, NEW owed, SameClaims(c, owed), NEW s \in SaleIds
    PROVE  [c EXCEPT ![s] = c[s]] = c
<1>1. c = [r \in SaleIds |-> c[r]]
  BY DEF SameClaims
<1> HIDE DEF SameClaims
<1> QED BY <1>1

LEMMA ClaimsRewritten ==
    ASSUME NEW c, NEW owed, owed = [r \in SaleIds |-> owed[r]], SameClaims(c, owed),
           NEW s \in SaleIds, NEW row, NEW claim, SameClaim(row, claim)
    PROVE  SameClaims([c EXCEPT ![s] = row], [owed EXCEPT ![s] = claim])
<1> DEFINE rows == [c EXCEPT ![s] = row]
           new == [owed EXCEPT ![s] = claim]
<1>1. c = [r \in SaleIds |-> c[r]] /\ \A r \in SaleIds : SameClaim(c[r], owed[r])
  BY DEF SameClaims
<1>2. \A r \in SaleIds : new[r] = IF r = s THEN claim ELSE owed[r]
  OBVIOUS
<1>3. /\ rows = [r \in SaleIds |-> rows[r]]
      /\ \A r \in SaleIds : rows[r] = IF r = s THEN row ELSE c[r]
  BY <1>1
<1> HIDE DEF rows, new
<1>4. \A r \in SaleIds : SameClaim(rows[r], new[r])
  BY <1>1, <1>2, <1>3
<1> QED BY <1>3, <1>4 DEF SameClaims, rows, new

LEMMA MirrorParts ==
    ASSUME NEW p, NEW owner, NEW next, NEW book, NEW count, NEW owed
    PROVE  Mirrors(p, owner, next, book, count, owed)
             <=> \E c : /\ p = Tables(OwnerRows(owner, next), BookRows(book, count), c)
                        /\ SameClaims(c, owed)
  BY DEF Mirrors, Tables

LEMMA TransferMirrored ==
    ASSUME NEW p, NEW owner, NEW next, NEW book, NEW count, NEW owed,
           Mirrors(p, owner, next, book, count, owed),
           NEW e \in Event, e.kind = "Transfer", NEW t \in TokenIds, NEW to \in Holders,
           e.tokenId = t, e.to = to,
           NEW after, after = [owner EXCEPT ![t] = to], owner = [u \in TokenIds |-> owner[u]],
           NEW next2, NEW n \in Nat, next = n,
           (t < n /\ next2 = n) \/ (t = n /\ next2 = n + 1)
    PROVE  Mirrors(P!ApplyEvent(p, e), after, next2, book, count, owed)
<1>1. PICK c : p = Tables(OwnerRows(owner, next), BookRows(book, count), c)
               /\ SameClaims(c, owed)
  BY MirrorParts
<1>2. P!ApplyEvent(p, e) = Tables([OwnerRows(owner, next) EXCEPT ![t] = to],
                                  BookRows(book, count), c)
  BY <1>1, ApplyTransfer
<1>3. [OwnerRows(owner, next) EXCEPT ![t] = to] = OwnerRows(after, next2)
  <2>1. \A u \in TokenIds : after[u] = IF u = t THEN to ELSE owner[u]
    OBVIOUS
  <2>2. \A u \in TokenIds : u < next2 <=> (u < n \/ u = t)
    <3>1. TokenIds \subseteq Nat
      BY DEF TokenIds
    <3> QED BY <3>1
  <2>3. OwnerRows(after, next2) = [u \in TokenIds |-> IF u = t THEN to
                                                      ELSE OwnerRows(owner, next)[u]]
    BY <2>1, <2>2 DEF OwnerRows
  <2> QED BY <2>3 DEF OwnerRows
<1> QED BY <1>1, <1>2, <1>3, MirrorParts

LEMMA RowIs ==
    ASSUME NEW sale \in Sale, sale.status # "NONE"
    PROVE  /\ RowOf(sale) \in SaleRows /\ RowOf(sale) # NoRow
           /\ RowOf(sale).status = sale.status
           /\ RowOf(sale).allowedBuyer = sale.allowedBuyer
<1>1. sale \in OpenSale \/ sale \in PaidSale
  BY DEF Sale, NoSale
<1>2. CASE sale \in OpenSale
  <2>1. sale.buyer = Nobody /\ sale.expiresAt = 0
    BY <1>2 DEF OpenSale
  <2>2. /\ sale.tokenId \in TokenIds /\ sale.seller \in Users /\ sale.allowedBuyer \in Users
        /\ sale.priceWei \in Prices /\ sale.status \in {"LISTED", "CANCELLED"}
        /\ sale.tokenReclaimed \in BOOLEAN
    BY <1>2 DEF OpenSale
  <2>3. RowOf(sale) \in SaleRows
    BY <2>1, <2>2 DEF RowOf, SaleRows
  <2> QED BY <2>3, NoRowAssumption DEF RowOf
<1>3. CASE sale \in PaidSale
  <2>1. sale.buyer \in Users /\ sale.buyer # Nobody /\ sale.expiresAt \in Nat
    BY <1>3 DEF PaidSale
  <2>2. /\ sale.tokenId \in TokenIds /\ sale.seller \in Users /\ sale.allowedBuyer \in Users
        /\ sale.priceWei \in Prices /\ sale.status \in {"FUNDED", "COMPLETED", "EXPIRED"}
        /\ sale.tokenReclaimed \in BOOLEAN
    BY <1>3 DEF PaidSale
  <2>3. RowOf(sale) \in SaleRows
    BY <2>1, <2>2 DEF RowOf, SaleRows
  <2> QED BY <2>3, NoRowAssumption DEF RowOf
<1> QED BY <1>1, <1>2, <1>3

\* A sale event that every projector of claims ignores.
LEMMA SaleMirrored ==
    ASSUME NEW p, NEW owner, NEW next, NEW book, NEW count, NEW owed,
           Mirrors(p, owner, next, book, count, owed), book = [r \in SaleIds |-> book[r]],
           NEW e, e.kind \notin {"Transfer", "PaymentClaimCreated", "PaymentWithdrawn"},
           NEW s \in SaleIds, e.saleId = s, ~ (s > count), NEW sale,
           P!SaleFault(RowOf(book[s]), e) = "none",
           P!ProjectSale(RowOf(book[s]), e) = RowOf(sale)
    PROVE  Mirrors(P!ApplyEvent(p, e), owner, next, [book EXCEPT ![s] = sale], count, owed)
<1>1. PICK c : p = Tables(OwnerRows(owner, next), BookRows(book, count), c)
               /\ SameClaims(c, owed)
  BY MirrorParts
<1>2. BookRows(book, count)[s] = RowOf(book[s])
  BY DEF BookRows
<1>3. P!PaymentFault(c[s], e) = "none" /\ P!ProjectPayment(c[s], e) = c[s]
  BY DEF P!PaymentFault, P!ProjectPayment
<1>4. P!ApplyEvent(p, e)
        = Tables(OwnerRows(owner, next), [BookRows(book, count) EXCEPT ![s] = RowOf(sale)],
                 [c EXCEPT ![s] = c[s]])
  BY <1>1, <1>2, <1>3, ApplyToRows
<1>5. [c EXCEPT ![s] = c[s]] = c
  BY <1>1, ClaimsKept
<1>6. [BookRows(book, count) EXCEPT ![s] = RowOf(sale)]
        = BookRows([book EXCEPT ![s] = sale], count)
  BY BookRewritten
<1> QED BY <1>1, <1>4, <1>5, <1>6, MirrorParts

LEMMA CreatedMirrored ==
    ASSUME NEW p, NEW owner, NEW next, NEW book, NEW count \in Nat, NEW owed,
           Mirrors(p, owner, next, book, count, owed), book = [r \in SaleIds |-> book[r]],
           NEW s \in SaleIds, s = count + 1,
           NEW t \in TokenIds, NEW a \in Users, NEW b \in Users, NEW price \in Prices,
           NEW e, e = [kind |-> "SaleCreated", saleId |-> s, tokenId |-> t, seller |-> a,
                       allowedBuyer |-> b, priceWei |-> price],
           NEW new, new = [NoSale EXCEPT !.tokenId = t, !.seller = a, !.allowedBuyer = b,
                                         !.priceWei = price, !.status = "LISTED"]
    PROVE  Mirrors(P!ApplyEvent(p, e), owner, next, [book EXCEPT ![s] = new], s, owed)
<1>1. PICK c : p = Tables(OwnerRows(owner, next), BookRows(book, count), c)
               /\ SameClaims(c, owed)
  BY MirrorParts
<1>2. e.kind = "SaleCreated" /\ e.saleId = s
  OBVIOUS
<1>3. BookRows(book, count)[s] = NoRow
  BY DEF BookRows, SaleIds
<1>4. P!PaymentFault(c[s], e) = "none" /\ P!ProjectPayment(c[s], e) = c[s]
  BY <1>2 DEF P!PaymentFault, P!ProjectPayment
<1>5. P!SaleFault(NoRow, e) = "none"
  BY <1>2 DEF P!SaleFault
<1>6. P!ProjectSale(NoRow, e) = RowOf(new)
  BY <1>2 DEF P!ProjectSale, RowOf, NoSale
<1>7. P!ApplyEvent(p, e)
        = Tables(OwnerRows(owner, next), [BookRows(book, count) EXCEPT ![s] = RowOf(new)],
                 [c EXCEPT ![s] = c[s]])
  BY <1>1, <1>2, <1>3, <1>4, <1>5, <1>6, ApplyToRows
<1>8. [c EXCEPT ![s] = c[s]] = c
  BY <1>1, ClaimsKept
<1>9. [BookRows(book, count) EXCEPT ![s] = RowOf(new)] = BookRows([book EXCEPT ![s] = new], s)
  <2>1. \A r \in SaleIds : (r > s) <=> (r > count /\ r # s)
    <3>1. SaleIds \subseteq Nat
      BY DEF SaleIds
    <3> QED BY <3>1
  <2>2. \A r \in SaleIds : [book EXCEPT ![s] = new][r] = IF r = s THEN new ELSE book[r]
    OBVIOUS
  <2>3. BookRows([book EXCEPT ![s] = new], s)
          = [r \in SaleIds |-> IF r = s THEN RowOf(new) ELSE BookRows(book, count)[r]]
    BY <2>1, <2>2 DEF BookRows
  <2> QED BY <2>3 DEF BookRows
<1> QED BY <1>1, <1>7, <1>8, <1>9, MirrorParts

LEMMA RowShape ==
    ASSUME NEW sale, NEW row, row = RowOf(sale)
    PROVE  row = [tokenId |-> sale.tokenId, seller |-> sale.seller,
                  allowedBuyer |-> sale.allowedBuyer, buyer |-> row.buyer,
                  priceWei |-> sale.priceWei, expiresAt |-> row.expiresAt,
                  status |-> sale.status, tokenReclaimed |-> sale.tokenReclaimed]
<1>1. PICK rb, rx :
        row = [tokenId |-> sale.tokenId, seller |-> sale.seller,
               allowedBuyer |-> sale.allowedBuyer, buyer |-> rb,
               priceWei |-> sale.priceWei, expiresAt |-> rx,
               status |-> sale.status, tokenReclaimed |-> sale.tokenReclaimed]
  BY DEF RowOf
<1>2. row.buyer = rb /\ row.expiresAt = rx
  BY <1>1
<1> QED BY <1>1, <1>2

LEMMA FundedRow ==
    ASSUME NEW sale \in Sale, sale.status = "LISTED", NEW e, e.kind = "SaleFunded",
           e.buyer \in Users, e.expiresAt \in Nat \ {0}, e.buyer = sale.allowedBuyer
    PROVE  /\ P!SaleFault(RowOf(sale), e) = "none"
           /\ P!ProjectSale(RowOf(sale), e)
                = RowOf([sale EXCEPT !.buyer = e.buyer, !.expiresAt = e.expiresAt,
                                     !.status = "FUNDED"])
<1>1. /\ RowOf(sale) # NoRow /\ RowOf(sale).status = "LISTED"
      /\ RowOf(sale).allowedBuyer = e.buyer
  BY RowIs
<1>2. P!SaleFault(RowOf(sale), e) = "none"
  BY <1>1 DEF P!SaleFault, P!Before
<1>3. e.buyer # Nobody /\ e.expiresAt # 0
  BY Numbers
<1>4. sale \in OpenSale
  BY DEF Sale, NoSale, PaidSale
<1>5. P!ProjectSale(RowOf(sale), e)
        = [RowOf(sale) EXCEPT !.buyer = e.buyer, !.expiresAt = e.expiresAt, !.status = "FUNDED"]
  BY DEF P!ProjectSale
<1>6. RowOf([sale EXCEPT !.buyer = e.buyer, !.expiresAt = e.expiresAt, !.status = "FUNDED"])
        = [RowOf(sale) EXCEPT !.buyer = e.buyer, !.expiresAt = e.expiresAt, !.status = "FUNDED"]
  <2>1. PICK new : new = [sale EXCEPT !.buyer = e.buyer, !.expiresAt = e.expiresAt,
                                      !.status = "FUNDED"]
    OBVIOUS
  <2>2. /\ new.tokenId = sale.tokenId /\ new.seller = sale.seller
        /\ new.allowedBuyer = sale.allowedBuyer /\ new.priceWei = sale.priceWei
        /\ new.tokenReclaimed = sale.tokenReclaimed
        /\ new.buyer = e.buyer /\ new.expiresAt = e.expiresAt /\ new.status = "FUNDED"
    BY <1>4, <2>1 DEF OpenSale
  <2>3. RowOf(new) = [tokenId |-> sale.tokenId, seller |-> sale.seller,
                      allowedBuyer |-> sale.allowedBuyer, buyer |-> e.buyer,
                      priceWei |-> sale.priceWei, expiresAt |-> e.expiresAt,
                      status |-> "FUNDED", tokenReclaimed |-> sale.tokenReclaimed]
    BY <1>3, <2>2 DEF RowOf
  <2>4. PICK row, b2, x2, s2 :
          row = RowOf(sale) /\ b2 = e.buyer /\ x2 = e.expiresAt /\ s2 = "FUNDED"
    OBVIOUS
  <2>5. PICK t, a, c, p, g, b, x, s :
          /\ row = [tokenId |-> t, seller |-> a, allowedBuyer |-> c, buyer |-> b, priceWei |-> p,
                    expiresAt |-> x, status |-> s, tokenReclaimed |-> g]
          /\ t = sale.tokenId /\ a = sale.seller /\ c = sale.allowedBuyer /\ p = sale.priceWei
          /\ g = sale.tokenReclaimed
    BY <2>4, RowShape
  <2>6. PICK r1 : r1 = [tokenId |-> t, seller |-> a, allowedBuyer |-> c, buyer |-> b2,
                        priceWei |-> p, expiresAt |-> x, status |-> s, tokenReclaimed |-> g]
    OBVIOUS
  <2>7. PICK r2 : r2 = [tokenId |-> t, seller |-> a, allowedBuyer |-> c, buyer |-> b2,
                        priceWei |-> p, expiresAt |-> x2, status |-> s, tokenReclaimed |-> g]
    OBVIOUS
  <2>8. [row EXCEPT !.buyer = b2] = r1
    BY ONLY <2>5, <2>6
  <2>9. [r1 EXCEPT !.expiresAt = x2] = r2
    BY ONLY <2>6, <2>7
  <2>10. [r2 EXCEPT !.status = s2]
          = [tokenId |-> t, seller |-> a, allowedBuyer |-> c, buyer |-> b2, priceWei |-> p,
             expiresAt |-> x2, status |-> s2, tokenReclaimed |-> g]
    BY ONLY <2>7
  <2>11. [row EXCEPT !.buyer = b2, !.expiresAt = x2, !.status = s2]
          = [[[row EXCEPT !.buyer = b2] EXCEPT !.expiresAt = x2] EXCEPT !.status = s2]
    BY ONLY <2>5
  <2>12. [row EXCEPT !.buyer = b2, !.expiresAt = x2, !.status = s2]
          = [tokenId |-> t, seller |-> a, allowedBuyer |-> c, buyer |-> b2, priceWei |-> p,
             expiresAt |-> x2, status |-> s2, tokenReclaimed |-> g]
    BY ONLY <2>8, <2>9, <2>10, <2>11
  <2> QED BY <2>1, <2>3, <2>4, <2>5, <2>12
<1> QED BY <1>2, <1>5, <1>6

LEMMA RowWithStatus ==
    ASSUME NEW sale \in Sale, NEW st
    PROVE  RowOf([sale EXCEPT !.status = st]) = [RowOf(sale) EXCEPT !.status = st]
<1>1. CASE sale \in OpenSale
  BY <1>1 DEF RowOf, OpenSale
<1>2. CASE sale \in PaidSale
  BY <1>2 DEF RowOf, PaidSale
<1>3. CASE sale = NoSale
  <2>1. PICK new : new = [sale EXCEPT !.status = st]
    OBVIOUS
  <2>2. /\ new.tokenId = sale.tokenId /\ new.seller = sale.seller
        /\ new.allowedBuyer = sale.allowedBuyer /\ new.priceWei = sale.priceWei
        /\ new.tokenReclaimed = sale.tokenReclaimed
        /\ new.buyer = sale.buyer /\ new.expiresAt = sale.expiresAt /\ new.status = st
    BY <1>3, <2>1 DEF NoSale
  <2>3. RowOf(new) = [RowOf(sale) EXCEPT !.status = st]
    BY <2>2 DEF RowOf
  <2> QED BY <2>1, <2>3
<1> QED BY <1>1, <1>2, <1>3 DEF Sale

LEMMA StatusRow ==
    ASSUME NEW sale \in Sale, NEW e, NEW st,
           \/ e.kind = "SaleCompleted" /\ sale.status = "FUNDED" /\ st = "COMPLETED"
           \/ e.kind = "SaleCancelled" /\ sale.status = "LISTED" /\ st = "CANCELLED"
           \/ e.kind = "SaleExpired" /\ sale.status = "FUNDED" /\ st = "EXPIRED"
    PROVE  /\ P!SaleFault(RowOf(sale), e) = "none"
           /\ P!ProjectSale(RowOf(sale), e) = RowOf([sale EXCEPT !.status = st])
<1>1. RowOf(sale) # NoRow /\ RowOf(sale).status = sale.status
  BY RowIs
<1>2. P!SaleFault(RowOf(sale), e) = "none"
  BY <1>1 DEF P!SaleFault, P!Before
<1>3. P!ProjectSale(RowOf(sale), e) = [RowOf(sale) EXCEPT !.status = st]
  BY DEF P!ProjectSale
<1> QED BY <1>2, <1>3, RowWithStatus

LEMMA ReclaimedRow ==
    ASSUME NEW sale \in Sale, NEW e, e.kind = "TokenReclaimed",
           sale.status \in {"CANCELLED", "EXPIRED"}
    PROVE  /\ P!SaleFault(RowOf(sale), e) = "none"
           /\ P!ProjectSale(RowOf(sale), e) = RowOf([sale EXCEPT !.tokenReclaimed = TRUE])
<1>1. RowOf(sale) # NoRow /\ RowOf(sale).status = sale.status
  BY RowIs
<1>2. P!SaleFault(RowOf(sale), e) = "none"
  BY <1>1 DEF P!SaleFault, P!Before
<1>3. P!ProjectSale(RowOf(sale), e) = [RowOf(sale) EXCEPT !.tokenReclaimed = TRUE]
  BY DEF P!ProjectSale
<1>4. RowOf([sale EXCEPT !.tokenReclaimed = TRUE]) = [RowOf(sale) EXCEPT !.tokenReclaimed = TRUE]
  <2> PICK flag : flag = TRUE
    OBVIOUS
  <2>1. PICK new : new = [sale EXCEPT !.tokenReclaimed = flag]
    OBVIOUS
  <2>2. sale \in OpenSale \/ sale \in PaidSale
    BY DEF Sale, NoSale
  <2>3. /\ new.tokenId = sale.tokenId /\ new.seller = sale.seller
        /\ new.allowedBuyer = sale.allowedBuyer /\ new.priceWei = sale.priceWei
        /\ new.buyer = sale.buyer /\ new.expiresAt = sale.expiresAt
        /\ new.status = sale.status /\ new.tokenReclaimed = flag
    BY <2>1, <2>2 DEF OpenSale, PaidSale
  <2>4. RowOf(new) = [tokenId |-> sale.tokenId, seller |-> sale.seller,
                      allowedBuyer |-> sale.allowedBuyer, buyer |-> RowOf(sale).buyer,
                      priceWei |-> sale.priceWei, expiresAt |-> RowOf(sale).expiresAt,
                      status |-> sale.status, tokenReclaimed |-> flag]
    BY <2>3 DEF RowOf
  <2>5. [RowOf(sale) EXCEPT !.tokenReclaimed = flag]
          = [tokenId |-> sale.tokenId, seller |-> sale.seller,
             allowedBuyer |-> sale.allowedBuyer, buyer |-> RowOf(sale).buyer,
             priceWei |-> sale.priceWei, expiresAt |-> RowOf(sale).expiresAt,
             status |-> sale.status, tokenReclaimed |-> flag]
    <3>1. PICK row : row = RowOf(sale)
      OBVIOUS
    <3>2. row = [tokenId |-> sale.tokenId, seller |-> sale.seller,
                 allowedBuyer |-> sale.allowedBuyer, buyer |-> row.buyer,
                 priceWei |-> sale.priceWei, expiresAt |-> row.expiresAt,
                 status |-> sale.status, tokenReclaimed |-> sale.tokenReclaimed]
      BY <3>1, RowShape
    <3>3. [row EXCEPT !.tokenReclaimed = flag]
            = [tokenId |-> sale.tokenId, seller |-> sale.seller,
               allowedBuyer |-> sale.allowedBuyer, buyer |-> row.buyer,
               priceWei |-> sale.priceWei, expiresAt |-> row.expiresAt,
               status |-> sale.status, tokenReclaimed |-> flag]
      BY ONLY <3>2
    <3> QED BY <3>1, <3>3
  <2> QED BY <2>1, <2>4, <2>5
<1> QED BY <1>2, <1>3, <1>4

\* An event that turns the row of one claim into the row of another.
Records(e, old, new) == \A row : SameClaim(row, old) =>
    P!PaymentFault(row, e) = "none" /\ SameClaim(P!ProjectPayment(row, e), new)

\* An event about the payment of a sale, which the projector of sales ignores.
LEMMA PaymentMirrored ==
    ASSUME NEW p, NEW owner, NEW next, NEW book, NEW count, NEW owed,
           Mirrors(p, owner, next, book, count, owed), owed = [r \in SaleIds |-> owed[r]],
           NEW e, e.kind \in {"PaymentClaimCreated", "PaymentWithdrawn"},
           NEW s \in SaleIds, e.saleId = s, NEW claim,
           Records(e, owed[s], claim)
    PROVE  Mirrors(P!ApplyEvent(p, e), owner, next, book, count, [owed EXCEPT ![s] = claim])
<1>1. PICK c : p = Tables(OwnerRows(owner, next), BookRows(book, count), c)
               /\ SameClaims(c, owed)
  BY MirrorParts
<1>2. SameClaim(c[s], owed[s])
  BY <1>1 DEF SameClaims
<1> DEFINE b == BookRows(book, count)
           row == P!ProjectPayment(c[s], e)
<1>3. P!SaleFault(b[s], e) = "none" /\ P!ProjectSale(b[s], e) = b[s]
  BY DEF P!SaleFault, P!ProjectSale, P!Before
<1>4. P!PaymentFault(c[s], e) = "none" /\ SameClaim(row, claim)
  BY <1>2 DEF Records
<1>5. P!ApplyEvent(p, e)
        = Tables(OwnerRows(owner, next), [b EXCEPT ![s] = b[s]], [c EXCEPT ![s] = row])
  BY <1>1, <1>3, <1>4, ApplyToRows
<1>6. [b EXCEPT ![s] = b[s]] = b
  BY DEF BookRows
<1>7. SameClaims([c EXCEPT ![s] = row], [owed EXCEPT ![s] = claim])
  BY <1>1, <1>4, ClaimsRewritten
<1> QED BY <1>5, <1>6, <1>7, MirrorParts

LEMMA ClaimCreatedRow ==
    ASSUME NEW a \in Users, NEW v \in Prices, NEW k \in ClaimKinds,
           NEW e, e.kind = "PaymentClaimCreated",
           e.beneficiary = a, e.amountWei = v, e.claimKind = k
    PROVE  Records(e, NoClaim,
                   [beneficiary |-> a, amountWei |-> v, kind |-> k, status |-> "CLAIMABLE"])
<1> DEFINE new == [beneficiary |-> a, amountWei |-> v, kind |-> k, status |-> "CLAIMABLE"]
<1> SUFFICES ASSUME NEW row, SameClaim(row, NoClaim)
             PROVE  P!PaymentFault(row, e) = "none" /\ SameClaim(P!ProjectPayment(row, e), new)
  BY DEF Records
<1>1. row = NoRow
  BY DEF SameClaim, NoClaim
<1>2. P!PaymentFault(row, e) = "none"
  BY <1>1 DEF P!PaymentFault
<1>3. P!ProjectPayment(row, e) = [beneficiary |-> a, amountWei |-> v, kind |-> k,
                                  status |-> "CLAIMABLE", recipient |-> NoRow]
  BY DEF P!ProjectPayment
<1>4. P!ProjectPayment(row, e) \in ClaimRows
  BY <1>3 DEF ClaimRows
<1> QED BY <1>2, <1>3, <1>4 DEF SameClaim

LEMMA WithdrawnRow ==
    ASSUME NEW claim \in Claim, claim.status = "CLAIMABLE",
           NEW e \in Event, e.kind = "PaymentWithdrawn"
    PROVE  Records(e, claim, [claim EXCEPT !.status = "WITHDRAWN"])
<1> SUFFICES ASSUME NEW row, SameClaim(row, claim)
             PROVE  /\ P!PaymentFault(row, e) = "none"
                    /\ SameClaim(P!ProjectPayment(row, e), [claim EXCEPT !.status = "WITHDRAWN"])
  BY DEF Records
<1>1. /\ row \in ClaimRows /\ row # NoRow
      /\ claim = [beneficiary |-> row.beneficiary, amountWei |-> row.amountWei,
                  kind |-> row.kind, status |-> row.status]
  BY NoRowAssumption DEF SameClaim
<1>2. row.status = "CLAIMABLE"
  BY <1>1
<1>3. P!PaymentFault(row, e) = "none"
  BY <1>1, <1>2 DEF P!PaymentFault
<1>4. e.recipient \in Users
  BY DEF Event
<1>5. PICK st : st = "WITHDRAWN"
  OBVIOUS
<1>6. PICK new : new = [row EXCEPT !.status = st, !.recipient = e.recipient]
  OBVIOUS
<1>7. P!ProjectPayment(row, e) = new
  BY <1>5, <1>6 DEF P!ProjectPayment
<1>8. /\ new \in ClaimRows /\ new.status = st /\ new.beneficiary = row.beneficiary
      /\ new.amountWei = row.amountWei /\ new.kind = row.kind
  BY <1>1, <1>4, <1>5, <1>6 DEF ClaimRows
<1>9. [claim EXCEPT !.status = st]
        = [beneficiary |-> row.beneficiary, amountWei |-> row.amountWei,
           kind |-> row.kind, status |-> st]
  BY <1>1
<1>10. [claim EXCEPT !.status = st].status # "NONE"
  BY <1>5, <1>9
<1>11. [claim EXCEPT !.status = st]
         = [beneficiary |-> new.beneficiary, amountWei |-> new.amountWei,
            kind |-> new.kind, status |-> new.status]
  BY <1>8, <1>9
<1>12. SameClaim(new, [claim EXCEPT !.status = st])
  BY <1>8, <1>10, <1>11 DEF SameClaim
<1> QED BY <1>3, <1>5, <1>7, <1>12

-----------------------------------------------------------------------------
(* A funding stays true of its sale.                                       *)

LEMMA BearsOn ==
    ASSUME NEW book, book = [r \in SaleIds |-> book[r]], NEW e, Bears(book, e),
           NEW s \in SaleIds, NEW new,
           book[s].status \in {"FUNDED", "COMPLETED", "EXPIRED"}
             => /\ new.status \in {"FUNDED", "COMPLETED", "EXPIRED"}
                /\ new.expiresAt = book[s].expiresAt /\ new.buyer = book[s].buyer
                /\ new.priceWei = book[s].priceWei
    PROVE  Bears([book EXCEPT ![s] = new], e)
<1>1. \A r \in SaleIds : [book EXCEPT ![s] = new][r] = IF r = s THEN new ELSE book[r]
  OBVIOUS
<1>2. e.saleId \in SaleIds
  BY DEF Bears
<1>3. CASE e.saleId = s
  <2>1. [book EXCEPT ![s] = new][e.saleId] = new
    BY <1>1, <1>2, <1>3
  <2> QED BY <1>2, <1>3, <2>1 DEF Bears, SameFunding
<1>4. CASE e.saleId # s
  <2>1. [book EXCEPT ![s] = new][e.saleId] = book[e.saleId]
    BY <1>1, <1>2, <1>4
  <2> QED BY <1>2, <2>1 DEF Bears, SameFunding
<1> QED BY <1>3, <1>4

LEMMA StatusKeepsTerms ==
    ASSUME NEW sale \in Sale, NEW st, NEW new, new = [sale EXCEPT !.status = st]
    PROVE  /\ new.status = st /\ new.expiresAt = sale.expiresAt
           /\ new.buyer = sale.buyer /\ new.priceWei = sale.priceWei
<1>1. CASE sale = NoSale
  BY <1>1 DEF NoSale
<1>2. CASE sale \in OpenSale
  BY <1>2 DEF OpenSale
<1>3. CASE sale \in PaidSale
  BY <1>3 DEF PaidSale
<1> QED BY <1>1, <1>2, <1>3 DEF Sale

LEMMA ReturnKeepsTerms ==
    ASSUME NEW sale \in Sale, NEW new, new = [sale EXCEPT !.tokenReclaimed = TRUE]
    PROVE  /\ new.status = sale.status /\ new.expiresAt = sale.expiresAt
           /\ new.buyer = sale.buyer /\ new.priceWei = sale.priceWei
<1>1. CASE sale = NoSale
  BY <1>1 DEF NoSale
<1>2. CASE sale \in OpenSale
  BY <1>2 DEF OpenSale
<1>3. CASE sale \in PaidSale
  BY <1>3 DEF PaidSale
<1> QED BY <1>1, <1>2, <1>3 DEF Sale

-----------------------------------------------------------------------------
(* Logs and frames.                                                        *)

LEMMA CommittedIs ==
    /\ call = NoCall => /\ Committed.ownerOf = ownerOf /\ Committed.sales = sales
                        /\ Committed.saleCount = saleCount /\ Committed.claims = claims
    /\ call # NoCall => Committed = call.saved
    /\ call' = NoCall =>
          /\ (Committed.ownerOf)' = ownerOf' /\ (Committed.sales)' = sales'
          /\ (Committed.saleCount)' = saleCount' /\ (Committed.claims)' = claims'
    /\ call' # NoCall => Committed' = call'.saved
  BY DEF Committed, State

LEMMA NoFundings ==
    ASSUME NEW r \in Logs, Lacks(r, "SaleFunded")
    PROVE  FundingsIn(r) = {}
<1>1. DOMAIN r = 1..Len(r)
  BY DEF Logs
<1> QED BY <1>1 DEF FundingsIn, Range, Lacks

\* A transaction that ends here.
LEMMA Closed ==
    ASSUME call' = NoCall, IndexLogs,
           Mirrors(Fold(projection, emitted'), ownerOf', nextTokenId', sales', saleCount',
                   claims'),
           \A e \in fundings \cup FundingsIn(emitted') : Bears(sales', e)
    PROVE  ReadModel'
<1>1. Fold(projection, emitted').fault = "none"
  BY DEF Mirrors, Tables
<1>2. P!CommitEvents(projection, emitted') = Fold(projection, emitted')
  BY <1>1, CommitIsFold
<1>3. projection' = Fold(projection, emitted')
      /\ fundings' = fundings \cup FundingsIn(emitted')
  BY <1>1, <1>2 DEF IndexLogs
<1>4. Mirrors(projection', ownerOf', nextTokenId', sales', saleCount', claims')
  BY <1>3
<1> QED BY <1>3, <1>4, CommittedIs DEF ReadModel

\* A transaction that calls its recipient.
LEMMA Opened ==
    ASSUME ReadModel, call = NoCall, call' # NoCall, call'.saved = State, IndexLogs,
           UNCHANGED <<nextTokenId, saleCount>>,
           Frames(call'.op, call'.closing, sales, claims, sales', claims'),
           Mirrors(Fold(projection, emitted'), ownerOf', nextTokenId', ToldBook', saleCount',
                   ToldOwed'),
           Lacks(emitted', "SaleFunded")
    PROVE  ReadModel'
<1>1. projection' = projection /\ fundings' = fundings
  BY DEF IndexLogs
<1>2. /\ Mirrors(projection, ownerOf, nextTokenId, sales, saleCount, claims)
      /\ \A e \in fundings : Bears(sales, e)
  BY CommittedIs DEF ReadModel
<1>3. /\ call'.saved.ownerOf = ownerOf /\ call'.saved.sales = sales
      /\ call'.saved.saleCount = saleCount /\ call'.saved.claims = claims
  BY DEF State
<1>4. Committed' = call'.saved
  BY CommittedIs
<1>5. Mirrors(projection', (Committed.ownerOf)', nextTokenId', (Committed.sales)',
              (Committed.saleCount)', (Committed.claims)')
  BY <1>1, <1>2, <1>3, <1>4
<1>6. \A e \in fundings' : Bears((Committed.sales)', e)
  BY <1>1, <1>2, <1>3, <1>4
<1>7. Mirrors(Fold(projection', emitted'), ownerOf', nextTokenId', ToldBook', saleCount',
              ToldOwed')
  BY <1>1
<1>8. Frames(call'.op, call'.closing, call'.saved.sales, call'.saved.claims, sales', claims')
  BY <1>3
<1> QED BY <1>3, <1>5, <1>6, <1>7, <1>8 DEF ReadModel

\* A step of a contract that was called.
LEMMA Within ==
    ASSUME ReadModel, call # NoCall, UNCHANGED <<call, sales, claims, saleCount, nextTokenId>>,
           IndexLogs,
           Mirrors(Fold(projection, emitted'), ownerOf', nextTokenId, ToldBook, saleCount,
                   ToldOwed),
           Lacks(emitted', "SaleFunded")
    PROVE  ReadModel'
<1>1. projection' = projection /\ fundings' = fundings
  BY DEF IndexLogs
<1>2. Committed' = Committed /\ ToldBook' = ToldBook /\ ToldOwed' = ToldOwed
  BY DEF Committed, ToldBook, ToldOwed
<1>3. Mirrors(projection', (Committed.ownerOf)', nextTokenId', (Committed.sales)',
              (Committed.saleCount)', (Committed.claims)')
  BY <1>1, <1>2 DEF ReadModel
<1>4. \A e \in fundings' : Bears((Committed.sales)', e)
  BY <1>1, <1>2 DEF ReadModel
<1>5. Mirrors(Fold(projection', emitted'), ownerOf', nextTokenId', ToldBook', saleCount',
              ToldOwed')
  BY <1>1, <1>2
<1>6. /\ saleCount' = call'.saved.saleCount
      /\ Frames(call'.op, call'.closing, call'.saved.sales, call'.saved.claims, sales', claims')
  BY DEF ReadModel
<1> QED BY <1>3, <1>4, <1>5, <1>6 DEF ReadModel

LEMMA EmitAlone ==
    ASSUME call = NoCall, NEW events \in Logs, Emit(events)
    PROVE  emitted' = events
<1>1. <<>> \o events = events
  BY DEF Logs
<1> QED BY <1>1 DEF Emit

\* Logs of one, two and three events.
LEMMA OneEvent ==
    ASSUME NEW p, NEW e \in Event
    PROVE  /\ <<e>> \in Logs /\ Fold(p, <<e>>) = P!ApplyEvent(p, e)
           /\ e.kind # "SaleFunded" =>
                 Lacks(<<e>>, "SaleFunded") /\ FundingsIn(<<e>>) = {}
<1>1. <<e>> \in Logs
  BY LogsTypes
<1>2. Fold(p, <<e>>) = P!ApplyEvent(p, e)
  BY FoldOne
<1>3. e.kind # "SaleFunded" => Lacks(<<e>>, "SaleFunded")
  BY ShortLacks
<1> QED BY <1>1, <1>2, <1>3, NoFundings

LEMMA TwoEvents ==
    ASSUME NEW p, NEW e1 \in Event, NEW e2 \in Event,
           e1.kind # "SaleFunded", e2.kind # "SaleFunded"
    PROVE  /\ <<e1, e2>> \in Logs
           /\ Fold(p, <<e1, e2>>) = P!ApplyEvent(P!ApplyEvent(p, e1), e2)
           /\ Lacks(<<e1, e2>>, "SaleFunded") /\ FundingsIn(<<e1, e2>>) = {}
<1>1. <<e1, e2>> \in Logs
  BY LogsTypes
<1>2. Fold(p, <<e1, e2>>) = P!ApplyEvent(P!ApplyEvent(p, e1), e2)
  BY FoldTwo
<1>3. Lacks(<<e1, e2>>, "SaleFunded")
  BY DEF Lacks
<1> QED BY <1>1, <1>2, <1>3, NoFundings

LEMMA ThreeEvents ==
    ASSUME NEW p, NEW e1 \in Event, NEW e2 \in Event, NEW e3 \in Event,
           e1.kind # "SaleFunded", e2.kind # "SaleFunded", e3.kind # "SaleFunded"
    PROVE  /\ <<e1, e2, e3>> \in Logs
           /\ Fold(p, <<e1, e2, e3>>)
                = P!ApplyEvent(P!ApplyEvent(P!ApplyEvent(p, e1), e2), e3)
           /\ Lacks(<<e1, e2, e3>>, "SaleFunded") /\ FundingsIn(<<e1, e2, e3>>) = {}
<1>1. <<e1, e2, e3>> \in Logs
  BY LogsTypes
<1>2. Fold(p, <<e1, e2, e3>>) = P!ApplyEvent(P!ApplyEvent(P!ApplyEvent(p, e1), e2), e3)
  BY FoldThree
<1>3. Lacks(<<e1, e2, e3>>, "SaleFunded")
  BY DEF Lacks
<1> QED BY <1>1, <1>2, <1>3, NoFundings

\* What is known between transactions.
LEMMA Quiet ==
    ASSUME TypeOK, IInv, ReadModel, call = NoCall
    PROVE  /\ Mirrors(projection, ownerOf, nextTokenId, sales, saleCount, claims)
           /\ \A e \in fundings : Bears(sales, e)
           /\ sales = [r \in SaleIds |-> sales[r]] /\ claims = [r \in SaleIds |-> claims[r]]
           /\ ownerOf = [t \in TokenIds |-> ownerOf[t]]
           /\ nextTokenId \in Nat /\ saleCount \in Nat
           /\ \A s \in SaleIds : sales[s].status # "NONE" => ~ (s > saleCount)
           /\ \A t \in TokenIds : ownerOf[t] # Nobody => t < nextTokenId
           /\ \A s \in SaleIds : sales[s].status = "FUNDED" => claims[s] = NoClaim
           /\ \A s \in SaleIds : sales[s] \in Sale /\ claims[s] \in Claim
<1>1. /\ Mirrors(projection, ownerOf, nextTokenId, sales, saleCount, claims)
      /\ \A e \in fundings : Bears(sales, e)
  BY CommittedIs DEF ReadModel
<1>2. /\ sales = [r \in SaleIds |-> sales[r]] /\ claims = [r \in SaleIds |-> claims[r]]
      /\ ownerOf = [t \in TokenIds |-> ownerOf[t]]
      /\ \A s \in SaleIds : sales[s] \in Sale /\ claims[s] \in Claim
  BY DEF TypeOK, NftTypeOK
<1>3. nextTokenId \in Nat /\ saleCount \in Nat /\ TokenIds \subseteq Nat
  BY DEF TypeOK, NftTypeOK, SaleIds, TokenIds
<1>4. Fresh(ownerOf, sales, saleCount) /\ Outcomes(sales, claims)
  BY SoundParts
<1>5. \A s \in SaleIds : sales[s].status # "NONE" => ~ (s > saleCount)
  BY <1>4 DEF Fresh, NoSale
<1>6. \A t \in TokenIds : ownerOf[t] # Nobody => t < nextTokenId
  <2> SUFFICES ASSUME NEW t \in TokenIds, ~ (t < nextTokenId) PROVE ownerOf[t] = Nobody
    OBVIOUS
  <2>1. t \in Nat /\ nextTokenId \in Nat
    BY <1>3
  <2>2. t >= nextTokenId
    BY <2>1
  <2> QED BY <1>4, <2>2 DEF Fresh
<1>7. \A s \in SaleIds : sales[s].status = "FUNDED" => claims[s] = NoClaim
  BY <1>4 DEF Outcomes, Outcome
<1> QED BY <1>1, <1>2, <1>3, <1>5, <1>6, <1>7

-----------------------------------------------------------------------------
(* Each action keeps the read model.                                       *)

LEMMA CreateSaleRead ==
    ASSUME TypeOK, IInv, ReadModel, IndexLogs,
           NEW a \in Users, NEW t \in TokenIds, NEW p \in Prices, NEW b \in Users,
           CreateSale(a, t, p, b)
    PROVE  ReadModel'
<1> DEFINE s == saleCount + 1
           new == [NoSale EXCEPT !.tokenId = t, !.seller = a, !.allowedBuyer = b,
                                 !.priceWei = p, !.status = "LISTED"]
           e1 == TransferEvent(t, a, EscrowAddress)
           e2 == [kind |-> "SaleCreated", saleId |-> s, tokenId |-> t, seller |-> a,
                  allowedBuyer |-> b, priceWei |-> p]
<1>1. /\ call = NoCall /\ call' = NoCall /\ s \in SaleIds /\ saleCount' = s
      /\ sales' = [sales EXCEPT ![s] = new]
      /\ ownerOf' = [ownerOf EXCEPT ![t] = EscrowAddress] /\ nextTokenId' = nextTokenId
      /\ claims' = claims /\ ownerOf[t] = a
      /\ Emit(<<e1, e2>>)
  BY DEF CreateSale, NonReentrant, TransferFrom, Update
<1>2. e1 \in Event /\ e2 \in Event
  <2>1. e1 \in Event
    BY TransferEventType DEF Holders
  <2>2. e2 \in Event
    BY <1>1 DEF Event
  <2> QED BY <2>1, <2>2
<1>3. e1.kind = "Transfer" /\ e1.tokenId = t /\ e1.to = EscrowAddress /\ e2.kind = "SaleCreated"
  BY DEF TransferEvent
<1>4. PICK f1, f2, sale : f1 = e1 /\ f2 = e2 /\ sale = new
  OBVIOUS
<1>5. f2 = [kind |-> "SaleCreated", saleId |-> s, tokenId |-> t, seller |-> a,
            allowedBuyer |-> b, priceWei |-> p]
      /\ sale = [NoSale EXCEPT !.tokenId = t, !.seller = a, !.allowedBuyer = b,
                               !.priceWei = p, !.status = "LISTED"]
  BY <1>4
<1> HIDE DEF e1, e2, new
<1> DEFINE q1 == P!ApplyEvent(projection, f1)
           q2 == P!ApplyEvent(q1, f2)
<1>6. <<f1, f2>> \in Logs /\ emitted' = <<f1, f2>> /\ Fold(projection, <<f1, f2>>) = q2
      /\ FundingsIn(<<f1, f2>>) = {}
  <2>1. f1 \in Event /\ f2 \in Event /\ f1.kind # "SaleFunded" /\ f2.kind # "SaleFunded"
    BY <1>2, <1>3, <1>4
  <2>2. <<f1, f2>> \in Logs /\ Fold(projection, <<f1, f2>>) = q2
        /\ FundingsIn(<<f1, f2>>) = {}
    BY <2>1, TwoEvents
  <2>3. Emit(<<f1, f2>>)
    BY <1>1, <1>4
  <2> QED BY <1>1, <2>2, <2>3, EmitAlone
<1>7. t < nextTokenId
  BY <1>1, Quiet, Numbers
<1>8. Mirrors(q1, ownerOf', nextTokenId, sales, saleCount, claims)
  <2>1. EscrowAddress \in Holders
    BY DEF Holders
  <2> QED BY <1>1, <1>2, <1>3, <1>4, <1>7, <2>1, Quiet, TransferMirrored
<1> HIDE DEF q1
<1>9. Mirrors(q2, ownerOf', nextTokenId, [sales EXCEPT ![s] = sale], s, claims)
  BY <1>1, <1>5, <1>8, Quiet, CreatedMirrored
<1> HIDE DEF q2
<1>10. Mirrors(Fold(projection, emitted'), ownerOf', nextTokenId', sales', saleCount', claims')
  BY <1>1, <1>4, <1>6, <1>9
<1>11. FundingsIn(emitted') = {}
  BY <1>6
<1>12. ASSUME NEW e \in fundings PROVE Bears(sales', e)
  <2>1. ~ (sales[s].status \in {"FUNDED", "COMPLETED", "EXPIRED"})
    <3>1. s > saleCount
      BY Quiet, <1>1
    <3> QED BY <1>1, <3>1, Quiet
  <2> QED BY <1>1, <2>1, Quiet, BearsOn
<1> QED BY <1>1, <1>10, <1>11, <1>12, Closed

LEMMA FundSaleRead ==
    ASSUME TypeOK, IInv, ReadModel, IndexLogs,
           NEW a \in Users, NEW s \in SaleIds, NEW v \in Prices, FundSale(a, s, v)
    PROVE  ReadModel'
<1> DEFINE x == now + FundingPeriod
           new == [sales[s] EXCEPT !.buyer = a, !.expiresAt = x, !.status = "FUNDED"]
           e == [kind |-> "SaleFunded", saleId |-> s, buyer |-> a, amountWei |-> v,
                 expiresAt |-> x]
<1>1. /\ call = NoCall /\ call' = NoCall
      /\ sales[s].status = "LISTED" /\ a = sales[s].allowedBuyer /\ v = sales[s].priceWei
      /\ sales' = [sales EXCEPT ![s] = new]
      /\ UNCHANGED <<ownerOf, nextTokenId, saleCount, claims>>
      /\ Emit(<<e>>)
  BY DEF FundSale, NonReentrant, ExactPayment, nftVars
<1>2. x \in Nat \ {0}
  BY DEF TypeOK
<1>3. e \in Event
  BY <1>2 DEF Event
<1>4. PICK f : f = e
  OBVIOUS
<1>5. /\ f.kind = "SaleFunded" /\ f.saleId = s /\ f.buyer = a /\ f.amountWei = v
      /\ f.expiresAt = x
  BY <1>4
<1> HIDE DEF e
<1>6. <<f>> \in Logs /\ emitted' = <<f>>
      /\ Fold(projection, <<f>>) = P!ApplyEvent(projection, f)
  BY <1>1, <1>3, <1>4, EmitAlone, OneEvent
<1>7. sales[s] \in Sale /\ ~ (s > saleCount)
  BY <1>1, Quiet
<1>8. /\ P!SaleFault(RowOf(sales[s]), f) = "none"
      /\ P!ProjectSale(RowOf(sales[s]), f) = RowOf(new)
  <2>1. f.buyer \in Users /\ f.expiresAt \in Nat \ {0} /\ f.buyer = sales[s].allowedBuyer
    BY <1>1, <1>2, <1>5
  <2>2. new = [sales[s] EXCEPT !.buyer = f.buyer, !.expiresAt = f.expiresAt, !.status = "FUNDED"]
    BY <1>5
  <2> HIDE DEF new
  <2>3. PICK before : before = sales[s]
    OBVIOUS
  <2> QED BY <1>1, <1>5, <1>7, <2>1, <2>2, <2>3, FundedRow
<1>9. PICK sale : sale = new
  OBVIOUS
<1>10. /\ sale.status = "FUNDED" /\ sale.buyer = a /\ sale.expiresAt = x
       /\ sale.priceWei = v
  <2>1. sales[s] \in OpenSale
    BY <1>1, <1>7 DEF Sale, NoSale, PaidSale
  <2> QED BY <1>1, <1>9, <2>1 DEF OpenSale
<1> HIDE DEF new
<1>11. Mirrors(P!ApplyEvent(projection, f), ownerOf, nextTokenId, [sales EXCEPT ![s] = sale],
               saleCount, claims)
  BY <1>1, <1>5, <1>7, <1>8, <1>9, Quiet, SaleMirrored
<1>12. Mirrors(Fold(projection, emitted'), ownerOf', nextTokenId', sales', saleCount', claims')
  BY <1>1, <1>6, <1>9, <1>11
<1>13. ASSUME NEW g \in fundings PROVE Bears(sales', g)
  <2>1. ~ (sales[s].status \in {"FUNDED", "COMPLETED", "EXPIRED"})
    BY <1>1
  <2> QED BY <1>1, <2>1, Quiet, BearsOn
<1>14. FundingsIn(emitted') \subseteq {f}
  BY <1>6 DEF FundingsIn, Range
<1>15. Bears(sales', f)
  <2>1. sales'[s] = sale
    BY <1>1, <1>9, Quiet
  <2> QED BY <1>2, <1>5, <1>10, <2>1 DEF Bears, SameFunding
<1> QED BY <1>1, <1>12, <1>13, <1>14, <1>15, Closed

LEMMA CancelSaleRead ==
    ASSUME TypeOK, IInv, ReadModel, IndexLogs,
           NEW a \in Users, NEW s \in SaleIds, CancelSale(a, s)
    PROVE  ReadModel'
<1>1. PICK st, f, sale :
        st = "CANCELLED" /\ f = SaleEvent("SaleCancelled", s)
        /\ sale = [sales[s] EXCEPT !.status = st]
  OBVIOUS
<1>2. /\ call = NoCall /\ call' = NoCall /\ sales[s].status = "LISTED"
      /\ sales' = [sales EXCEPT ![s] = sale]
      /\ UNCHANGED <<ownerOf, nextTokenId, saleCount, claims>>
      /\ Emit(<<f>>)
  BY <1>1 DEF CancelSale, NonReentrant, nftVars
<1>3. f \in Event /\ f.kind = "SaleCancelled" /\ f.saleId = s
  BY <1>1, SaleEventType DEF SaleEvent
<1>4. <<f>> \in Logs /\ emitted' = <<f>>
      /\ Fold(projection, <<f>>) = P!ApplyEvent(projection, f)
  BY <1>2, <1>3, EmitAlone, OneEvent
<1>5. sales[s] \in Sale /\ ~ (s > saleCount)
  BY <1>2, Quiet
<1>6. P!SaleFault(RowOf(sales[s]), f) = "none" /\ P!ProjectSale(RowOf(sales[s]), f) = RowOf(sale)
  BY <1>1, <1>2, <1>3, <1>5, StatusRow
<1>7. Mirrors(P!ApplyEvent(projection, f), ownerOf, nextTokenId, [sales EXCEPT ![s] = sale],
              saleCount, claims)
  BY <1>2, <1>3, <1>5, <1>6, Quiet, SaleMirrored
<1>8. Mirrors(Fold(projection, emitted'), ownerOf', nextTokenId', sales', saleCount', claims')
  BY <1>2, <1>4, <1>7
<1>9. ASSUME NEW g \in fundings PROVE Bears(sales', g)
  <2>1. ~ (sales[s].status \in {"FUNDED", "COMPLETED", "EXPIRED"})
    BY <1>2
  <2> QED BY <1>2, <2>1, Quiet, BearsOn
<1>10. FundingsIn(emitted') = {}
  BY <1>3, <1>4, OneEvent
<1> QED BY <1>2, <1>8, <1>9, <1>10, Closed

LEMMA ExpireSaleRead ==
    ASSUME TypeOK, IInv, ReadModel, IndexLogs, NEW s \in SaleIds, ExpireSale(s)
    PROVE  ReadModel'
<1>1. PICK st, sale, a, v, k, claim, e1, e2 :
        /\ st = "EXPIRED" /\ sale = [sales[s] EXCEPT !.status = st]
        /\ a = sales[s].buyer /\ v = sales[s].priceWei /\ k = "BUYER_REFUND"
        /\ claim = PaymentClaim(s, a, k)
        /\ e1 = SaleEvent("SaleExpired", s) /\ e2 = ClaimCreated(s, claim)
  OBVIOUS
<1>2. /\ call = NoCall /\ call' = NoCall /\ sales[s].status = "FUNDED"
      /\ sales' = [sales EXCEPT ![s] = sale] /\ claims' = [claims EXCEPT ![s] = claim]
      /\ UNCHANGED <<ownerOf, nextTokenId, saleCount>>
      /\ Emit(<<e1, e2>>)
  BY <1>1 DEF ExpireSale, NonReentrant, nftVars
<1>3. /\ sales[s] \in Sale /\ sales[s] \in PaidSale /\ ~ (s > saleCount) /\ claims[s] = NoClaim
  BY <1>2, Quiet DEF Sale, NoSale, OpenSale
<1>4. a \in Users /\ v \in Prices /\ k \in ClaimKinds
  BY <1>1, <1>3 DEF PaidSale, ClaimKinds
<1>5. /\ claim = [beneficiary |-> a, amountWei |-> v, kind |-> k, status |-> "CLAIMABLE"]
      /\ e1 \in Event /\ e1.kind = "SaleExpired" /\ e1.saleId = s
      /\ e2 \in Event /\ e2.kind = "PaymentClaimCreated" /\ e2.saleId = s
      /\ e2.beneficiary = a /\ e2.amountWei = v /\ e2.claimKind = k
  <2>1. claim = [beneficiary |-> a, amountWei |-> v, kind |-> k, status |-> "CLAIMABLE"]
    BY <1>1 DEF PaymentClaim
  <2>2. e2 \in Event
    BY <1>1, <1>3, <1>4, PaymentClaimType
  <2>3. e1 \in Event
    BY <1>1, SaleEventType
  <2> QED BY <1>1, <2>1, <2>2, <2>3 DEF SaleEvent, ClaimCreated
<1> DEFINE q1 == P!ApplyEvent(projection, e1)
           q2 == P!ApplyEvent(q1, e2)
<1>6. <<e1, e2>> \in Logs /\ emitted' = <<e1, e2>> /\ Fold(projection, <<e1, e2>>) = q2
      /\ FundingsIn(<<e1, e2>>) = {}
  <2>1. <<e1, e2>> \in Logs /\ Fold(projection, <<e1, e2>>) = q2
        /\ FundingsIn(<<e1, e2>>) = {}
    BY <1>5, TwoEvents
  <2> QED BY <1>2, <2>1, EmitAlone
<1>7. Mirrors(q1, ownerOf, nextTokenId, [sales EXCEPT ![s] = sale], saleCount, claims)
  <2>1. P!SaleFault(RowOf(sales[s]), e1) = "none"
        /\ P!ProjectSale(RowOf(sales[s]), e1) = RowOf(sale)
    BY <1>1, <1>2, <1>3, <1>5, StatusRow
  <2> QED BY <1>2, <1>3, <1>5, <2>1, Quiet, SaleMirrored
<1> HIDE DEF q1
<1>8. Mirrors(q2, ownerOf, nextTokenId, sales', saleCount, [claims EXCEPT ![s] = claim])
  <2>1. Records(e2, claims[s], claim)
    BY <1>3, <1>4, <1>5, ClaimCreatedRow
  <2>2. Mirrors(q1, ownerOf, nextTokenId, sales', saleCount, claims)
    BY <1>2, <1>7
  <2>3. e2.kind \in {"PaymentClaimCreated", "PaymentWithdrawn"} /\ e2.saleId = s
    BY <1>5
  <2>4. claims = [r \in SaleIds |-> claims[r]]
    BY <1>2, Quiet
  <2> QED BY ONLY <2>1, <2>2, <2>3, <2>4, s \in SaleIds, PaymentMirrored
<1> HIDE DEF q2
<1>9. Mirrors(Fold(projection, emitted'), ownerOf', nextTokenId', sales', saleCount', claims')
  BY <1>2, <1>6, <1>8
<1>10. ASSUME NEW g \in fundings PROVE Bears(sales', g)
  <2>1. /\ sale.status = st /\ sale.expiresAt = sales[s].expiresAt
        /\ sale.buyer = sales[s].buyer /\ sale.priceWei = sales[s].priceWei
    BY <1>1, <1>3, StatusKeepsTerms
  <2> QED BY <1>1, <1>2, <2>1, Quiet, BearsOn
<1> QED BY <1>2, <1>6, <1>9, <1>10, Closed

\* The two ways in which an operation with a recipient goes on.
LEMMA CallRecipientRead ==
    ASSUME NEW op \in {"complete", "withdraw", "reclaim"}, NEW recipient, NEW events \in Logs,
           NEW closing \in Logs, call = NoCall,
           CallRecipient(op, recipient, events, closing)
    PROVE  \/ call' = NoCall /\ emitted' = events \o closing
           \/ /\ call' # NoCall /\ call'.saved = State /\ emitted' = events
              /\ call'.op = op /\ call'.closing = closing
<1>1. events \o closing \in Logs
  BY DEF Logs
<1>2. CASE UNCHANGED call /\ Emit(events \o closing)
  BY <1>1, <1>2, EmitAlone
<1>3. CASE Emit(events) /\ call' = [op |-> op, closing |-> closing, saved |-> State]
  <2>1. call'.op = op /\ call'.closing = closing /\ call'.saved = State
    BY <1>3
  <2>2. call' # NoCall
    BY <2>1 DEF NoCall
  <2> QED BY <1>3, <2>1, <2>2, EmitAlone
<1> QED BY <1>2, <1>3 DEF CallRecipient

LEMMA CompleteSaleRead ==
    ASSUME TypeOK, IInv, ReadModel, IndexLogs,
           NEW u \in Users, NEW s \in SaleIds, CompleteSale(u, s)
    PROVE  ReadModel'
<1>1. PICK st, sale, a, b, v, k, t, claim, e1, e2, e3 :
        /\ st = "COMPLETED" /\ sale = [sales[s] EXCEPT !.status = st]
        /\ a = sales[s].seller /\ b = sales[s].buyer /\ v = sales[s].priceWei
        /\ k = "SELLER_PROCEEDS" /\ t = sales[s].tokenId
        /\ claim = PaymentClaim(s, a, k)
        /\ e1 = SaleEvent("SaleCompleted", s) /\ e2 = ClaimCreated(s, claim)
        /\ e3 = TransferEvent(t, EscrowAddress, b)
  OBVIOUS
<1>2. /\ call = NoCall /\ sales[s].status = "FUNDED"
      /\ sales' = [sales EXCEPT ![s] = sale] /\ claims' = [claims EXCEPT ![s] = claim]
      /\ ownerOf' = [ownerOf EXCEPT ![t] = b]
      /\ UNCHANGED <<nextTokenId, saleCount>>
      /\ CallRecipient("complete", b, <<e1, e2, e3>>, <<>>)
  BY <1>1 DEF CompleteSale, NonReentrant, TransferFrom, Update
<1>3. /\ sales[s] \in Sale /\ sales[s] \in PaidSale /\ ~ (s > saleCount) /\ claims[s] = NoClaim
  BY <1>2, Quiet DEF Sale, NoSale, OpenSale
<1>4. a \in Users /\ b \in Users /\ v \in Prices /\ k \in ClaimKinds /\ t \in TokenIds
      /\ b \in Holders /\ EscrowAddress \in Holders
  BY <1>1, <1>3 DEF PaidSale, ClaimKinds, Holders
<1>5. /\ claim = [beneficiary |-> a, amountWei |-> v, kind |-> k, status |-> "CLAIMABLE"]
      /\ e1 \in Event /\ e1.kind = "SaleCompleted" /\ e1.saleId = s
      /\ e2 \in Event /\ e2.kind = "PaymentClaimCreated" /\ e2.saleId = s
      /\ e2.beneficiary = a /\ e2.amountWei = v /\ e2.claimKind = k
      /\ e3 \in Event /\ e3.kind = "Transfer" /\ e3.tokenId = t /\ e3.to = b
  <2>1. claim = [beneficiary |-> a, amountWei |-> v, kind |-> k, status |-> "CLAIMABLE"]
    BY <1>1 DEF PaymentClaim
  <2>2. e2 \in Event
    BY <1>1, <1>3, <1>4, PaymentClaimType
  <2>3. e1 \in Event
    BY <1>1, SaleEventType
  <2>4. e3 \in Event
    BY <1>1, <1>4, TransferEventType
  <2> QED BY <1>1, <2>1, <2>2, <2>3, <2>4 DEF SaleEvent, ClaimCreated, TransferEvent
<1> DEFINE q1 == P!ApplyEvent(projection, e1)
           q2 == P!ApplyEvent(q1, e2)
           q3 == P!ApplyEvent(q2, e3)
<1>6. /\ <<e1, e2, e3>> \in Logs /\ Fold(projection, <<e1, e2, e3>>) = q3
      /\ FundingsIn(<<e1, e2, e3>>) = {} /\ Lacks(<<e1, e2, e3>>, "SaleFunded")
  BY <1>5, ThreeEvents
<1>7. Mirrors(q1, ownerOf, nextTokenId, [sales EXCEPT ![s] = sale], saleCount, claims)
  <2>1. P!SaleFault(RowOf(sales[s]), e1) = "none"
        /\ P!ProjectSale(RowOf(sales[s]), e1) = RowOf(sale)
    BY <1>1, <1>2, <1>3, <1>5, StatusRow
  <2> QED BY <1>2, <1>3, <1>5, <2>1, Quiet, SaleMirrored
<1> HIDE DEF q1
<1>8. Mirrors(q2, ownerOf, nextTokenId, sales', saleCount, [claims EXCEPT ![s] = claim])
  <2>1. Records(e2, claims[s], claim)
    BY <1>3, <1>4, <1>5, ClaimCreatedRow
  <2>2. Mirrors(q1, ownerOf, nextTokenId, sales', saleCount, claims)
    BY <1>2, <1>7
  <2>3. e2.kind \in {"PaymentClaimCreated", "PaymentWithdrawn"} /\ e2.saleId = s
    BY <1>5
  <2>4. claims = [r \in SaleIds |-> claims[r]]
    BY <1>2, Quiet
  <2> QED BY ONLY <2>1, <2>2, <2>3, <2>4, s \in SaleIds, PaymentMirrored
<1> HIDE DEF q2
<1>9. Mirrors(q3, ownerOf', nextTokenId, sales', saleCount, claims')
  <2>1. ownerOf[t] = EscrowAddress
    <3>1. Custody(ownerOf, sales, custodySaleId)
      BY SoundParts
    <3>2. Holds(sales[s]) /\ s # 0
      BY <1>2, Numbers DEF Holds
    <3> QED BY <1>1, <1>4, <3>1, <3>2 DEF Custody
  <2>2. t < nextTokenId
    <3>1. EscrowAddress # Nobody
      OBVIOUS
    <3> QED BY <1>2, <1>4, <2>1, <3>1, Quiet
  <2>3. Mirrors(q2, ownerOf, nextTokenId, sales', saleCount, claims')
    BY <1>2, <1>8
  <2> QED BY <1>2, <1>4, <1>5, <2>2, <2>3, Quiet, TransferMirrored
<1> HIDE DEF q3
<1>10. \/ call' = NoCall /\ emitted' = <<e1, e2, e3>>
       \/ /\ call' # NoCall /\ call'.saved = State /\ emitted' = <<e1, e2, e3>>
          /\ call'.op = "complete" /\ call'.closing = <<>>
  <2>1. <<e1, e2, e3>> \o <<>> = <<e1, e2, e3>>
    BY <1>6 DEF Logs
  <2> QED BY <1>2, <1>6, <2>1, EmptyLogs, CallRecipientRead
<1>11. Mirrors(Fold(projection, emitted'), ownerOf', nextTokenId', sales', saleCount', claims')
  BY <1>2, <1>6, <1>9, <1>10
<1>12. CASE call' = NoCall
  <2>1. ASSUME NEW g \in fundings PROVE Bears(sales', g)
    <3>1. /\ sale.status = st /\ sale.expiresAt = sales[s].expiresAt
          /\ sale.buyer = sales[s].buyer /\ sale.priceWei = sales[s].priceWei
      BY <1>1, <1>3, StatusKeepsTerms
    <3> QED BY <1>1, <1>2, <3>1, Quiet, BearsOn
  <2> QED BY <1>6, <1>10, <1>11, <1>12, <2>1, Closed
<1>13. CASE call' # NoCall
  <2>1. Frames(call'.op, call'.closing, sales, claims, sales', claims')
    BY <1>1, <1>2, <1>10, <1>13 DEF Frames
  <2>2. Mirrors(Fold(projection, emitted'), ownerOf', nextTokenId', ToldBook', saleCount',
                ToldOwed')
    BY <1>10, <1>11, <1>13 DEF ToldBook, ToldOwed
  <2> QED BY <1>2, <1>6, <1>10, <1>13, <2>1, <2>2, Opened
<1> QED BY <1>12, <1>13

LEMMA WithdrawPaymentRead ==
    ASSUME TypeOK, IInv, ReadModel, IndexLogs,
           NEW u \in Users, NEW s \in SaleIds, NEW r \in Users, WithdrawPayment(u, s, r)
    PROVE  ReadModel'
<1>1. PICK claim, f :
        /\ claim = [claims[s] EXCEPT !.status = "WITHDRAWN"]
        /\ f = [kind |-> "PaymentWithdrawn", saleId |-> s, beneficiary |-> claims[s].beneficiary,
                recipient |-> r, amountWei |-> claims[s].amountWei, claimKind |-> claims[s].kind]
  OBVIOUS
<1>2. /\ call = NoCall /\ claims[s].status = "CLAIMABLE"
      /\ claims' = [claims EXCEPT ![s] = claim]
      /\ UNCHANGED <<ownerOf, nextTokenId, saleCount, sales>>
      /\ CallRecipient("withdraw", r, <<>>, <<f>>)
  BY <1>1 DEF WithdrawPayment, NonReentrant, nftVars
<1>3. claims[s] \in Claim /\ claims[s] \in OwnClaim
  BY <1>2, Quiet DEF Claim, NoClaim
<1>4. f \in Event /\ f.kind = "PaymentWithdrawn" /\ f.saleId = s
  <2>1. /\ claims[s].beneficiary \in Users /\ claims[s].amountWei \in Prices
        /\ claims[s].kind \in ClaimKinds
    BY <1>3 DEF OwnClaim
  <2>2. f \in Event
    BY <1>1, <2>1 DEF Event
  <2> QED BY <1>1, <2>2
<1> DEFINE q == P!ApplyEvent(projection, f)
<1>5. /\ <<f>> \in Logs /\ Fold(projection, <<f>>) = q /\ FundingsIn(<<f>>) = {}
  BY <1>4, OneEvent
<1>6. Mirrors(q, ownerOf, nextTokenId, sales, saleCount, [claims EXCEPT ![s] = claim])
  <2>1. Records(f, claims[s], claim)
    BY <1>1, <1>2, <1>3, <1>4, WithdrawnRow
  <2>2. f.kind \in {"PaymentClaimCreated", "PaymentWithdrawn"} /\ f.saleId = s
    BY <1>4
  <2>3. claims = [x \in SaleIds |-> claims[x]]
    BY <1>2, Quiet
  <2>4. Mirrors(projection, ownerOf, nextTokenId, sales, saleCount, claims)
    BY <1>2, Quiet
  <2> QED BY ONLY <2>1, <2>2, <2>3, <2>4, s \in SaleIds, PaymentMirrored
<1> HIDE DEF q
<1>7. \/ call' = NoCall /\ emitted' = <<f>>
      \/ /\ call' # NoCall /\ call'.saved = State /\ emitted' = <<>>
         /\ call'.op = "withdraw" /\ call'.closing = <<f>>
  <2>1. <<>> \o <<f>> = <<f>>
    BY <1>5 DEF Logs
  <2> QED BY <1>2, <1>5, <2>1, EmptyLogs, CallRecipientRead
<1>8. \A g \in fundings : Bears(sales', g)
  BY <1>2, Quiet
<1>9. CASE call' = NoCall
  <2>1. Mirrors(Fold(projection, emitted'), ownerOf', nextTokenId', sales', saleCount', claims')
    BY <1>2, <1>5, <1>6, <1>7, <1>9
  <2> QED BY <1>5, <1>7, <1>8, <1>9, <2>1, Closed
<1>10. CASE call' # NoCall
  <2>1. Frames(call'.op, call'.closing, sales, claims, sales', claims')
    BY <1>1, <1>2, <1>4, <1>7, <1>10 DEF Frames
  <2>2. ToldBook' = sales /\ ToldOwed' = claims
    BY <1>7, <1>10 DEF ToldBook, ToldOwed, State
  <2>3. Fold(projection, emitted') = projection
    BY <1>7, <1>10, FoldEmpty
  <2>4. Mirrors(Fold(projection, emitted'), ownerOf', nextTokenId', ToldBook', saleCount',
                ToldOwed')
    BY <1>2, <2>2, <2>3, Quiet
  <2>5. Lacks(emitted', "SaleFunded")
    BY <1>7, <1>10, ShortLacks DEF Lacks
  <2> QED BY <1>2, <1>7, <1>10, <2>1, <2>4, <2>5, Opened
<1> QED BY <1>9, <1>10

LEMMA ReclaimTokenRead ==
    ASSUME TypeOK, IInv, ReadModel, IndexLogs,
           NEW u \in Users, NEW s \in SaleIds, NEW r \in Users, ReclaimToken(u, s, r)
    PROVE  ReadModel'
<1>1. PICK sale, t, f1, f2 :
        /\ sale = [sales[s] EXCEPT !.tokenReclaimed = TRUE] /\ t = sales[s].tokenId
        /\ f1 = TransferEvent(t, EscrowAddress, r)
        /\ f2 = [kind |-> "TokenReclaimed", saleId |-> s, tokenId |-> t, recipient |-> r]
  OBVIOUS
<1>2. /\ call = NoCall /\ sales[s].status \in {"CANCELLED", "EXPIRED"}
      /\ ~ sales[s].tokenReclaimed
      /\ sales' = [sales EXCEPT ![s] = sale]
      /\ ownerOf' = [ownerOf EXCEPT ![t] = r]
      /\ UNCHANGED <<nextTokenId, saleCount, claims>>
      /\ CallRecipient("reclaim", r, <<f1>>, <<f2>>)
  BY <1>1 DEF ReclaimToken, NonReentrant, Reclaimable, TransferFrom, Update
<1>3. sales[s] \in Sale /\ ~ (s > saleCount) /\ t \in TokenIds
  <2>1. sales[s] \in Sale /\ ~ (s > saleCount)
    BY <1>2, Quiet
  <2>2. sales[s].status # "NONE"
    BY <1>2
  <2> QED BY <1>1, <2>1, <2>2, ReclaimedType
<1>4. /\ f1 \in Event /\ f1.kind = "Transfer" /\ f1.tokenId = t /\ f1.to = r
      /\ f2 \in Event /\ f2.kind = "TokenReclaimed" /\ f2.saleId = s
      /\ r \in Holders
  <2>1. r \in Holders /\ EscrowAddress \in Holders
    BY DEF Holders
  <2>2. f1 \in Event
    BY <1>1, <1>3, <2>1, TransferEventType
  <2>3. f2 \in Event
    BY <1>1, <1>3 DEF Event
  <2> QED BY <1>1, <2>1, <2>2, <2>3 DEF TransferEvent
<1> DEFINE q1 == P!ApplyEvent(projection, f1)
           q2 == P!ApplyEvent(q1, f2)
<1>5. /\ <<f1>> \in Logs /\ <<f2>> \in Logs
      /\ Fold(projection, <<f1>>) = q1 /\ Lacks(<<f1>>, "SaleFunded")
  BY <1>4, OneEvent
<1>6. Fold(projection, <<f1, f2>>) = q2 /\ FundingsIn(<<f1, f2>>) = {}
  BY <1>4, TwoEvents
<1>7. Mirrors(q1, ownerOf', nextTokenId, sales, saleCount, claims)
  <2>1. ownerOf[t] = EscrowAddress
    <3>1. Custody(ownerOf, sales, custodySaleId)
      BY SoundParts
    <3>2. Holds(sales[s]) /\ s # 0
      BY <1>2, Numbers DEF Holds
    <3> QED BY <1>1, <1>3, <3>1, <3>2 DEF Custody
  <2>2. t < nextTokenId
    <3>1. EscrowAddress # Nobody
      OBVIOUS
    <3> QED BY <1>2, <1>3, <2>1, <3>1, Quiet
  <2> QED BY <1>2, <1>3, <1>4, <2>2, Quiet, TransferMirrored
<1> HIDE DEF q1
<1>8. Mirrors(q2, ownerOf', nextTokenId, [sales EXCEPT ![s] = sale], saleCount, claims)
  <2>1. P!SaleFault(RowOf(sales[s]), f2) = "none"
        /\ P!ProjectSale(RowOf(sales[s]), f2) = RowOf(sale)
    BY <1>1, <1>2, <1>3, <1>4, ReclaimedRow
  <2> QED BY <1>2, <1>3, <1>4, <1>7, <2>1, Quiet, SaleMirrored
<1> HIDE DEF q2
<1>9. \/ call' = NoCall /\ emitted' = <<f1, f2>>
      \/ /\ call' # NoCall /\ call'.saved = State /\ emitted' = <<f1>>
         /\ call'.op = "reclaim" /\ call'.closing = <<f2>>
  <2>1. <<f1>> \o <<f2>> = <<f1, f2>>
    <3>1. PICK r1 \in Logs, r2 \in Logs : r1 = <<f1>> /\ r2 = <<f2>>
      BY <1>5
    <3>2. r1 \o r2 \in Seq(Event) /\ <<f1, f2>> \in Seq(Event)
      BY <1>4, TwoEvents DEF Logs
    <3>3. Len(r1 \o r2) = 2 /\ (r1 \o r2)[1] = f1 /\ (r1 \o r2)[2] = f2
      BY <3>1 DEF Logs
    <3>4. ASSUME NEW i \in 1..2 PROVE (r1 \o r2)[i] = <<f1, f2>>[i]
      <4>1. CASE i = 1
        BY <3>3, <4>1
      <4>2. CASE i = 2
        BY <3>3, <4>2
      <4>3. i = 1 \/ i = 2
        OBVIOUS
      <4> QED BY <4>1, <4>2, <4>3
    <3> QED BY <3>1, <3>2, <3>3, <3>4, SeqEqual
  <2> QED BY <1>2, <1>5, <2>1, CallRecipientRead
<1>10. CASE call' = NoCall
  <2>1. Mirrors(Fold(projection, emitted'), ownerOf', nextTokenId', sales', saleCount', claims')
    BY <1>2, <1>6, <1>8, <1>9, <1>10
  <2>2. ASSUME NEW g \in fundings PROVE Bears(sales', g)
    <3>1. /\ sale.status = sales[s].status /\ sale.expiresAt = sales[s].expiresAt
          /\ sale.buyer = sales[s].buyer /\ sale.priceWei = sales[s].priceWei
      BY <1>1, <1>3, ReturnKeepsTerms
    <3> QED BY <1>2, <3>1, Quiet, BearsOn
  <2> QED BY <1>6, <1>9, <1>10, <2>1, <2>2, Closed
<1>11. CASE call' # NoCall
  <2>1. Frames(call'.op, call'.closing, sales, claims, sales', claims')
    BY <1>1, <1>2, <1>4, <1>9, <1>11 DEF Frames
  <2>2. ToldBook' = sales /\ ToldOwed' = claims
    BY <1>9, <1>11 DEF ToldBook, ToldOwed, State
  <2>3. Mirrors(Fold(projection, emitted'), ownerOf', nextTokenId', ToldBook', saleCount',
                ToldOwed')
    BY <1>2, <1>5, <1>7, <1>9, <1>11, <2>2
  <2>4. Lacks(emitted', "SaleFunded")
    BY <1>5, <1>9, <1>11
  <2> QED BY <1>2, <1>9, <1>11, <2>1, <2>3, <2>4, Opened
<1> QED BY <1>10, <1>11

\* The closing event of a frame makes up for what the logs did not tell.
LEMMA ReturnRead ==
    ASSUME TypeOK, TypeOK', IInv, ReadModel, IndexLogs, ReturnFromCall
    PROVE  ReadModel'
<1> DEFINE old == call.saved
           F == Fold(projection, emitted)
<1>1. /\ call # NoCall /\ call' = NoCall /\ emitted' = emitted \o call.closing
      /\ UNCHANGED <<ownerOf, nextTokenId, sales, claims, saleCount>>
  BY DEF ReturnFromCall, nftVars, bookVars
<1>2. /\ old \in ContractState /\ Sound(old) /\ saleCount = old.saleCount
      /\ Frames(call.op, call.closing, old.sales, old.claims, sales, claims)
      /\ Mirrors(F, ownerOf, nextTokenId, ToldBook, saleCount, ToldOwed)
      /\ Lacks(emitted, "SaleFunded") /\ emitted \in Logs /\ emitted' \in Logs
      /\ \A g \in fundings : Bears(old.sales, g)
  BY <1>1, CommittedIs DEF ReadModel, IInv, TypeOK, Frame
<1>3. /\ old.sales = [r \in SaleIds |-> old.sales[r]]
      /\ old.claims = [r \in SaleIds |-> old.claims[r]]
      /\ \A r \in SaleIds : old.sales[r] \in Sale /\ old.claims[r] \in Claim
      /\ \A r \in SaleIds : old.sales[r].status # "NONE" => ~ (r > saleCount)
  <2>1. \A r \in SaleIds : r > saleCount => old.sales[r] = NoSale
    BY <1>2 DEF Sound, Fresh
  <2>2. old.sales \in [SaleIds -> Sale] /\ old.claims \in [SaleIds -> Claim]
    BY <1>2 DEF ContractState
  <2> QED BY <2>1, <2>2 DEF NoSale
<1> HIDE DEF old, F
<1>4. PICK s \in SaleIds :
        \/ /\ call.op = "complete" /\ call.closing = <<>>
           /\ old.sales[s].status = "FUNDED"
           /\ sales = [old.sales EXCEPT ![s] = [old.sales[s] EXCEPT !.status = "COMPLETED"]]
        \/ /\ call.op = "withdraw"
           /\ old.claims[s].status = "CLAIMABLE"
           /\ sales = old.sales
           /\ claims = [old.claims EXCEPT ![s] = [old.claims[s] EXCEPT !.status = "WITHDRAWN"]]
           /\ \E e \in Event :
                 e.kind = "PaymentWithdrawn" /\ e.saleId = s /\ call.closing = <<e>>
        \/ /\ call.op = "reclaim"
           /\ old.sales[s].status \in {"CANCELLED", "EXPIRED"}
           /\ sales = [old.sales EXCEPT ![s] = [old.sales[s] EXCEPT !.tokenReclaimed = TRUE]]
           /\ claims = old.claims
           /\ \E e \in Event :
                 e.kind = "TokenReclaimed" /\ e.saleId = s /\ call.closing = <<e>>
  BY <1>2 DEF Frames
<1> DEFINE Told(p) == Mirrors(p, ownerOf, nextTokenId, sales, saleCount, claims)
<1>5. /\ Told(Fold(projection, emitted'))
      /\ \A g \in fundings : Bears(sales, g)
      /\ Lacks(call.closing, "SaleFunded") /\ call.closing \in Logs
  <2>1. CASE call.op = "complete"
    <3>1. PICK new : new = [old.sales[s] EXCEPT !.status = "COMPLETED"]
      OBVIOUS
    <3>2. call.closing = <<>> /\ old.sales[s].status = "FUNDED"
          /\ sales = [old.sales EXCEPT ![s] = new]
      BY <1>4, <2>1, <3>1
    <3>3. Fold(projection, emitted') = F
      BY <1>1, <1>2, <3>2, FoldOneMore, EmptyLogs DEF F, Logs
    <3>4. ToldBook = sales /\ ToldOwed = claims
      BY <2>1 DEF ToldBook, ToldOwed
    <3>5. /\ new.status = "COMPLETED" /\ new.expiresAt = old.sales[s].expiresAt
          /\ new.buyer = old.sales[s].buyer /\ new.priceWei = old.sales[s].priceWei
      BY <1>3, <3>1, StatusKeepsTerms
    <3>6. \A g \in fundings : Bears(sales, g)
      BY <1>2, <1>3, <3>2, <3>5, BearsOn
    <3>7. Lacks(call.closing, "SaleFunded") /\ call.closing \in Logs
      BY <3>2, EmptyLogs DEF Lacks
    <3> QED BY <1>2, <3>3, <3>4, <3>6, <3>7
  <2>2. CASE call.op = "withdraw"
    <3>1. PICK new : new = [old.claims[s] EXCEPT !.status = "WITHDRAWN"]
      OBVIOUS
    <3>2. PICK e \in Event :
            /\ e.kind = "PaymentWithdrawn" /\ e.saleId = s /\ call.closing = <<e>>
            /\ old.claims[s].status = "CLAIMABLE" /\ sales = old.sales
            /\ claims = [old.claims EXCEPT ![s] = new]
      BY <1>4, <2>2, <3>1
    <3>3. Fold(projection, emitted') = P!ApplyEvent(F, e)
      BY <1>1, <1>2, <3>2, FoldOneMore DEF F
    <3>4. Mirrors(F, ownerOf, nextTokenId, sales, saleCount, old.claims)
      BY <1>2, <2>2, <3>2 DEF ToldBook, ToldOwed, old
    <3>5. Records(e, old.claims[s], new)
      BY <1>3, <3>1, <3>2, WithdrawnRow
    <3>6. e.kind \in {"PaymentClaimCreated", "PaymentWithdrawn"} /\ e.saleId = s
          /\ old.claims = [r \in SaleIds |-> old.claims[r]]
      BY <1>3, <3>2
    <3>7. Mirrors(P!ApplyEvent(F, e), ownerOf, nextTokenId, sales, saleCount,
                  [old.claims EXCEPT ![s] = new])
      BY ONLY <3>4, <3>5, <3>6, s \in SaleIds, PaymentMirrored
    <3>8. Lacks(call.closing, "SaleFunded") /\ call.closing \in Logs
      BY <3>2, OneEvent
    <3> QED BY <1>2, <3>2, <3>3, <3>7, <3>8
  <2>3. CASE call.op = "reclaim"
    <3>1. PICK new : new = [old.sales[s] EXCEPT !.tokenReclaimed = TRUE]
      OBVIOUS
    <3>2. PICK e \in Event :
            /\ e.kind = "TokenReclaimed" /\ e.saleId = s /\ call.closing = <<e>>
            /\ old.sales[s].status \in {"CANCELLED", "EXPIRED"} /\ claims = old.claims
            /\ sales = [old.sales EXCEPT ![s] = new]
      BY <1>4, <2>3, <3>1
    <3>3. Fold(projection, emitted') = P!ApplyEvent(F, e)
      BY <1>1, <1>2, <3>2, FoldOneMore DEF F
    <3>4. Mirrors(F, ownerOf, nextTokenId, old.sales, saleCount, claims)
      BY <1>2, <2>3, <3>2 DEF ToldBook, ToldOwed, old
    <3>5. P!SaleFault(RowOf(old.sales[s]), e) = "none"
          /\ P!ProjectSale(RowOf(old.sales[s]), e) = RowOf(new)
      BY <1>3, <3>1, <3>2, ReclaimedRow
    <3>6. ~ (s > saleCount)
      BY <1>3, <3>2
    <3>7. Mirrors(P!ApplyEvent(F, e), ownerOf, nextTokenId, [old.sales EXCEPT ![s] = new],
                  saleCount, claims)
      BY <1>3, <3>2, <3>4, <3>5, <3>6, SaleMirrored
    <3>8. Lacks(call.closing, "SaleFunded") /\ call.closing \in Logs
      BY <3>2, OneEvent
    <3>9. /\ new.status = old.sales[s].status /\ new.expiresAt = old.sales[s].expiresAt
          /\ new.buyer = old.sales[s].buyer /\ new.priceWei = old.sales[s].priceWei
      BY <1>3, <3>1, ReturnKeepsTerms
    <3>10. \A g \in fundings : Bears(sales, g)
      BY <1>2, <1>3, <3>2, <3>9, BearsOn
    <3> QED BY <3>2, <3>3, <3>7, <3>8, <3>10
  <2> QED BY <1>4, <2>1, <2>2, <2>3
<1>6. FundingsIn(emitted') = {}
  BY <1>1, <1>2, <1>5, ConcatLacks, NoFundings
<1>7. Mirrors(Fold(projection, emitted'), ownerOf', nextTokenId', sales', saleCount', claims')
  BY <1>1, <1>5
<1>8. \A g \in fundings \cup FundingsIn(emitted') : Bears(sales', g)
  BY <1>1, <1>5, <1>6
<1> QED BY <1>1, <1>7, <1>8, Closed

LEMMA NothingTold ==
    /\ FundingsIn(<<>>) = {}
    /\ Lacks(<<>>, "SaleFunded")
<1>1. Lacks(<<>>, "SaleFunded")
  BY DEF Lacks
<1> QED BY <1>1, EmptyLogs, NoFundings

LEMMA RevertRead ==
    ASSUME TypeOK, IInv, ReadModel, IndexLogs, RevertCall
    PROVE  ReadModel'
<1>1. /\ call # NoCall /\ call' = NoCall /\ emitted' = <<>> /\ nextTokenId' = nextTokenId
      /\ ownerOf' = call.saved.ownerOf /\ sales' = call.saved.sales
      /\ claims' = call.saved.claims /\ saleCount' = call.saved.saleCount
  BY DEF RevertCall
<1>2. Committed = call.saved
  BY <1>1, CommittedIs
<1>3. Fold(projection, emitted') = projection /\ FundingsIn(emitted') = {}
  BY <1>1, FoldEmpty, NothingTold
<1>4. Mirrors(Fold(projection, emitted'), ownerOf', nextTokenId', sales', saleCount', claims')
  BY <1>1, <1>2, <1>3 DEF ReadModel
<1>5. \A g \in fundings \cup FundingsIn(emitted') : Bears(sales', g)
  BY <1>1, <1>2, <1>3 DEF ReadModel
<1> QED BY <1>1, <1>4, <1>5, Closed

\* A step that tells nothing.
LEMMA SilentRead ==
    ASSUME TypeOK, IInv, ReadModel, IndexLogs, Emit(<<>>),
           UNCHANGED <<call, ownerOf, nextTokenId, sales, claims, saleCount>>
    PROVE  ReadModel'
<1>1. CASE call = NoCall
  <2>1. emitted' = <<>>
    BY <1>1, EmptyLogs, EmitAlone
  <2>2. Fold(projection, emitted') = projection /\ FundingsIn(emitted') = {}
    BY <2>1, FoldEmpty, NothingTold
  <2>3. Mirrors(Fold(projection, emitted'), ownerOf', nextTokenId', sales', saleCount', claims')
    BY <1>1, <2>2, Quiet
  <2>4. \A g \in fundings \cup FundingsIn(emitted') : Bears(sales', g)
    BY <1>1, <2>2, Quiet
  <2> QED BY <1>1, <2>3, <2>4, Closed
<1>2. CASE call # NoCall
  <2>1. emitted' = emitted
    BY <1>2 DEF Emit, TypeOK, Logs
  <2>2. Mirrors(Fold(projection, emitted'), ownerOf', nextTokenId, ToldBook, saleCount, ToldOwed)
        /\ Lacks(emitted', "SaleFunded")
    BY <1>2, <2>1 DEF ReadModel
  <2> QED BY <1>2, <2>2, Within
<1> QED BY <1>1, <1>2

LEMMA MovingRead ==
    ASSUME TypeOK, IInv, ReadModel, IndexLogs,
           NEW t \in TokenIds, NEW from \in Holders \cup {Nobody}, NEW to \in Holders,
           Emit(<<TransferEvent(t, from, to)>>), ownerOf' = [ownerOf EXCEPT ![t] = to],
           UNCHANGED <<call, sales, claims, saleCount>>,
           \/ t < nextTokenId /\ nextTokenId' = nextTokenId
           \/ call = NoCall /\ t = nextTokenId /\ nextTokenId' = nextTokenId + 1
    PROVE  ReadModel'
<1>1. PICK e : e = TransferEvent(t, from, to)
  OBVIOUS
<1>2. e \in Event /\ e.kind = "Transfer" /\ e.tokenId = t /\ e.to = to
  BY <1>1, TransferEventType DEF TransferEvent
<1>3. <<e>> \in Logs /\ FundingsIn(<<e>>) = {} /\ Lacks(<<e>>, "SaleFunded")
  BY <1>2, OneEvent
<1>4. ownerOf = [u \in TokenIds |-> ownerOf[u]] /\ nextTokenId \in Nat
  BY DEF TypeOK, NftTypeOK
<1>5. CASE call = NoCall
  <2>1. emitted' = <<e>> /\ Fold(projection, <<e>>) = P!ApplyEvent(projection, e)
    BY <1>1, <1>2, <1>3, <1>5, EmitAlone, OneEvent
  <2>2. Mirrors(projection, ownerOf, nextTokenId, sales, saleCount, claims)
        /\ \A g \in fundings : Bears(sales, g)
    BY <1>5, Quiet
  <2>3. Mirrors(P!ApplyEvent(projection, e), ownerOf', nextTokenId', sales, saleCount, claims)
    BY <1>2, <1>4, <2>2, TransferMirrored
  <2>4. Mirrors(Fold(projection, emitted'), ownerOf', nextTokenId', sales', saleCount', claims')
    BY <2>1, <2>3
  <2>5. \A g \in fundings \cup FundingsIn(emitted') : Bears(sales', g)
    BY <1>3, <2>1, <2>2
  <2> QED BY <1>5, <2>4, <2>5, Closed
<1>6. CASE call # NoCall
  <2>1. emitted' = emitted \o <<e>> /\ emitted \in Logs
    BY <1>1, <1>6 DEF Emit, TypeOK
  <2>2. Fold(projection, emitted') = P!ApplyEvent(Fold(projection, emitted), e)
    BY <1>2, <2>1, FoldOneMore
  <2>3. /\ Mirrors(Fold(projection, emitted), ownerOf, nextTokenId, ToldBook, saleCount, ToldOwed)
        /\ Lacks(emitted, "SaleFunded")
    BY <1>6 DEF ReadModel
  <2>4. t < nextTokenId /\ nextTokenId' = nextTokenId
    BY <1>6
  <2>5. Mirrors(P!ApplyEvent(Fold(projection, emitted), e), ownerOf', nextTokenId, ToldBook,
                saleCount, ToldOwed)
    BY <1>2, <1>4, <2>3, <2>4, TransferMirrored
  <2>6. Lacks(emitted', "SaleFunded")
    BY <1>3, <2>1, <2>3, ConcatLacks
  <2>7. Mirrors(Fold(projection, emitted'), ownerOf', nextTokenId, ToldBook, saleCount, ToldOwed)
    BY <2>2, <2>5
  <2> QED BY <1>6, <2>4, <2>6, <2>7, Within
<1> QED BY <1>5, <1>6

LEMMA OutsideRead ==
    ASSUME TypeOK, IInv, ReadModel, IndexLogs,
           \/ \E to \in Holders : MintToken(to)
           \/ \E a \in Users, t \in TokenIds, to \in Holders : TransferToken(a, t, to)
           \/ \E a \in Users : ApproveEscrow(a)
           \/ ForceEther
           \/ Tick
    PROVE  ReadModel'
<1>1. ASSUME NEW to \in Holders, MintToken(to) PROVE ReadModel'
  <2>1. /\ call = NoCall /\ nextTokenId \in TokenIds
        /\ Emit(<<TransferEvent(nextTokenId, Nobody, to)>>)
        /\ ownerOf' = [ownerOf EXCEPT ![nextTokenId] = to] /\ nextTokenId' = nextTokenId + 1
        /\ UNCHANGED <<call, sales, claims, saleCount>>
    BY <1>1 DEF MintToken, Mint, Update, outsideNft, bookVars
  <2> QED BY <2>1, MovingRead
<1>2. ASSUME NEW a \in Users, NEW t \in TokenIds, NEW to \in Holders, TransferToken(a, t, to)
      PROVE  ReadModel'
  <2>1. /\ ownerOf[t] = a /\ Emit(<<TransferEvent(t, a, to)>>)
        /\ ownerOf' = [ownerOf EXCEPT ![t] = to] /\ nextTokenId' = nextTokenId
        /\ UNCHANGED <<call, sales, claims, saleCount>>
    BY <1>2 DEF TransferToken, TransferFrom, Update, outsideNft, bookVars
  <2>2. t < nextTokenId
    <3> SUFFICES ASSUME ~ (t < nextTokenId) PROVE FALSE
      OBVIOUS
    <3>1. t \in Nat /\ nextTokenId \in Nat
      BY DEF TypeOK, NftTypeOK, TokenIds
    <3>2. t >= nextTokenId
      BY <3>1
    <3>3. Fresh(ownerOf, sales, saleCount)
      BY SoundParts
    <3> QED BY <2>1, <3>2, <3>3, Numbers DEF Fresh
  <2>3. a \in Holders \cup {Nobody}
    BY DEF Holders
  <2> QED BY <2>1, <2>2, <2>3, MovingRead
<1>3. ASSUME NEW a \in Users, ApproveEscrow(a) PROVE ReadModel'
  <2>1. Emit(<<>>) /\ UNCHANGED <<call, ownerOf, nextTokenId, sales, claims, saleCount>>
    BY <1>3 DEF ApproveEscrow, SetApprovalForAll, Approve, outsideNft, bookVars
  <2> QED BY <2>1, SilentRead
<1>4. CASE ForceEther
  <2>1. Emit(<<>>) /\ UNCHANGED <<call, ownerOf, nextTokenId, sales, claims, saleCount>>
    BY <1>4 DEF ForceEther, nftVars, bookVars
  <2> QED BY <2>1, SilentRead
<1>5. CASE Tick
  <2>1. Emit(<<>>) /\ UNCHANGED <<call, ownerOf, nextTokenId, sales, claims, saleCount>>
    BY <1>5 DEF Tick, nftVars, bookVars
  <2> QED BY <2>1, SilentRead
<1> QED BY <1>1, <1>2, <1>3, <1>4, <1>5

LEMMA InitRead == ProjectedInit => ReadModel
<1> SUFFICES ASSUME ProjectedInit PROVE ReadModel
  OBVIOUS
<1>1. /\ call = NoCall /\ nextTokenId = 1 /\ saleCount = 0 /\ fundings = {}
      /\ claims = [s \in SaleIds |-> NoClaim] /\ projection = P!EmptyProjection
  BY DEF ProjectedInit, Init, NftInit
<1>2. OwnerRows(ownerOf, nextTokenId) = [t \in TokenIds |-> NoRow]
  <2>1. \A t \in TokenIds : ~ (t < nextTokenId)
    BY <1>1 DEF TokenIds
  <2> QED BY <2>1 DEF OwnerRows
<1>3. BookRows(sales, saleCount) = [s \in SaleIds |-> NoRow]
  <2>1. \A s \in SaleIds : s > saleCount
    BY <1>1 DEF SaleIds
  <2> QED BY <2>1 DEF BookRows
<1>4. projection = Tables(OwnerRows(ownerOf, nextTokenId), BookRows(sales, saleCount),
                          [s \in SaleIds |-> NoRow])
  BY <1>1, <1>2, <1>3 DEF P!EmptyProjection, Tables
<1>5. SameClaims([s \in SaleIds |-> NoRow], claims)
  BY <1>1 DEF SameClaims, SameClaim, NoClaim
<1>6. Mirrors(projection, ownerOf, nextTokenId, sales, saleCount, claims)
  BY <1>4, <1>5, MirrorParts
<1> QED BY <1>1, <1>6, CommittedIs DEF ReadModel

-----------------------------------------------------------------------------
(* The read model follows the contracts.                                   *)

LEMMA EscrowHolds == ProjectedSpec => [](TypeOK /\ IInv)
<1>1. ProjectedInit => Init
  BY DEF ProjectedInit
<1>2. [ProjectedNext]_<<vars, projection, fundings>> => [Next]_vars
  BY DEF ProjectedNext
<1>3. ProjectedSpec => Spec
  BY <1>1, <1>2, PTL DEF ProjectedSpec, Spec
<1> QED BY <1>3, TypeCorrect, Inductive, PTL

\* The read model mirrors the last committed state of the contracts, the
\* logs of an open frame tell its state up to the closing event, and every
\* stored funding is borne out by its sale (the indexer's projectors).
THEOREM MirrorsContracts == ProjectedSpec => []ReadModel
<1>1. ASSUME TypeOK, TypeOK', IInv, ReadModel, [ProjectedNext]_<<vars, projection, fundings>>
      PROVE  ReadModel'
  <2>1. CASE UNCHANGED <<vars, projection, fundings>>
    BY <1>1, <2>1 DEF vars, nftVars, bookVars, ReadModel, Committed, State, ToldBook, ToldOwed
  <2>2. CASE ProjectedNext
    <3>1. IndexLogs /\ Next
      BY <2>2 DEF ProjectedNext
    <3> QED
      BY <1>1, <3>1, CreateSaleRead, FundSaleRead, CompleteSaleRead, CancelSaleRead,
         ExpireSaleRead, WithdrawPaymentRead, ReclaimTokenRead, ReturnRead, RevertRead,
         OutsideRead
         DEF Next
  <2> QED BY <1>1, <2>1, <2>2
<1> QED BY <1>1, InitRead, EscrowHolds, PTL DEF ProjectedSpec

\* No receipt of the contracts makes a projector throw, whatever nested calls
\* wrote into it (sale-projector.ts, payment-projector.ts).
THEOREM ReceiptsAccepted == ProjectedSpec => []ProjectorsAcceptReceipts
<1>1. ReadModel => ProjectorsAcceptReceipts
  BY DEF ReadModel, Mirrors, Tables, ProjectorsAcceptReceipts
<1> QED BY <1>1, MirrorsContracts, PTL

\* Between transactions reconciliation finds no difference between the rows
\* and what the contracts answer (reconcile.ts).
THEOREM Reconciled == ProjectedSpec => []ReconciliationMatches
<1>1. TypeOK /\ ReadModel => ReconciliationMatches
  <2> SUFFICES ASSUME TypeOK, ReadModel, call = NoCall PROVE Differences = {}
    BY DEF ReconciliationMatches
  <2>1. Mirrors(projection, ownerOf, nextTokenId, sales, saleCount, claims)
    BY CommittedIs DEF ReadModel
  <2>2. PICK c : /\ projection = Tables(OwnerRows(ownerOf, nextTokenId),
                                        BookRows(sales, saleCount), c)
                 /\ SameClaims(c, claims)
    BY <2>1, MirrorParts
  <2>3. ASSUME NEW s \in SaleIds PROVE projection.sales[s] = ChainSale(s)
    <3>1. projection.sales[s] = IF s > saleCount THEN NoRow ELSE RowOf(sales[s])
      BY <2>2 DEF Tables, BookRows
    <3>2. ChainSale(s) = IF s > saleCount THEN NoRow ELSE RowOf(sales[s])
      <4>1. sales[s] \in Sale
        BY DEF TypeOK
      <4>2. PICK b, x : b = (IF sales[s].buyer = Nobody THEN NoRow ELSE sales[s].buyer)
                        /\ x = (IF sales[s].expiresAt = 0 THEN NoRow ELSE sales[s].expiresAt)
        OBVIOUS
      <4>3. PICK t, a, o, u, p, y, z, g :
              /\ sales[s] = [tokenId |-> t, seller |-> a, allowedBuyer |-> o, buyer |-> u,
                             priceWei |-> p, expiresAt |-> y, status |-> z,
                             tokenReclaimed |-> g]
        <5>1. CASE sales[s] \in OpenSale
          BY <5>1 DEF OpenSale
        <5>2. CASE sales[s] \in PaidSale
          BY <5>2 DEF PaidSale
        <5>3. CASE sales[s] = NoSale
          BY <5>3 DEF NoSale
        <5> QED BY <4>1, <5>1, <5>2, <5>3 DEF Sale
      <4>4. [[sales[s] EXCEPT !.buyer = b] EXCEPT !.expiresAt = x]
              = [tokenId |-> t, seller |-> a, allowedBuyer |-> o, buyer |-> b,
                 priceWei |-> p, expiresAt |-> x, status |-> z, tokenReclaimed |-> g]
        <5>1. PICK half : half = [tokenId |-> t, seller |-> a, allowedBuyer |-> o, buyer |-> b,
                                  priceWei |-> p, expiresAt |-> y, status |-> z,
                                  tokenReclaimed |-> g]
          OBVIOUS
        <5>2. [sales[s] EXCEPT !.buyer = b] = half
          BY ONLY <4>3, <5>1
        <5>3. [half EXCEPT !.expiresAt = x]
                = [tokenId |-> t, seller |-> a, allowedBuyer |-> o, buyer |-> b,
                   priceWei |-> p, expiresAt |-> x, status |-> z, tokenReclaimed |-> g]
          BY ONLY <5>1
        <5> QED BY <5>2, <5>3
      <4>5. [sales[s] EXCEPT !.buyer = b, !.expiresAt = x]
              = [[sales[s] EXCEPT !.buyer = b] EXCEPT !.expiresAt = x]
        BY ONLY <4>3
      <4>6. RowOf(sales[s])
              = [tokenId |-> t, seller |-> a, allowedBuyer |-> o, buyer |-> b,
                 priceWei |-> p, expiresAt |-> x, status |-> z, tokenReclaimed |-> g]
        BY <4>2, <4>3 DEF RowOf
      <4>7. [sales[s] EXCEPT !.buyer = b, !.expiresAt = x] = RowOf(sales[s])
        BY <4>4, <4>5, <4>6
      <4> QED BY <4>2, <4>7 DEF ChainSale
    <3> QED BY <3>1, <3>2
  <2>4. ASSUME NEW s \in SaleIds PROVE ClaimRow(s) = ChainClaim(s)
    <3>1. projection.claims[s] = c[s] /\ SameClaim(c[s], claims[s])
      BY <2>2 DEF Tables, SameClaims
    <3>2. c[s] \in ClaimRows => c[s] # NoRow
      BY NoRowAssumption
    <3> QED BY <3>1, <3>2 DEF SameClaim, ClaimRow, ChainClaim
  <2>5. ASSUME NEW t \in TokenIds PROVE projection.owners[t] = ChainOwner(t)
    BY <2>2 DEF Tables, OwnerRows, ChainOwner
  <2> QED BY <2>3, <2>4, <2>5 DEF Differences
<1> QED BY <1>1, MirrorsContracts, EscrowHolds, PTL

\* A buyer who asks for a stored funding is told that the read model bears it
\* out, whatever later receipts did to the sale (observeFunding of the sales
\* reader).
THEOREM FundingsStand == ProjectedSpec => []FundingStaysConsistent
<1>1. TypeOK /\ IInv /\ ReadModel => FundingStaysConsistent
  <2> SUFFICES ASSUME TypeOK, IInv, ReadModel, NEW e \in fundings
               PROVE  ProjectionEffect(e) = "CONSISTENT"
    BY DEF FundingStaysConsistent, ObserveFunding
  <2> DEFINE s == e.saleId
  <2>1. PICK st : st = Committed
    OBVIOUS
  <2>2. /\ Mirrors(projection, st.ownerOf, nextTokenId, st.sales, st.saleCount, st.claims)
        /\ Bears(st.sales, e)
    BY <2>1 DEF ReadModel
  <2>3. /\ \A r \in SaleIds : r > st.saleCount => st.sales[r] = NoSale
        /\ Outcomes(st.sales, st.claims)
        /\ \A r \in SaleIds : st.sales[r] \in Sale
    <3>1. CASE call = NoCall
      BY <2>1, <3>1, SoundParts, CommittedIs DEF TypeOK, Fresh
    <3>2. CASE call # NoCall
      <4>1. Sound(call.saved) /\ call.saved \in ContractState
        BY <3>2 DEF IInv, TypeOK, Frame
      <4> QED BY <2>1, <3>2, <4>1, CommittedIs DEF Sound, Fresh, ContractState
    <3> QED BY <3>1, <3>2
  <2>4. PICK sale : sale = st.sales[s]
    OBVIOUS
  <2>5. /\ s \in SaleIds /\ sale.status \in {"FUNDED", "COMPLETED", "EXPIRED"}
        /\ sale.expiresAt # 0 /\ SameFunding(sale, e) /\ sale \in Sale /\ sale \in PaidSale
        /\ ~ (s > st.saleCount)
    <3>1. s \in SaleIds /\ sale.status \in {"FUNDED", "COMPLETED", "EXPIRED"}
          /\ sale.expiresAt # 0 /\ SameFunding(sale, e)
      BY <2>2, <2>4 DEF Bears
    <3>2. sale \in Sale /\ sale \in PaidSale
      BY <2>3, <2>4, <3>1 DEF Sale, NoSale, OpenSale
    <3> QED BY <2>3, <2>4, <3>1, <3>2 DEF NoSale
  <2>6. PICK c : /\ projection = Tables(OwnerRows(st.ownerOf, nextTokenId),
                                        BookRows(st.sales, st.saleCount), c)
                 /\ SameClaims(c, st.claims)
    BY <2>2, MirrorParts
  <2>7. projection.sales[s] = RowOf(sale) /\ projection.claims[s] = c[s]
    BY <2>4, <2>5, <2>6 DEF Tables, BookRows
  <2>8. sale.status = "FUNDED" => c[s] = NoRow
    <3>1. sale.status = "FUNDED" => st.claims[s] = NoClaim
      BY <2>3, <2>4, <2>5 DEF Outcomes, Outcome
    <3>2. SameClaim(c[s], st.claims[s])
      BY <2>5, <2>6 DEF SameClaims
    <3> QED BY <3>1, <3>2 DEF SameClaim, NoClaim
  <2>9. RowOf(sale) # NoRow /\ RowOf(sale).status = sale.status
    BY <2>5, RowIs
  <2>10. SameFunding(RowOf(sale), e)
    <3>1. sale.buyer # Nobody
      BY <2>5 DEF PaidSale
    <3> QED BY <2>5, <3>1 DEF SameFunding, RowOf
  <2> QED BY <2>5, <2>7, <2>8, <2>9, <2>10 DEF ProjectionEffect, ReadSale
<1> QED BY <1>1, MirrorsContracts, EscrowHolds, PTL
=============================================================================
