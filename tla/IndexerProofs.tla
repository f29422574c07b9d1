--------------------------- MODULE IndexerProofs ---------------------------
(***************************************************************************)
(* Theorems about Indexer, for every number of branches, every bound on    *)
(* the chain, every indexing depth and batch size, and a provider that may *)
(* or may not answer before its log index is complete.                     *)
(***************************************************************************)
EXTENDS Indexer, FiniteSetTheorems, FunctionTheorems, SequenceTheorems, WellFoundedInduction, TLAPS

USE IndexerAssumption, NullAssumption

-----------------------------------------------------------------------------
(* Numbers and blocks.                                                     *)

\* A set of numbers has a least one: what replaces induction below.
LEMMA Least ==
    ASSUME NEW T \in SUBSET Nat, T # {}
    PROVE  \E n \in T : \A m \in T : n <= m
<1> DEFINE R == {ss \in Nat \X Nat : ss[1] < ss[2]}
<1>1. IsWellFoundedOn(R, Nat)
  BY NatLessThanWellFounded DEF OpToRel
<1>2. \A x, y \in Nat : x < y => <<x, y>> \in R
  OBVIOUS
<1> HIDE DEF R
<1>3. PICK x \in T : \A y \in T : ~ (<<y, x>> \in R)
  BY <1>1, WFMin
<1>4. \A y \in T : x \in Nat /\ y \in Nat /\ ~ (y < x)
  BY <1>2, <1>3
<1>5. \A y \in T : x <= y
  BY <1>4
<1> QED BY <1>5

\* A block, or the root they all descend from, is a path.
Paths == Blocks \cup {Genesis}

LEMMA PathType ==
    ASSUME NEW b \in Paths
    PROVE  /\ b \in Seq(Branches) /\ Len(b) \in 0..MaxHeight /\ Len(b) \in Nat
           /\ b # Genesis <=> Len(b) > 0
           /\ b \in Blocks <=> Len(b) > 0
<1>1. CASE b \in Blocks
  <2>1. PICK n \in 1..MaxHeight : b \in [1..n -> Branches]
    BY <1>1 DEF Blocks
  <2>2. b \in Seq(Branches) /\ Len(b) = n
    BY <2>1
  <2> QED BY <1>1, <2>1, <2>2 DEF Genesis
<1>2. CASE b = Genesis /\ b \notin Blocks
  BY <1>2 DEF Genesis
<1> QED BY <1>1, <1>2 DEF Paths

LEMMA PathFromSeq ==
    ASSUME NEW b \in Seq(Branches), Len(b) <= MaxHeight
    PROVE  b \in Paths /\ (Len(b) > 0 => b \in Blocks)
<1>1. Len(b) \in Nat /\ b \in [1..Len(b) -> Branches]
  BY LenProperties
<1>2. CASE Len(b) = 0
  BY <1>1, <1>2 DEF Paths, Genesis
<1>3. CASE Len(b) > 0
  <2>1. Len(b) \in 1..MaxHeight
    BY <1>1, <1>3
  <2>2. \A n \in 1..MaxHeight : [1..n -> Branches] \subseteq Blocks
    BY DEF Blocks
  <2>3. b \in Blocks
    BY <1>1, <2>1, <2>2
  <2> QED BY <2>3 DEF Paths
<1> QED BY <1>1, <1>2, <1>3

\* Down the path.
LEMMA PrefixType ==
    ASSUME NEW b \in Paths, NEW n \in 0..Len(b)
    PROVE  /\ SubSeq(b, 1, n) \in Paths /\ SubSeq(b, 1, n) \in Seq(Branches)
           /\ Len(SubSeq(b, 1, n)) = n /\ n \in Nat
           /\ \A i \in 1..n : SubSeq(b, 1, n)[i] = b[i]
<1>1. b \in Seq(Branches) /\ Len(b) \in 0..MaxHeight /\ Len(b) \in Nat
  BY PathType
<1> DEFINE p == SubSeq(b, 1, n)
<1>2. p \in Seq(Branches) /\ Len(p) = n /\ \A i \in 1..n : p[i] = b[i]
  <2>1. \A i \in 1..n : b[i] \in Branches
    BY <1>1, ElementOfSeq
  <2> QED BY <1>1, <2>1, SubSeqProperties
<1> HIDE DEF p
<1>3. p \in Paths
  BY <1>1, <1>2, PathFromSeq
<1> QED BY <1>1, <1>2, <1>3 DEF p

LEMMA PrefixBlock ==
    ASSUME NEW b \in Paths, NEW n \in 1..Len(b)
    PROVE  SubSeq(b, 1, n) \in Blocks
<1>1. n \in 0..Len(b)
  BY PathType
<1> DEFINE p == SubSeq(b, 1, n)
<1>2. p \in Paths /\ Len(p) = n
  BY <1>1, PrefixType
<1> HIDE DEF p
<1>3. p \in Blocks
  BY <1>2, PathType
<1> QED BY <1>3 DEF p

LEMMA PrefixPrefix ==
    ASSUME NEW b \in Paths, NEW n \in 0..Len(b), NEW m \in 0..n
    PROVE  SubSeq(SubSeq(b, 1, n), 1, m) = SubSeq(b, 1, m)
<1>1. Len(b) \in Nat /\ m \in 0..Len(b)
  BY PathType
<1> DEFINE p == SubSeq(b, 1, n)
           q == SubSeq(p, 1, m)
           r == SubSeq(b, 1, m)
<1>2. p \in Paths /\ Len(p) = n /\ \A i \in 1..n : p[i] = b[i]
  BY PrefixType
<1>3. r \in Seq(Branches) /\ Len(r) = m /\ \A i \in 1..m : r[i] = b[i]
  BY <1>1, PrefixType
<1> HIDE DEF p
<1>4. q \in Seq(Branches) /\ Len(q) = m /\ \A i \in 1..m : q[i] = p[i]
  BY <1>2, PrefixType
<1> HIDE DEF q, r
<1>5. q = r
  BY <1>1, <1>2, <1>3, <1>4, SeqEqual
<1> QED BY <1>5 DEF p, q, r

LEMMA PrefixFront ==
    ASSUME NEW b \in Paths, NEW n \in 1..Len(b)
    PROVE  Front(SubSeq(b, 1, n)) = SubSeq(b, 1, n - 1)
<1>1. n \in 0..Len(b) /\ n - 1 \in 0..n
  BY PathType
<1>2. Len(SubSeq(b, 1, n)) = n
  BY <1>1, PrefixType
<1>3. SubSeq(SubSeq(b, 1, n), 1, n - 1) = SubSeq(b, 1, n - 1)
  BY <1>1, PrefixPrefix
<1> QED BY <1>2, <1>3 DEF Front

LEMMA WholePath ==
    ASSUME NEW b \in Paths
    PROVE  SubSeq(b, 1, Len(b)) = b
BY PathType, SubSeqFull

\* A path to a block lists every block it passes.
LEMMA ChainOf ==
    ASSUME NEW b \in Paths
    PROVE  /\ Chain(b) \in Seq(Blocks) /\ Len(Chain(b)) = Len(b)
           /\ \A n \in 1..Len(b) : Chain(b)[n] = SubSeq(b, 1, n)
           /\ Ancestry(b) = {SubSeq(b, 1, n) : n \in 1..Len(b)}
           /\ Ancestry(b) \subseteq Blocks
<1>1. Len(b) \in Nat
  BY PathType
<1>2. \A n \in 1..Len(b) : SubSeq(b, 1, n) \in Blocks
  BY PrefixBlock
<1>3. Chain(b) = [n \in 1..Len(b) |-> SubSeq(b, 1, n)]
  BY DEF Chain
<1>4. Chain(b) \in [1..Len(b) -> Blocks]
  BY <1>2, <1>3
<1>5. Chain(b) \in Seq(Blocks) /\ Len(Chain(b)) = Len(b)
  BY <1>1, <1>4
<1>6. Ancestry(b) = {SubSeq(b, 1, n) : n \in 1..Len(b)}
  BY <1>3 DEF Ancestry, Range
<1> QED BY <1>2, <1>3, <1>5, <1>6

\* Paths above p and up to a number, one at most for each, and each the child of
\* another of them or of p.
Descent(headers, p, to) ==
    /\ \A h \in headers : Len(h) \in (Len(p) + 1)..to
    /\ \A h \in headers, g \in headers : Len(h) = Len(g) => h = g
    /\ \A h \in headers : Len(h) > 1 => Front(h) \in headers \cup {p}

\* The blocks of a path above number k.
Above(e, k) == {SubSeq(e, 1, n) : n \in (k + 1)..Len(e)}

\* They are the path from p to the last.
LEMMA Lineage ==
    ASSUME NEW p \in Paths, NEW to \in Nat, Len(p) < to, NEW headers \in SUBSET Blocks,
           Descent(headers, p, to), NEW e \in headers, Len(e) = to
    PROVE  /\ \A n \in (Len(p) + 1)..to : SubSeq(e, 1, n) \in headers
           /\ headers = Above(e, Len(p))
           /\ SubSeq(e, 1, Len(p)) = p
<1>0. /\ \A h \in headers : Len(h) \in (Len(p) + 1)..to
      /\ \A h \in headers, g \in headers : Len(h) = Len(g) => h = g
      /\ \A h \in headers : Len(h) > 1 => Front(h) \in headers \cup {p}
  BY DEF Descent
<1>1. Len(p) \in Nat /\ e \in Paths /\ SubSeq(e, 1, to) = e
  BY PathType, WholePath DEF Paths
<1> DEFINE T == {j \in Nat : j < to - Len(p) /\ SubSeq(e, 1, to - j) \notin headers}
<1>2. T = {}
  <2> SUFFICES ASSUME T # {} PROVE FALSE
    OBVIOUS
  <2>1. PICK j \in T : \A i \in T : j <= i
    BY Least
  <2>2. j # 0 /\ j \in Nat /\ j < to - Len(p)
    <3>1. j \in Nat /\ j < to - Len(p) /\ SubSeq(e, 1, to - j) \notin headers
      BY <2>1
    <3>2. CASE j = 0
      <4>1. to - j = to
        BY <3>2
      <4> QED BY <1>1, <3>1, <4>1
    <3> QED BY <3>1, <3>2
  <2>3. j - 1 \notin T /\ j - 1 \in Nat /\ j - 1 < to - Len(p)
    <3>1. j - 1 \in Nat /\ j - 1 < to - Len(p) /\ ~ (j <= j - 1)
      BY <1>1, <2>2
    <3> HIDE DEF T
    <3> QED BY <2>1, <3>1
  <2>4. SubSeq(e, 1, to - (j - 1)) \in headers
    BY <2>3
  <2> DEFINE n == to - (j - 1)
             h == SubSeq(e, 1, n)
  <2> HIDE DEF T
  <2>5. n \in 0..Len(e) /\ n > Len(p) + 1 /\ n - 1 = to - j
    BY <1>1, <2>2
  <2>6. Len(h) = n /\ Front(h) = SubSeq(e, 1, to - j) /\ Len(Front(h)) = to - j
    <3>1. n - 1 \in 0..Len(e) /\ n \in 1..Len(e)
      BY <1>1, <2>5
    <3> HIDE DEF n
    <3>2. Front(SubSeq(e, 1, n)) = SubSeq(e, 1, n - 1)
      BY <1>1, <3>1, PrefixFront
    <3>3. Len(SubSeq(e, 1, n)) = n
      BY <1>1, <2>5, PrefixType
    <3>4. Len(SubSeq(e, 1, n - 1)) = n - 1
      BY <1>1, <3>1, PrefixType
    <3> QED BY <2>5, <3>2, <3>3, <3>4
  <2>7. Front(h) \in headers \cup {p}
    <3>1. Len(h) > 1
      BY <1>1, <2>5, <2>6
    <3> HIDE DEF h
    <3>2. h \in headers
      BY <2>4 DEF h
    <3> QED BY <1>0, <3>1, <3>2
  <2>8. Front(h) # p
    BY <1>1, <2>2, <2>6
  <2>9. SubSeq(e, 1, to - j) \notin headers
    BY <2>1 DEF T
  <2> QED BY <2>6, <2>7, <2>8, <2>9
<1>3. ASSUME NEW n \in (Len(p) + 1)..to PROVE SubSeq(e, 1, n) \in headers
  <2>1. to - n \in Nat /\ to - n < to - Len(p) /\ to - (to - n) = n
    BY <1>1
  <2>2. ~ (to - n \in Nat /\ to - n < to - Len(p) /\ SubSeq(e, 1, to - (to - n)) \notin headers)
    BY <1>2
  <2> QED BY <2>1, <2>2
<1> HIDE DEF T
<1>4. ASSUME NEW n \in (Len(p) + 1)..to PROVE Len(SubSeq(e, 1, n)) = n
  <2>1. n \in 0..Len(e)
    BY <1>1
  <2> QED BY <1>1, <2>1, PrefixType
<1>5. headers = {SubSeq(e, 1, n) : n \in (Len(p) + 1)..to}
  <2>1. ASSUME NEW h \in headers PROVE h = SubSeq(e, 1, Len(h)) /\ Len(h) \in (Len(p) + 1)..to
    <3>1. Len(h) \in (Len(p) + 1)..to
      BY <1>0
    <3>2. Len(SubSeq(e, 1, Len(h))) = Len(h) /\ SubSeq(e, 1, Len(h)) \in headers
      BY <1>3, <1>4, <3>1
    <3> QED BY <1>0, <3>1, <3>2
  <2> DEFINE path == {SubSeq(e, 1, n) : n \in (Len(p) + 1)..to}
  <2>2. \A h \in headers : h \in path
    BY <2>1
  <2>3. \A h \in path : h \in headers
    BY <1>3
  <2> HIDE DEF path
  <2>4. headers = path
    BY <2>2, <2>3
  <2> QED BY <2>4 DEF path
<1>6. SubSeq(e, 1, Len(p)) = p
  <2>1. CASE Len(p) = 0
    <3>1. SubSeq(e, 1, 0) = <<>> /\ p = <<>>
      BY <1>1, <2>1, PathType, SubSeqEmpty DEF Genesis
    <3> QED BY <2>1, <3>1
  <2>2. CASE Len(p) > 0
    <3> DEFINE k == Len(p)
               h == SubSeq(e, 1, k + 1)
    <3>1. k \in 0..Len(e) /\ k + 1 \in 0..Len(e) /\ k + 1 \in (Len(p) + 1)..to
      BY <1>1
    <3>2. Len(SubSeq(e, 1, k + 1)) = k + 1
      BY <1>1, <3>1, PrefixType
    <3>5. Len(SubSeq(e, 1, k)) = k
      BY <1>1, <3>1, PrefixType
    <3>8. k + 1 \in 1..Len(e) /\ k + 1 - 1 = k
      BY <1>1, <3>1
    <3>9. Front(SubSeq(e, 1, k + 1)) = SubSeq(e, 1, k + 1 - 1)
      BY <1>1, <3>8, PrefixFront
    <3>6. h \in headers
      BY <1>3, <3>1
    <3>7. Front(h) = SubSeq(e, 1, k)
      BY <3>8, <3>9
    <3>3. Front(h) \in headers \cup {p}
      <4>1. Len(h) > 1
        BY <1>1, <2>2, <3>2
      <4> HIDE DEF h
      <4> QED BY <1>0, <3>6, <4>1
    <3>4. Front(h) \notin headers
      <4>1. \A g \in headers : Len(g) > Len(p)
        BY <1>0, <1>1
      <4>2. Len(Front(h)) = Len(p)
        BY <3>5, <3>7
      <4> HIDE DEF h
      <4> QED BY <1>1, <4>1, <4>2
    <3> QED BY <3>7, <3>3, <3>4
  <2> QED BY <1>1, <2>1, <2>2
<1>7. headers = Above(e, Len(p))
  BY <1>5 DEF Above
<1> QED BY <1>3, <1>6, <1>7

\* The blocks of a path above p are as many as the numbers above its own.
LEMMA Segment ==
    ASSUME NEW e \in Paths, NEW k \in 0..Len(e), NEW m \in k..Len(e)
    PROVE  Cardinality({SubSeq(e, 1, n) : n \in (k + 1)..m}) = m - k
<1>1. Len(e) \in Nat /\ k \in Nat /\ m \in Nat /\ m - k \in Nat
  BY PathType
<1> DEFINE S == {SubSeq(e, 1, n) : n \in (k + 1)..m}
           f == [i \in 1..(m - k) |-> SubSeq(e, 1, k + i)]
<1>2. \A i \in 1..(m - k) : k + i \in (k + 1)..m /\ k + i \in 0..Len(e)
  BY <1>1
<1>3. \A n \in (k + 1)..m : n - k \in 1..(m - k) /\ k + (n - k) = n
  BY <1>1
<1>4. \A n \in 0..Len(e) : Len(SubSeq(e, 1, n)) = n
  BY PrefixType
<1>5. f \in [1..(m - k) -> S]
  BY <1>2
<1>6. \A i, j \in 1..(m - k) : f[i] = f[j] => i = j
  <2> SUFFICES ASSUME NEW i \in 1..(m - k), NEW j \in 1..(m - k), f[i] = f[j] PROVE i = j
    OBVIOUS
  <2>1. SubSeq(e, 1, k + i) = SubSeq(e, 1, k + j)
    OBVIOUS
  <2>2. Len(SubSeq(e, 1, k + i)) = k + i /\ Len(SubSeq(e, 1, k + j)) = k + j
    BY <1>2, <1>4
  <2> QED BY <1>1, <2>1, <2>2
<1>7. \A s \in S : \E i \in 1..(m - k) : f[i] = s
  <2> SUFFICES ASSUME NEW n \in (k + 1)..m
               PROVE  \E i \in 1..(m - k) : f[i] = SubSeq(e, 1, n)
    OBVIOUS
  <2>1. f[n - k] = SubSeq(e, 1, n)
    BY <1>3
  <2> QED BY <1>3, <2>1
<1> HIDE DEF f, S
<1>8. f \in Bijection(1..(m - k), S)
  <2>1. f \in Injection(1..(m - k), S)
    BY <1>5, <1>6, Fun_IsInj
  <2>2. f \in Surjection(1..(m - k), S)
    BY <1>5, <1>7, Fun_IsSurj
  <2> QED BY <2>1, <2>2 DEF Bijection
<1>9. ExistsBijection(1..(m - k), S)
  BY <1>8 DEF ExistsBijection
<1>10. Cardinality(S) = m - k
  BY <1>1, <1>9, FS_CountingElements
<1> QED BY <1>10 DEF S

\* The blocks of a path above number k, lowest first, are that part of the path.
LEMMA Ordered ==
    ASSUME NEW e \in Paths, NEW k \in 0..Len(e)
    PROVE  InOrder(Above(e, k)) = [i \in 1..(Len(e) - k) |-> SubSeq(e, 1, k + i)]
<1>1. Len(e) \in Nat /\ k \in Nat /\ Len(e) - k \in Nat /\ Len(e) \in k..Len(e)
  BY PathType
<1> DEFINE Upto(m) == {SubSeq(e, 1, n) : n \in (k + 1)..m}
           S == Upto(Len(e))
           Below(b) == {c \in S : Len(c) <= Len(b)}
<1>2. Cardinality(S) = Len(e) - k
  BY <1>1, Segment
<1>3. \A n \in 0..Len(e) : Len(SubSeq(e, 1, n)) = n
  BY PrefixType
<1>4. ASSUME NEW i \in 1..(Len(e) - k)
      PROVE  SubSeq(e, 1, k + i) \in S /\ Cardinality(Below(SubSeq(e, 1, k + i))) = i
  <2>1. k + i \in (k + 1)..Len(e) /\ k + i \in 0..Len(e) /\ k + i \in k..Len(e) /\ k + i - k = i
    BY <1>1
  <2>2. Len(SubSeq(e, 1, k + i)) = k + i
    BY <1>3, <2>1
  <2>3. Below(SubSeq(e, 1, k + i)) = {c \in S : Len(c) <= k + i}
    BY <2>2
  <2>4. \A c \in S : Len(c) <= k + i => c \in Upto(k + i)
    <3> SUFFICES ASSUME NEW n \in (k + 1)..Len(e), Len(SubSeq(e, 1, n)) <= k + i
                 PROVE  SubSeq(e, 1, n) \in Upto(k + i)
      OBVIOUS
    <3>1. n \in 0..Len(e) /\ n \in Nat
      BY <1>1
    <3>2. n <= k + i
      BY <1>3, <3>1
    <3>3. n \in (k + 1)..(k + i)
      BY <1>1, <3>1, <3>2
    <3> QED BY <3>3
  <2>5. \A c \in Upto(k + i) : c \in S /\ Len(c) <= k + i
    <3> SUFFICES ASSUME NEW n \in (k + 1)..(k + i)
                 PROVE  SubSeq(e, 1, n) \in S /\ Len(SubSeq(e, 1, n)) <= k + i
      OBVIOUS
    <3>1. n \in 0..Len(e) /\ n \in (k + 1)..Len(e) /\ n <= k + i
      BY <1>1, <2>1
    <3>2. Len(SubSeq(e, 1, n)) = n
      BY <1>3, <3>1
    <3> QED BY <3>1, <3>2
  <2>6. {c \in S : Len(c) <= k + i} = Upto(k + i)
    <3> HIDE DEF S, Upto
    <3> QED BY <2>4, <2>5
  <2>7. Cardinality(Upto(k + i)) = k + i - k
    BY <2>1, Segment
  <2>8. SubSeq(e, 1, k + i) \in S
    BY <2>1
  <2> HIDE DEF S, Upto, Below
  <2>9. Cardinality(Below(SubSeq(e, 1, k + i))) = i
    BY <2>1, <2>3, <2>6, <2>7
  <2> QED BY <2>8, <2>9
<1>5. ASSUME NEW b \in S PROVE \E i \in 1..(Len(e) - k) : b = SubSeq(e, 1, k + i)
  <2>1. PICK n \in (k + 1)..Len(e) : b = SubSeq(e, 1, n)
    OBVIOUS
  <2>2. n - k \in 1..(Len(e) - k) /\ k + (n - k) = n
    BY <1>1
  <2> QED BY <2>1, <2>2
<1> DEFINE Nth(i) == CHOOSE b \in S : Cardinality(Below(b)) = i
<1>6. ASSUME NEW i \in 1..(Len(e) - k) PROVE Nth(i) = SubSeq(e, 1, k + i)
  <2> HIDE DEF S, Below
  <2>1. \E b \in S : Cardinality(Below(b)) = i
    BY <1>4
  <2>2. Nth(i) \in S /\ Cardinality(Below(Nth(i))) = i
    BY <2>1
  <2> HIDE DEF Nth
  <2>3. PICK j \in 1..(Len(e) - k) : Nth(i) = SubSeq(e, 1, k + j)
    BY <1>5, <2>2
  <2>4. j = i
    BY <1>4, <2>2, <2>3
  <2> QED BY <2>3, <2>4
<1>7. InOrder(S) = [i \in 1..Cardinality(S) |-> Nth(i)]
  BY DEF InOrder
<1> HIDE DEF S, Nth, Below
<1>8. InOrder(S) = [i \in 1..(Len(e) - k) |-> SubSeq(e, 1, k + i)]
  BY <1>2, <1>6, <1>7
<1> QED BY <1>8 DEF S, Above

\* A path to a block continues the path to any block it passes.
LEMMA Continued ==
    ASSUME NEW e \in Paths, NEW k \in 0..Len(e)
    PROVE  Chain(SubSeq(e, 1, k)) \o InOrder(Above(e, k)) = Chain(e)
<1>1. Len(e) \in Nat /\ k \in Nat /\ Len(e) - k \in Nat /\ k + (Len(e) - k) = Len(e)
  BY PathType
<1> DEFINE p == SubSeq(e, 1, k)
           s == Chain(p)
           t == [i \in 1..(Len(e) - k) |-> SubSeq(e, 1, k + i)]
<1>2. p \in Paths /\ Len(p) = k
  BY PrefixType
<1>3. \A m \in 0..k : SubSeq(p, 1, m) = SubSeq(e, 1, m)
  BY PrefixPrefix
<1> HIDE DEF p
<1>4. s \in Seq(Blocks) /\ Len(s) = k /\ \A n \in 1..k : s[n] = SubSeq(p, 1, n)
  BY <1>2, ChainOf
<1>5. \A n \in 1..k : s[n] = SubSeq(e, 1, n)
  <2> SUFFICES ASSUME NEW n \in 1..k PROVE s[n] = SubSeq(e, 1, n)
    OBVIOUS
  <2>1. n \in 0..k
    BY <1>1
  <2> QED BY <1>3, <1>4, <2>1
<1>6. \A i \in 1..(Len(e) - k) : k + i \in 1..Len(e)
  BY <1>1
<1>7. t \in Seq(Blocks) /\ Len(t) = Len(e) - k
  <2>1. \A i \in 1..(Len(e) - k) : SubSeq(e, 1, k + i) \in Blocks
    BY <1>6, PrefixBlock
  <2>2. t \in [1..(Len(e) - k) -> Blocks]
    BY <2>1
  <2> DEFINE l == Len(e) - k
  <2>3. l \in Nat /\ t \in [1..l -> Blocks]
    BY <1>1, <2>2
  <2> HIDE DEF t, l
  <2>4. t \in Seq(Blocks) /\ Len(t) = l
    BY <2>3
  <2> QED BY <2>4 DEF l
<1>8. \A i \in 1..(Len(e) - k) : t[i] = SubSeq(e, 1, k + i)
  OBVIOUS
<1> HIDE DEF s, t
<1>9. /\ s \o t \in Seq(Blocks) /\ Len(s \o t) = Len(e)
      /\ \A i \in 1..Len(e) : (s \o t)[i] = IF i <= k THEN s[i] ELSE t[i - k]
  <2>1. /\ s \o t \in Seq(Blocks) /\ Len(s \o t) = Len(s) + Len(t)
        /\ \A i \in 1..(Len(s) + Len(t)) : (s \o t)[i] = IF i <= Len(s) THEN s[i] ELSE t[i - Len(s)]
    BY <1>4, <1>7, ConcatProperties
  <2>2. Len(s) = k /\ Len(s) + Len(t) = Len(e)
    BY <1>1, <1>4, <1>7
  <2> QED BY <2>1, <2>2
<1>10. /\ Chain(e) \in Seq(Blocks) /\ Len(Chain(e)) = Len(e)
       /\ \A i \in 1..Len(e) : Chain(e)[i] = SubSeq(e, 1, i)
  BY ChainOf
<1>11. ASSUME NEW i \in 1..Len(e) PROVE (s \o t)[i] = SubSeq(e, 1, i)
  <2>1. CASE i <= k
    <3>1. i \in 1..k
      BY <1>1, <2>1
    <3> QED BY <1>5, <1>9, <2>1, <3>1
  <2>2. CASE ~ (i <= k)
    <3>1. i - k \in 1..(Len(e) - k) /\ k + (i - k) = i
      BY <1>1, <2>2
    <3>2. t[i - k] = SubSeq(e, 1, k + (i - k))
      BY <1>8, <3>1
    <3> QED BY <1>9, <2>2, <3>1, <3>2
  <2> QED BY <2>1, <2>2
<1>12. s \o t = Chain(e)
  BY <1>9, <1>10, <1>11, SeqEqual
<1>13. InOrder(Above(e, k)) = t
  BY Ordered DEF t
<1> QED BY <1>12, <1>13 DEF s, p

-----------------------------------------------------------------------------
(* The inductive invariant.                                                *)

\* Only the worker polls, with no bound of its own on the target.
Ordinary == ~ poll.maintenance /\ poll.limit = MaxHeight

\* Until its commit nobody moves the checkpoint under a poll.
CheckpointHeld ==
    poll.pc \in {"target", "eligible", "headers", "anchor", "commit"} => poll.checkpoint = checkpoint

\* The headers of a batch are one at most for a number of its range.
Batch ==
    /\ poll.pc \in {"begin", "target", "eligible"} => poll.headers = {}
    /\ poll.pc \in {"headers", "anchor", "commit"} =>
          /\ Len(poll.checkpoint) < poll.to
          /\ \A h \in poll.headers : Len(h) \in Numbers
          /\ \A h, g \in poll.headers : Len(h) = Len(g) => h = g

\* Past the headers the batch is whole, each the child of the one before.
Joined == poll.pc \in {"anchor", "commit"} => AllHeaders /\ JoinedRange

\* Only the exception that raised the barrier is still on its way.
Barred == status = "RECOVERY_REQUIRED" => poll.pc \in {"thrown", "stopped"}

\* A provider whose log index is complete leaves nothing out.
WholeLogs == ~ Lossy => \A b \in Blocks : journal[b] # "partial"

OnTip(b) == Len(b) <= Len(tip) /\ b = SubSeq(tip, 1, Len(b))

\* A chain that only grew still has whatever was read of it, as deep as it was.
Undisturbed ==
    forks = 0 =>
        /\ OnTip(checkpoint)
        /\ checkpoint # Genesis => Len(checkpoint) + IndexingDepth <= Len(tip)
        /\ poll.pc = "eligible" =>
              /\ Len(poll.head) <= Len(tip)
              /\ checkpoint # Genesis => Len(checkpoint) + IndexingDepth <= Len(poll.head)
        /\ poll.pc \in {"headers", "anchor", "commit"} =>
              /\ poll.to + IndexingDepth <= Len(tip)
              /\ \A h \in poll.headers : OnTip(h)

\* What the reads of a poll in flight amount to, whoever runs it.
Reads ==
    /\ tip \in Paths /\ checkpoint \in Paths /\ poll \in Polls
    /\ CheckpointHeld /\ Batch /\ Joined

IInv ==
    /\ TypeOK /\ OneBranch /\ NoFalseAlarm
    /\ Ordinary /\ CheckpointHeld /\ Batch /\ Joined /\ Barred /\ WholeLogs /\ Undisturbed

LEMMA ReadsFollow == IInv => Reads
BY DEF IInv, TypeOK, Reads, Paths

Fetching == {"target", "eligible", "headers", "anchor", "commit"}

\* Only its place changes when a poll goes on.
LEMMA Gone ==
    ASSUME poll \in Polls, NEW x \in PollSteps, Goto(x)
    PROVE  /\ poll' \in Polls /\ poll'.pc = x /\ poll'.maintenance = poll.maintenance
           /\ poll'.limit = poll.limit /\ poll'.checkpoint = poll.checkpoint
           /\ poll'.head = poll.head /\ poll'.eligible = poll.eligible /\ poll'.to = poll.to
           /\ poll'.headers = poll.headers
<1>1. poll' = [poll EXCEPT !.pc = x]
  BY DEF Goto
<1> QED BY <1>1 DEF Polls

\* A poll that begins, or a worker that ended, has read nothing.
LEMMA Fresh ==
    ASSUME NEW x \in PollSteps
    PROVE  LET q == Poll(x, FALSE, MaxHeight) IN
           /\ q \in Polls /\ q.pc = x /\ ~ q.maintenance /\ q.limit = MaxHeight /\ q.headers = {}
<1> DEFINE q == Poll(x, FALSE, MaxHeight)
<1>1. /\ MaxHeight \in 0..MaxHeight /\ 0 \in 0..(MaxHeight - IndexingDepth) /\ FALSE \in BOOLEAN
      /\ Genesis \in Blocks \cup {Genesis} /\ Null \in Blocks \cup {Genesis, Null} /\ {} \in SUBSET Blocks
  OBVIOUS
<1>2. q = [pc |-> x, maintenance |-> FALSE, limit |-> MaxHeight, checkpoint |-> Genesis,
           head |-> Genesis, eligible |-> Null, to |-> 0, headers |-> {}]
  BY DEF Poll
<1> HIDE DEF q
<1>3. q \in Polls
  BY <1>1, <1>2 DEF Polls
<1>4. q.pc = x /\ q.maintenance = FALSE /\ q.limit = MaxHeight /\ q.headers = {}
  BY <1>2
<1> QED BY <1>3, <1>4 DEF q

\* A status and a reason that no alarm is raised with.
StatusKept ==
    /\ status' \in {"UNINITIALIZED", "SYNCING", "CURRENT", "STALE", "RECOVERY_REQUIRED"}
    /\ status' = "RECOVERY_REQUIRED" => poll'.pc \in {"thrown", "stopped"}
    /\ forks' = 0 /\ status' = "RECOVERY_REQUIRED" => Lossy /\ reason' = "PROJECTOR_INTEGRITY"

\* A step that ends a poll, or begins one, and leaves the read model alone.
LEMMA Leave ==
    ASSUME IInv, UNCHANGED <<chainVars, store>>, StatusKept,
           poll' \in Polls, ~ poll'.maintenance, poll'.limit = MaxHeight,
           poll'.pc \notin Fetching, poll'.pc = "begin" => poll'.headers = {}
    PROVE  IInv'
<1>1. /\ tip' = tip /\ forks' = forks /\ journal' = journal /\ canonical' = canonical
      /\ rows' = rows /\ checkpoint' = checkpoint
  BY DEF chainVars, store
<1>2. TypeOK'
  BY <1>1 DEF IInv, TypeOK, StatusKept
<1>3. OneBranch'
  BY <1>1 DEF IInv, OneBranch
<1>4. NoFalseAlarm' /\ Barred'
  BY DEF StatusKept, NoFalseAlarm, Barred
<1>5. Ordinary' /\ CheckpointHeld' /\ Batch' /\ Joined'
  BY DEF Ordinary, CheckpointHeld, Batch, Joined, Fetching
<1>6. WholeLogs'
  BY <1>1 DEF IInv, WholeLogs
<1>7. Undisturbed'
  BY <1>1 DEF IInv, Undisturbed, OnTip, Fetching
<1> QED BY <1>2, <1>3, <1>4, <1>5, <1>6, <1>7 DEF IInv

\* What an exception leaves is the barrier it found, or none.
LEMMA Ending ==
    ASSUME IInv, NEW x \in PollSteps \ (Fetching \cup {"begin"}), Proceed(x), poll.pc \notin {"thrown", "stopped"}
    PROVE  IInv'
<1>1. /\ Goto(x) /\ UNCHANGED <<chainVars, store, status, reason>> /\ poll \in Polls
      /\ UNCHANGED <<chainVars, store>> /\ status' = status /\ reason' = reason /\ forks' = forks
  BY DEF Proceed, IInv, TypeOK, chainVars
<1>2. poll' \in Polls /\ poll'.pc = x /\ ~ poll'.maintenance /\ poll'.limit = MaxHeight
  BY <1>1, Gone DEF IInv, Ordinary
<1>3. StatusKept
  BY <1>1, <1>2 DEF IInv, TypeOK, Barred, NoFalseAlarm, StatusKept
<1> QED BY <1>1, <1>2, <1>3, Leave DEF Fetching

\* A barrier is raised only over a chain that left blocks behind, or over logs
\* the provider held back.
LEMMA Raising ==
    ASSUME IInv, NEW why, Barrier(why), forks = 0 => Lossy /\ why = "PROJECTOR_INTEGRITY"
    PROVE  IInv'
<1>1. /\ Goto("thrown") /\ UNCHANGED <<chainVars, store>> /\ poll \in Polls
      /\ status' = "RECOVERY_REQUIRED" /\ reason' = why /\ forks' = forks
  BY DEF Barrier, IInv, TypeOK, chainVars
<1>2. poll' \in Polls /\ poll'.pc = "thrown" /\ ~ poll'.maintenance /\ poll'.limit = MaxHeight
  BY <1>1, Gone DEF IInv, Ordinary, PollSteps
<1>3. StatusKept
  BY <1>1, <1>2 DEF StatusKept
<1> QED BY <1>1, <1>2, <1>3, Leave DEF Fetching

-----------------------------------------------------------------------------
(* The chain.                                                              *)

\* A chain that grows keeps what it had.
LEMMA Grows ==
    ASSUME NEW t \in Paths, NEW b \in Branches, Len(t) < MaxHeight
    PROVE  /\ Append(t, b) \in Paths /\ Len(Append(t, b)) = Len(t) + 1
           /\ \A n \in 0..Len(t) : SubSeq(Append(t, b), 1, n) = SubSeq(t, 1, n)
<1>1. t \in Seq(Branches) /\ Len(t) \in Nat
  BY PathType
<1> DEFINE u == Append(t, b)
<1>2. u \in Seq(Branches) /\ Len(u) = Len(t) + 1 /\ \A i \in 1..Len(t) : u[i] = t[i]
  BY <1>1, AppendProperties
<1> HIDE DEF u
<1>3. u \in Paths
  BY <1>1, <1>2, PathFromSeq
<1>4. ASSUME NEW n \in 0..Len(t) PROVE SubSeq(u, 1, n) = SubSeq(t, 1, n)
  <2> DEFINE p == SubSeq(u, 1, n)
             q == SubSeq(t, 1, n)
  <2>1. n \in 0..Len(u)
    BY <1>1, <1>2
  <2>2. p \in Seq(Branches) /\ Len(p) = n /\ \A i \in 1..n : p[i] = u[i]
    BY <1>3, <2>1, PrefixType
  <2>3. q \in Seq(Branches) /\ Len(q) = n /\ \A i \in 1..n : q[i] = t[i]
    BY PrefixType
  <2> HIDE DEF p, q
  <2>4. p = q
    BY <1>1, <1>2, <2>2, <2>3, SeqEqual
  <2> QED BY <2>4 DEF p, q
<1> QED BY <1>2, <1>3, <1>4 DEF u

LEMMA MineKeeps ==
    ASSUME IInv, Mine
    PROVE  IInv'
<1>1. /\ Len(tip) < MaxHeight /\ tip \in Paths
      /\ forks' = forks /\ journal' = journal /\ canonical' = canonical /\ rows' = rows
      /\ checkpoint' = checkpoint /\ status' = status /\ reason' = reason /\ poll' = poll
  BY DEF Mine, store, IInv, TypeOK, Paths
<1>2. PICK b \in Branches : tip' = Append(tip, b)
  BY DEF Mine
<1>3. /\ tip' \in Paths /\ Len(tip) \in Nat /\ Len(tip') = Len(tip) + 1
      /\ \A n \in 0..Len(tip) : SubSeq(tip', 1, n) = SubSeq(tip, 1, n)
  BY <1>1, <1>2, Grows, PathType
<1>4. TypeOK'
  BY <1>1, <1>3 DEF IInv, TypeOK, Paths
<1>5. OneBranch' /\ NoFalseAlarm' /\ Ordinary' /\ CheckpointHeld' /\ Barred' /\ WholeLogs'
  BY <1>1 DEF IInv, OneBranch, NoFalseAlarm, Ordinary, CheckpointHeld, Barred, WholeLogs
<1>6. Batch' /\ Joined'
  BY <1>1 DEF IInv, Batch, Joined, AllHeaders, JoinedRange, Numbers
<1>7. \A p \in Paths : OnTip(p) => OnTip(p)'
  <2> SUFFICES ASSUME NEW p \in Paths, OnTip(p) PROVE OnTip(p)'
    OBVIOUS
  <2>1. Len(p) \in 0..Len(tip)
    BY PathType DEF OnTip
  <2>2. SubSeq(tip', 1, Len(p)) = SubSeq(tip, 1, Len(p))
    BY <1>3, <2>1
  <2> QED BY <1>3, <2>1, <2>2 DEF OnTip
<1>8. checkpoint \in Paths /\ poll.headers \subseteq Paths /\ poll.head \in Paths /\ poll.to \in Nat
  BY DEF IInv, TypeOK, Polls, Paths
<1>9. Undisturbed'
  <2> SUFFICES ASSUME forks = 0
               PROVE  Undisturbed'
    BY <1>1 DEF Undisturbed
  <2>1. OnTip(checkpoint)'
    BY <1>1, <1>7, <1>8 DEF IInv, Undisturbed, OnTip
  <2>2. \A n \in Nat : n <= Len(tip) => n <= Len(tip')
    BY <1>3
  <2>3. Len(checkpoint) + IndexingDepth \in Nat /\ Len(poll.head) \in Nat /\ poll.to + IndexingDepth \in Nat
    BY <1>8, PathType
  <2>4. poll.pc \in {"headers", "anchor", "commit"} => \A h \in poll.headers : OnTip(h)'
    BY <1>7, <1>8 DEF IInv, Undisturbed
  <2>5. poll'.pc \in {"headers", "anchor", "commit"} => \A h \in poll'.headers : OnTip(h)'
    BY <1>1, <2>4
  <2> HIDE DEF OnTip
  <2>6. checkpoint' # Genesis => Len(checkpoint') + IndexingDepth <= Len(tip')
    BY <1>1, <2>2, <2>3 DEF IInv, Undisturbed
  <2>7. poll'.pc = "eligible" =>
              /\ Len(poll'.head) <= Len(tip')
              /\ checkpoint' # Genesis => Len(checkpoint') + IndexingDepth <= Len(poll'.head)
    BY <1>1, <2>2, <2>3 DEF IInv, Undisturbed
  <2>8. poll'.pc \in {"headers", "anchor", "commit"} => poll'.to + IndexingDepth <= Len(tip')
    BY <1>1, <2>2, <2>3 DEF IInv, Undisturbed
  <2> QED BY <2>1, <2>5, <2>6, <2>7, <2>8 DEF Undisturbed
<1> QED BY <1>4, <1>5, <1>6, <1>9 DEF IInv

LEMMA ReorgKeeps ==
    ASSUME IInv, Reorg
    PROVE  IInv'
<1>1. /\ tip' \in Blocks \cup {Genesis} /\ forks' \in 1..MaxForks
      /\ journal' = journal /\ canonical' = canonical /\ rows' = rows
      /\ checkpoint' = checkpoint /\ status' = status /\ reason' = reason /\ poll' = poll
  BY DEF Reorg, store, IInv, TypeOK
<1>2. TypeOK'
  BY <1>1 DEF IInv, TypeOK
<1>3. OneBranch' /\ Ordinary' /\ CheckpointHeld' /\ Barred' /\ WholeLogs'
  BY <1>1 DEF IInv, OneBranch, Ordinary, CheckpointHeld, Barred, WholeLogs
<1>4. Batch' /\ Joined'
  BY <1>1 DEF IInv, Batch, Joined, AllHeaders, JoinedRange, Numbers
<1>5. NoFalseAlarm' /\ Undisturbed'
  BY <1>1 DEF NoFalseAlarm, Undisturbed
<1> QED BY <1>2, <1>3, <1>4, <1>5 DEF IInv

-----------------------------------------------------------------------------
(* The reads of a poll.                                                    *)

\* What a read may leave of the rest of the state.
LEMMA Onward ==
    ASSUME IInv, UNCHANGED <<chainVars, store>>, StatusKept, poll' \in Polls,
           Ordinary', CheckpointHeld', Batch', Joined', Undisturbed'
    PROVE  IInv'
<1>1. /\ tip' = tip /\ forks' = forks /\ journal' = journal /\ canonical' = canonical
      /\ rows' = rows /\ checkpoint' = checkpoint
  BY DEF chainVars, store
<1>2. TypeOK'
  BY <1>1 DEF IInv, TypeOK, StatusKept
<1>3. OneBranch' /\ WholeLogs'
  BY <1>1 DEF IInv, OneBranch, WholeLogs
<1>4. NoFalseAlarm' /\ Barred'
  BY DEF StatusKept, NoFalseAlarm, Barred
<1> QED BY <1>2, <1>3, <1>4 DEF IInv

\* A read that leaves the status as it was, in a poll that is running.
LEMMA Quietly ==
    ASSUME IInv, UNCHANGED <<chainVars, store, status, reason>>, poll.pc \notin {"thrown", "stopped"}
    PROVE  StatusKept /\ UNCHANGED <<chainVars, store>>
BY DEF IInv, TypeOK, Barred, StatusKept, chainVars

LEMMA CheckCheckpointKeeps ==
    ASSUME IInv, CheckCheckpoint
    PROVE  IInv'
<1>1. poll.pc = "begin" /\ poll \in Polls /\ checkpoint \in Paths /\ tip \in Paths /\ poll.headers = {}
  BY DEF CheckCheckpoint, IInv, TypeOK, Paths, Batch
<1>2. CASE /\ HasBlock(Len(checkpoint)) /\ checkpoint = BlockAt(Len(checkpoint))
           /\ poll' = [poll EXCEPT !.pc = "target", !.checkpoint = checkpoint]
           /\ UNCHANGED <<chainVars, store, status, reason>>
  <2>1. /\ poll' \in Polls /\ poll'.pc = "target" /\ poll'.checkpoint = checkpoint
        /\ poll'.maintenance = poll.maintenance /\ poll'.limit = poll.limit /\ poll'.headers = {}
    BY <1>1, <1>2 DEF Polls, PollSteps, Paths
  <2>2. StatusKept /\ UNCHANGED <<chainVars, store>> /\ tip' = tip /\ forks' = forks /\ checkpoint' = checkpoint
    BY <1>1, <1>2, Quietly DEF chainVars, store
  <2>3. Ordinary' /\ CheckpointHeld' /\ Batch' /\ Joined'
    BY <2>1, <2>2 DEF IInv, Ordinary, CheckpointHeld, Batch, Joined
  <2>4. Undisturbed'
    BY <2>1, <2>2 DEF IInv, Undisturbed, OnTip
  <2> QED BY <2>1, <2>2, <2>3, <2>4, Onward
<1>3. ASSUME NEW why, Barrier(why), ~ (HasBlock(Len(checkpoint)) /\ checkpoint = BlockAt(Len(checkpoint)))
      PROVE  IInv'
  <2>1. forks # 0
    BY <1>3 DEF IInv, Undisturbed, OnTip, HasBlock, BlockAt
  <2> QED BY <1>3, <2>1, Raising
<1> QED BY <1>2, <1>3 DEF CheckCheckpoint

LEMMA ReadHeadKeeps ==
    ASSUME IInv, ReadHead
    PROVE  IInv'
<1>1. poll.pc \in {"target", "latest"} /\ poll \in Polls /\ tip \in Blocks \cup {Genesis}
  BY DEF ReadHead, IInv, TypeOK
<1>2. /\ poll' \in Polls /\ poll'.pc = (IF poll.pc = "target" THEN "eligible" ELSE "latestEligible")
      /\ poll'.head = tip /\ poll'.checkpoint = poll.checkpoint
      /\ poll'.maintenance = poll.maintenance /\ poll'.limit = poll.limit /\ poll'.headers = poll.headers
  BY <1>1 DEF ReadHead, Polls, PollSteps
<1>3. StatusKept /\ UNCHANGED <<chainVars, store>> /\ tip' = tip /\ forks' = forks /\ checkpoint' = checkpoint
  BY <1>1, Quietly DEF ReadHead, chainVars, store
<1>4. Ordinary' /\ CheckpointHeld' /\ Batch' /\ Joined'
  BY <1>1, <1>2, <1>3 DEF IInv, Ordinary, CheckpointHeld, Batch, Joined
<1>5. Undisturbed'
  <2>1. Len(tip) <= Len(tip)
    BY <1>1, PathType DEF Paths
  <2> QED BY <1>1, <1>2, <1>3, <2>1 DEF IInv, Undisturbed, OnTip
<1> QED BY <1>2, <1>3, <1>4, <1>5, Onward

\* The block deep enough below a head that was read is a block of the chain.
LEMMA EligibleType ==
    ASSUME poll.head \in Paths, tip \in Paths, ~ EligibleMissing
    PROVE  /\ Eligible \in Paths \cup {Null}
           /\ Eligible # Null => IndexingDepth <= Len(poll.head) /\ Len(Eligible) = Len(poll.head) - IndexingDepth
           /\ Eligible = Null => Len(poll.head) < IndexingDepth
<1>1. Len(poll.head) \in Nat /\ Len(tip) \in Nat
  BY PathType
<1>2. CASE IndexingDepth = 0
  <2>1. Eligible = poll.head
    BY <1>2 DEF Eligible
  <2> QED BY <1>1, <1>2, <2>1 DEF Paths
<1>3. CASE IndexingDepth # 0 /\ ReadsDepth
  <2> DEFINE n == Len(poll.head) - IndexingDepth
  <2>1. n \in 0..Len(tip) /\ IndexingDepth <= Len(poll.head)
    BY <1>1, <1>3 DEF EligibleMissing, ReadsDepth, HasBlock
  <2>2. Eligible = SubSeq(tip, 1, n)
    BY <1>3 DEF Eligible, BlockAt
  <2> HIDE DEF n
  <2>3. Eligible \in Paths /\ Len(Eligible) = n
    BY <2>1, <2>2, PrefixType
  <2> QED BY <2>1, <2>3 DEF n, Paths
<1>4. CASE IndexingDepth # 0 /\ ~ ReadsDepth
  <2>1. Eligible = Null
    BY <1>4 DEF Eligible
  <2>2. Len(poll.head) < IndexingDepth
    BY <1>1, <1>4 DEF ReadsDepth
  <2> QED BY <2>1, <2>2
<1> QED BY <1>2, <1>3, <1>4

LEMMA ReadEligibleKeeps ==
    ASSUME IInv, ReadEligible
    PROVE  IInv'
<1> DEFINE target == IF Len(Eligible) < poll.limit THEN Len(Eligible) ELSE poll.limit
           from == Len(poll.checkpoint) + 1
           found == [poll EXCEPT !.eligible = Eligible]
           cp == poll.checkpoint
<1>1. /\ poll.pc = "eligible" /\ poll \in Polls /\ poll.checkpoint = checkpoint /\ poll.headers = {}
      /\ poll.head \in Paths /\ tip \in Paths /\ checkpoint \in Paths /\ poll.limit = MaxHeight
      /\ status # "RECOVERY_REQUIRED"
      /\ status \in {"UNINITIALIZED", "SYNCING", "CURRENT", "STALE", "RECOVERY_REQUIRED"}
  BY DEF ReadEligible, IInv, TypeOK, Polls, Paths, Batch, CheckpointHeld, Barred, Ordinary
<1>2. Len(poll.head) \in 0..MaxHeight /\ Len(checkpoint) \in 0..MaxHeight /\ Len(tip) \in 0..MaxHeight
  BY <1>1, PathType
<1>3. ~ EligibleMissing /\ Eligible # Null =>
         target = Len(poll.head) - IndexingDepth /\ target = Len(Eligible) /\ IndexingDepth <= Len(poll.head)
  BY <1>1, <1>2, EligibleType
<1>4. ~ EligibleMissing => Eligible \in Blocks \cup {Genesis, Null}
  BY <1>1, EligibleType DEF Paths
<1>5. Observed \in {"UNINITIALIZED", "SYNCING", "CURRENT", "STALE", "RECOVERY_REQUIRED"} /\ Observed # "RECOVERY_REQUIRED"
  BY <1>1 DEF Observed
<1>6. CASE EligibleMissing /\ Throw
  BY <1>1, <1>6, Ending DEF Throw, Fetching, PollSteps
<1>7. CASE /\ ~ EligibleMissing /\ poll.checkpoint # Genesis
           /\ Eligible # Null => Overrun(Len(poll.checkpoint), target)
           /\ Barrier("CHECKPOINT_EXCEEDS_ELIGIBLE_TARGET")
  <2>1. forks # 0
    <3> SUFFICES ASSUME forks = 0 PROVE FALSE
      OBVIOUS
    <3>1. Len(checkpoint) + IndexingDepth <= Len(poll.head)
      BY <1>1, <1>7 DEF IInv, Undisturbed
    <3>2. CASE Eligible = Null
      BY <1>1, <1>2, <1>7, <3>1, <3>2, EligibleType
    <3>3. CASE Eligible # Null
      <4>1. Len(checkpoint) > Len(poll.head) - IndexingDepth
        BY <1>1, <1>3, <1>7, <3>3 DEF Overrun
      <4> QED BY <1>2, <3>1, <4>1
    <3> QED BY <3>2, <3>3
  <2> QED BY <1>7, <2>1, Raising
<1>8. ASSUME ~ EligibleMissing, poll' = [found EXCEPT !.pc = "done"],
             status' \in {Observed, "CURRENT"}, UNCHANGED <<chainVars, store>>
      PROVE  IInv'
  <2>1. found \in Polls /\ found.maintenance = poll.maintenance /\ found.limit = poll.limit
    BY <1>1, <1>4, <1>8 DEF Polls
  <2> HIDE DEF found
  <2>2. /\ poll' \in Polls /\ poll'.pc = "done"
        /\ poll'.maintenance = poll.maintenance /\ poll'.limit = poll.limit
    BY <1>8, <2>1 DEF Polls, PollSteps
  <2>3. StatusKept
    BY <1>5, <1>8 DEF StatusKept
  <2> QED BY <1>8, <2>2, <2>3, Leave DEF IInv, Ordinary, Fetching
<1>9. CASE /\ ~ EligibleMissing /\ Eligible # Null /\ from <= target
           /\ status' = Observed
           /\ poll' = [found EXCEPT !.pc = "headers", !.to = BatchEnd(from, target)]
           /\ UNCHANGED <<chainVars, store, reason>>
  <2> DEFINE to == BatchEnd(from, target)
  <2>1. /\ target \in 0..(MaxHeight - IndexingDepth) /\ target + IndexingDepth = Len(poll.head)
        /\ Len(checkpoint) + 1 <= target
    <3> HIDE DEF target
    <3> QED BY <1>1, <1>2, <1>3, <1>9
  <2>2. to \in 0..(MaxHeight - IndexingDepth) /\ to <= target /\ Len(checkpoint) < to
    <3> HIDE DEF target
    <3> QED BY <1>1, <1>2, <2>1 DEF BatchEnd
  <2> HIDE DEF to, target
  <2>3. /\ found \in Polls /\ found.maintenance = poll.maintenance /\ found.limit = poll.limit
        /\ found.checkpoint = poll.checkpoint /\ found.headers = poll.headers /\ found.head = poll.head
    BY <1>1, <1>4, <1>9 DEF Polls
  <2> HIDE DEF found
  <2>4. poll' = [found EXCEPT !.pc = "headers", !.to = to]
    BY <1>9 DEF to
  <2>5. /\ poll' \in Polls /\ poll'.pc = "headers" /\ poll'.to = to /\ poll'.checkpoint = checkpoint
        /\ poll'.maintenance = poll.maintenance /\ poll'.limit = poll.limit /\ poll'.headers = {}
    BY <1>1, <2>2, <2>3, <2>4 DEF Polls, PollSteps
  <2>6. StatusKept /\ UNCHANGED <<chainVars, store>> /\ tip' = tip /\ forks' = forks /\ checkpoint' = checkpoint
    BY <1>5, <1>9 DEF StatusKept, chainVars, store
  <2>7. Ordinary' /\ CheckpointHeld' /\ Joined'
    BY <2>5, <2>6 DEF IInv, Ordinary, CheckpointHeld, Joined
  <2>8. Batch'
    BY <2>2, <2>5 DEF Batch
  <2>9. Undisturbed'
    <3> SUFFICES ASSUME forks = 0 PROVE Undisturbed'
      BY <2>6 DEF Undisturbed
    <3>1. Len(poll.head) <= Len(tip)
      BY <1>1 DEF IInv, Undisturbed
    <3>2. to + IndexingDepth <= Len(tip)
      BY <1>2, <2>1, <2>2, <3>1
    <3> QED BY <2>5, <2>6, <3>2 DEF IInv, Undisturbed, OnTip
  <2> QED BY <2>5, <2>6, <2>7, <2>8, <2>9, Onward
<1> HIDE DEF target, from, found
<1>10. CASE /\ ~ EligibleMissing /\ Eligible = Null /\ poll.checkpoint = Genesis
            /\ status' = Observed /\ poll' = [found EXCEPT !.pc = "done"]
            /\ UNCHANGED <<chainVars, store, reason>>
  <2>1. UNCHANGED <<chainVars, store>>
    BY <1>10
  <2> QED BY <1>8, <1>10, <2>1
<1>11. CASE /\ ~ EligibleMissing /\ Eligible # Null /\ from = target + 1
            /\ IF target = Len(Eligible) /\ Observed \in Markable
               THEN status' = "CURRENT" /\ reason' = Null
               ELSE status' = Observed /\ UNCHANGED reason
            /\ poll' = [found EXCEPT !.pc = "done"]
            /\ UNCHANGED <<chainVars, store>>
  <2>1. status' \in {Observed, "CURRENT"}
    BY <1>11
  <2> QED BY <1>8, <1>11, <2>1
<1> QED BY <1>6, <1>7, <1>9, <1>10, <1>11 DEF ReadEligible, target, from, found

LEMMA ReadHeaderKeeps ==
    ASSUME IInv, ReadHeader
    PROVE  IInv'
<1>1. /\ poll.pc = "headers" /\ poll \in Polls /\ poll.checkpoint = checkpoint
      /\ tip \in Paths /\ checkpoint \in Paths /\ poll.headers \subseteq Blocks /\ poll.to \in Nat
      /\ Len(checkpoint) < poll.to
      /\ \A h \in poll.headers : Len(h) \in Numbers
      /\ \A h, g \in poll.headers : Len(h) = Len(g) => h = g
  BY DEF ReadHeader, IInv, TypeOK, Polls, Paths, Batch, CheckpointHeld
<1>2. Len(tip) \in Nat /\ Len(checkpoint) \in Nat
  BY <1>1, PathType
<1>3. PICK n \in Numbers :
        /\ \A h \in poll.headers : Len(h) # n
        /\ \/ /\ HasBlock(n)
              /\ poll' = [poll EXCEPT !.headers = @ \cup {BlockAt(n)}]
              /\ UNCHANGED <<chainVars, store, status, reason>>
           \/ ~ HasBlock(n) /\ Throw
  BY DEF ReadHeader
<1>4. CASE Throw
  BY <1>1, <1>4, Ending DEF Throw, Fetching, PollSteps
<1>5. CASE /\ HasBlock(n) /\ poll' = [poll EXCEPT !.headers = @ \cup {BlockAt(n)}]
           /\ UNCHANGED <<chainVars, store, status, reason>>
  <2> DEFINE b == BlockAt(n)
  <2>1. n \in 1..Len(tip) /\ n \in 0..Len(tip) /\ n \in Nat
    BY <1>1, <1>2, <1>5 DEF Numbers, HasBlock
  <2>2. b \in Blocks /\ Len(b) = n /\ OnTip(b)
    <3>1. b \in Blocks /\ b = SubSeq(tip, 1, n)
      BY <1>1, <2>1, PrefixBlock DEF BlockAt
    <3>2. Len(b) = n
      BY <1>1, <2>1, PrefixType DEF BlockAt
    <3> HIDE DEF b
    <3> QED BY <1>2, <2>1, <3>1, <3>2 DEF OnTip
  <2> HIDE DEF b
  <2>3. poll' = [poll EXCEPT !.headers = poll.headers \cup {b}]
    BY <1>1, <1>5 DEF b
  <2>4. poll.headers \cup {b} \in SUBSET Blocks
    BY <1>1, <2>2
  <2>5. /\ poll' \in Polls /\ poll'.pc = "headers" /\ poll'.to = poll.to /\ poll'.checkpoint = checkpoint
        /\ poll'.maintenance = poll.maintenance /\ poll'.limit = poll.limit
        /\ poll'.headers = poll.headers \cup {b}
    BY <1>1, <2>3, <2>4 DEF Polls
  <2>6. StatusKept /\ UNCHANGED <<chainVars, store>> /\ tip' = tip /\ forks' = forks /\ checkpoint' = checkpoint
    BY <1>1, <1>5, Quietly DEF chainVars, store
  <2>7. Ordinary' /\ CheckpointHeld' /\ Joined'
    BY <2>5, <2>6 DEF IInv, Ordinary, CheckpointHeld, Joined
  <2>8. Numbers' = Numbers
    BY <1>1, <2>5 DEF Numbers
  <2>9. Batch'
    BY <1>1, <1>3, <2>2, <2>5, <2>8 DEF Batch
  <2>10. Undisturbed'
    BY <1>1, <2>2, <2>5, <2>6 DEF IInv, Undisturbed, OnTip
  <2> QED BY <2>5, <2>6, <2>7, <2>9, <2>10, Onward
<1> QED BY <1>3, <1>4, <1>5

\* Half of a range still has its first block, and none beyond its last.
LEMMA HalfWithin ==
    ASSUME NEW c \in Nat, NEW last \in Nat, NEW to \in 0..last, c < to
    PROVE  Half(c + 1, to) \in 0..last /\ Half(c + 1, to) <= to /\ c < Half(c + 1, to)
<1>1. \A d \in Nat : d \div 2 \in 0..d
  OBVIOUS
<1>2. to - (c + 1) \in Nat
  OBVIOUS
<1> DEFINE d == (to - (c + 1)) \div 2
<1>3. d \in 0..(to - (c + 1))
  BY <1>1, <1>2
<1>4. Half(c + 1, to) = c + 1 + d
  BY DEF Half
<1> HIDE DEF d
<1> QED BY <1>3, <1>4

LEMMA RefuseRangeKeeps ==
    ASSUME IInv, RefuseRange
    PROVE  IInv'
<1> DEFINE from == Len(poll.checkpoint) + 1
           half == Half(from, poll.to)
<1>1. /\ poll.pc = "headers" /\ poll \in Polls /\ poll.checkpoint = checkpoint /\ checkpoint \in Paths
      /\ poll.to \in 0..(MaxHeight - IndexingDepth) /\ Len(checkpoint) < poll.to
      /\ poll' = [poll EXCEPT !.headers = {}, !.to = Half(from, @)]
      /\ UNCHANGED <<chainVars, store, status, reason>>
  BY DEF RefuseRange, HalveRange, IInv, TypeOK, Polls, Paths, Batch, CheckpointHeld
<1>2. Len(checkpoint) \in Nat
  BY <1>1, PathType
<1>3. half \in 0..(MaxHeight - IndexingDepth) /\ half <= poll.to /\ Len(checkpoint) < half
  BY <1>1, <1>2, HalfWithin
<1> HIDE DEF half
<1>4. poll' = [poll EXCEPT !.headers = {}, !.to = half]
  BY <1>1 DEF half
<1>5. /\ poll' \in Polls /\ poll'.pc = "headers" /\ poll'.to = half /\ poll'.checkpoint = checkpoint
      /\ poll'.maintenance = poll.maintenance /\ poll'.limit = poll.limit /\ poll'.headers = {}
  BY <1>1, <1>3, <1>4 DEF Polls
<1>6. StatusKept /\ UNCHANGED <<chainVars, store>> /\ tip' = tip /\ forks' = forks /\ checkpoint' = checkpoint
  BY <1>1, Quietly DEF chainVars, store
<1>7. Ordinary' /\ CheckpointHeld' /\ Joined'
  BY <1>5, <1>6 DEF IInv, Ordinary, CheckpointHeld, Joined
<1>8. Batch'
  BY <1>3, <1>5 DEF Batch
<1>9. Undisturbed'
  <2> SUFFICES ASSUME forks = 0 PROVE Undisturbed'
    BY <1>6 DEF Undisturbed
  <2>1. poll.to + IndexingDepth <= Len(tip) /\ tip \in Paths
    BY <1>1 DEF IInv, Undisturbed, TypeOK, Paths
  <2>2. half + IndexingDepth <= Len(tip)
    BY <1>1, <1>3, <2>1, PathType
  <2> QED BY <1>5, <1>6, <2>2 DEF IInv, Undisturbed, OnTip
<1> QED BY <1>5, <1>6, <1>7, <1>8, <1>9, Onward

\* What is read of one chain is joined.
LEMMA OneChainJoins ==
    ASSUME poll.checkpoint \in Paths, poll.headers \subseteq Blocks, poll.to \in Nat, tip \in Paths,
           AllHeaders, \A h \in poll.headers : Len(h) \in Numbers,
           OnTip(poll.checkpoint), \A h \in poll.headers : OnTip(h)
    PROVE  JoinedRange
<1> SUFFICES ASSUME NEW h \in poll.headers, Len(h) > 1
             PROVE  Front(h) \in poll.headers \cup {poll.checkpoint}
  BY DEF JoinedRange
<1>1. h \in Paths /\ Len(h) \in Nat /\ Len(tip) \in Nat /\ Len(poll.checkpoint) \in Nat
  BY PathType DEF Paths
<1> DEFINE n == Len(h)
<1>2. n \in Numbers /\ n \in 1..Len(tip) /\ h = SubSeq(tip, 1, n)
  BY <1>1 DEF OnTip
<1>3. Front(SubSeq(tip, 1, n)) = SubSeq(tip, 1, n - 1)
  BY <1>2, PrefixFront
<1>4. Front(h) = SubSeq(tip, 1, n - 1)
  BY <1>2, <1>3
<1>5. CASE n - 1 = Len(poll.checkpoint)
  BY <1>4, <1>5 DEF OnTip
<1>6. CASE n - 1 # Len(poll.checkpoint)
  <2>1. n - 1 \in Numbers
    <3>1. n \in (Len(poll.checkpoint) + 1)..poll.to
      BY <1>2 DEF Numbers
    <3> DEFINE k == Len(poll.checkpoint)
    <3>2. n - 1 \in (k + 1)..poll.to
      <4> HIDE DEF n, k
      <4>1. n \in Nat /\ k \in Nat /\ n \in (k + 1)..poll.to /\ n - 1 # k
        BY <1>1, <1>6, <3>1 DEF n, k
      <4> QED BY <4>1
    <3> QED BY <3>2 DEF Numbers
  <2>2. PICK g \in poll.headers : Len(g) = n - 1
    BY <2>1 DEF AllHeaders
  <2>3. g = SubSeq(tip, 1, n - 1)
    BY <2>2 DEF OnTip
  <2> QED BY <1>4, <2>3
<1> QED BY <1>5, <1>6

LEMMA ReadEventsKeeps ==
    ASSUME IInv, ReadEvents
    PROVE  IInv'
<1>1. /\ poll.pc = "headers" /\ poll \in Polls /\ poll.checkpoint = checkpoint /\ AllHeaders
      /\ tip \in Paths /\ checkpoint \in Paths /\ poll.headers \subseteq Blocks /\ poll.to \in Nat
      /\ \A h \in poll.headers : Len(h) \in Numbers
  BY DEF ReadEvents, IInv, TypeOK, Polls, Paths, Batch, CheckpointHeld
<1>2. CASE JoinedRange /\ Proceed("anchor")
  <2>1. /\ Goto("anchor") /\ UNCHANGED <<chainVars, store, status, reason>> /\ "anchor" \in PollSteps
    BY <1>2 DEF Proceed, PollSteps
  <2>2. /\ poll' \in Polls /\ poll'.pc = "anchor" /\ poll'.maintenance = poll.maintenance
        /\ poll'.limit = poll.limit /\ poll'.checkpoint = poll.checkpoint
        /\ poll'.to = poll.to /\ poll'.headers = poll.headers
    BY <1>1, <2>1, Gone
  <2>3. StatusKept /\ UNCHANGED <<chainVars, store>> /\ tip' = tip /\ forks' = forks /\ checkpoint' = checkpoint
    BY <1>1, <2>1, Quietly DEF chainVars, store
  <2>4. Ordinary' /\ CheckpointHeld' /\ Batch'
    BY <1>1, <2>2, <2>3 DEF IInv, Ordinary, CheckpointHeld, Batch, Numbers
  <2>5. Joined'
    BY <1>1, <1>2, <2>2 DEF Joined, AllHeaders, JoinedRange, Numbers
  <2>6. Undisturbed'
    BY <1>1, <2>2, <2>3 DEF IInv, Undisturbed, OnTip
  <2> QED BY <2>2, <2>3, <2>4, <2>5, <2>6, Onward
<1>3. CASE ~ JoinedRange /\ Barrier("PARENT_DISCONTINUITY")
  <2>1. forks # 0
    <3> SUFFICES ASSUME forks = 0 PROVE FALSE
      OBVIOUS
    <3>1. OnTip(checkpoint) /\ \A h \in poll.headers : OnTip(h)
      BY <1>1 DEF IInv, Undisturbed
    <3> HIDE DEF OnTip
    <3> QED BY <1>1, <1>3, <3>1, OneChainJoins
  <2> QED BY <1>3, <2>1, Raising
<1> QED BY <1>2, <1>3 DEF ReadEvents

LEMMA ForgottenBlockKeeps ==
    ASSUME IInv, ForgottenBlock
    PROVE  IInv'
BY Ending DEF ForgottenBlock, Throw, Fetching, PollSteps

\* The last block of a batch is the one at its end.
LEMMA EndOfBatch ==
    ASSUME Reads, poll.pc \in {"anchor", "commit"}
    PROVE  /\ End \in poll.headers /\ Len(End) = poll.to /\ poll.to \in Nat
           /\ \A h \in poll.headers : Len(h) = poll.to => h = End
<1>1. /\ poll.checkpoint \in Paths /\ poll.to \in Nat /\ Len(poll.checkpoint) < poll.to /\ AllHeaders
      /\ \A h, g \in poll.headers : Len(h) = Len(g) => h = g
  BY DEF Reads, Polls, Paths, Batch, Joined
<1>2. poll.to \in Numbers
  BY <1>1, PathType DEF Numbers
<1>3. \E h \in poll.headers : Len(h) = poll.to
  BY <1>1, <1>2 DEF AllHeaders
<1>4. End \in poll.headers /\ Len(End) = poll.to
  BY <1>3 DEF End
<1> QED BY <1>1, <1>4

LEMMA ReadAnchorKeeps ==
    ASSUME IInv, ReadAnchor
    PROVE  IInv'
<1>1. /\ poll.pc = "anchor" /\ poll \in Polls /\ poll.checkpoint = checkpoint
      /\ tip \in Paths /\ poll.headers \subseteq Blocks /\ poll.to \in Nat
  BY DEF ReadAnchor, IInv, TypeOK, Polls, Paths, CheckpointHeld
<1>2. CASE Throw
  BY <1>1, <1>2, Ending DEF Throw, Fetching, PollSteps
<1>3. CASE Proceed("commit")
  <2>1. /\ Goto("commit") /\ UNCHANGED <<chainVars, store, status, reason>> /\ "commit" \in PollSteps
    BY <1>3 DEF Proceed, PollSteps
  <2>2. /\ poll' \in Polls /\ poll'.pc = "commit" /\ poll'.maintenance = poll.maintenance
        /\ poll'.limit = poll.limit /\ poll'.checkpoint = poll.checkpoint
        /\ poll'.to = poll.to /\ poll'.headers = poll.headers
    BY <1>1, <2>1, Gone
  <2>3. StatusKept /\ UNCHANGED <<chainVars, store>> /\ tip' = tip /\ forks' = forks /\ checkpoint' = checkpoint
    BY <1>1, <2>1, Quietly DEF chainVars, store
  <2>4. Ordinary' /\ CheckpointHeld' /\ Batch'
    BY <1>1, <2>2, <2>3 DEF IInv, Ordinary, CheckpointHeld, Batch, Numbers
  <2>5. Joined'
    BY <1>1, <2>2 DEF IInv, Joined, AllHeaders, JoinedRange, Numbers
  <2>6. Undisturbed'
    BY <1>1, <2>2, <2>3 DEF IInv, Undisturbed, OnTip
  <2> QED BY <2>2, <2>3, <2>4, <2>5, <2>6, Onward
<1>4. CASE HasBlock(poll.to) /\ BlockAt(poll.to) # End /\ Barrier("RANGE_ANCHOR_CHANGED")
  <2>1. forks # 0
    <3> SUFFICES ASSUME forks = 0 PROVE FALSE
      OBVIOUS
    <3>1. End \in poll.headers /\ Len(End) = poll.to
      BY <1>1, ReadsFollow, EndOfBatch
    <3>2. OnTip(End)
      BY <1>1, <3>1 DEF IInv, Undisturbed
    <3>3. End = SubSeq(tip, 1, poll.to)
      BY <3>1, <3>2 DEF OnTip
    <3> QED BY <1>4, <3>3 DEF BlockAt
  <2> QED BY <1>4, <2>1, Raising
<1> QED BY <1>2, <1>3, <1>4 DEF ReadAnchor

-----------------------------------------------------------------------------
(* The transaction.                                                        *)

\* Its batch is the path from the checkpoint to its end.
LEMMA BatchIsPath ==
    ASSUME Reads, poll.pc = "commit"
    PROVE  /\ End \in Blocks /\ End \in Paths /\ Len(checkpoint) \in 0..Len(End)
           /\ poll.headers = Above(End, Len(checkpoint))
           /\ SubSeq(End, 1, Len(checkpoint)) = checkpoint
           /\ \A h \in poll.headers : Len(h) > Len(checkpoint)
<1>1. /\ End \in poll.headers /\ Len(End) = poll.to /\ poll.to \in Nat
  BY EndOfBatch
<1>2. /\ poll.checkpoint = checkpoint /\ checkpoint \in Paths /\ poll.headers \in SUBSET Blocks
      /\ Len(checkpoint) < poll.to
      /\ \A h \in poll.headers : Len(h) \in (Len(checkpoint) + 1)..poll.to
      /\ \A h \in poll.headers, g \in poll.headers : Len(h) = Len(g) => h = g
      /\ \A h \in poll.headers : Len(h) > 1 => Front(h) \in poll.headers \cup {checkpoint}
  BY DEF Reads, Polls, Paths, Batch, Joined, CheckpointHeld, JoinedRange, Numbers
<1>3. Len(checkpoint) \in Nat
  BY <1>2, PathType
<1> DEFINE e == End
           headers == poll.headers
           to == poll.to
<1>4. e \in headers /\ Len(e) = to /\ headers \in SUBSET Blocks /\ e \in Blocks
  BY <1>1, <1>2
<1> HIDE DEF e, headers, to
<1>5. /\ \A h \in headers : Len(h) \in (Len(checkpoint) + 1)..to
      /\ \A h \in headers, g \in headers : Len(h) = Len(g) => h = g
      /\ \A h \in headers : Len(h) > 1 => Front(h) \in headers \cup {checkpoint}
      /\ Len(checkpoint) < to /\ to \in Nat
  BY <1>1, <1>2 DEF headers, to
<1>6. /\ headers = Above(e, Len(checkpoint))
      /\ SubSeq(e, 1, Len(checkpoint)) = checkpoint
  <2>1. Descent(headers, checkpoint, to)
    BY <1>5 DEF Descent
  <2> QED BY <1>2, <1>4, <1>5, <2>1, Lineage
<1>7. Len(checkpoint) \in 0..to
  BY <1>3, <1>5
<1>8. \A h \in headers : Len(h) > Len(checkpoint)
  BY <1>3, <1>5
<1>9. e \in Paths
  BY <1>4 DEF Paths
<1>10. Len(checkpoint) \in 0..Len(e)
  BY <1>4, <1>7
<1> QED BY <1>4, <1>6, <1>8, <1>9, <1>10 DEF e, headers

\* With the batch the stored branch and its rows reach the batch's end.
LEMMA Extension ==
    ASSUME Reads, poll.pc = "commit", canonical = Ancestry(checkpoint)
    PROVE  /\ canonical \cup poll.headers = Ancestry(End)
           /\ Chain(checkpoint) \o InOrder(poll.headers \ canonical) = Chain(End)
<1>1. /\ End \in Blocks /\ End \in Paths /\ Len(checkpoint) \in 0..Len(End)
      /\ poll.headers = Above(End, Len(checkpoint))
      /\ SubSeq(End, 1, Len(checkpoint)) = checkpoint
      /\ \A h \in poll.headers : Len(h) > Len(checkpoint)
  BY BatchIsPath
<1>2. checkpoint \in Paths /\ poll.headers \subseteq Blocks
  BY DEF Reads, Polls
<1>3. \A b \in canonical : Len(b) <= Len(checkpoint)
  <2>1. Ancestry(checkpoint) = {SubSeq(checkpoint, 1, n) : n \in 1..Len(checkpoint)}
    BY <1>2, ChainOf
  <2>2. \A n \in 1..Len(checkpoint) : Len(SubSeq(checkpoint, 1, n)) = n
    <3>1. \A n \in 1..Len(checkpoint) : n \in 0..Len(checkpoint)
      OBVIOUS
    <3> QED BY <1>2, <3>1, PrefixType
  <2> QED BY <2>1, <2>2
<1>4. poll.headers \ canonical = poll.headers
  <2>1. \A h \in poll.headers : h \notin canonical
    <3> SUFFICES ASSUME NEW h \in poll.headers, h \in canonical PROVE FALSE
      OBVIOUS
    <3>1. Len(h) > Len(checkpoint) /\ Len(h) <= Len(checkpoint)
      BY <1>1, <1>3
    <3>2. Len(h) \in Nat /\ Len(checkpoint) \in Nat
      BY <1>2, PathType DEF Paths
    <3> QED BY <3>1, <3>2
  <2> QED BY <2>1
<1>5. Chain(checkpoint) \o InOrder(poll.headers \ canonical) = Chain(End)
  <2>1. Chain(SubSeq(End, 1, Len(checkpoint))) \o InOrder(Above(End, Len(checkpoint))) = Chain(End)
    BY <1>1, Continued
  <2> QED BY <1>1, <1>4, <2>1
<1>6. canonical \cup poll.headers = Ancestry(End)
  <2> DEFINE k == Len(checkpoint)
  <2>1. /\ Ancestry(checkpoint) = {SubSeq(checkpoint, 1, n) : n \in 1..k}
        /\ Ancestry(End) = {SubSeq(End, 1, n) : n \in 1..Len(End)}
    BY <1>2, <1>1, ChainOf
  <2>2. k \in Nat /\ Len(End) \in Nat /\ k <= Len(End)
    BY <1>2, <1>1, PathType
  <2>3. \A n \in 1..k : SubSeq(checkpoint, 1, n) = SubSeq(End, 1, n)
    <3> SUFFICES ASSUME NEW n \in 1..k PROVE SubSeq(checkpoint, 1, n) = SubSeq(End, 1, n)
      OBVIOUS
    <3>1. n \in 0..k
      BY <2>2
    <3>2. SubSeq(SubSeq(End, 1, k), 1, n) = SubSeq(End, 1, n)
      BY <1>1, <3>1, PrefixPrefix
    <3> QED BY <1>1, <3>2
  <2> HIDE DEF k
  <2>4. \A n \in 1..Len(End) : n \in 1..k \/ n \in (k + 1)..Len(End)
    BY <2>2
  <2>5. \A n \in 1..k : n \in 1..Len(End)
    BY <2>2
  <2>6. \A n \in (k + 1)..Len(End) : n \in 1..Len(End)
    BY <2>2
  <2>7. poll.headers = {SubSeq(End, 1, n) : n \in (k + 1)..Len(End)}
    BY <1>1 DEF k, Above
  <2> DEFINE low == {SubSeq(End, 1, n) : n \in 1..k}
             high == {SubSeq(End, 1, n) : n \in (k + 1)..Len(End)}
             all == {SubSeq(End, 1, n) : n \in 1..Len(End)}
  <2>8. {SubSeq(checkpoint, 1, n) : n \in 1..k} = low
    BY <2>3
  <2>9. all = low \cup high
    <3>1. \A b \in all : b \in low \cup high
      BY <2>4
    <3>2. \A b \in low : b \in all
      BY <2>5
    <3>3. \A b \in high : b \in all
      BY <2>6
    <3> HIDE DEF all, low, high
    <3> QED BY <3>1, <3>2, <3>3
  <2> HIDE DEF low, high
  <2> QED BY <2>1, <2>7, <2>8, <2>9 DEF high
<1> QED BY <1>5, <1>6

\* The logs of a batch are put over what was stored.
LEMMA Stored ==
    ASSUME poll.headers \subseteq Blocks, journal \in [Blocks -> {"absent", "partial", "complete"}],
           NEW content \in [poll.headers -> {"complete", "partial"}]
    PROVE  /\ Journalled(content) \in [Blocks -> {"absent", "partial", "complete"}]
           /\ \A b \in poll.headers : Journalled(content)[b] = content[b]
           /\ \A b \in Blocks \ poll.headers : Journalled(content)[b] = journal[b]
BY DEF Journalled

\* Every content a batch may have says something of each block, and all there
\* is when the provider is not behind.
LEMMA Contents ==
    ASSUME NEW content \in AllLogs \cup LateLogs
    PROVE  /\ content \in [poll.headers -> {"complete", "partial"}]
           /\ ~ Lossy => \A b \in poll.headers : content[b] # "partial"
BY DEF AllLogs, LateLogs

LEMMA CommitKeeps ==
    ASSUME IInv, NEW contents \in {AllLogs, LateLogs}, Commit(contents)
    PROVE  IInv'
<1>1. PICK content \in contents :
        IF Admitted /\ Agrees(content)
        THEN /\ journal' = Journalled(content)
             /\ canonical' = canonical \cup poll.headers
             /\ rows' = rows \o InOrder(poll.headers \ canonical)
             /\ checkpoint' = End
             /\ Goto(IF poll.to = Len(poll.eligible) THEN "latest" ELSE "done")
             /\ UNCHANGED <<chainVars, status, reason>>
        ELSE Throw
  BY DEF Commit
<1>2. /\ poll.pc = "commit" /\ poll \in Polls /\ checkpoint \in Paths /\ poll.headers \subseteq Blocks
      /\ journal \in [Blocks -> {"absent", "partial", "complete"}]
      /\ status # "RECOVERY_REQUIRED"
  BY DEF Commit, IInv, TypeOK, Polls, Paths, Barred
<1>3. content \in AllLogs \cup LateLogs
  OBVIOUS
<1>4. /\ content \in [poll.headers -> {"complete", "partial"}]
      /\ ~ Lossy => \A b \in poll.headers : content[b] # "partial"
  BY <1>3, Contents
<1>5. CASE Throw
  BY <1>2, <1>5, Ending DEF Throw, Fetching, PollSteps
<1>6. CASE /\ journal' = Journalled(content)
           /\ canonical' = canonical \cup poll.headers
           /\ rows' = rows \o InOrder(poll.headers \ canonical)
           /\ checkpoint' = End
           /\ Goto(IF poll.to = Len(poll.eligible) THEN "latest" ELSE "done")
           /\ UNCHANGED <<chainVars, status, reason>>
  <2> DEFINE x == IF poll.to = Len(poll.eligible) THEN "latest" ELSE "done"
  <2>1. x \in {"latest", "done"} /\ x \in PollSteps /\ Goto(x)
    BY <1>6 DEF PollSteps
  <2> HIDE DEF x
  <2>2. poll' \in Polls /\ poll'.pc = x /\ poll'.maintenance = poll.maintenance /\ poll'.limit = poll.limit
    BY <1>2, <2>1, Gone
  <2>3. poll'.pc \notin {"target", "eligible", "headers", "anchor", "commit", "begin"}
    BY <2>1, <2>2
  <2>4. tip' = tip /\ forks' = forks /\ status' = status /\ reason' = reason
    BY <1>6 DEF chainVars
  <2>5. /\ End \in Blocks /\ End \in Paths /\ Len(checkpoint) \in 0..Len(End)
        /\ poll.headers = Above(End, Len(checkpoint))
        /\ SubSeq(End, 1, Len(checkpoint)) = checkpoint
        /\ \A h \in poll.headers : Len(h) > Len(checkpoint)
    BY <1>2, ReadsFollow, BatchIsPath
  <2>6. canonical = Ancestry(checkpoint) /\ rows = Chain(checkpoint)
        /\ \A b \in canonical : journal[b] # "absent"
    BY DEF IInv, OneBranch
  <2>7. /\ journal' \in [Blocks -> {"absent", "partial", "complete"}]
        /\ \A b \in poll.headers : journal'[b] = content[b]
        /\ \A b \in Blocks \ poll.headers : journal'[b] = journal[b]
    BY <1>2, <1>4, <1>6, Stored
  <2>8. /\ canonical \cup poll.headers = Ancestry(End)
        /\ Chain(checkpoint) \o InOrder(poll.headers \ canonical) = Chain(End)
    BY <1>2, <2>6, ReadsFollow, Extension
  <2>10. rows' = Chain(End)
    BY <1>6, <2>6, <2>8
  <2>11. canonical' = Ancestry(End)
    BY <1>6, <2>8
  <2>12. canonical' \subseteq Blocks /\ rows' \in Seq(Blocks) /\ canonical \subseteq Blocks
    BY <1>2, <2>5, <2>6, <2>10, <2>11, ChainOf
  <2>13. \A b \in canonical' : journal'[b] # "absent"
    <3> SUFFICES ASSUME NEW b \in canonical' PROVE journal'[b] # "absent"
      OBVIOUS
    <3>1. CASE b \in poll.headers
      <4>1. content[b] \in {"complete", "partial"}
        BY <1>4, <3>1
      <4> QED BY <2>7, <3>1, <4>1
    <3>2. CASE b \notin poll.headers
      <4>1. b \in canonical /\ b \in Blocks
        BY <1>6, <2>12, <3>2
      <4> QED BY <2>6, <2>7, <3>2, <4>1
    <3> QED BY <3>1, <3>2
  <2>14. checkpoint' \in Blocks \cup {Genesis}
    BY <1>6, <2>5
  <2>15. TypeOK'
    BY <2>2, <2>4, <2>7, <2>12, <2>14 DEF IInv, TypeOK
  <2>16. OneBranch'
    BY <1>6, <2>10, <2>11, <2>13 DEF OneBranch
  <2>17. NoFalseAlarm' /\ Barred'
    BY <1>2, <2>4 DEF NoFalseAlarm, Barred
  <2>18. Ordinary' /\ CheckpointHeld' /\ Batch' /\ Joined'
    BY <2>2, <2>3 DEF IInv, Ordinary, CheckpointHeld, Batch, Joined
  <2>19. WholeLogs'
    <3> SUFFICES ASSUME ~ Lossy, NEW b \in Blocks PROVE journal'[b] # "partial"
      BY DEF WholeLogs
    <3>1. CASE b \in poll.headers
      BY <1>4, <2>7, <3>1
    <3>2. CASE b \notin poll.headers
      BY <2>7, <3>2 DEF IInv, WholeLogs
    <3> QED BY <3>1, <3>2
  <2>20. Undisturbed'
    <3> SUFFICES ASSUME forks = 0 PROVE Undisturbed'
      BY <2>4 DEF Undisturbed
    <3>1. End \in poll.headers /\ Len(End) = poll.to
      BY <1>2, ReadsFollow, EndOfBatch
    <3>2. OnTip(End) /\ Len(End) + IndexingDepth <= Len(tip)
      BY <1>2, <3>1 DEF IInv, Undisturbed
    <3>3. checkpoint' = End
      BY <1>6
    <3> HIDE DEF End
    <3> QED BY <2>3, <2>4, <3>2, <3>3 DEF Undisturbed, OnTip
  <2> QED BY <2>15, <2>16, <2>17, <2>18, <2>19, <2>20 DEF IInv
<1> QED BY <1>1, <1>5, <1>6

LEMMA IntegrityFailureKeeps ==
    ASSUME IInv, IntegrityFailure
    PROVE  IInv'
<1>1. Barrier("PROJECTOR_INTEGRITY")
  BY DEF IntegrityFailure
<1>2. Lossy
  <2> SUFFICES ASSUME ~ Lossy PROVE FALSE
    OBVIOUS
  <2>1. PICK content \in AllLogs \cup LateLogs :
          \E b \in canonical \cup poll.headers : Journalled(content)[b] = "partial"
    BY DEF IntegrityFailure
  <2>2. /\ content \in [poll.headers -> {"complete", "partial"}]
        /\ \A b \in poll.headers : content[b] # "partial"
    BY Contents
  <2>3. /\ poll.headers \subseteq Blocks /\ canonical \subseteq Blocks
        /\ journal \in [Blocks -> {"absent", "partial", "complete"}]
        /\ \A b \in Blocks : journal[b] # "partial"
    BY DEF IInv, TypeOK, Polls, WholeLogs
  <2>4. /\ \A b \in poll.headers : Journalled(content)[b] = content[b]
        /\ \A b \in Blocks \ poll.headers : Journalled(content)[b] = journal[b]
    BY <2>2, <2>3, Stored
  <2> QED BY <2>1, <2>2, <2>3, <2>4
<1> QED BY <1>1, <1>2, Raising

LEMMA ConfirmTargetKeeps ==
    ASSUME IInv, ConfirmTarget
    PROVE  IInv'
<1>1. /\ poll.pc = "latestEligible" /\ poll \in Polls /\ poll.head \in Paths /\ tip \in Paths
      /\ status # "RECOVERY_REQUIRED"
      /\ status \in {"UNINITIALIZED", "SYNCING", "CURRENT", "STALE", "RECOVERY_REQUIRED"}
  BY DEF ConfirmTarget, IInv, TypeOK, Polls, Paths, Barred
<1>2. CASE EligibleMissing /\ Throw
  BY <1>1, <1>2, Ending DEF Throw, Fetching, PollSteps
<1>3. CASE /\ ~ EligibleMissing
           /\ IF Eligible = End /\ status \in Markable
              THEN status' = "CURRENT" /\ reason' = Null
              ELSE UNCHANGED <<status, reason>>
           /\ poll' = [poll EXCEPT !.pc = "done", !.eligible = Eligible]
           /\ UNCHANGED <<chainVars, store>>
  <2>1. Eligible \in Blocks \cup {Genesis, Null}
    BY <1>1, <1>3, EligibleType DEF Paths
  <2>2. /\ poll' \in Polls /\ poll'.pc = "done"
        /\ poll'.maintenance = poll.maintenance /\ poll'.limit = poll.limit
    BY <1>1, <1>3, <2>1 DEF Polls, PollSteps
  <2>3. status' \in {status, "CURRENT"} /\ UNCHANGED <<chainVars, store>>
    BY <1>3
  <2>4. StatusKept
    BY <1>1, <2>3 DEF StatusKept
  <2> QED BY <2>2, <2>3, <2>4, Leave DEF IInv, Ordinary, Fetching
<1> QED BY <1>2, <1>3 DEF ConfirmTarget

LEMMA TransportFailureKeeps ==
    ASSUME IInv, TransportFailure
    PROVE  IInv'
<1>1. Proceed("unreachable") /\ poll.pc \notin {"thrown", "stopped"}
  BY DEF TransportFailure, Reading
<1> QED BY <1>1, Ending DEF Fetching, PollSteps

-----------------------------------------------------------------------------
(* The process.                                                            *)

\* A worker begins or ends with nothing read.
LEMMA Restarting ==
    ASSUME IInv, NEW x \in {"begin", "stopped"}, poll' = Poll(x, FALSE, MaxHeight),
           UNCHANGED <<chainVars, store>>,
           \/ UNCHANGED <<status, reason>> /\ (x = "begin" => status # "RECOVERY_REQUIRED")
           \/ status' = "STALE"
    PROVE  IInv'
<1>1. /\ poll' \in Polls /\ poll'.pc = x /\ ~ poll'.maintenance /\ poll'.limit = MaxHeight
      /\ poll'.headers = {}
  BY Fresh DEF PollSteps
<1>2. forks' = forks
  BY DEF chainVars
<1>3. StatusKept
  BY <1>1, <1>2 DEF IInv, TypeOK, NoFalseAlarm, StatusKept
<1> QED BY <1>1, <1>3, Leave DEF Fetching

LEMMA StartWorkerKeeps ==
    ASSUME IInv, StartWorker
    PROVE  IInv'
<1>1. /\ poll' = Poll("begin", FALSE, MaxHeight) /\ status # "RECOVERY_REQUIRED"
      /\ UNCHANGED <<chainVars, store>> /\ UNCHANGED <<status, reason>>
  BY DEF StartWorker, MayStart
<1> QED BY <1>1, Restarting

LEMMA NextPollKeeps ==
    ASSUME IInv, NextPoll
    PROVE  IInv'
<1>1. /\ poll' = Poll("begin", FALSE, MaxHeight) /\ status # "RECOVERY_REQUIRED"
      /\ UNCHANGED <<chainVars, store>> /\ UNCHANGED <<status, reason>>
  BY DEF NextPoll, IInv, Barred
<1> QED BY <1>1, Restarting

LEMMA RetryUnreachableKeeps ==
    ASSUME IInv, RetryUnreachable
    PROVE  IInv'
<1>1. /\ poll' = Poll("begin", FALSE, MaxHeight) /\ status' = "STALE"
      /\ UNCHANGED <<chainVars, store>>
  BY DEF RetryUnreachable, IInv, Barred
<1> QED BY <1>1, Restarting

LEMMA WorkerEndsKeeps ==
    ASSUME IInv, WorkerEnds \/ WorkerKilled
    PROVE  IInv'
<1>1. /\ poll' = Poll("stopped", FALSE, MaxHeight)
      /\ UNCHANGED <<chainVars, store>> /\ UNCHANGED <<status, reason>>
  BY DEF WorkerEnds, WorkerKilled
<1> QED BY <1>1, Restarting

-----------------------------------------------------------------------------
(* The theorems.                                                           *)

LEMMA InitOK == Init => IInv
<1> SUFFICES ASSUME Init PROVE IInv
  OBVIOUS
<1>1. /\ poll \in Polls /\ poll.pc = "stopped" /\ ~ poll.maintenance /\ poll.limit = MaxHeight
      /\ poll.headers = {}
  BY Fresh DEF Init, PollSteps
<1>2. Genesis \in Paths /\ Len(Genesis) = 0
  BY PathType DEF Paths
<1>3. Chain(Genesis) \in Seq(Blocks) /\ Len(Chain(Genesis)) = 0 /\ Ancestry(Genesis) = {}
  BY <1>2, ChainOf
<1>4. Chain(Genesis) = <<>>
  BY <1>3, EmptySeq
<1>5. TypeOK
  <2>1. rows \in Seq(Blocks)
    BY DEF Init
  <2>2. tip \in Blocks \cup {Genesis} /\ checkpoint \in Blocks \cup {Genesis} /\ canonical \subseteq Blocks
    BY DEF Init
  <2>3. /\ forks \in 0..MaxForks /\ journal \in [Blocks -> {"absent", "partial", "complete"}]
        /\ status \in {"UNINITIALIZED", "SYNCING", "CURRENT", "STALE", "RECOVERY_REQUIRED"}
    BY DEF Init
  <2> QED BY <1>1, <2>1, <2>2, <2>3 DEF TypeOK
<1>6. OneBranch
  BY <1>3, <1>4 DEF Init, OneBranch
<1>7. NoFalseAlarm /\ Barred
  BY DEF Init, NoFalseAlarm, Barred
<1>8. Ordinary /\ CheckpointHeld /\ Batch /\ Joined
  BY <1>1 DEF Ordinary, CheckpointHeld, Batch, Joined
<1>9. WholeLogs
  BY DEF Init, WholeLogs
<1>10. Undisturbed
  <2>1. OnTip(checkpoint)
    <3>1. SubSeq(Genesis, 1, Len(Genesis)) = Genesis
      BY <1>2, WholePath
    <3>2. checkpoint = Genesis /\ tip = Genesis
      BY DEF Init
    <3> HIDE DEF Genesis
    <3> QED BY <1>2, <3>1, <3>2 DEF OnTip
  <2> QED BY <1>1, <2>1 DEF Init, Undisturbed
<1> QED BY <1>5, <1>6, <1>7, <1>8, <1>9, <1>10 DEF IInv

LEMMA NextOK == IInv /\ [Next]_vars => IInv'
<1> SUFFICES ASSUME IInv, [Next]_vars PROVE IInv'
  OBVIOUS
<1>1. CASE Mine
  BY <1>1, MineKeeps
<1>2. CASE Reorg
  BY <1>2, ReorgKeeps
<1>3. CASE TransportFailure
  BY <1>3, TransportFailureKeeps
<1>4. CASE Commit(LateLogs) \/ Commit(AllLogs)
  BY <1>4, CommitKeeps
<1>5. CASE IntegrityFailure
  BY <1>5, IntegrityFailureKeeps
<1>6. CASE CheckCheckpoint
  BY <1>6, CheckCheckpointKeeps
<1>7. CASE ReadHead
  BY <1>7, ReadHeadKeeps
<1>8. CASE ReadEligible
  BY <1>8, ReadEligibleKeeps
<1>9. CASE ReadHeader
  BY <1>9, ReadHeaderKeeps
<1>10. CASE RefuseRange
  BY <1>10, RefuseRangeKeeps
<1>11. CASE ReadEvents
  BY <1>11, ReadEventsKeeps
<1>12. CASE ForgottenBlock
  BY <1>12, ForgottenBlockKeeps
<1>13. CASE ReadAnchor
  BY <1>13, ReadAnchorKeeps
<1>14. CASE ConfirmTarget
  BY <1>14, ConfirmTargetKeeps
<1>15. CASE StartWorker
  BY <1>15, StartWorkerKeeps
<1>16. CASE NextPoll
  BY <1>16, NextPollKeeps
<1>17. CASE RetryUnreachable
  BY <1>17, RetryUnreachableKeeps
<1>18. CASE WorkerEnds \/ WorkerKilled
  BY <1>18, WorkerEndsKeeps
<1>19. CASE UNCHANGED vars
  <2>1. /\ tip' = tip /\ forks' = forks /\ journal' = journal /\ canonical' = canonical
        /\ rows' = rows /\ checkpoint' = checkpoint /\ status' = status /\ reason' = reason
        /\ poll' = poll
    BY <1>19 DEF vars, chainVars, store
  <2>2. TypeOK' /\ OneBranch' /\ NoFalseAlarm'
    BY <2>1 DEF IInv, TypeOK, OneBranch, NoFalseAlarm
  <2>3. Ordinary' /\ CheckpointHeld' /\ Barred' /\ WholeLogs'
    BY <2>1 DEF IInv, Ordinary, CheckpointHeld, Barred, WholeLogs
  <2>4. Batch' /\ Joined'
    BY <2>1 DEF IInv, Batch, Joined, AllHeaders, JoinedRange, Numbers
  <2>5. Undisturbed'
    BY <2>1 DEF IInv, Undisturbed, OnTip
  <2> QED BY <2>2, <2>3, <2>4, <2>5 DEF IInv
<1> QED BY <1>1, <1>2, <1>3, <1>4, <1>5, <1>6, <1>7, <1>8, <1>9, <1>10, <1>11, <1>12, <1>13,
           <1>14, <1>15, <1>16, <1>17, <1>18, <1>19 DEF Next, ProviderFailure, Quiet, Ingest

\* The invariant the others rest on, whatever the chain does between the reads of
\* ingestRange and wherever the worker dies.
THEOREM Inductive == Spec => []IInv
BY InitOK, NextOK, PTL DEF Spec

\* Every state has its type, and no poll reaches above the indexing depth (the
\* target and the batch that ingestRange computes).
THEOREM TypeCorrect == Spec => []TypeOK
<1>1. IInv => TypeOK
  BY DEF IInv
<1> QED BY <1>1, Inductive, PTL

\* The read model that commit builds is the events of one chain, in order, each
\* block once and none skipped, up to the checkpoint, under any reorganisation.
THEOREM BuiltFromOneBranch == Spec => []OneBranch
<1>1. IInv => OneBranch
  BY DEF IInv
<1> QED BY <1>1, Inductive, PTL

\* A chain that only grows never raises the barrier (markRecoveryRequired), but
\* for logs its provider held back.
THEOREM AlarmIsTrue == Spec => []NoFalseAlarm
<1>1. IInv => NoFalseAlarm
  BY DEF IInv
<1> QED BY <1>1, Inductive, PTL

LEMMA BehindTheBarrier ==
    IInv /\ [Next]_vars => (status = "RECOVERY_REQUIRED" => UNCHANGED <<store, status, reason>>)
<1> SUFFICES ASSUME IInv, [Next]_vars, status = "RECOVERY_REQUIRED"
             PROVE  UNCHANGED <<store, status, reason>>
  OBVIOUS
<1>1. poll.pc \in {"thrown", "stopped"}
  BY DEF IInv, Barred
<1>2. CASE Mine \/ Reorg \/ TransportFailure \/ StartWorker \/ NextPoll \/ WorkerEnds \/ WorkerKilled
  BY <1>2 DEF Mine, Reorg, TransportFailure, Proceed, StartWorker, NextPoll, WorkerEnds, WorkerKilled
<1>3. CASE UNCHANGED vars
  BY <1>3 DEF vars
<1>4. ~ RetryUnreachable /\ ~ Commit(LateLogs) /\ ~ Commit(AllLogs) /\ ~ IntegrityFailure
  BY <1>1 DEF RetryUnreachable, Commit, IntegrityFailure
<1>5. ~ Ingest
  BY <1>1, <1>4 DEF Ingest, CheckCheckpoint, ReadHead, ReadEligible, ReadHeader, RefuseRange,
                    ReadEvents, ForgottenBlock, ReadAnchor, ConfirmTarget
<1> QED BY <1>2, <1>3, <1>4, <1>5 DEF Next, ProviderFailure, Quiet

\* Behind the barrier no poll in flight, retry or new process changes the read
\* model, lifts the barrier or rewrites its reason (openProjectionWriter, commit,
\* markStale, markRecoveryRequired).
THEOREM BarrierStands == Spec => BarrierHolds
<1>1. IInv /\ [Next]_vars => [status = "RECOVERY_REQUIRED" => UNCHANGED <<store, status, reason>>]_vars
  BY BehindTheBarrier
<1> QED BY <1>1, Inductive, PTL DEF Spec, BarrierHolds
=============================================================================
