---------------------------- MODULE AuditProofs ----------------------------
(***************************************************************************)
(* Theorems about SourceAudit, for every number of branches, every bound   *)
(* on the chain, every range and whatever the indexer does meanwhile.      *)
(***************************************************************************)
EXTENDS SourceAudit, IndexerProofs

USE IndexerAssumption, NullAssumption, NoReportAssumption

-----------------------------------------------------------------------------
(* The inductive invariant.                                                *)

AuditSteps == {"idle", "finalized", "confirm", "snapshot", "blocks", "reconfirm", "compare", "reported"}
Stores == UNION {[blocks -> {"absent", "partial", "complete"}] : blocks \in SUBSET Blocks}
Audits == [pc : AuditSteps, from : 0..MaxHeight, to : 0..MaxHeight, anchor : Paths, stored : Stores,
           read : Seq(Blocks), result : {Null, "UNVERIFIABLE", "MATCH", "MISMATCH"}, leftSince : 0..MaxForks]

Told == audit.result \in {"MATCH", "MISMATCH"}

\* The audit has fixed its anchor, and has not given up.
Anchored ==
    \/ audit.pc \in {"confirm", "snapshot", "blocks", "reconfirm", "compare"}
    \/ audit.pc = "reported" /\ Told

\* How far the reads have come.
Progress ==
    /\ audit.pc \in {"finalized", "confirm", "snapshot", "blocks", "reconfirm", "compare"} \/ Anchored =>
          audit.from \in 1..audit.to
    /\ Anchored => audit.to <= Len(audit.anchor) /\ audit.leftSince <= forks
    /\ audit.pc \in {"finalized", "confirm", "snapshot"} => audit.read = <<>>
    /\ audit.pc = "blocks" => audit.from + Len(audit.read) <= audit.to
    /\ audit.pc \in {"reconfirm", "compare"} \/ Told => audit.from + Len(audit.read) = audit.to + 1

\* What was read is the chain below the anchor.
ReadBelowAnchor ==
    \A i \in 1..Len(audit.read) : audit.read[i] = SubSeq(audit.anchor, 1, audit.from + i - 1)

\* One of two paths continues the other.
OneLine(p, q) ==
    \A n \in Nat : n <= Len(p) /\ n <= Len(q) => SubSeq(p, 1, n) = SubSeq(q, 1, n)

\* Before the chain leaves its branch all reads are below the anchor; after it
\* left once, they are as long as it may still come back to the anchor.
Witnessed ==
    audit.pc \in {"confirm", "snapshot", "blocks", "reconfirm"} =>
        /\ forks = audit.leftSince => OnTip(audit.anchor) /\ ReadBelowAnchor
        /\ forks = audit.leftSince + 1 /\ OneLine(audit.anchor, tip) => ReadBelowAnchor

\* The second read of the anchor says that it did.
Confirmed ==
    audit.pc = "compare" \/ Told => (forks <= audit.leftSince + 1 => ReadBelowAnchor)

\* The report is that of the comparison.
Compared ==
    /\ Told => audit.pc = "reported"
    /\ Told => (audit.result = "MATCH" <=> SameEvidence)

AuditIInv ==
    audit \in Audits /\ Progress /\ Witnessed /\ Confirmed /\ Compared

-----------------------------------------------------------------------------
(* The chain moves under the audit.                                        *)

LEMMA ForksNumber ==
    ASSUME TypeOK
    PROVE  tip \in Paths /\ forks \in Nat /\ Len(tip) \in Nat
BY PathType DEF TypeOK, Paths

LEMMA AnchorNumbers ==
    ASSUME audit \in Audits
    PROVE  /\ audit.anchor \in Paths /\ Len(audit.anchor) \in Nat /\ audit.from \in Nat /\ audit.to \in Nat
           /\ audit.leftSince \in Nat /\ audit.read \in Seq(Blocks) /\ Len(audit.read) \in Nat
<1>1. /\ audit.anchor \in Paths /\ audit.from \in 0..MaxHeight /\ audit.to \in 0..MaxHeight
      /\ audit.leftSince \in 0..MaxForks /\ audit.read \in Seq(Blocks)
  BY DEF Audits
<1> QED BY <1>1, PathType, LenProperties

\* What no step of the audit changes while it stands by.
LEMMA StandsBy ==
    ASSUME AuditIInv, UNCHANGED audit,
           \/ forks' = forks /\ \A p \in Paths : (OnTip(p) => OnTip(p)') /\ (OneLine(p, tip)' => OneLine(p, tip))
           \/ forks' = forks + 1,
           forks \in Nat
    PROVE  AuditIInv'
<1>1. audit \in Audits /\ audit' = audit /\ audit.anchor \in Paths /\ audit.leftSince \in Nat
  BY AnchorNumbers DEF AuditIInv
<1>2. Told' = Told /\ Anchored' = Anchored /\ ReadBelowAnchor' = ReadBelowAnchor /\ SameEvidence' = SameEvidence
  BY <1>1 DEF Told, Anchored, ReadBelowAnchor, SameEvidence
<1>3. forks' >= forks /\ forks' \in Nat
  OBVIOUS
<1>4. Progress'
  <2>1. Anchored => audit.leftSince <= forks'
    BY <1>1, <1>3 DEF AuditIInv, Progress
  <2> QED BY <1>1, <1>2, <2>1 DEF AuditIInv, Progress
<1>5. Witnessed'
  <2> SUFFICES ASSUME audit.pc \in {"confirm", "snapshot", "blocks", "reconfirm"}
               PROVE  /\ forks' = audit.leftSince => OnTip(audit.anchor)' /\ ReadBelowAnchor
                      /\ forks' = audit.leftSince + 1 /\ OneLine(audit.anchor, tip)' => ReadBelowAnchor
    BY <1>1, <1>2 DEF Witnessed
  <2>1. /\ forks = audit.leftSince => OnTip(audit.anchor) /\ ReadBelowAnchor
        /\ forks = audit.leftSince + 1 /\ OneLine(audit.anchor, tip) => ReadBelowAnchor
        /\ audit.leftSince <= forks
    BY DEF AuditIInv, Witnessed, Progress, Anchored
  <2>2. CASE forks' = forks /\ \A p \in Paths : (OnTip(p) => OnTip(p)') /\ (OneLine(p, tip)' => OneLine(p, tip))
    <3>1. /\ OnTip(audit.anchor) => OnTip(audit.anchor)'
          /\ OneLine(audit.anchor, tip)' => OneLine(audit.anchor, tip)
      BY <1>1, <2>2
    <3> QED BY <2>1, <2>2, <3>1
  <2>3. CASE forks' = forks + 1
    <3>1. forks' # audit.leftSince /\ (forks' = audit.leftSince + 1 => forks = audit.leftSince)
      BY <1>1, <2>1, <2>3
    <3> QED BY <2>1, <3>1
  <2> QED BY <2>2, <2>3
<1>6. Confirmed'
  <2>1. forks' <= audit.leftSince + 1 => forks <= audit.leftSince + 1
    BY <1>1, <1>3
  <2> QED BY <1>1, <1>2, <2>1 DEF AuditIInv, Confirmed
<1>7. Compared'
  BY <1>1, <1>2 DEF AuditIInv, Compared
<1> QED BY <1>1, <1>4, <1>5, <1>6, <1>7 DEF AuditIInv

LEMMA IndexerMoves ==
    ASSUME TypeOK, AuditIInv, [Next]_vars, UNCHANGED audit
    PROVE  AuditIInv'
<1>1. tip \in Paths /\ forks \in Nat /\ Len(tip) \in Nat
  BY ForksNumber
<1>2. CASE Reorg
  BY <1>1, <1>2, StandsBy DEF Reorg
<1>3. CASE Mine
  <2>1. forks' = forks /\ Len(tip) < MaxHeight /\ \E b \in Branches : tip' = Append(tip, b)
    BY <1>3 DEF Mine
  <2>2. /\ Len(tip') = Len(tip) + 1
        /\ \A n \in 0..Len(tip) : SubSeq(tip', 1, n) = SubSeq(tip, 1, n)
    BY <1>1, <2>1, Grows
  <2>3. ASSUME NEW p \in Paths PROVE (OnTip(p) => OnTip(p)') /\ (OneLine(p, tip)' => OneLine(p, tip))
    <3>1. Len(p) \in Nat
      BY PathType
    <3>2. OnTip(p) => OnTip(p)'
      BY <1>1, <2>2, <3>1 DEF OnTip
    <3>3. OneLine(p, tip)' => OneLine(p, tip)
      <4> SUFFICES ASSUME \A n \in Nat : n <= Len(p) /\ n <= Len(tip') => SubSeq(p, 1, n) = SubSeq(tip', 1, n),
                          NEW n \in Nat, n <= Len(p), n <= Len(tip)
                   PROVE  SubSeq(p, 1, n) = SubSeq(tip, 1, n)
        BY DEF OneLine
      <4>1. n <= Len(tip') /\ n \in 0..Len(tip)
        BY <1>1, <2>2
      <4> QED BY <2>2, <4>1
    <3> QED BY <3>2, <3>3
  <2> QED BY <1>1, <2>1, <2>3, StandsBy
<1>4. CASE UNCHANGED <<tip, forks>>
  <2>1. \A p \in Paths : (OnTip(p) => OnTip(p)') /\ (OneLine(p, tip)' => OneLine(p, tip))
    BY <1>4 DEF OnTip, OneLine
  <2> QED BY <1>1, <1>4, <2>1, StandsBy
<1>5. Mine \/ Reorg \/ UNCHANGED <<tip, forks>>
  <2>1. CASE Ingest \/ ProviderFailure
    BY <2>1 DEF Ingest, ProviderFailure, CheckCheckpoint, ReadHead, ReadEligible, ReadHeader, RefuseRange,
                HalveRange, ReadEvents, ForgottenBlock, ReadAnchor, Commit, ConfirmTarget, TransportFailure,
                IntegrityFailure, Throw, Proceed, Barrier, chainVars
  <2>2. CASE StartWorker \/ NextPoll \/ RetryUnreachable \/ WorkerEnds \/ WorkerKilled \/ UNCHANGED vars
    BY <2>2 DEF StartWorker, NextPoll, RetryUnreachable, WorkerEnds, WorkerKilled, vars, chainVars
  <2> QED BY <2>1, <2>2 DEF Next, Quiet
<1> QED BY <1>2, <1>3, <1>4, <1>5

-----------------------------------------------------------------------------
(* The steps of the audit.                                                 *)

\* A path that is still on the chain is of one line with it.
LEMMA OnTipOneLine ==
    ASSUME NEW p \in Paths, tip \in Paths, OnTip(p)
    PROVE  OneLine(p, tip)
<1> SUFFICES ASSUME NEW n \in Nat, n <= Len(p)
             PROVE  SubSeq(p, 1, n) = SubSeq(tip, 1, n)
  BY DEF OneLine
<1>1. Len(p) \in 0..Len(tip) /\ p = SubSeq(tip, 1, Len(p)) /\ n \in 0..Len(p)
  BY PathType DEF OnTip
<1>2. SubSeq(SubSeq(tip, 1, Len(p)), 1, n) = SubSeq(tip, 1, n)
  BY <1>1, PrefixPrefix
<1> QED BY <1>1, <1>2

\* An audit that gives up says nothing.
LEMMA GivesUp ==
    ASSUME AuditIInv, audit.pc # "reported", Report("UNVERIFIABLE")
    PROVE  AuditIInv'
<1>1. audit \in Audits /\ ~ Told
  BY DEF AuditIInv, Compared
<1>2. audit' \in Audits /\ audit'.pc = "reported" /\ audit'.result = "UNVERIFIABLE"
  BY <1>1 DEF Report, Audits, AuditSteps
<1>3. ~ Told' /\ ~ Anchored'
  BY <1>2 DEF Told, Anchored
<1> QED BY <1>2, <1>3 DEF AuditIInv, Progress, Witnessed, Confirmed, Compared

LEMMA NoAuditType == NoAudit \in Audits
<1>1. <<>> \in [{} -> {"absent", "partial", "complete"}]
  BY SMT
<1>2. <<>> \in Stores
  BY <1>1 DEF Stores
<1>3. 0 \in 0..MaxHeight /\ 0 \in 0..MaxForks
  OBVIOUS
<1>4. <<>> \in Seq(Blocks) /\ Genesis \in Paths /\ "idle" \in AuditSteps
  BY DEF Paths, AuditSteps
<1> QED BY <1>2, <1>3, <1>4 DEF NoAudit, Audits

LEMMA StartAuditKeeps ==
    ASSUME AuditIInv, StartAudit
    PROVE  AuditIInv'
<1>0. PICK from \in 1..MaxHeight : \E to \in from..MaxHeight :
         audit' = [NoAudit EXCEPT !.pc = "finalized", !.from = from, !.to = to]
  BY DEF StartAudit
<1>1. PICK to \in from..MaxHeight :
         audit' = [NoAudit EXCEPT !.pc = "finalized", !.from = from, !.to = to]
  BY <1>0
<1>2. NoAudit \in Audits
  BY NoAuditType
<1>3. from \in 0..MaxHeight /\ to \in 0..MaxHeight /\ from \in 1..to
  OBVIOUS
<1>4. /\ audit' \in Audits /\ audit'.pc = "finalized" /\ audit'.from = from /\ audit'.to = to
      /\ audit'.result = Null /\ audit'.read = <<>>
  <2>1. NoAudit.result = Null /\ NoAudit.read = <<>>
    BY DEF NoAudit
  <2> HIDE DEF NoAudit
  <2> QED BY <1>1, <1>2, <1>3, <2>1 DEF Audits, AuditSteps
<1>5. ~ Told'
  BY <1>4 DEF Told
<1> QED BY <1>3, <1>4, <1>5 DEF AuditIInv, Progress, Witnessed, Confirmed, Compared, Anchored

LEMMA FixAnchorKeeps ==
    ASSUME TypeOK, AuditIInv, FixAnchor, UNCHANGED vars
    PROVE  AuditIInv'
<1>1. audit \in Audits /\ audit.pc = "finalized" /\ ~ Told /\ audit.from \in 1..audit.to
  BY DEF FixAnchor, AuditIInv, Compared, Progress
<1>2. tip \in Paths /\ forks \in Nat /\ Len(tip) \in Nat /\ forks \in 0..MaxForks
  BY ForksNumber DEF TypeOK
<1>3. CASE audit.to > Len(tip) /\ Report("UNVERIFIABLE")
  BY <1>1, <1>3, GivesUp
<1>4. CASE /\ ~ (audit.to > Len(tip))
           /\ audit' = [audit EXCEPT !.pc = "confirm", !.anchor = tip, !.leftSince = forks]
  <2>1. audit.read = <<>> /\ Len(audit.read) = 0
    BY <1>1 DEF AuditIInv, Progress
  <2>2. /\ audit' \in Audits /\ audit'.pc = "confirm" /\ audit'.anchor = tip /\ audit'.leftSince = forks
        /\ audit'.from = audit.from /\ audit'.to = audit.to /\ audit'.read = <<>>
        /\ audit'.result = audit.result
    BY <1>1, <1>2, <1>4, <2>1 DEF Audits, AuditSteps
  <2>3. ~ Told' /\ forks' = forks /\ tip' = tip
    BY <1>1, <2>2 DEF Told, vars, chainVars
  <2>4. Progress'
    <3>1. audit.to <= Len(tip) /\ forks <= forks
      BY <1>1, <1>2, <1>4, AnchorNumbers
    <3> QED BY <1>1, <2>2, <2>3, <3>1 DEF Progress, Anchored
  <2>5. Witnessed'
    <3>1. ReadBelowAnchor'
      BY <2>1, <2>2 DEF ReadBelowAnchor
    <3>2. OnTip(tip)
      BY <1>2, WholePath DEF OnTip
    <3>3. OnTip(audit.anchor)'
      BY <2>2, <2>3, <3>2 DEF OnTip
    <3> QED BY <3>1, <3>3 DEF Witnessed
  <2> QED BY <2>2, <2>3, <2>4, <2>5 DEF AuditIInv, Confirmed, Compared
<1> QED BY <1>3, <1>4 DEF FixAnchor

\* An audit that goes on with what it has read.
LEMMA GoesOn ==
    ASSUME audit \in Audits, NEW pc \in AuditSteps, audit' = [audit EXCEPT !.pc = pc]
    PROVE  /\ audit' \in Audits /\ audit'.pc = pc /\ audit'.anchor = audit.anchor
           /\ audit'.leftSince = audit.leftSince /\ audit'.from = audit.from /\ audit'.to = audit.to
           /\ audit'.read = audit.read /\ audit'.result = audit.result /\ audit'.stored = audit.stored
BY DEF Audits

LEMMA ConfirmAnchorKeeps ==
    ASSUME TypeOK, AuditIInv, ConfirmAnchor, UNCHANGED vars
    PROVE  AuditIInv'
<1>1. /\ audit \in Audits /\ audit.pc \in {"confirm", "reconfirm"} /\ ~ Told /\ audit.from \in 1..audit.to
      /\ audit.to <= Len(audit.anchor) /\ audit.leftSince <= forks
      /\ forks' = forks /\ tip' = tip
  BY DEF ConfirmAnchor, AuditIInv, Compared, Progress, Anchored, vars, chainVars
<1>2. /\ tip \in Paths /\ forks \in Nat /\ audit.anchor \in Paths /\ Len(audit.anchor) \in Nat
      /\ audit.leftSince \in Nat
  BY <1>1, ForksNumber, AnchorNumbers
<1>3. CASE Report("UNVERIFIABLE")
  BY <1>1, <1>3, GivesUp
<1>4. CASE /\ Readable(Len(audit.anchor))
           /\ audit' = [audit EXCEPT !.pc = IF @ = "confirm" THEN "snapshot" ELSE "compare"]
  <2> DEFINE pc == IF audit.pc = "confirm" THEN "snapshot" ELSE "compare"
  <2>1. pc \in AuditSteps /\ audit' = [audit EXCEPT !.pc = pc]
    BY <1>1, <1>4 DEF AuditSteps, Audits
  <2> HIDE DEF pc
  <2>2. /\ audit' \in Audits /\ audit'.pc = pc /\ audit'.anchor = audit.anchor
        /\ audit'.leftSince = audit.leftSince /\ audit'.from = audit.from /\ audit'.to = audit.to
        /\ audit'.read = audit.read /\ audit'.result = audit.result
    BY <1>1, <2>1, GoesOn
  <2>3. ~ Told' /\ ReadBelowAnchor' = ReadBelowAnchor
    BY <1>1, <2>2 DEF Told, ReadBelowAnchor
  <2>4. Progress'
    BY <1>1, <2>2, <2>3 DEF AuditIInv, Progress, Anchored, pc
  <2>5. OnTip(audit.anchor)
    BY <1>4 DEF Readable, HasBlock, BlockAt, OnTip
  <2>6. forks <= audit.leftSince + 1 => ReadBelowAnchor
    <3>1. OneLine(audit.anchor, tip)
      BY <1>2, <2>5, OnTipOneLine
    <3>2. forks <= audit.leftSince + 1 => forks = audit.leftSince \/ forks = audit.leftSince + 1
      BY <1>1, <1>2
    <3> QED BY <1>1, <3>1, <3>2 DEF AuditIInv, Witnessed
  <2>7. Witnessed'
    <3>1. OnTip(audit.anchor)'
      BY <1>1, <2>2, <2>5 DEF OnTip
    <3>2. forks = audit.leftSince => ReadBelowAnchor
      BY <1>1 DEF AuditIInv, Witnessed
    <3>3. forks = audit.leftSince + 1 => ReadBelowAnchor
      BY <1>2, <2>6
    <3> QED BY <1>1, <2>2, <2>3, <3>1, <3>2, <3>3 DEF Witnessed
  <2>8. Confirmed'
    BY <1>1, <2>2, <2>3, <2>6 DEF Confirmed
  <2> QED BY <2>2, <2>3, <2>4, <2>7, <2>8 DEF AuditIInv, Compared
<1> QED BY <1>3, <1>4 DEF ConfirmAnchor

LEMMA SnapshotKeeps ==
    ASSUME TypeOK, AuditIInv, Snapshot, UNCHANGED vars
    PROVE  AuditIInv'
<1> DEFINE blocks == {c \in canonical : Len(c) \in audit.from..audit.to}
           stored == [b \in blocks |-> journal[b]]
<1>1. /\ audit \in Audits /\ audit.pc = "snapshot" /\ ~ Told /\ audit.from \in 1..audit.to
      /\ audit.to <= Len(audit.anchor) /\ audit.leftSince <= forks /\ audit.read = <<>>
      /\ forks' = forks /\ tip' = tip
  BY DEF Snapshot, AuditIInv, Compared, Progress, Anchored, vars, chainVars
<1>2. CASE Report("UNVERIFIABLE")
  BY <1>1, <1>2, GivesUp
<1>3. CASE audit' = [audit EXCEPT !.pc = "blocks", !.stored = stored]
  <2>1. stored \in Stores
    <3>1. blocks \in SUBSET Blocks /\ \A b \in blocks : journal[b] \in {"absent", "partial", "complete"}
      BY DEF TypeOK
    <3> HIDE DEF blocks
    <3>2. stored \in [blocks -> {"absent", "partial", "complete"}]
      BY <3>1
    <3> QED BY <3>1, <3>2 DEF Stores
  <2> HIDE DEF stored
  <2>2. /\ audit' \in Audits /\ audit'.pc = "blocks" /\ audit'.anchor = audit.anchor
        /\ audit'.leftSince = audit.leftSince /\ audit'.from = audit.from /\ audit'.to = audit.to
        /\ audit'.read = audit.read /\ audit'.result = audit.result
    BY <1>1, <1>3, <2>1 DEF Audits, AuditSteps
  <2>3. ~ Told' /\ ReadBelowAnchor' = ReadBelowAnchor
    BY <1>1, <2>2 DEF Told, ReadBelowAnchor
  <2>4. Progress'
    <3>1. Len(audit.read) = 0 /\ audit.from + 0 <= audit.to
      BY <1>1, AnchorNumbers
    <3> QED BY <1>1, <2>2, <2>3, <3>1 DEF Progress, Anchored
  <2>5. Witnessed'
    BY <1>1, <2>2, <2>3 DEF AuditIInv, Witnessed, OnTip, OneLine
  <2> QED BY <2>2, <2>3, <2>4, <2>5 DEF AuditIInv, Confirmed, Compared
<1> QED BY <1>2, <1>3 DEF Snapshot

LEMMA ReadBlockKeeps ==
    ASSUME TypeOK, AuditIInv, ReadBlock, UNCHANGED vars
    PROVE  AuditIInv'
<1> DEFINE n == audit.from + Len(audit.read)
           pc == IF n = audit.to THEN "reconfirm" ELSE "blocks"
<1>1. /\ audit \in Audits /\ audit.pc = "blocks" /\ ~ Told /\ audit.from \in 1..audit.to
      /\ audit.to <= Len(audit.anchor) /\ audit.leftSince <= forks /\ n <= audit.to
      /\ forks' = forks /\ tip' = tip
  BY DEF ReadBlock, AuditIInv, Compared, Progress, Anchored, vars, chainVars
<1>2. /\ tip \in Paths /\ forks \in Nat /\ Len(tip) \in Nat
      /\ audit.anchor \in Paths /\ Len(audit.anchor) \in Nat /\ audit.from \in Nat /\ audit.to \in Nat
      /\ audit.leftSince \in Nat /\ audit.read \in Seq(Blocks) /\ Len(audit.read) \in Nat
  BY <1>1, ForksNumber, AnchorNumbers
<1>3. CASE Report("UNVERIFIABLE")
  BY <1>1, <1>3, GivesUp
<1>4. CASE /\ Readable(n)
           /\ audit' = [audit EXCEPT !.read = Append(@, BlockAt(n)),
                                     !.pc = IF n = audit.to THEN "reconfirm" ELSE @]
  <2> DEFINE read == Append(audit.read, BlockAt(n))
  <2>1. n \in 1..Len(tip) /\ n \in Nat /\ n \in 0..Len(audit.anchor)
    BY <1>1, <1>2, <1>4 DEF Readable, HasBlock
  <2>2. BlockAt(n) = SubSeq(tip, 1, n) /\ BlockAt(n) \in Blocks
    BY <1>2, <2>1, PrefixBlock DEF BlockAt
  <2>3. /\ read \in Seq(Blocks) /\ Len(read) = Len(audit.read) + 1
        /\ \A i \in 1..Len(audit.read) : read[i] = audit.read[i]
        /\ read[Len(audit.read) + 1] = SubSeq(tip, 1, n)
    BY <1>2, <2>2, AppendProperties
  <2>4. audit' = [audit EXCEPT !.read = read, !.pc = pc]
    BY <1>1, <1>4
  <2>5. pc \in AuditSteps
    BY DEF AuditSteps
  <2> HIDE DEF read, pc
  <2>6. /\ audit' \in Audits /\ audit'.pc = pc /\ audit'.anchor = audit.anchor
        /\ audit'.leftSince = audit.leftSince /\ audit'.from = audit.from /\ audit'.to = audit.to
        /\ audit'.read = read /\ audit'.result = audit.result
    BY <1>1, <2>3, <2>4, <2>5 DEF Audits
  <2>7. ~ Told'
    BY <1>1, <2>6 DEF Told
  <2>8. Progress'
    <3>1. pc \in {"reconfirm", "blocks"}
      BY DEF pc
    <3>2. pc = "blocks" => audit.from + Len(read) <= audit.to
      <4>1. pc = "blocks" => n # audit.to
        BY DEF pc
      <4>2. Len(read) = Len(audit.read) + 1
        BY <2>3
      <4> HIDE DEF pc, read
      <4> QED BY <1>1, <1>2, <4>1, <4>2
    <3>3. pc = "reconfirm" => audit.from + Len(read) = audit.to + 1
      <4>1. pc = "reconfirm" => n = audit.to
        BY DEF pc
      <4> QED BY <1>2, <2>3, <4>1
    <3> QED BY <1>1, <2>6, <2>7, <3>1, <3>2, <3>3 DEF Progress, Anchored
  <2>9. ASSUME ReadBelowAnchor, SubSeq(audit.anchor, 1, n) = SubSeq(tip, 1, n)
        PROVE  ReadBelowAnchor'
    <3> SUFFICES ASSUME NEW i \in 1..Len(read)
                 PROVE  read[i] = SubSeq(audit.anchor, 1, audit.from + i - 1)
      BY <2>6 DEF ReadBelowAnchor
    <3>1. CASE i \in 1..Len(audit.read)
      BY <2>3, <2>9, <3>1 DEF ReadBelowAnchor
    <3>2. CASE i = Len(audit.read) + 1
      <4>1. audit.from + i - 1 = n
        BY <1>2, <3>2
      <4> QED BY <2>3, <2>9, <3>2, <4>1
    <3>3. i \in 1..Len(audit.read) \/ i = Len(audit.read) + 1
      BY <1>2, <2>3
    <3> QED BY <3>1, <3>2, <3>3
  <2>10. Witnessed'
    <3>1. OneLine(audit.anchor, tip) => SubSeq(audit.anchor, 1, n) = SubSeq(tip, 1, n)
      <4>1. n \in Nat /\ n <= Len(audit.anchor) /\ n <= Len(tip)
        BY <1>2, <2>1
      <4> HIDE DEF n
      <4> QED BY <4>1 DEF OneLine
    <3>2. OnTip(audit.anchor) => OneLine(audit.anchor, tip)
      BY <1>2, OnTipOneLine
    <3>3. /\ forks = audit.leftSince => OnTip(audit.anchor) /\ ReadBelowAnchor'
          /\ forks = audit.leftSince + 1 /\ OneLine(audit.anchor, tip) => ReadBelowAnchor'
      BY <1>1, <2>9, <3>1, <3>2 DEF AuditIInv, Witnessed
    <3>4. OnTip(audit.anchor)' = OnTip(audit.anchor) /\ OneLine(audit.anchor, tip)' = OneLine(audit.anchor, tip)
      BY <1>1, <2>6 DEF OnTip, OneLine
    <3> QED BY <1>1, <2>6, <3>3, <3>4 DEF Witnessed
  <2>11. Confirmed' /\ Compared'
    BY <2>6, <2>7 DEF Confirmed, Compared, pc
  <2> QED BY <2>6, <2>8, <2>10, <2>11 DEF AuditIInv
<1> QED BY <1>3, <1>4 DEF ReadBlock

LEMMA CompareKeeps ==
    ASSUME TypeOK, AuditIInv, CompareSourceEvidence, UNCHANGED vars
    PROVE  AuditIInv'
<1> DEFINE result == IF SameEvidence THEN "MATCH" ELSE "MISMATCH"
<1>1. /\ audit \in Audits /\ audit.pc = "compare" /\ forks' = forks
      /\ audit' = [audit EXCEPT !.pc = "reported", !.result = result]
  BY DEF CompareSourceEvidence, Report, AuditIInv, vars, chainVars
<1>2. result \in {"MATCH", "MISMATCH"} /\ (result = "MATCH" <=> SameEvidence)
  OBVIOUS
<1> HIDE DEF result
<1>3. /\ audit' \in Audits /\ audit'.pc = "reported" /\ audit'.anchor = audit.anchor
      /\ audit'.leftSince = audit.leftSince /\ audit'.from = audit.from /\ audit'.to = audit.to
      /\ audit'.read = audit.read /\ audit'.result = result /\ audit'.stored = audit.stored
  BY <1>1, <1>2 DEF Audits, AuditSteps
<1>4. ReadBelowAnchor' = ReadBelowAnchor /\ SameEvidence' = SameEvidence
  BY <1>3 DEF ReadBelowAnchor, SameEvidence
<1>5. Progress'
  BY <1>1, <1>3 DEF AuditIInv, Progress, Anchored
<1>6. Confirmed'
  BY <1>1, <1>3, <1>4 DEF AuditIInv, Confirmed
<1>7. Compared' /\ Witnessed'
  BY <1>2, <1>3, <1>4 DEF Compared, Witnessed, Told
<1> QED BY <1>3, <1>5, <1>6, <1>7 DEF AuditIInv

-----------------------------------------------------------------------------
(* The theorems.                                                           *)

LEMMA AuditInitOK == AuditInit => AuditIInv
<1> SUFFICES ASSUME AuditInit PROVE AuditIInv
  OBVIOUS
<1>1. audit \in Audits /\ audit.pc = "idle" /\ audit.result = Null
  BY NoAuditType DEF AuditInit, NoAudit
<1> QED BY <1>1 DEF AuditIInv, Progress, Witnessed, Confirmed, Compared, Told, Anchored

LEMMA AuditNextOK == TypeOK /\ AuditIInv /\ [AuditedNext]_<<vars, audit>> => AuditIInv'
<1> SUFFICES ASSUME TypeOK, AuditIInv, [AuditedNext]_<<vars, audit>> PROVE AuditIInv'
  OBVIOUS
<1>1. CASE [Next]_vars /\ UNCHANGED audit
  BY <1>1, IndexerMoves
<1>2. CASE Audit /\ UNCHANGED vars
  <2>1. CASE Unavailable
    BY <2>1, GivesUp DEF Unavailable
  <2> QED BY <1>2, <2>1, StartAuditKeeps, FixAnchorKeeps, ConfirmAnchorKeeps, SnapshotKeeps, ReadBlockKeeps,
             CompareKeeps DEF Audit
<1> QED BY <1>1, <1>2 DEF AuditedNext

\* The audit beside it does not disturb the indexer, whose steps it leaves alone.
LEMMA IndexerAudited == AuditedSpec => Spec
<1>1. AuditInit => Init
  BY DEF AuditInit
<1>2. [AuditedNext]_<<vars, audit>> => [Next]_vars
  BY DEF AuditedNext
<1> QED BY <1>1, <1>2, PTL DEF AuditedSpec, Spec

\* The invariant of the audit: what was read is the chain below the anchor as
\* long as the anchor can still be confirmed, whatever was mined or left behind
\* between the reads (runSourceAudit).
THEOREM AuditInductive == AuditedSpec => []AuditIInv
BY AuditInitOK, AuditNextOK, IndexerAudited, TypeCorrect, PTL DEF AuditedSpec

\* What an audit reports is so: the stored range is the chain of the report's
\* anchor with all its logs exactly if the report is MATCH, although nothing but
\* the anchor was read twice (compareSourceEvidence, runSourceAudit).
THEOREM ReportIsTrue == AuditedSpec => []AuditTellsTruth
<1>1. AuditIInv => AuditTellsTruth
  <2> SUFFICES ASSUME AuditIInv, Told, forks <= audit.leftSince + 1
               PROVE  audit.result = "MATCH" <=> RangeIsAnchored
    BY DEF AuditTellsTruth, Told
  <2>1. /\ audit \in Audits /\ ReadBelowAnchor /\ (audit.result = "MATCH" <=> SameEvidence)
        /\ audit.from \in 1..audit.to /\ audit.to <= Len(audit.anchor)
        /\ audit.from + Len(audit.read) = audit.to + 1
    BY DEF AuditIInv, Confirmed, Compared, Progress, Anchored
  <2>2. /\ audit.anchor \in Paths /\ Len(audit.anchor) \in Nat /\ audit.from \in Nat /\ audit.to \in Nat
        /\ audit.read \in Seq(Blocks) /\ Len(audit.read) \in Nat
    BY <2>1, AnchorNumbers
  <2> DEFINE range == {b \in Ancestry(audit.anchor) : Len(b) \in audit.from..audit.to}
  <2>3. Ancestry(audit.anchor) = {SubSeq(audit.anchor, 1, n) : n \in 1..Len(audit.anchor)}
    BY <2>2, ChainOf
  <2>4. \A n \in 1..Len(audit.anchor) : Len(SubSeq(audit.anchor, 1, n)) = n
    <3>1. \A n \in 1..Len(audit.anchor) : n \in 0..Len(audit.anchor)
      OBVIOUS
    <3> QED BY <2>2, <3>1, PrefixType
  <2>5. Range(audit.read) = {audit.read[i] : i \in 1..Len(audit.read)}
    <3>1. DOMAIN audit.read = 1..Len(audit.read)
      BY <2>2, LenProperties
    <3> QED BY <3>1 DEF Range
  <2>6. ASSUME NEW b \in Range(audit.read) PROVE b \in range
    <3>1. PICK i \in 1..Len(audit.read) : b = audit.read[i]
      BY <2>5
    <3> DEFINE n == audit.from + i - 1
    <3>2. b = SubSeq(audit.anchor, 1, n) /\ n \in 1..Len(audit.anchor) /\ n \in audit.from..audit.to
      BY <2>1, <2>2, <3>1 DEF ReadBelowAnchor
    <3> HIDE DEF n
    <3> QED BY <2>3, <2>4, <3>2
  <2>7. ASSUME NEW b \in range PROVE b \in Range(audit.read)
    <3>1. PICK n \in 1..Len(audit.anchor) : b = SubSeq(audit.anchor, 1, n)
      BY <2>3
    <3>2. n \in audit.from..audit.to
      BY <2>4, <3>1
    <3> DEFINE i == n - audit.from + 1
    <3>3. i \in 1..Len(audit.read) /\ audit.from + i - 1 = n
      BY <2>1, <2>2, <3>2
    <3> HIDE DEF i
    <3>4. audit.read[i] = b
      BY <2>1, <3>1, <3>3 DEF ReadBelowAnchor
    <3> QED BY <2>5, <3>3, <3>4
  <2> HIDE DEF range
  <2>8. Range(audit.read) = range
    BY <2>6, <2>7
  <2> QED BY <2>1, <2>8 DEF SameEvidence, RangeIsAnchored, range
<1> QED BY <1>1, AuditInductive, PTL
=============================================================================
