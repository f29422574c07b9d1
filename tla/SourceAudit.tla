---------------------------- MODULE SourceAudit ----------------------------
(***************************************************************************)
(* The source audit (runSourceAudit, compareSourceEvidence, and            *)
(* sourceAuditRange of the reader): a range of the stored journal is read  *)
(* in one SQL snapshot and compared with what a second provider says of    *)
(* it, a block at a time, while the indexer commits and the chain moves.   *)
(* The second provider serves the same chain as the indexer's, with a      *)
(* complete log index; one audit is run.                                   *)
(***************************************************************************)
EXTENDS Indexer

\* What stands for no report is none.
ASSUME NoReportAssumption == Null \notin {"UNVERIFIABLE", "MATCH", "MISMATCH"}

VARIABLE audit  \* the running audit: what it has read, and its report

NoAudit ==
    [pc |-> "idle", from |-> 0, to |-> 0, anchor |-> Genesis, stored |-> <<>>,
     read |-> <<>>, result |-> Null, leftSince |-> 0]

AuditInit == Init /\ audit = NoAudit

Report(result) == audit' = [audit EXCEPT !.pc = "reported", !.result = result]

\* A legal range; `leftSince` is history: how often the chain had left blocks
\* behind when the audit fixed its anchor.
StartAudit ==
    /\ audit.pc = "idle"
    /\ \E from \in 1..MaxHeight : \E to \in from..MaxHeight :
          audit' = [NoAudit EXCEPT !.pc = "finalized", !.from = from, !.to = to]

\* The latest block is the finalized one.
FixAnchor ==
    /\ audit.pc = "finalized"
    /\ IF audit.to > Len(tip) THEN Report("UNVERIFIABLE")
       ELSE audit' = [audit EXCEPT !.pc = "confirm", !.anchor = tip, !.leftSince = forks]

\* Fault: a block of the anchor's height is taken for the anchor.
AnyOfItsHeight(n) == HasBlock(n)

\* readBlock: the chain has the number, and under the anchor's the anchor.
Readable(n) == HasBlock(n) /\ (n = Len(audit.anchor) => BlockAt(n) = audit.anchor)

\* The anchor is read again before the snapshot and after the last block.
ConfirmAnchor ==
    /\ audit.pc \in {"confirm", "reconfirm"}
    /\ IF Readable(Len(audit.anchor))
       THEN audit' = [audit EXCEPT !.pc = IF @ = "confirm" THEN "snapshot" ELSE "compare"]
       ELSE Report("UNVERIFIABLE")

\* The canonical blocks of the range, with what was stored of their logs.
Snapshot ==
    /\ audit.pc = "snapshot"
    /\ IF Len(checkpoint) < audit.to THEN Report("UNVERIFIABLE")
       ELSE audit' = [audit EXCEPT !.pc = "blocks",
                !.stored = [b \in {c \in canonical : Len(c) \in audit.from..audit.to} |-> journal[b]]]

\* A block of the range and, by its hash, its logs.
ReadBlock ==
    LET n == audit.from + Len(audit.read) IN
    /\ audit.pc = "blocks"
    /\ IF Readable(n)
       THEN audit' = [audit EXCEPT !.read = Append(@, BlockAt(n)),
                                   !.pc = IF n = audit.to THEN "reconfirm" ELSE @]
       ELSE Report("UNVERIFIABLE")

\* A read fails, or the provider has forgotten the block.
Unavailable ==
    /\ audit.pc \in {"finalized", "confirm", "blocks", "reconfirm"}
    /\ Report("UNVERIFIABLE")

\* Every block read is stored, with the logs it has: the hash, the parent and
\* the digest agree, and no log is missing on either side.
SameEvidence ==
    /\ DOMAIN audit.stored = Range(audit.read)
    /\ \A b \in DOMAIN audit.stored : audit.stored[b] = "complete"

CompareSourceEvidence ==
    /\ audit.pc = "compare"
    /\ Report(IF SameEvidence THEN "MATCH" ELSE "MISMATCH")

Audit ==
    \/ StartAudit \/ FixAnchor \/ ConfirmAnchor \/ Snapshot \/ ReadBlock \/ Unavailable
    \/ CompareSourceEvidence

AuditedNext ==
    \/ Next /\ UNCHANGED audit
    \/ Audit /\ UNCHANGED vars

AuditedSpec == AuditInit /\ [][AuditedNext]_<<vars, audit>>

-----------------------------------------------------------------------------
(* Properties.                                                             *)

\* The audited range is, complete, the chain below the anchor.
RangeIsAnchored ==
    /\ DOMAIN audit.stored = {b \in Ancestry(audit.anchor) : Len(b) \in audit.from..audit.to}
    /\ \A b \in DOMAIN audit.stored : audit.stored[b] = "complete"

\* A report of MATCH or MISMATCH tells whether the stored range is the chain of
\* the report's anchor, although the snapshot and the blocks were read one
\* after another from a moving chain: two reads of the anchor are enough, as
\* long as the chain does not leave its branch twice in between, and so comes
\* back to the anchor (runSourceAudit).
AuditTellsTruth ==
    audit.result \in {"MATCH", "MISMATCH"} /\ forks <= audit.leftSince + 1 =>
        (audit.result = "MATCH" <=> RangeIsAnchored)
=============================================================================
