----------------------------- MODULE ReadModel -----------------------------
(***************************************************************************)
(* What the read model shows to those who go by its rows and its status,   *)
(* without polls, journals, markers or commands: the rows of one branch,   *)
(* which grow with it.  A branch may be cut back under the rows, and the   *)
(* rows are suspect from then on; only rows that are those of the branch   *)
(* again are trusted again, or grow.                                       *)
(***************************************************************************)
EXTENDS Naturals, SequencesExt

CONSTANT Blocks  \* paths from the genesis block, which is <<>>

VARIABLES
    branch,  \* the last block shown
    rows,    \* the blocks whose events produced the rows, in order
    suspect  \* whether the status warns of the rows

Path(b) == [n \in 1..Len(b) |-> SubSeq(b, 1, n)]
InStep == rows = Path(branch)

Init == branch = <<>> /\ rows = <<>> /\ suspect = FALSE

Extend ==
    /\ InStep
    /\ \E b \in Blocks : IsPrefix(branch, b) /\ branch' = b
    /\ rows' = Path(branch')
    /\ UNCHANGED suspect

CutBack ==
    /\ \E n \in 0..Len(branch) : branch' = SubSeq(branch, 1, n)
    /\ suspect' = TRUE
    /\ UNCHANGED rows

\* In one step, and trusted at once unless something else is wrong.
Rewrite ==
    /\ rows' = Path(branch)
    /\ suspect' \in {suspect, FALSE}
    /\ UNCHANGED branch

Suspect == suspect' = TRUE /\ UNCHANGED <<branch, rows>>
Trust == InStep /\ suspect' = FALSE /\ UNCHANGED <<branch, rows>>

Next == Extend \/ CutBack \/ Rewrite \/ Suspect \/ Trust

Spec == Init /\ [][Next]_<<branch, rows, suspect>>
=============================================================================
