--------------------------- MODULE MCSourceAudit ---------------------------
(* Instances of the audited indexer for TLC: a and b are the branches of    *)
(* every block, and alike.                                                  *)
EXTENDS SourceAudit

CONSTANTS a, b

TwoBranches == {a, b}
Alike == Permutations(TwoBranches)
=============================================================================
