---------------------------- MODULE MCSubmission ----------------------------
(* Instances of submission for TLC.                                         *)
EXTENDS Submission, TLC

CONSTANTS A, B

TabSymmetry == Permutations(Tabs)
=============================================================================
