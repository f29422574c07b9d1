--------------------------- MODULE MCBootstrap ---------------------------
(* Instances of bootstrap for TLC. *)
EXTENDS Bootstrap, TLC

CONSTANTS one, two, node, spare, old, new

(* Nothing distinguishes two environments, two nodes or two builds. *)
Alike == Permutations({one, two}) \cup Permutations({node, spare}) \cup Permutations({old, new})
===========================================================================
