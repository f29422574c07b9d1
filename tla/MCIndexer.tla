----------------------------- MODULE MCIndexer -----------------------------
(* Instances of the indexer for TLC: the branches of a block are strings.   *)
EXTENDS Indexer
=============================================================================
