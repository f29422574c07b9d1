--------------------------- MODULE MCMaintenance ---------------------------
(* Instances of maintenance beside the indexer for TLC.                     *)
EXTENDS ProjectionMaintenance

CONSTANTS a, b
=============================================================================
