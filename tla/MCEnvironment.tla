-------------------------- MODULE MCEnvironment --------------------------
(* Instances of the environment for TLC. *)
EXTENDS Environment
===========================================================================
