---------------------------- MODULE MCLogFabric ----------------------------
(* Instances of LogFabric for TLC. *)
EXTENDS LogFabric

CONSTANTS s1, s2
=============================================================================
