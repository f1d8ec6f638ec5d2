----------------------------- MODULE MCBusRegistry -----------------------------
(* Instances of BusRegistry for TLC. *)
EXTENDS BusRegistry, TLC

CONSTANTS p1, p2, p3

MCSymmetry == Permutations({p1, p2, p3})
=============================================================================
