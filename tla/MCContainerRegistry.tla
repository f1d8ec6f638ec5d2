--------------------------- MODULE MCContainerRegistry ---------------------------
(* Instances of ContainerRegistry for TLC. *)
EXTENDS ContainerRegistry, TLC

CONSTANTS p1, p2, a, b

MCSymmetry == Permutations({p1, p2})
=============================================================================
