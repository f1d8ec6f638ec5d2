--------------------------- MODULE MCMpscRecovery ---------------------------
(* Instances of MpscRecovery for TLC. *)
EXTENDS MpscRecovery, TLC

CONSTANTS p1, p2

MCProducers == {p1, p2}
MCSizes == {1, 2}
MCSymmetry == Permutations({p1, p2})
NotOvertaken == ~overtaken
=============================================================================
