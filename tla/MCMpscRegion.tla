---------------------------- MODULE MCMpscRegion ----------------------------
(* Instances of MpscRegion for TLC. *)
EXTENDS MpscRegion, TLC

CONSTANTS p1, p2

MCProducers == {p1, p2}
MCSizes == {1, 2}
MCSymmetry == Permutations({p1, p2})

\* After an overtaking, where the guarded properties say nothing, only messages of
\* one block are followed; they suffice to lead the consumer out of the region.
OvertakenNarrow == overtaken => \A i \in DOMAIN log : log[i].size = 1
=============================================================================
