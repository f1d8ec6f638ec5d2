------------------------------ MODULE MCRootFile ------------------------------
(* Instances of RootFile for TLC, with contents of as many blocks as SlotLayout says. *)
EXTENDS RootFile, SlotLayout, TLC

CONSTANTS h1, h2, h3, d0, d1, d2

\* Pages that the contents take.
MCPages == (d0 :> 1) @@ (d1 :> 1) @@ (d2 :> 2)

\* Contents of more than one block, partly written, look like d1.
MCMixes == [d \in Data |-> IF BlocksOf(MCPages[d]) > 1 THEN {d1} ELSE {}]

\* d2 is d1 and an erased entry.
MCTidied == (d0 :> d0) @@ (d1 :> d1) @@ (d2 :> d1)

MCSymmetry == Permutations({h1, h2, h3})

\* The first blocks of both slots, taken together, are the pages behind the magic up to the
\* size of the file, each once.
ASSUME LayoutAssumption ==
    \A last \in 0 .. 8 : \A p \in 0 .. FileSize(last) - 1 :
        LET of == {b \in (0 .. last) \X Streams : p \in Block(b[1], b[2])}
        IN IF p \in Magic THEN of = {} ELSE \E b \in of : of = {b}

\* Contents are of one block up to a page (OneBlock in RootFile_proofs), and of two up to three.
ASSUME BlocksAssumption == BlocksOf(1) = 1 /\ BlocksOf(2) = 2 /\ BlocksOf(3) = 2 /\ BlocksOf(4) = 3
=============================================================================
