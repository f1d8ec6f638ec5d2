------------------------------ MODULE SlotLayout ------------------------------
(***************************************************************************)
(* Where the two slots of a root file are (interleaving_stream_base): each *)
(* is a stream of blocks, which grow from one page to sixteen and then     *)
(* stay at that, and the streams' blocks alternate in the file.            *)
(*                                                                         *)
(* Offsets and sizes count pages of 4096 bytes.  The first page holds the  *)
(* magic, the second one nothing.                                          *)
(***************************************************************************)
EXTENDS Naturals

Magic == {0, 1}  \* pages in front of the slots
Indices == Nat
Streams == {0, 1}

\* 1U << idx for the sizes that grow.
Power(idx) == CASE idx = 0 -> 1 [] idx = 1 -> 2 [] idx = 2 -> 4 [] idx = 3 -> 8 [] idx = 4 -> 16

BlockSize(idx) == IF idx < 5 THEN Power(idx) ELSE 16
BlockOffset(idx, odd) ==
    IF idx < 5 THEN (2 + odd) * Power(idx) ELSE 32 * (idx - 3) + 16 * odd

\* index_to_file_size(): where the blocks of an index end.
FileSize(idx) == BlockOffset(idx + 1, 0)

Block(idx, odd) == BlockOffset(idx, odd) .. BlockOffset(idx, odd) + BlockSize(idx) - 1

\* write_current_chunk(): a file, page by page, after a block of a stream was written.
Written(file, idx, odd, content) ==
    [p \in Nat |-> IF p \in Block(idx, odd) THEN content[p - BlockOffset(idx, odd)] ELSE file[p]]

\* read_chunk()
ReadBlock(file, idx, odd) ==
    [k \in 0 .. BlockSize(idx) - 1 |-> file[BlockOffset(idx, odd) + k]]

\* How many blocks a stream of so many pages takes, and the pages it takes in all: it is
\* written in whole blocks, and one at least.
BlocksOf(pages) ==
    LET total[n \in Nat] == IF n = 0 THEN 0 ELSE total[n - 1] + BlockSize(n - 1)
    IN CHOOSE n \in 1 .. pages + 1 :
          /\ total[n] >= pages
          /\ n > 1 => total[n - 1] < pages
=============================================================================
