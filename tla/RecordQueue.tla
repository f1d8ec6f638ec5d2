---------------------------- MODULE RecordQueue ----------------------------
(***************************************************************************)
(* What one region of an mpsc bus promises to its clients, stated without  *)
(* memory, hands or locks: a queue of records.  A producer first reserves  *)
(* a place (allocate_record_buffer_inplace), later publishes the record it *)
(* wrote there (sync_output), and the consumer takes published records in  *)
(* the order in which their places were reserved, several at a time.       *)
(* MpscRegion implements this module.                                      *)
(***************************************************************************)
EXTENDS Naturals, Sequences

VARIABLES
    entries,  \* one "reserved" or "published" per place, in reservation order
    out       \* the places whose records were handed to the consumer

vars == <<entries, out>>

Init == entries = <<>> /\ out = <<>>

Reserve == entries' = Append(entries, "reserved") /\ UNCHANGED out

Publish == \E i \in DOMAIN entries :
              /\ entries[i] = "reserved"
              /\ entries' = [entries EXCEPT ![i] = "published"]
              /\ UNCHANGED out

\* The next n places, all of them published, are handed over at once.
Deliver == \E n \in 1 .. Len(entries) :
              /\ Len(out) + n <= Len(entries)
              /\ \A i \in Len(out) + 1 .. Len(out) + n : entries[i] = "published"
              /\ out' = out \o [j \in 1 .. n |-> Len(out) + j]
              /\ UNCHANGED entries

Next == Reserve \/ Publish \/ Deliver

SafeSpec == Init /\ [][Next]_vars

\* A record at the head of the queue is not left there for ever.
Spec == SafeSpec /\ WF_vars(Deliver)
============================================================================
