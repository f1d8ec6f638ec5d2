---------------------------- MODULE MpscRecovery ----------------------------
(***************************************************************************)
(* The process that owns an mpsc bus dies at any step and another process  *)
(* recovers the region: mpsc_bus_handle::recover_region.  The mapped file  *)
(* keeps what was stored; producers and consumer are gone.  The exclusive  *)
(* file lock keeps the recovery and a living owner apart.                  *)
(***************************************************************************)
EXTENDS MpscRegion

VARIABLES
    phase,      \* "run", then "recover" after a crash, then "done"
    scanPos,    \* readPos of recover_region
    visited,    \* i, the heads looked at
    msgs,       \* the batch handed to the record consumer next
    recovered   \* history: the messages handed to the record consumer

recoveryVars == <<phase, scanPos, visited, msgs, recovered>>
allVars == <<vars, recoveryVars>>

InitRecovery ==
    /\ Init
    /\ phase = "run" /\ scanPos = 0 /\ visited = 0 /\ msgs = <<>> /\ recovered = <<>>

Run == phase = "run" /\ Next /\ UNCHANGED recoveryVars

Crash ==
    /\ phase = "run"
    /\ phase' = "recover" /\ scanPos' = read_ptr
    /\ UNCHANGED <<vars, visited, msgs, recovered>>

-----------------------------------------------------------------------------
(* recover_region(): no flag stops the scan, only the hand and the limit.   *)

MoreHeads == visited < RegionBlocks /\ scanPos # alloc_ptr

\* dp::skip_item accepts every well-formed record; what it makes of a record
\* whose encoding failed, or of a place that never was a head, is open.
Parses(h) ==
    IF ~h.data /\ log[h.msg].state = "published" THEN {TRUE} ELSE BOOLEAN

\* One head: its message joins the batch if no flag is set and it parses.
RecoverHead_IgnoresFlags ==  \* mutant: consumed messages are handed over again
    /\ phase = "recover" /\ MoreHeads /\ Len(msgs) < BatchSize
    /\ \E h \in HeadsReadFrom(mem[scanPos]) :
         LET pay == IF scanPos + 1 + h.size > RegionBlocks THEN 0 ELSE scanPos + 1
             end == pay + h.size
         IN /\ h.size < RegionBlocks
            /\ msgs' = Append(msgs, h.msg)
            /\ scanPos' = IF end = RegionBlocks THEN 0 ELSE end
    /\ visited' = visited + 1
    /\ UNCHANGED <<vars, phase, recovered>>
RecoverHead ==
    /\ phase = "recover" /\ MoreHeads /\ Len(msgs) < BatchSize
    /\ \E h \in HeadsReadFrom(mem[scanPos]) :
         LET pay == IF scanPos + 1 + h.size > RegionBlocks THEN 0 ELSE scanPos + 1
             end == pay + h.size
         IN /\ h.size < RegionBlocks
            /\ \E parses \in Parses(h) :
                 msgs' = IF ~h.lock /\ ~h.consumed /\ parses
                         THEN Append(msgs, h.msg) ELSE msgs
            /\ scanPos' = IF end = RegionBlocks THEN 0 ELSE end
    /\ visited' = visited + 1
    /\ UNCHANGED <<vars, phase, recovered>>

\* A size beyond the region ends the recovery at once.  What the batch holds
\* is not handed over any more.
RecoverStop_AtLocks ==  \* mutant: a locked head ends it too, as it ends read_region()
    /\ phase = "recover" /\ MoreHeads /\ Len(msgs) < BatchSize
    /\ \E h \in HeadsReadFrom(mem[scanPos]) : h.size >= RegionBlocks \/ h.lock
    /\ phase' = "done"
    /\ UNCHANGED <<vars, scanPos, visited, msgs, recovered>>
RecoverStop ==
    /\ phase = "recover" /\ MoreHeads /\ Len(msgs) < BatchSize
    /\ \E h \in HeadsReadFrom(mem[scanPos]) : h.size >= RegionBlocks
    /\ phase' = "done"
    /\ UNCHANGED <<vars, scanPos, visited, msgs, recovered>>

\* The batch is complete; afterwards the outer loop looks for more heads.
RecoverBatch ==
    /\ phase = "recover"
    /\ ~(MoreHeads /\ Len(msgs) < BatchSize)
    /\ recovered' = recovered \o msgs
    /\ msgs' = <<>>
    /\ phase' = IF MoreHeads THEN "recover" ELSE "done"
    /\ UNCHANGED <<vars, scanPos, visited>>

Recover == RecoverHead \/ RecoverStop \/ RecoverBatch

NextRecovery == Run \/ Crash \/ Recover

SpecRecovery == InitRecovery /\ [][NextRecovery]_allVars

-----------------------------------------------------------------------------
(* Properties.                                                              *)

\* A producer died after it moved the alloc hand and before it stored the
\* head: the place holds whatever was there before.
Torn == \E p \in Producers : pc[p] = "head"

\* Messages the consumer had flagged when it died.
MarkedCount == IF cpc = "mark" THEN Len(delivered) - Len(batch) ELSE Len(delivered)

Unmarked(state) == {i \in MarkedCount + 1 .. Len(log) : log[i].state = state}

\* Published records are handed over exactly once, in the order of their
\* allocation, if they were not flagged as consumed; nothing else is handed
\* over but records whose encoding had failed.
RecoveryExact ==
    phase = "done" /\ ~overtaken /\ ~Torn =>
        /\ \A i, j \in DOMAIN recovered : i < j => recovered[i] < recovered[j]
        /\ Unmarked("published") \subseteq {recovered[i] : i \in DOMAIN recovered}
        /\ {recovered[i] : i \in DOMAIN recovered} \subseteq
              Unmarked("published") \cup Unmarked("broken")

\* Messages before the first torn place, if there is one.
BeforeTorn == {i \in DOMAIN log : \A p \in Producers : pc[p] = "head" => i < cur[p]}

\* A torn place may hold the head of an older message, which puts the scan out of step:
\* it reads payload as heads, may miss the alloc hand and go round.  What it hands over
\* before that is still right: it begins with the published records in front of the place,
\* once and in order, and what the early return drops of them is less than a batch.
BeginsRight ==
    phase = "done" /\ ~overtaken =>
        \E n \in 0 .. Len(recovered) :
            LET first == {recovered[i] : i \in 1 .. n} IN
            /\ \A i, j \in 1 .. n : i < j => recovered[i] < recovered[j]
            /\ first \subseteq (Unmarked("published") \cup Unmarked("broken")) \cap BeforeTorn
            /\ Cardinality((Unmarked("published") \cap BeforeTorn) \ first) < BatchSize

\* Nor does such a scan bring back what was consumed: whatever it takes for a message, the
\* words it reads were not left there by one the consumer gave back to the producers.
GivenBackStaysGone ==
    ~overtaken => \A i \in DOMAIN recovered : recovered[i] > freed

\* Every record that was published before the first torn place and not yet
\* handed over is popped by the recovery (mpsc_bus.test.cpp:245-249 expects it
\* of every record).
PoppedBeforeTorn ==
    phase = "done" /\ ~overtaken =>
        \A i \in Len(delivered) + 1 .. Len(log) :
            /\ log[i].state = "published"
            /\ \A p \in Producers : pc[p] = "head" => i < cur[p]
            => \E j \in DOMAIN recovered : recovered[j] = i
=============================================================================
