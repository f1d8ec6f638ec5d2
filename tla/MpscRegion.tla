----------------------------- MODULE MpscRegion -----------------------------
(***************************************************************************)
(* One region of an mpsc_bus_handle: a ring of 4 byte blocks in a mapped   *)
(* file that many producers fill and one consumer drains without a lock.   *)
(*                                                                         *)
(* Positions and sizes are counted in blocks.  That is exact: every head   *)
(* and every payload starts on a block, the region ends on one, and the    *)
(* code rounds a payload up to whole blocks before it advances a hand.     *)
(*                                                                         *)
(* Memory is sequentially consistent here.  The code's acquire/release     *)
(* pairs (lock flag, read_ptr) order the payload and the memset; the       *)
(* relaxed accesses are to single words.                                   *)
(***************************************************************************)
EXTENDS Integers, Sequences, FiniteSets

CONSTANTS
    Producers,      \* threads that allocate and write records
    RegionBlocks,   \* (mRegionSize - region_ctrl_overhead) / block_size
    PayloadBlocks,  \* sizes a record may have, in blocks, without its head
    BatchSize,      \* consume_batch_size
    MaxMessages     \* bound on the number of allocations

ASSUME RegionAssumption == RegionBlocks \in Nat /\ RegionBlocks > 0
ASSUME PayloadAssumption == PayloadBlocks \subseteq Nat
ASSUME BatchAssumption == BatchSize \in Nat /\ BatchSize > 0
ASSUME BoundAssumption == MaxMessages \in Nat

VARIABLES
    (* shared memory *)
    read_ptr, alloc_ptr, mem,
    (* one producer's locals in allocate() and its output_buffer *)
    pc, want, readHand, allocHand, cur,
    (* the consumer's locals in read_region() *)
    cpc, readPos, batch,
    (* history: what was allocated, handed over and given back, and how often
       the hands went round the ring.  No guard reads it but the bound on log. *)
    log, delivered, freed, allocLap, readLap, scanLap, handLap, overtaken

shared == <<read_ptr, alloc_ptr, mem>>
locals == <<pc, want, readHand, allocHand, cur>>
consumer == <<cpc, readPos, batch>>
history == <<log, delivered, freed, allocLap, readLap, scanLap, handLap, overtaken>>
vars == <<shared, locals, consumer, history>>

Blocks == 0 .. RegionBlocks - 1

-----------------------------------------------------------------------------
(* Words of the region.  `msg` is history: which message wrote the word.    *)

\* unused_block_content 0xfefefefe: as a head it has both flags and a size
\* beyond any region.
Fill == [data |-> FALSE, lock |-> TRUE, consumed |-> TRUE,
         size |-> RegionBlocks + 1, msg |-> 0]

HeadWord_Unlocked(k, m) ==  \* mutant: the lock flag is forgotten
    [data |-> FALSE, lock |-> FALSE, consumed |-> FALSE, size |-> k, msg |-> m]
HeadWord(k, m) == [data |-> FALSE, lock |-> TRUE, consumed |-> FALSE,
                   size |-> k, msg |-> m]

DataWord(m) == [data |-> TRUE, lock |-> FALSE, consumed |-> FALSE,
                size |-> 0, msg |-> m]

\* fetch_and(max_message_size) and fetch_or(lock | consumed) on a head.
Unlocked(w) == [data |-> w.data, lock |-> FALSE, consumed |-> FALSE,
                size |-> w.size, msg |-> w.msg]
Flagged(w) == [data |-> w.data, lock |-> TRUE, consumed |-> TRUE,
               size |-> w.size, msg |-> w.msg]

Word == [data : BOOLEAN, lock : BOOLEAN, consumed : BOOLEAN, size : Nat, msg : Nat]

\* What a load of a word as a message head yields.  Payload can be any bit
\* pattern unless it was flagged since; RegionBlocks stands for every size that
\* large.
HeadsReadFrom(w) ==
    IF w.data
    THEN LET flags == IF w.consumed THEN {TRUE} ELSE BOOLEAN
         IN [data : {TRUE}, lock : flags, consumed : flags,
             size : 0 .. RegionBlocks, msg : {w.msg}]
    ELSE {w}

Overwrite(m, where, word) == [b \in Blocks |-> IF b \in where THEN word ELSE m[b]]

Span(first, k) == first .. first + k - 1

-----------------------------------------------------------------------------
(* The placement rule of allocate(): a head at a, k payload blocks, against *)
(* a read hand r.                                                           *)

CanWrap_Strict(a, r) == a > r  \* mutant: equal hands taken for a full region
CanWrap(a, r) == a >= r

BufferEnd_OnePast(a, r) == IF CanWrap(a, r) THEN RegionBlocks ELSE r + 1  \* mutant
BufferEnd(a, r) == IF CanWrap(a, r) THEN RegionBlocks ELSE r

\* Head and payload fit in front of the buffer's end.
Straight(a, r, k) == a + 1 + k < BufferEnd(a, r)

\* They end exactly with the region: the next head goes to block 0.
Flush(a, r, k) == /\ ~Straight(a, r, k)
                  /\ CanWrap(a, r) /\ a + 1 + k = RegionBlocks /\ r # 0

\* The head stays at a, the payload starts over at block 0.
Split(a, r, k) == /\ ~Straight(a, r, k) /\ ~Flush(a, r, k)
                  /\ CanWrap(a, r) /\ k < r

Fits(a, r, k) == Straight(a, r, k) \/ Flush(a, r, k) \/ Split(a, r, k)

PayloadAt_NoWrap(a, r, k) == a + 1  \* mutant: only the hand wraps
PayloadAt(a, r, k) == IF Split(a, r, k) THEN 0 ELSE a + 1

EndAt(a, r, k) == IF Split(a, r, k) THEN k
                  ELSE IF Flush(a, r, k) THEN 0
                  ELSE a + 1 + k

-----------------------------------------------------------------------------
\* The hands of a ring in order: the first one is behind the second one by
\* less than a lap, or they coincide and nothing lies between them.
Ordered(lap1, pos1, lap2, pos2) ==
    \/ lap1 = lap2 /\ pos1 <= pos2
    \/ lap2 = lap1 + 1 /\ pos2 < pos1

\* The alloc hand has not gone round past the read hand p remembers.
Fresh(p) == Ordered(handLap[p], readHand[p], allocLap, alloc_ptr)

Init ==
    /\ read_ptr = 0 /\ alloc_ptr = 0
    /\ mem = [b \in Blocks |-> Fill]
    /\ pc = [p \in Producers |-> "idle"]
    /\ want = [p \in Producers |-> 0]
    /\ readHand = [p \in Producers |-> 0]
    /\ allocHand = [p \in Producers |-> 0]
    /\ cur = [p \in Producers |-> 0]
    /\ cpc = "idle" /\ readPos = 0 /\ batch = <<>>
    /\ log = <<>> /\ delivered = <<>> /\ freed = 0
    /\ allocLap = 0 /\ readLap = 0 /\ scanLap = 0
    /\ handLap = [p \in Producers |-> 0]
    /\ overtaken = FALSE

-----------------------------------------------------------------------------
(* Producers.                                                               *)

Allocating == {p \in Producers : pc[p] \in {"load", "cas"}}

\* allocate(): the read hand is loaded once and never again.
LoadReadHand(p) ==
    /\ pc[p] = "idle"
    /\ Len(log) + Cardinality(Allocating) < MaxMessages
    /\ \E k \in PayloadBlocks : want' = [want EXCEPT ![p] = k]
    /\ readHand' = [readHand EXCEPT ![p] = read_ptr]
    /\ handLap' = [handLap EXCEPT ![p] = readLap]
    /\ pc' = [pc EXCEPT ![p] = "load"]
    /\ UNCHANGED <<shared, consumer, allocHand, cur,
                   log, delivered, freed, allocLap, readLap, scanLap, overtaken>>

LoadAllocHand(p) ==
    /\ pc[p] = "load"
    /\ allocHand' = [allocHand EXCEPT ![p] = alloc_ptr]
    /\ pc' = [pc EXCEPT ![p] = "cas"]
    /\ UNCHANGED <<shared, consumer, want, readHand, cur, history>>

\* allocate() returns and its locals are gone.
ForgetHands(p) ==
    /\ readHand' = [readHand EXCEPT ![p] = 0]
    /\ handLap' = [handLap EXCEPT ![p] = 0]
    /\ allocHand' = [allocHand EXCEPT ![p] = 0]

\* not_enough_space
Reject(p) ==
    /\ pc[p] = "cas"
    /\ ~Fits(allocHand[p], readHand[p], want[p])
    /\ pc' = [pc EXCEPT ![p] = "idle"]
    /\ want' = [want EXCEPT ![p] = 0]
    /\ ForgetHands(p)
    /\ UNCHANGED <<shared, consumer, cur, log, delivered, freed,
                   allocLap, readLap, scanLap, overtaken>>

\* The compare_exchange_weak succeeds and the blocks up to EndAt are p's.
Claim(p) ==
    LET a == allocHand[p]  r == readHand[p]  k == want[p] IN
    /\ pc[p] = "cas"
    /\ Fits(a, r, k)
    /\ alloc_ptr = a
    /\ alloc_ptr' = EndAt(a, r, k)
    /\ allocLap' = IF Straight(a, r, k) THEN allocLap ELSE allocLap + 1
    /\ log' = Append(log, [head |-> a, pay |-> PayloadAt(a, r, k), size |-> k,
                           lap |-> allocLap, state |-> "claimed"])
    /\ cur' = [cur EXCEPT ![p] = Len(log) + 1]
    /\ overtaken' = (overtaken \/ ~Fresh(p))
    /\ pc' = [pc EXCEPT ![p] = "head"]
    /\ ForgetHands(p)
    /\ UNCHANGED <<read_ptr, mem, consumer, want, delivered, freed,
                   readLap, scanLap>>

\* It fails and reloads the alloc hand, which alone is looked at again.  (A
\* spurious failure changes nothing.)
Retry(p) ==
    /\ pc[p] = "cas"
    /\ Fits(allocHand[p], readHand[p], want[p])
    /\ alloc_ptr # allocHand[p]
    /\ allocHand' = [allocHand EXCEPT ![p] = alloc_ptr]
    /\ UNCHANGED <<shared, consumer, pc, want, readHand, cur, history>>

StoreHead(p) ==
    /\ pc[p] = "head"
    /\ mem' = [mem EXCEPT ![log[cur[p]].head] = HeadWord(want[p], cur[p])]
    /\ pc' = [pc EXCEPT ![p] = "encode"]
    /\ UNCHANGED <<read_ptr, alloc_ptr, consumer, want, readHand, allocHand, cur, history>>

\* The record is encoded into the buffer.
Encode(p) ==
    /\ pc[p] = "encode"
    /\ mem' = Overwrite(mem, Span(log[cur[p]].pay, want[p]), DataWord(cur[p]))
    /\ pc' = [pc EXCEPT ![p] = "unlock"]
    /\ UNCHANGED <<read_ptr, alloc_ptr, consumer, want, readHand, allocHand, cur, history>>

\* Encoding fails: the guard's destructor publishes the buffer all the same.
EncodeFails(p) ==
    /\ pc[p] = "encode"
    /\ pc' = [pc EXCEPT ![p] = "abandon"]
    /\ UNCHANGED <<shared, consumer, want, readHand, allocHand, cur, history>>

\* A message leaves the state "claimed".
Settled(e, state) == [head |-> e.head, pay |-> e.pay, size |-> e.size,
                      lap |-> e.lap, state |-> state]

\* do_sync_output(): fetch_and(max_message_size) clears both flags.
Unlock(p) ==
    /\ pc[p] \in {"unlock", "abandon"}
    /\ mem' = [mem EXCEPT ![log[cur[p]].head] = Unlocked(mem[log[cur[p]].head])]
    /\ log' = [log EXCEPT ![cur[p]] =
                  Settled(log[cur[p]], IF pc[p] = "unlock" THEN "published" ELSE "broken")]
    /\ pc' = [pc EXCEPT ![p] = "idle"]
    /\ want' = [want EXCEPT ![p] = 0]
    /\ cur' = [cur EXCEPT ![p] = 0]
    /\ UNCHANGED <<read_ptr, alloc_ptr, consumer, readHand, allocHand,
                   delivered, freed, allocLap, readLap, scanLap, handLap, overtaken>>

Produce(p) ==
    \/ LoadReadHand(p) \/ LoadAllocHand(p) \/ Reject(p) \/ Claim(p) \/ Retry(p)
    \/ StoreHead(p) \/ Encode(p) \/ EncodeFails(p) \/ Unlock(p)

-----------------------------------------------------------------------------
(* The consumer: read_region().                                             *)

\* Both hands are equal: nothing to see here.
ConsumeNothing ==
    /\ cpc = "idle" /\ alloc_ptr = read_ptr
    /\ UNCHANGED vars

ConsumeBegin ==
    /\ cpc = "idle" /\ alloc_ptr # read_ptr
    /\ cpc' = "scan" /\ readPos' = read_ptr /\ scanLap' = readLap
    /\ UNCHANGED <<shared, locals, batch,
                   log, delivered, freed, allocLap, readLap, handLap, overtaken>>

\* A head without the lock flag joins the batch; the payload of a message
\* that would run past the region's end starts at block 0.
Scan_ReleasesEarly ==  \* mutant: the read hand moves with the scan
    /\ cpc = "scan" /\ Len(batch) < BatchSize /\ ~mem[readPos].lock
    /\ LET e == mem[readPos]
           pay == IF readPos + 1 + e.size > RegionBlocks THEN 0 ELSE readPos + 1
           next == IF pay + e.size = RegionBlocks THEN 0 ELSE pay + e.size
           lap == IF next <= readPos THEN scanLap + 1 ELSE scanLap
       IN /\ batch' = Append(batch, [head |-> readPos, pay |-> pay,
                                     size |-> e.size, msg |-> e.msg])
          /\ readPos' = next /\ read_ptr' = next
          /\ scanLap' = lap /\ readLap' = lap
    /\ UNCHANGED <<alloc_ptr, mem, locals, cpc,
                   log, delivered, freed, allocLap, handLap, overtaken>>
Scan ==
    /\ cpc = "scan" /\ Len(batch) < BatchSize
    /\ \E h \in HeadsReadFrom(mem[readPos]) :
         LET pay == IF readPos + 1 + h.size > RegionBlocks THEN 0 ELSE readPos + 1
             end == pay + h.size
         IN /\ ~h.lock /\ h.size < RegionBlocks
            /\ batch' = Append(batch, [head |-> readPos, pay |-> pay,
                                       size |-> h.size, msg |-> h.msg])
            /\ readPos' = IF end = RegionBlocks THEN 0 ELSE end
            /\ scanLap' = IF pay = 0 \/ end = RegionBlocks THEN scanLap + 1 ELSE scanLap
    /\ UNCHANGED <<shared, locals, cpc,
                   log, delivered, freed, allocLap, readLap, handLap, overtaken>>

\* A size the region cannot hold is not checked for: the span made of it leaves
\* the region and what the consumer does from then on is undefined.
ScanOutside ==
    /\ cpc = "scan" /\ Len(batch) < BatchSize
    /\ \E h \in HeadsReadFrom(mem[readPos]) : ~h.lock /\ h.size >= RegionBlocks
    /\ cpc' = "outside"
    /\ UNCHANGED <<shared, locals, readPos, batch, history>>
Undefined == cpc = "outside" /\ UNCHANGED vars

\* The scan stops at a full batch or at a locked head.
BatchEnds ==
    \/ Len(batch) = BatchSize
    \/ \E h \in HeadsReadFrom(mem[readPos]) : h.lock

\* consumeFn is called with the batch.  (Its result is discarded.)
Deliver ==
    /\ cpc = "scan" /\ batch # <<>> /\ BatchEnds
    /\ delivered' = delivered \o
         [i \in DOMAIN batch |->
            [msg |-> batch[i].msg,
             content |-> {mem[b].msg : b \in Span(batch[i].pay, batch[i].size) \cap Blocks}]]
    /\ cpc' = "mark"
    /\ UNCHANGED <<shared, locals, readPos, batch,
                   log, freed, allocLap, readLap, scanLap, handLap, overtaken>>

\* One message of the batch is flagged and its payload wiped; after the last
\* one the consumer looks for another batch.
MarkConsumed_NoWipe ==  \* mutant: the payload is left as it was
    /\ cpc = "mark" /\ batch # <<>>
    /\ mem' = [mem EXCEPT ![Head(batch).head] = Flagged(mem[Head(batch).head])]
    /\ batch' = Tail(batch)
    /\ cpc' = IF Len(batch) = 1 THEN "scan" ELSE "mark"
    /\ UNCHANGED <<read_ptr, alloc_ptr, locals, readPos, history>>
MarkConsumed_WipesTooFar ==  \* mutant: one block too many
    /\ cpc = "mark" /\ batch # <<>>
    /\ LET e == Head(batch)
           flagged == [mem EXCEPT ![e.head] = Flagged(mem[e.head])]
       IN mem' = Overwrite(flagged, Span(e.pay, e.size + 1), Fill)
    /\ batch' = Tail(batch)
    /\ cpc' = IF Len(batch) = 1 THEN "scan" ELSE "mark"
    /\ UNCHANGED <<read_ptr, alloc_ptr, locals, readPos, history>>
MarkConsumed ==
    /\ cpc = "mark" /\ batch # <<>>
    /\ LET e == Head(batch)
           flagged == [mem EXCEPT ![e.head] = Flagged(mem[e.head])]
       IN mem' = Overwrite(flagged, Span(e.pay, e.size), Fill)
    /\ batch' = Tail(batch)
    /\ cpc' = IF Len(batch) = 1 THEN "scan" ELSE "mark"
    /\ UNCHANGED <<read_ptr, alloc_ptr, locals, readPos, history>>

\* A batch came out empty: the scope guard stores the read hand.
ConsumeEnd_ForgetsHand ==  \* mutant: the read hand is not stored
    /\ cpc = "scan" /\ batch = <<>> /\ BatchEnds
    /\ cpc' = "idle"
    /\ UNCHANGED <<shared, locals, readPos, batch, history>>
ConsumeEnd ==
    /\ cpc = "scan" /\ batch = <<>> /\ BatchEnds
    /\ read_ptr' = readPos /\ readLap' = scanLap /\ freed' = Len(delivered)
    /\ cpc' = "idle"
    /\ UNCHANGED <<alloc_ptr, mem, locals, readPos, batch,
                   log, delivered, allocLap, scanLap, handLap, overtaken>>

Consume == \/ ConsumeNothing \/ ConsumeBegin \/ Scan \/ ScanOutside \/ Undefined
           \/ Deliver \/ MarkConsumed \/ ConsumeEnd

Next == (\E p \in Producers : Produce(p)) \/ Consume

Spec == Init /\ [][Next]_vars

\* Executions in which the alloc hand never goes round past a read hand that
\* an allocation still uses.  Nothing in the code enforces it.
FreshSpec == Init /\ [][Next /\ ~overtaken']_vars

\* A thread that reserved a place goes on to publish it (nothing on that path
\* waits), and the application keeps calling consume_messages().  Allocation
\* itself needs no fairness.
Finish(p) == StoreHead(p) \/ Encode(p) \/ EncodeFails(p) \/ Unlock(p)
ConsumerFairness == WF_vars(Consume /\ ~overtaken')
FairSpec == /\ FreshSpec
            /\ \A p \in Producers : WF_vars(Finish(p) /\ ~overtaken')
            /\ ConsumerFairness

-----------------------------------------------------------------------------
(* Properties.                                                              *)

Message == [head : Blocks, pay : Nat, size : Nat, lap : Nat,
            state : {"claimed", "published", "broken"}]
Scanned == [head : Blocks, pay : Nat, size : Nat, msg : Nat]

TypeOK ==
    /\ read_ptr \in Blocks /\ alloc_ptr \in Blocks
    /\ mem \in [Blocks -> Word]
    /\ pc \in [Producers -> {"idle", "load", "cas", "head", "encode", "unlock", "abandon"}]
    /\ want \in [Producers -> Nat]
    /\ readHand \in [Producers -> Blocks]
    /\ allocHand \in [Producers -> Blocks]
    /\ cur \in [Producers -> Nat]
    /\ cpc \in {"idle", "scan", "mark", "outside"}
    /\ readPos \in Blocks
    /\ batch \in Seq(Scanned)
    /\ log \in Seq(Message)
    /\ delivered \in Seq([msg : Nat, content : SUBSET Nat])
    /\ freed \in Nat
    /\ allocLap \in Nat /\ readLap \in Nat /\ scanLap \in Nat
    /\ handLap \in [Producers -> Nat]
    /\ overtaken \in BOOLEAN

\* Whatever the hands did before, a placement never leaves the region, nor does
\* the wrap of a scan: no head or payload reaches beyond the region's end.
InsideRegion ==
    /\ \A i \in DOMAIN log : log[i].pay + log[i].size <= RegionBlocks
    /\ \A i \in DOMAIN batch : batch[i].pay + batch[i].size <= RegionBlocks

\* The hands keep their order: the alloc hand never runs into the read hand
\* from behind, and the scan never passes the alloc hand.
HandsInOrder ==
    overtaken \/ /\ Ordered(readLap, read_ptr, allocLap, alloc_ptr)
                 /\ cpc # "idle" => /\ Ordered(readLap, read_ptr, scanLap, readPos)
                                    /\ Ordered(scanLap, readPos, allocLap, alloc_ptr)

\* The blocks between the alloc hand and the read hand, going forward.
FreeBlocks ==
    IF read_ptr <= alloc_ptr
    THEN {b \in Blocks : b >= alloc_ptr \/ b < read_ptr}
    ELSE {b \in Blocks : alloc_ptr <= b /\ b < read_ptr}

\* Every free block reads as a locked head: wherever the next head is placed,
\* the consumer stops in front of it until it is published, and never takes payload or
\* unused content for a head, which would lead it out of the region.
FreeBlocksLookLocked ==
    overtaken \/ /\ \A b \in FreeBlocks : mem[b].lock /\ ~mem[b].data
                 /\ cpc # "outside"
                 /\ cpc = "scan" => ~mem[readPos].data

\* Messages whose memory was not given back to the producers.
InUse == freed + 1 .. Len(log)

Occupied(m) == {m.head} \cup Span(m.pay, m.size)

\* No block belongs to two messages at a time, and none in use is handed out
\* as free.
NoSharedBlock ==
    overtaken \/ \A i \in InUse :
        /\ Occupied(log[i]) \subseteq Blocks \ FreeBlocks
        /\ \A j \in InUse : i # j => Occupied(log[i]) \cap Occupied(log[j]) = {}

\* Records come out in the order of their allocation, each exactly once, never
\* before they are published, and with the payload their producer wrote.
DeliveredInOrder ==
    overtaken \/
        /\ Len(delivered) <= Len(log)
        /\ \A i \in DOMAIN delivered :
             /\ delivered[i].msg = i
             /\ log[i].state # "claimed"
             /\ log[i].state = "published" =>
                   delivered[i].content = (IF log[i].size = 0 THEN {} ELSE {i})

Quiet == cpc = "idle" /\ alloc_ptr = read_ptr /\ \A p \in Producers : pc[p] = "idle"

\* Once everybody is done and the consumer finds the region empty, every
\* record was handed over (mpsc_bus.test.cpp:219-224).
AllQueued == Quiet => Len(delivered) = Len(log)

\* A record of less than half the region is turned away only while other
\* records are in the way: an empty region takes it wherever the hands are.
EmptyRegionTakesHalf ==
    [][\A p \in Producers :
         Reject(p) /\ 2 * want[p] + 1 < RegionBlocks => allocHand[p] # readHand[p]]_vars

\* A message's memory is written by its producer until it is unlocked and only
\* then read or wiped by the consumer: no step of the consumer touches a
\* block of a message that is still being written.
BeingWritten == UNION {Occupied(log[cur[p]]) :
                        p \in {q \in Producers : pc[q] \in {"head", "encode", "unlock", "abandon"}}}
ConsumerKeepsOff ==
    [][Consume /\ ~overtaken => \A b \in BeingWritten \cap Blocks : mem'[b] = mem[b]]_vars

\* A published record is eventually handed over.
EventuallyDelivered ==
    \A i \in 1 .. MaxMessages :
        (i \in DOMAIN log /\ log[i].state # "claimed") ~> i \in DOMAIN delivered

\* MpscRegion implements the queue of RecordQueue.
Queue == INSTANCE RecordQueue WITH
    entries <- [i \in DOMAIN log |->
                  IF log[i].state = "claimed" THEN "reserved" ELSE "published"],
    out <- [i \in DOMAIN delivered |-> delivered[i].msg]
ImplementsQueue == Queue!Spec
=============================================================================
