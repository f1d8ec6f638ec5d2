-------------------------- MODULE MpscRegion_proofs --------------------------
(***************************************************************************)
(* Theorems about MpscRegion, for every region size, set of producers, set *)
(* of payload sizes and batch size: memory safety, order, ownership and    *)
(* completeness, and that a region implements RecordQueue.                 *)
(*                                                                         *)
(* The invariant of the second part looks at the region by index of the    *)
(* messages in log: each begins where the one before it ends, and the      *)
(* hands are at the beginning of some.                                     *)
(***************************************************************************)
EXTENDS MpscRegion, SequenceTheorems, TLAPS

-----------------------------------------------------------------------------
(* The placement rule.                                                      *)

\* A placement lies inside the region and so does the hand behind it.
LEMMA PlacementInside ==
    ASSUME NEW a \in Blocks, NEW r \in Blocks, NEW k \in Nat, Fits(a, r, k)
    PROVE  /\ PayloadAt(a, r, k) \in Nat
           /\ PayloadAt(a, r, k) + k <= RegionBlocks
           /\ EndAt(a, r, k) \in Blocks
  BY RegionAssumption DEF Fits, Straight, Flush, Split, CanWrap, BufferEnd,
                          PayloadAt, EndAt, Blocks

\* An empty region takes every message of less than half its size, wherever
\* the hands stand (allocate(), mpsc_bus.hpp:410-430).
LEMMA EmptyFits ==
    ASSUME NEW a \in Blocks, NEW k \in Nat, 2 * k + 1 < RegionBlocks
    PROVE  Fits(a, a, k)
  BY RegionAssumption DEF Fits, Straight, Flush, Split, CanWrap, BufferEnd, Blocks

-----------------------------------------------------------------------------
(* Type correctness.                                                        *)

LEMMA WordTypes ==
    /\ Fill \in Word
    /\ \A k, m \in Nat : HeadWord(k, m) \in Word
    /\ \A m \in Nat : DataWord(m) \in Word
    /\ \A w \in Word : Unlocked(w) \in Word /\ Flagged(w) \in Word
  BY RegionAssumption DEF Fill, HeadWord, DataWord, Unlocked, Flagged, Word

\* What a scan takes from a word is typed like a head.
LEMMA HeadInside ==
    ASSUME NEW w \in Word, NEW h \in HeadsReadFrom(w)
    PROVE  h.size \in Nat /\ h.msg \in Nat
  <1>1. CASE w.data
    <2> DEFINE flags == IF w.consumed THEN {TRUE} ELSE BOOLEAN
    <2>1. h \in [data : {TRUE}, lock : flags, consumed : flags,
                 size : 0 .. RegionBlocks, msg : {w.msg}]
      BY <1>1 DEF HeadsReadFrom
    <2>2. h.size \in 0 .. RegionBlocks /\ h.msg = w.msg
      BY <2>1
    <2> QED
      BY <2>2, RegionAssumption DEF Word
  <1>2. CASE ~w.data
    BY <1>2 DEF HeadsReadFrom, Word
  <1> QED
    BY <1>1, <1>2

TypeInside == TypeOK /\ InsideRegion

LEMMA InitTypeInside == Init => TypeInside
  <1> SUFFICES ASSUME Init PROVE TypeInside
    OBVIOUS
  <1>1. TypeOK
    BY RegionAssumption, WordTypes DEF Init, TypeOK, Blocks
  <1>2. InsideRegion
    BY DEF Init, InsideRegion
  <1> QED
    BY <1>1, <1>2 DEF TypeInside

LEMMA ProduceTypeInside ==
    ASSUME TypeInside, NEW p \in Producers, Produce(p)
    PROVE  TypeInside'
  <1> USE DEF TypeInside
  <1> USE RegionAssumption, PayloadAssumption
  <1>1. CASE LoadReadHand(p)
    BY <1>1 DEF LoadReadHand, TypeOK, InsideRegion, shared, consumer, Allocating
  <1>2. CASE LoadAllocHand(p)
    BY <1>2 DEF LoadAllocHand, TypeOK, InsideRegion, shared, consumer, history
  <1>3. CASE Reject(p)
    BY <1>3 DEF Reject, ForgetHands, TypeOK, InsideRegion, shared, consumer, Blocks
  <1>4. CASE Claim(p)
    <2> DEFINE a == allocHand[p]
               r == readHand[p]
               k == want[p]
               e == [head |-> a, pay |-> PayloadAt(a, r, k), size |-> k,
                     lap |-> allocLap, state |-> "claimed"]
    <2>1. a \in Blocks /\ r \in Blocks /\ k \in Nat
      BY DEF TypeOK
    <2>2. PayloadAt(a, r, k) \in Nat /\ PayloadAt(a, r, k) + k <= RegionBlocks
          /\ EndAt(a, r, k) \in Blocks
      BY <1>4, <2>1, PlacementInside DEF Claim
    <2>3. e \in Message /\ e.pay + e.size <= RegionBlocks
      BY <2>1, <2>2 DEF TypeOK, Message
    <2>4. log' = Append(log, e) /\ alloc_ptr' = EndAt(a, r, k)
          /\ cur' = [cur EXCEPT ![p] = Len(log) + 1]
      BY <1>4 DEF Claim
    <2>5. log' \in Seq(Message) /\ cur' \in [Producers -> Nat] /\ alloc_ptr' \in Blocks
      <3> HIDE DEF e
      <3> QED
        BY <2>2, <2>3, <2>4 DEF TypeOK
    <2>6. \A i \in DOMAIN log' : log'[i].pay + log'[i].size <= RegionBlocks
      <3> HIDE DEF e
      <3> QED
        BY <2>3, <2>4 DEF TypeOK, InsideRegion
    <2>7. 0 \in Blocks
      BY DEF Blocks
    <2>8. overtaken' \in BOOLEAN /\ allocLap' \in Nat
      BY <1>4 DEF Claim, TypeOK
    <2> HIDE DEF a, r, k, e
    <2> QED
      BY <1>4, <2>5, <2>6, <2>7, <2>8 DEF Claim, ForgetHands, TypeOK, InsideRegion, consumer
  <1>5. CASE Retry(p)
    BY <1>5 DEF Retry, TypeOK, InsideRegion, shared, consumer, history
  <1>6. CASE StoreHead(p)
    BY <1>6, WordTypes DEF StoreHead, TypeOK, InsideRegion, consumer, history
  <1>7. CASE Encode(p)
    BY <1>7, WordTypes DEF Encode, Overwrite, TypeOK, InsideRegion, consumer, history
  <1>8. CASE EncodeFails(p)
    BY <1>8 DEF EncodeFails, TypeOK, InsideRegion, shared, consumer, history
  <1>9. CASE Unlock(p)
    <2>1. mem' \in [Blocks -> Word]
      BY <1>9, WordTypes DEF Unlock, TypeOK
    <2>2. \A e \in Message : \A s \in {"published", "broken"} :
             /\ Settled(e, s) \in Message
             /\ Settled(e, s).pay = e.pay /\ Settled(e, s).size = e.size
      BY DEF Settled, Message
    <2> DEFINE s == IF pc[p] = "unlock" THEN "published" ELSE "broken"
    <2>a. log' = [log EXCEPT ![cur[p]] = Settled(log[cur[p]], s)]
          /\ s \in {"published", "broken"}
      BY <1>9 DEF Unlock
    <2>b. \A i \in 1 .. Len(log) : log[i] \in Message
      BY DEF TypeOK
    <2> HIDE DEF s
    <2>3. log' \in Seq(Message)
      <3>1. CASE cur[p] \in 1 .. Len(log)
        BY <3>1, <2>2, <2>a, <2>b, ExceptSeq DEF TypeOK
      <3>2. CASE cur[p] \notin 1 .. Len(log)
        <4>1. log' = log
          BY <3>2, <2>a DEF TypeOK
        <4> QED
          BY <4>1 DEF TypeOK
      <3> QED
        BY <3>1, <3>2
    <2>4. \A i \in DOMAIN log' : log'[i].pay + log'[i].size <= RegionBlocks
      BY <2>2, <2>a, <2>b DEF TypeOK, InsideRegion
    <2> QED
      BY <1>9, <2>1, <2>3, <2>4 DEF Unlock, TypeOK, InsideRegion, consumer
  <1> QED
    BY <1>1, <1>2, <1>3, <1>4, <1>5, <1>6, <1>7, <1>8, <1>9 DEF Produce

LEMMA ConsumeTypeInside ==
    ASSUME TypeInside, Consume
    PROVE  TypeInside'
  <1> USE DEF TypeInside
  <1> USE RegionAssumption
  <1>1. CASE ConsumeNothing
    BY <1>1 DEF ConsumeNothing, vars, shared, locals, consumer, history, TypeOK, InsideRegion
  <1>2. CASE ConsumeBegin
    BY <1>2 DEF ConsumeBegin, TypeOK, InsideRegion, shared, locals
  <1>3. CASE Scan
    <2>1. PICK h \in HeadsReadFrom(mem[readPos]) :
            LET pay == IF readPos + 1 + h.size > RegionBlocks THEN 0 ELSE readPos + 1
                end == pay + h.size
            IN /\ ~h.lock /\ h.size < RegionBlocks
               /\ batch' = Append(batch, [head |-> readPos, pay |-> pay,
                                          size |-> h.size, msg |-> h.msg])
               /\ readPos' = IF end = RegionBlocks THEN 0 ELSE end
               /\ scanLap' = IF pay = 0 \/ end = RegionBlocks THEN scanLap + 1 ELSE scanLap
      BY <1>3 DEF Scan
    <2>2. h.size \in Nat /\ h.size < RegionBlocks /\ h.msg \in Nat
      BY <2>1, HeadInside DEF TypeOK, Blocks
    <2>3. readPos' \in Blocks /\ scanLap' \in Nat
      BY <2>1, <2>2 DEF TypeOK, Blocks
    <2> DEFINE e == [head |-> readPos,
                     pay |-> IF readPos + 1 + h.size > RegionBlocks THEN 0 ELSE readPos + 1,
                     size |-> h.size, msg |-> h.msg]
    <2>4. e \in Scanned /\ e.pay + e.size <= RegionBlocks
      BY <2>2 DEF TypeOK, Blocks, Scanned
    <2>5. batch' = Append(batch, e)
      BY <2>1
    <2>6. batch' \in Seq(Scanned)
      BY <2>4, <2>5 DEF TypeOK
    <2>7. \A i \in DOMAIN batch' : batch'[i].pay + batch'[i].size <= RegionBlocks
      <3> HIDE DEF e
      <3> QED
        BY <2>4, <2>5 DEF TypeOK, InsideRegion
    <2> QED
      BY <1>3, <2>3, <2>6, <2>7 DEF Scan, TypeOK, InsideRegion, shared, locals
  <1>4. CASE Deliver
    <2> DEFINE content(i) ==
                 {mem[b].msg : b \in Span(batch[i].pay, batch[i].size) \cap Blocks}
               more == [i \in DOMAIN batch |-> [msg |-> batch[i].msg, content |-> content(i)]]
    <2>1. \A i \in DOMAIN batch : batch[i].msg \in Nat
      <3>1. \A i \in DOMAIN batch : batch[i] \in Scanned
        BY DEF TypeOK
      <3> QED
        BY <3>1 DEF Scanned
    <2>2. \A b \in Blocks : mem[b].msg \in Nat
      BY DEF TypeOK, Word
    <2>3. \A i \in DOMAIN batch : content(i) \in SUBSET Nat
      BY <2>2
    <2>4. more \in Seq([msg : Nat, content : SUBSET Nat])
      <3> HIDE DEF content
      <3>1. Len(batch) \in Nat /\ DOMAIN batch = 1 .. Len(batch)
        BY DEF TypeOK
      <3> QED
        BY <2>1, <2>3, <3>1
    <2>5. delivered' \in Seq([msg : Nat, content : SUBSET Nat])
      <3>1. delivered' = delivered \o more
        BY <1>4 DEF Deliver
      <3> HIDE DEF more
      <3> QED
        BY <2>4, <3>1 DEF TypeOK
    <2> QED
      BY <1>4, <2>5 DEF Deliver, TypeOK, InsideRegion, shared, locals
  <1>5. CASE MarkConsumed
    <2>1. mem' \in [Blocks -> Word]
      <3> DEFINE flagged == [mem EXCEPT ![Head(batch).head] = Flagged(mem[Head(batch).head])]
      <3>1. flagged \in [Blocks -> Word]
        BY WordTypes DEF TypeOK
      <3>2. mem' = Overwrite(flagged, Span(Head(batch).pay, Head(batch).size), Fill)
        BY <1>5 DEF MarkConsumed
      <3> HIDE DEF flagged
      <3> QED
        BY <3>1, <3>2, WordTypes DEF Overwrite
    <2>2. batch' \in Seq(Scanned)
      BY <1>5 DEF MarkConsumed, TypeOK
    <2>3. \A i \in DOMAIN batch' : batch'[i].pay + batch'[i].size <= RegionBlocks
      BY <1>5 DEF MarkConsumed, TypeOK, InsideRegion
    <2> QED
      BY <1>5, <2>1, <2>2, <2>3 DEF MarkConsumed, TypeOK, InsideRegion, locals, history
  <1>6. CASE ConsumeEnd
    BY <1>6 DEF ConsumeEnd, TypeOK, InsideRegion, locals
  <1>7. CASE ScanOutside
    BY <1>7 DEF ScanOutside, TypeOK, InsideRegion, shared, locals, history
  <1>8. CASE Undefined
    BY <1>8 DEF Undefined, vars, shared, locals, consumer, history, TypeOK, InsideRegion
  <1> QED
    BY <1>1, <1>2, <1>3, <1>4, <1>5, <1>6, <1>7, <1>8 DEF Consume

LEMMA NextTypeInside == TypeInside /\ [Next]_vars => TypeInside'
  <1> SUFFICES ASSUME TypeInside, [Next]_vars PROVE TypeInside'
    OBVIOUS
  <1>1. CASE UNCHANGED vars
    BY <1>1 DEF vars, shared, locals, consumer, history, TypeInside, TypeOK, InsideRegion
  <1> QED
    BY <1>1, ProduceTypeInside, ConsumeTypeInside DEF Next

\* Type correctness: in every execution, overtaken or not, the hands, the
\* scan and every remembered position stay inside the region.
THEOREM TypeCorrect == Spec => []TypeOK
  <1>1. TypeInside => TypeOK
    BY DEF TypeInside
  <1> QED
    BY <1>1, InitTypeInside, NextTypeInside, PTL DEF Spec

\* No placement of a message and no wrap of a scan ever leaves the region, not
\* even after the alloc hand overtook a read hand (allocate() and read_region()).
THEOREM RegionNeverLeft == Spec => []InsideRegion
  <1>1. TypeInside => InsideRegion
    BY DEF TypeInside
  <1> QED
    BY <1>1, InitTypeInside, NextTypeInside, PTL DEF Spec

-----------------------------------------------------------------------------
(* Order, ownership and completeness.                                       *)

\* Where message i begins; the next one will begin at the alloc hand.
PosAt(i) == IF i <= Len(log) THEN log[i].head ELSE alloc_ptr
LapAt(i) == IF i <= Len(log) THEN log[i].lap ELSE allocLap

Before(lap1, pos1, lap2, pos2) == lap1 < lap2 \/ (lap1 = lap2 /\ pos1 < pos2)
NotAfter(lap1, pos1, lap2, pos2) == lap1 < lap2 \/ (lap1 = lap2 /\ pos1 <= pos2)

\* How many messages the consumer has wiped, and how many it has scanned.
Marked == Len(delivered) - (IF cpc = "mark" THEN Len(batch) ELSE 0)
ScannedTo == Len(delivered) + (IF cpc = "scan" THEN Len(batch) ELSE 0)

\* Message e ends at a position: its head and payload are in one piece, they end with
\* the region, or the payload starts over at block 0.
EndsAt(e, lap, pos) ==
    \/ /\ e.pay = e.head + 1 /\ e.head + 1 + e.size < RegionBlocks
       /\ lap = e.lap /\ pos = e.head + 1 + e.size
    \/ /\ e.pay = e.head + 1 /\ e.head + 1 + e.size = RegionBlocks
       /\ lap = e.lap + 1 /\ pos = 0
    \/ /\ e.pay = 0 /\ e.head + 1 + e.size > RegionBlocks /\ e.size < e.head
       /\ lap = e.lap + 1 /\ pos = e.size

\* Blocks from a position on up to another one, and those that are not between a position
\* and the alloc hand.
Within(lap1, pos1, lap2, pos2, b) ==
    IF lap1 = lap2 THEN pos1 <= b /\ b < pos2 ELSE pos1 <= b \/ b < pos2
Outside(lap, pos, b) ==
    IF lap = allocLap THEN b < pos \/ alloc_ptr <= b ELSE alloc_ptr <= b /\ b < pos

Clean(b) == mem[b].lock /\ ~mem[b].data

Writing(p) == pc[p] \in {"head", "encode", "unlock", "abandon"}

CountsInv ==
    /\ cpc \in {"idle", "scan", "mark"}
    /\ cpc = "idle" => batch = <<>> /\ freed = Len(delivered)
    /\ freed <= Marked /\ ScannedTo <= Len(log)

ChainInv ==
    /\ \A i \in 1 .. Len(log) : EndsAt(log[i], LapAt(i + 1), PosAt(i + 1))
    /\ \A i, j \in 1 .. Len(log) + 1 : i < j => Before(LapAt(i), PosAt(i), LapAt(j), PosAt(j))

HandsInv ==
    /\ readLap = LapAt(freed + 1) /\ read_ptr = PosAt(freed + 1)
    /\ Ordered(readLap, read_ptr, allocLap, alloc_ptr)
    /\ cpc # "idle" => scanLap = LapAt(ScannedTo + 1) /\ readPos = PosAt(ScannedTo + 1)

\* The read hand a producer remembers is not ahead of the one in the region.
SnapshotInv == \A p \in Allocating : NotAfter(handLap[p], readHand[p], readLap, read_ptr)

\* Blocks that are not in use, or that are wiped, look locked.
CleanInv == \A b \in Blocks : Outside(LapAt(Marked + 1), PosAt(Marked + 1), b) => Clean(b)

\* What the region holds of message i, which is not wiped.
Holds(i) ==
    LET e == log[i]
    IN /\ e.state = "claimed" => Clean(e.head)
       /\ e.state # "claimed" => mem[e.head] = Unlocked(HeadWord(e.size, i))
       /\ e.state = "published" => \A b \in Span(e.pay, e.size) : mem[b].msg = i
       /\ e.pay = 0 => \A b \in Blocks : e.head < b => Clean(b)
MemInv == \A i \in Marked + 1 .. Len(log) : Holds(i)

BatchInv ==
    /\ \A i \in 1 .. ScannedTo : log[i].state # "claimed"
    /\ \A j \in 1 .. Len(batch) :
          batch[j] = [head |-> log[Marked + j].head, pay |-> log[Marked + j].pay,
                      size |-> log[Marked + j].size, msg |-> Marked + j]

WritersInv ==
    \A p \in Producers : Writing(p) =>
        /\ cur[p] \in 1 .. Len(log)
        /\ log[cur[p]].state = "claimed" /\ log[cur[p]].size = want[p]
        /\ pc[p] # "head" => mem[log[cur[p]].head] = HeadWord(want[p], cur[p])
        /\ pc[p] = "unlock" =>
              \A b \in Span(log[cur[p]].pay, want[p]) : mem[b].msg = cur[p]
        /\ \A q \in Producers : Writing(q) /\ q # p => cur[q] # cur[p]

DeliveredInv ==
    \A i \in 1 .. Len(delivered) :
        /\ delivered[i].msg = i
        /\ log[i].state = "published" =>
              delivered[i].content = (IF log[i].size = 0 THEN {} ELSE {i})

OrderInv ==
    /\ CountsInv /\ ChainInv /\ HandsInv /\ SnapshotInv
    /\ CleanInv /\ MemInv /\ BatchInv /\ WritersInv /\ DeliveredInv

RegionInv == TypeInside /\ (overtaken \/ OrderInv)
-----------------------------------------------------------------------------
(* Where messages are.                                                      *)

\* Blocks from the beginning of message i to its end, and those from the alloc hand to
\* the beginning of message m.
Own(i) == {b \in Blocks : Within(LapAt(i), PosAt(i), LapAt(i + 1), PosAt(i + 1), b)}
FreeFrom(m) == {b \in Blocks : Outside(LapAt(m), PosAt(m), b)}

LEMMA Positions ==
    ASSUME TypeOK, NEW i \in Nat, i > 0
    PROVE  PosAt(i) \in Blocks /\ LapAt(i) \in Nat
  <1>1. \A k \in 1 .. Len(log) : log[k] \in Message
    BY DEF TypeOK
  <1>2. CASE i <= Len(log)
    BY <1>1, <1>2 DEF PosAt, LapAt, Message, TypeOK
  <1>3. CASE ~(i <= Len(log))
    BY <1>3 DEF PosAt, LapAt, TypeOK
  <1> QED
    BY <1>2, <1>3

\* A message owns its head and payload, and if the payload starts over what is left of
\* the region behind the head.
LEMMA OwnParts ==
    ASSUME TypeInside, ChainInv, NEW i \in 1 .. Len(log)
    PROVE  /\ Occupied(log[i]) \subseteq Own(i)
           /\ Own(i) = {b \in Blocks : b \in Occupied(log[i])
                                        \/ (log[i].pay = 0 /\ log[i].head < b)}
  <1> DEFINE e == log[i]
             lap == LapAt(i + 1)
             pos == PosAt(i + 1)
  <1>1. /\ e.head \in Blocks /\ e.pay \in Nat /\ e.size \in Nat /\ e.lap \in Nat
        /\ e.pay + e.size <= RegionBlocks
    <2>1. e \in Message /\ e.pay + e.size <= RegionBlocks
      BY DEF TypeInside, TypeOK, InsideRegion
    <2> HIDE DEF e
    <2> QED
      BY <2>1 DEF Message
  <1>2. EndsAt(e, lap, pos) /\ LapAt(i) = e.lap /\ PosAt(i) = e.head
    BY DEF ChainInv, LapAt, PosAt, TypeInside, TypeOK
  <1>3. Own(i) = {b \in Blocks : Within(e.lap, e.head, lap, pos, b)}
    BY <1>2 DEF Own
  <1> HIDE DEF e, lap, pos
  <1>4. \A b \in Blocks : Within(e.lap, e.head, lap, pos, b)
                             <=> b \in Occupied(e) \/ (e.pay = 0 /\ e.head < b)
    <2> TAKE b \in Blocks
    <2>1. b \in Occupied(e) <=> b = e.head \/ (e.pay <= b /\ b < e.pay + e.size)
      BY <1>1, RegionAssumption DEF Blocks, Occupied, Span
    <2>2. CASE e.pay = e.head + 1 /\ e.head + 1 + e.size < RegionBlocks
               /\ lap = e.lap /\ pos = e.head + 1 + e.size
      BY <1>1, <2>1, <2>2, RegionAssumption DEF Blocks, Within
    <2>3. CASE e.pay = e.head + 1 /\ e.head + 1 + e.size = RegionBlocks
               /\ lap = e.lap + 1 /\ pos = 0
      <3>1. Within(e.lap, e.head, lap, pos, b) <=> e.head <= b
        BY <1>1, <2>3, RegionAssumption DEF Blocks, Within
      <3> QED
        BY <1>1, <2>1, <2>3, <3>1, RegionAssumption DEF Blocks
    <2>4. CASE e.pay = 0 /\ e.head + 1 + e.size > RegionBlocks /\ e.size < e.head
               /\ lap = e.lap + 1 /\ pos = e.size
      BY <1>1, <2>1, <2>4, RegionAssumption DEF Blocks, Within
    <2> QED
      BY <1>2, <2>2, <2>3, <2>4 DEF EndsAt
  <1>5. Occupied(e) \subseteq Blocks
    BY <1>1, RegionAssumption DEF Blocks, Occupied, Span
  <1> QED
    BY <1>3, <1>4, <1>5 DEF e

\* Two stretches of the ring that follow one another within a lap are apart.
LEMMA StretchesApart ==
    ASSUME NEW l1 \in Nat, NEW l2 \in Nat, NEW l3 \in Nat, NEW l4 \in Nat, NEW l5 \in Nat,
           NEW p1 \in Blocks, NEW p2 \in Blocks, NEW p3 \in Blocks, NEW p4 \in Blocks,
           NEW p5 \in Blocks,
           NotAfter(l1, p1, l2, p2), NotAfter(l2, p2, l3, p3), NotAfter(l3, p3, l4, p4),
           NotAfter(l4, p4, l5, p5), Ordered(l1, p1, l5, p5),
           NEW b \in Blocks, Within(l1, p1, l2, p2, b)
    PROVE  ~Within(l3, p3, l4, p4, b)
  BY DEF Blocks, NotAfter, Ordered, Within

\* ... and a stretch up to the alloc hand is apart from what is free.
LEMMA StretchUsed ==
    ASSUME NEW l1 \in Nat, NEW l2 \in Nat, NEW l3 \in Nat, allocLap \in Nat,
           NEW p1 \in Blocks, NEW p2 \in Blocks, NEW p3 \in Blocks, alloc_ptr \in Blocks,
           NotAfter(l1, p1, l2, p2), NotAfter(l2, p2, l3, p3),
           NotAfter(l3, p3, allocLap, alloc_ptr), Ordered(l1, p1, allocLap, alloc_ptr)
    PROVE  \A b \in Blocks : Within(l2, p2, l3, p3, b) => ~Outside(l1, p1, b)
  <1> TAKE b \in Blocks
  <1> HAVE Within(l2, p2, l3, p3, b)
  <1>1. CASE l1 = allocLap
    <2>1. l2 = allocLap /\ l3 = allocLap
      BY <1>1 DEF NotAfter
    <2> QED
      BY <1>1, <2>1 DEF Blocks, Within, Outside, NotAfter
  <1>2. CASE l1 # allocLap
    <2>1. allocLap = l1 + 1 /\ alloc_ptr < p1
      BY <1>2 DEF Ordered
    <2>2. CASE l2 = l3
      BY <2>1, <2>2 DEF Blocks, Within, Outside, NotAfter
    <2>3. CASE l2 # l3
      <3>1. l2 = l1 /\ l3 = allocLap
        BY <2>1, <2>3 DEF NotAfter
      <3> QED
        BY <2>1, <3>1 DEF Blocks, Within, Outside, NotAfter
    <2> QED
      BY <2>2, <2>3
  <1> QED
    BY <1>1, <1>2

LEMMA Rises ==
    ASSUME TypeOK, ChainInv, NEW i \in 1 .. Len(log) + 1, NEW j \in 1 .. Len(log) + 1,
           i <= j
    PROVE  NotAfter(LapAt(i), PosAt(i), LapAt(j), PosAt(j))
  <1>1. Len(log) \in Nat
    BY DEF TypeOK
  <1>2. PosAt(i) \in Blocks /\ LapAt(i) \in Nat /\ PosAt(j) \in Blocks
    BY <1>1, Positions
  <1>3. CASE i = j
    BY <1>2, <1>3, RegionAssumption DEF Blocks, NotAfter
  <1>4. CASE i < j
    <2>1. Before(LapAt(i), PosAt(i), LapAt(j), PosAt(j))
      BY <1>4 DEF ChainInv
    <2> QED
      BY <1>2, <2>1, RegionAssumption DEF Blocks, Before, NotAfter
  <1> QED
    BY <1>1, <1>3, <1>4

\* What comes later is as close to the alloc hand.
LEMMA LaterOrdered ==
    ASSUME TypeOK, ChainInv, NEW m \in 1 .. Len(log) + 1, NEW i \in m .. Len(log) + 1,
           Ordered(LapAt(m), PosAt(m), allocLap, alloc_ptr)
    PROVE  Ordered(LapAt(i), PosAt(i), allocLap, alloc_ptr)
  <1>1. i \in 1 .. Len(log) + 1 /\ Len(log) + 1 \in Nat /\ i \in Nat /\ m \in Nat
    BY DEF TypeOK
  <1>2. LapAt(Len(log) + 1) = allocLap /\ PosAt(Len(log) + 1) = alloc_ptr
    BY DEF LapAt, PosAt, TypeOK
  <1>3. /\ NotAfter(LapAt(m), PosAt(m), LapAt(i), PosAt(i))
        /\ NotAfter(LapAt(i), PosAt(i), allocLap, alloc_ptr)
    BY <1>1, <1>2, Rises
  <1>4. /\ LapAt(m) \in Nat /\ PosAt(m) \in Blocks /\ LapAt(i) \in Nat /\ PosAt(i) \in Blocks
        /\ allocLap \in Nat /\ alloc_ptr \in Blocks
    BY <1>1, Positions DEF TypeOK
  <1> QED
    BY <1>3, <1>4 DEF NotAfter, Ordered, Blocks

\* Messages less than a lap before the alloc hand own different blocks, none of them free.
LEMMA OwnApart ==
    ASSUME TypeOK, ChainInv, NEW m \in 1 .. Len(log) + 1,
           Ordered(LapAt(m), PosAt(m), allocLap, alloc_ptr), NEW i \in m .. Len(log)
    PROVE  /\ \A j \in m .. Len(log) : i # j => Own(i) \cap Own(j) = {}
           /\ Own(i) \cap FreeFrom(m) = {}
  <1>1. Len(log) \in Nat
    BY DEF TypeOK
  <1>2. \A k \in m .. Len(log) + 1 :
           /\ LapAt(k) \in Nat /\ PosAt(k) \in Blocks
           /\ Ordered(LapAt(k), PosAt(k), allocLap, alloc_ptr)
           /\ NotAfter(LapAt(k), PosAt(k), allocLap, alloc_ptr)
           /\ NotAfter(LapAt(m), PosAt(m), LapAt(k), PosAt(k))
    <2> TAKE k \in m .. Len(log) + 1
    <2>1. k \in 1 .. Len(log) + 1 /\ k \in Nat /\ k > 0
      BY <1>1
    <2>2. Len(log) + 1 \in 1 .. Len(log) + 1 /\ LapAt(Len(log) + 1) = allocLap
          /\ PosAt(Len(log) + 1) = alloc_ptr
      BY <1>1 DEF LapAt, PosAt
    <2> QED
      BY <1>1, <2>1, <2>2, LaterOrdered, Positions, Rises
  <1>3. allocLap \in Nat /\ alloc_ptr \in Blocks
    BY DEF TypeOK
  <1>4. ASSUME NEW x \in m .. Len(log), NEW y \in m .. Len(log), x < y
        PROVE  Own(x) \cap Own(y) = {}
    <2>1. x \in m .. Len(log) + 1 /\ x + 1 \in m .. Len(log) + 1
          /\ y \in m .. Len(log) + 1 /\ y + 1 \in m .. Len(log) + 1
          /\ x + 1 <= y /\ x <= x + 1 /\ y <= y + 1
      BY <1>1, <1>4
    <2>2. \A u, v \in m .. Len(log) + 1 :
             u <= v => NotAfter(LapAt(u), PosAt(u), LapAt(v), PosAt(v))
      <3> TAKE u, v \in m .. Len(log) + 1
      <3>1. u \in 1 .. Len(log) + 1 /\ v \in 1 .. Len(log) + 1
        BY <1>1
      <3> QED
        BY <3>1, Rises
    <2>3. \A b \in Blocks : Within(LapAt(x), PosAt(x), LapAt(x + 1), PosAt(x + 1), b)
                 => ~Within(LapAt(y), PosAt(y), LapAt(y + 1), PosAt(y + 1), b)
      BY <1>2, <1>3, <2>1, <2>2, StretchesApart
    <2> QED
      BY <2>3 DEF Own
  <1>5. \A j \in m .. Len(log) : i # j => Own(i) \cap Own(j) = {}
    <2> TAKE j \in m .. Len(log)
    <2> HAVE i # j
    <2>1. i < j \/ j < i
      BY <1>1
    <2> QED
      BY <1>4, <2>1
  <1>6. Own(i) \cap FreeFrom(m) = {}
    <2>1. i \in m .. Len(log) + 1 /\ i + 1 \in m .. Len(log) + 1 /\ m \in m .. Len(log) + 1
      BY <1>1
    <2>2. NotAfter(LapAt(i), PosAt(i), LapAt(i + 1), PosAt(i + 1))
      <3>1. i \in 1 .. Len(log) + 1 /\ i + 1 \in 1 .. Len(log) + 1 /\ i <= i + 1
        BY <1>1
      <3> QED
        BY <3>1, Rises
    <2>3. \A b \in Blocks : Within(LapAt(i), PosAt(i), LapAt(i + 1), PosAt(i + 1), b)
                               => ~Outside(LapAt(m), PosAt(m), b)
      <3>1. /\ LapAt(i) \in Nat /\ PosAt(i) \in Blocks
            /\ LapAt(i + 1) \in Nat /\ PosAt(i + 1) \in Blocks
            /\ LapAt(m) \in Nat /\ PosAt(m) \in Blocks
            /\ NotAfter(LapAt(m), PosAt(m), LapAt(i), PosAt(i))
            /\ NotAfter(LapAt(i + 1), PosAt(i + 1), allocLap, alloc_ptr)
            /\ Ordered(LapAt(m), PosAt(m), allocLap, alloc_ptr)
        BY <1>2, <2>1
      <3> QED
        BY <1>3, <2>2, <3>1, StretchUsed
    <2> QED
      BY <2>3 DEF Own, FreeFrom
  <1> QED
    BY <1>5, <1>6

\* When message m is given back its blocks are free, and nothing else.
LEMMA FreeGrows ==
    ASSUME TypeOK, ChainInv, NEW m \in 1 .. Len(log),
           Ordered(LapAt(m), PosAt(m), allocLap, alloc_ptr)
    PROVE  FreeFrom(m + 1) \subseteq FreeFrom(m) \cup Own(m)
  <1>1. m \in 1 .. Len(log) + 1 /\ m + 1 \in m .. Len(log) + 1 /\ m + 1 \in 1 .. Len(log) + 1
        /\ m <= m + 1 /\ m \in Nat /\ m + 1 \in Nat
    BY DEF TypeOK
  <1>2. /\ Ordered(LapAt(m + 1), PosAt(m + 1), allocLap, alloc_ptr)
        /\ NotAfter(LapAt(m), PosAt(m), LapAt(m + 1), PosAt(m + 1))
    BY <1>1, LaterOrdered, Rises
  <1>3. /\ LapAt(m) \in Nat /\ PosAt(m) \in Blocks /\ LapAt(m + 1) \in Nat
        /\ PosAt(m + 1) \in Blocks /\ allocLap \in Nat /\ alloc_ptr \in Blocks
    BY <1>1, Positions DEF TypeOK
  <1> QED
    BY <1>2, <1>3 DEF FreeFrom, Own, Blocks, Within, Outside, NotAfter, Ordered

LEMMA AllocFree ==
    ASSUME TypeOK, NEW m \in Nat, m > 0, Ordered(LapAt(m), PosAt(m), allocLap, alloc_ptr)
    PROVE  alloc_ptr \in FreeFrom(m)
  BY Positions DEF TypeOK, FreeFrom, Outside, Ordered, Blocks

-----------------------------------------------------------------------------
(* What follows from the invariant in one state.                            *)

LEMMA Numbers ==
    ASSUME TypeOK, CountsInv
    PROVE  /\ Len(log) \in Nat /\ Len(batch) \in Nat /\ Len(delivered) \in Nat
           /\ freed \in Nat /\ Marked \in Nat /\ ScannedTo \in Nat
           /\ freed <= Marked /\ Marked <= Len(delivered) /\ Len(delivered) <= ScannedTo
           /\ ScannedTo <= Len(log) /\ Marked + Len(batch) = ScannedTo
  <1>1. /\ Len(log) \in Nat /\ Len(batch) \in Nat /\ Len(delivered) \in Nat /\ freed \in Nat
        /\ Len(<<>>) = 0
    BY DEF TypeOK
  <1>2. CASE cpc = "idle"
    BY <1>1, <1>2 DEF CountsInv, Marked, ScannedTo
  <1>3. CASE cpc = "scan"
    BY <1>1, <1>3 DEF CountsInv, Marked, ScannedTo
  <1>4. CASE cpc = "mark"
    BY <1>1, <1>4 DEF CountsInv, Marked, ScannedTo
  <1> QED
    BY <1>2, <1>3, <1>4 DEF CountsInv

\* The consumer's places are as close to the alloc hand as the read hand.
LEMMA PlacesOrdered ==
    ASSUME TypeOK, OrderInv, NEW i \in freed + 1 .. Len(log) + 1
    PROVE  Ordered(LapAt(i), PosAt(i), allocLap, alloc_ptr)
  <1>1. freed + 1 \in 1 .. Len(log) + 1
    BY Numbers DEF OrderInv
  <1>2. Ordered(LapAt(freed + 1), PosAt(freed + 1), allocLap, alloc_ptr)
    BY DEF OrderInv, HandsInv
  <1> QED
    BY <1>1, <1>2, LaterOrdered DEF OrderInv

\* What a message occupies is neither free nor another message's, nor is the head's block
\* or the rest of the region behind it the payload's.
LEMMA Apart ==
    ASSUME TypeInside, OrderInv, NEW i \in Marked + 1 .. Len(log)
    PROVE  /\ Occupied(log[i]) \subseteq Blocks
           /\ log[i].head \notin Span(log[i].pay, log[i].size)
           /\ \A b \in Blocks : Outside(LapAt(Marked + 1), PosAt(Marked + 1), b)
                                   => b \notin Occupied(log[i])
           /\ log[i].pay = 0 => \A b \in Blocks : log[i].head < b => b \notin Occupied(log[i])
           /\ \A j \in Marked + 1 .. Len(log) : i # j =>
                 /\ Occupied(log[j]) \cap Occupied(log[i]) = {}
                 /\ log[j].pay = 0 =>
                       \A b \in Blocks : log[j].head < b => b \notin Occupied(log[i])
  <1>1. /\ Marked \in Nat /\ freed \in Nat /\ Len(log) \in Nat /\ freed <= Marked
        /\ Marked <= Len(log)
    BY Numbers DEF TypeInside, OrderInv
  <1>2. Marked + 1 \in 1 .. Len(log) + 1 /\ Marked + 1 \in freed + 1 .. Len(log) + 1
    BY <1>1
  <1>3. Ordered(LapAt(Marked + 1), PosAt(Marked + 1), allocLap, alloc_ptr)
    BY <1>2, PlacesOrdered DEF TypeInside
  <1>4. /\ \A j \in Marked + 1 .. Len(log) : i # j => Own(i) \cap Own(j) = {}
        /\ Own(i) \cap FreeFrom(Marked + 1) = {}
    BY <1>2, <1>3, OwnApart DEF TypeInside, OrderInv
  <1>5. \A j \in Marked + 1 .. Len(log) :
           /\ Occupied(log[j]) \subseteq Own(j)
           /\ \A b \in Blocks : log[j].pay = 0 /\ log[j].head < b => b \in Own(j)
    <2> TAKE j \in Marked + 1 .. Len(log)
    <2>1. j \in 1 .. Len(log)
      BY <1>1
    <2> QED
      BY <2>1, OwnParts DEF OrderInv
  <1>6. /\ log[i].head \notin Span(log[i].pay, log[i].size)
        /\ log[i].pay = 0 => \A b \in Blocks : log[i].head < b => b \notin Occupied(log[i])
    <2>1. i \in 1 .. Len(log)
      BY <1>1
    <2>2. EndsAt(log[i], LapAt(i + 1), PosAt(i + 1)) /\ log[i] \in Message
      BY <2>1 DEF OrderInv, ChainInv, TypeInside, TypeOK
    <2>3. /\ log[i].head \in Nat /\ log[i].pay \in Nat /\ log[i].size \in Nat
          /\ log[i].pay = log[i].head + 1 \/ (log[i].pay = 0 /\ log[i].size < log[i].head)
      <3>1. log[i].head \in Blocks /\ log[i].pay \in Nat /\ log[i].size \in Nat
        BY <2>2 DEF Message
      <3> QED
        BY <2>2, <3>1, RegionAssumption DEF EndsAt, Blocks
    <2>4. \A b : b \in Span(log[i].pay, log[i].size)
                    => b \in Nat /\ log[i].pay <= b /\ b < log[i].pay + log[i].size
      BY <2>3 DEF Span
    <2> QED
      BY <2>3, <2>4, RegionAssumption DEF Occupied, Blocks
  <1>7. \A b \in Blocks : Outside(LapAt(Marked + 1), PosAt(Marked + 1), b)
                                   => b \notin Occupied(log[i])
    BY <1>4, <1>5 DEF FreeFrom
  <1>8. Occupied(log[i]) \subseteq Blocks
    BY <1>5 DEF Own
  <1> QED
    BY <1>4, <1>5, <1>6, <1>7, <1>8

\* A message that is being written was not scanned yet.
LEMMA WriterAhead ==
    ASSUME TypeOK, OrderInv, NEW p \in Producers, Writing(p)
    PROVE  cur[p] \in ScannedTo + 1 .. Len(log) /\ cur[p] \in Marked + 1 .. Len(log)
  <1>1. cur[p] \in 1 .. Len(log) /\ log[cur[p]].state = "claimed"
    BY DEF OrderInv, WritersInv
  <1>2. ~(cur[p] \in 1 .. ScannedTo)
    BY <1>1 DEF OrderInv, BatchInv
  <1> QED
    BY <1>1, <1>2, Numbers DEF OrderInv

-----------------------------------------------------------------------------
(* Steps that leave the region and its messages as they are.                *)

LEMMA SameRegion ==
    ASSUME OrderInv,
           UNCHANGED <<shared, consumer, log, delivered, freed, allocLap, readLap, scanLap>>
    PROVE  /\ CountsInv' /\ ChainInv' /\ HandsInv' /\ CleanInv' /\ MemInv' /\ BatchInv'
           /\ DeliveredInv'
  <1> USE DEF OrderInv, shared, consumer
  <1>1. Marked' = Marked /\ ScannedTo' = ScannedTo
    BY DEF Marked, ScannedTo
  <1>2. /\ \A i : PosAt(i)' = PosAt(i) /\ LapAt(i)' = LapAt(i)
        /\ \A lap, pos, b : Outside(lap, pos, b)' <=> Outside(lap, pos, b)
        /\ \A b : Clean(b)' <=> Clean(b)
    BY DEF PosAt, LapAt, Outside, Clean
  <1>3. \A i : Holds(i)' <=> Holds(i)
    BY <1>2 DEF Holds
  <1>4. CountsInv'
    BY <1>1 DEF CountsInv
  <1>5. ChainInv'
    BY <1>2 DEF ChainInv
  <1>6. HandsInv'
    BY <1>1, <1>2 DEF HandsInv
  <1>7. CleanInv'
    BY <1>1, <1>2 DEF CleanInv
  <1>8. MemInv'
    BY <1>1, <1>3 DEF MemInv
  <1>9. BatchInv'
    BY <1>1 DEF BatchInv
  <1>10. DeliveredInv'
    BY DEF DeliveredInv
  <1> QED
    BY <1>4, <1>5, <1>6, <1>7, <1>8, <1>9, <1>10

LEMMA SameWriters ==
    ASSUME OrderInv, UNCHANGED <<mem, log, cur>>, NEW p \in Producers,
           ~Writing(p), ~(pc'[p] \in {"head", "encode", "unlock", "abandon"}),
           \A q \in Producers : q # p => pc'[q] = pc[q] /\ want'[q] = want[q]
    PROVE  WritersInv'
  BY DEF OrderInv, WritersInv, Writing

LEMMA AllocatingKept ==
    ASSUME OrderInv, NEW p \in Producers,
           TypeOK, pc' \in [Producers -> {"idle", "load", "cas", "head", "encode", "unlock",
                                          "abandon"}],
           UNCHANGED <<readLap, read_ptr>>,
           \A q \in Producers : q # p => /\ pc'[q] = pc[q] /\ handLap'[q] = handLap[q]
                                         /\ readHand'[q] = readHand[q],
           p \in Allocating' => NotAfter(handLap'[p], readHand'[p], readLap, read_ptr)
    PROVE  SnapshotInv'
  BY DEF OrderInv, SnapshotInv, Allocating

LEMMA AllocateStep ==
    ASSUME TypeInside, TypeInside', OrderInv, NEW p \in Producers,
           LoadReadHand(p) \/ LoadAllocHand(p) \/ Reject(p) \/ Retry(p)
    PROVE  OrderInv'
  <1>1. UNCHANGED <<shared, consumer, log, delivered, freed, allocLap, readLap, scanLap, cur>>
    BY DEF LoadReadHand, LoadAllocHand, Reject, Retry, ForgetHands, history
  <1>2. /\ ~Writing(p) /\ ~(pc'[p] \in {"head", "encode", "unlock", "abandon"})
        /\ \A q \in Producers : q # p => /\ pc'[q] = pc[q] /\ want'[q] = want[q]
                                         /\ handLap'[q] = handLap[q]
                                         /\ readHand'[q] = readHand[q]
    <2>1. /\ pc \in [Producers -> {"idle", "load", "cas", "head", "encode", "unlock", "abandon"}]
          /\ want \in [Producers -> Nat] /\ handLap \in [Producers -> Nat]
          /\ readHand \in [Producers -> Blocks]
      BY DEF TypeInside, TypeOK
    <2>2. CASE LoadReadHand(p)
      BY <2>1, <2>2 DEF LoadReadHand, Writing
    <2>3. CASE LoadAllocHand(p)
      BY <2>1, <2>3 DEF LoadAllocHand, history, Writing
    <2>4. CASE Reject(p)
      BY <2>1, <2>4 DEF Reject, ForgetHands, Writing
    <2>5. CASE Retry(p)
      BY <2>1, <2>5 DEF Retry, history, Writing
    <2> QED
      BY <2>2, <2>3, <2>4, <2>5
  <1>3. WritersInv'
    BY <1>1, <1>2, SameWriters DEF shared
  <1>4. p \in Allocating' => NotAfter(handLap'[p], readHand'[p], readLap, read_ptr)
    <2>1. CASE LoadReadHand(p)
      BY <2>1, RegionAssumption
      DEF LoadReadHand, NotAfter, TypeInside, TypeOK, Blocks
    <2>2. CASE Reject(p)
      BY <2>2 DEF Reject, Allocating, TypeInside, TypeOK
    <2>3. CASE LoadAllocHand(p) \/ Retry(p)
      BY <2>3 DEF LoadAllocHand, Retry, Allocating, history, OrderInv, SnapshotInv,
                  TypeInside, TypeOK
    <2> QED
      BY <2>1, <2>2, <2>3
  <1>5. SnapshotInv'
    BY <1>1, <1>2, <1>4, AllocatingKept DEF shared, TypeInside, TypeOK
  <1> QED
    BY <1>1, <1>3, <1>5, SameRegion DEF OrderInv

LEMMA EncodeFailsStep ==
    ASSUME TypeInside, OrderInv, NEW p \in Producers, EncodeFails(p)
    PROVE  OrderInv'
  <1>1. UNCHANGED <<shared, consumer, history>>
    BY DEF EncodeFails
  <1>2. WritersInv'
    BY DEF EncodeFails, OrderInv, WritersInv, Writing, shared, history, TypeInside, TypeOK
  <1>3. SnapshotInv'
    BY DEF EncodeFails, OrderInv, SnapshotInv, Allocating, shared, history, TypeInside, TypeOK
  <1> QED
    BY <1>1, <1>2, <1>3, SameRegion DEF OrderInv, history

LEMMA StutterStep ==
    ASSUME OrderInv, UNCHANGED vars
    PROVE  OrderInv'
  <1>1. WritersInv' /\ SnapshotInv'
    BY DEF vars, shared, locals, history, OrderInv, WritersInv, Writing, SnapshotInv, Allocating
  <1> QED
    BY <1>1, SameRegion DEF OrderInv, vars, history

-----------------------------------------------------------------------------
(* A writer at its message.                                                 *)

\* What is in memory elsewhere stays as it was, and the message keeps its place.
WritesOnly(i) ==
    /\ mem' \in [Blocks -> Word]
    /\ \A b \in Blocks : b \notin Occupied(log[i]) => mem'[b] = mem[b]
    /\ UNCHANGED <<read_ptr, alloc_ptr, consumer, delivered, freed, allocLap, readLap,
                   scanLap, handLap>>
    /\ Len(log') = Len(log)
    /\ \A j \in 1 .. Len(log) : j # i => log'[j] = log[j]
    /\ /\ log'[i].head = log[i].head /\ log'[i].pay = log[i].pay
       /\ log'[i].size = log[i].size /\ log'[i].lap = log[i].lap

LEMMA SamePlaces ==
    ASSUME TypeInside, OrderInv, NEW i \in 1 .. Len(log), WritesOnly(i)
    PROVE  /\ \A j \in 1 .. Len(log) + 1 : PosAt(j)' = PosAt(j) /\ LapAt(j)' = LapAt(j)
           /\ Marked' = Marked /\ ScannedTo' = ScannedTo
           /\ ChainInv' /\ HandsInv' /\ CountsInv'
  <1>1. Len(log) \in Nat
    BY DEF TypeInside, TypeOK
  <1>2. \A j \in 1 .. Len(log) : /\ log'[j].head = log[j].head /\ log'[j].pay = log[j].pay
                                 /\ log'[j].size = log[j].size /\ log'[j].lap = log[j].lap
    BY DEF WritesOnly
  <1>3. \A j \in 1 .. Len(log) + 1 : PosAt(j)' = PosAt(j) /\ LapAt(j)' = LapAt(j)
    BY <1>1, <1>2 DEF PosAt, LapAt, WritesOnly
  <1>4. Marked' = Marked /\ ScannedTo' = ScannedTo
    BY DEF Marked, ScannedTo, WritesOnly, consumer
  <1>5. CountsInv'
    BY <1>4 DEF OrderInv, CountsInv, WritesOnly, consumer
  <1>6. ChainInv'
    <2>1. \A j \in 1 .. Len(log) : EndsAt(log'[j], LapAt(j + 1), PosAt(j + 1))
      BY <1>2 DEF OrderInv, ChainInv, EndsAt
    <2>2. \A j \in 1 .. Len(log) : j + 1 \in 1 .. Len(log) + 1
      BY <1>1
    <2>3. \A j \in 1 .. Len(log') : EndsAt(log'[j], LapAt(j + 1)', PosAt(j + 1)')
      BY <1>3, <2>1, <2>2 DEF WritesOnly
    <2>4. \A j, k \in 1 .. Len(log) + 1 :
             j < k => Before(LapAt(j), PosAt(j), LapAt(k), PosAt(k))
      BY DEF OrderInv, ChainInv
    <2>5. \A j, k \in 1 .. Len(log') + 1 :
             j < k => Before(LapAt(j)', PosAt(j)', LapAt(k)', PosAt(k)')
      BY <1>3, <2>4 DEF WritesOnly
    <2> QED
      BY <2>3, <2>5 DEF ChainInv
  <1>7. HandsInv'
    <2>1. freed + 1 \in 1 .. Len(log) + 1 /\ ScannedTo + 1 \in 1 .. Len(log) + 1
      BY Numbers DEF OrderInv, TypeInside
    <2> QED
      BY <1>3, <1>4, <2>1 DEF OrderInv, HandsInv, WritesOnly, consumer
  <1> QED
    BY <1>3, <1>4, <1>5, <1>6, <1>7

\* Everybody else finds what was there.
LEMMA OthersKept ==
    ASSUME TypeInside, OrderInv, NEW i \in Marked + 1 .. Len(log), WritesOnly(i)
    PROVE  /\ CleanInv'
           /\ \A j \in Marked + 1 .. Len(log) : j # i => Holds(j)'
           /\ \A j \in Marked + 1 .. Len(log) : j # i =>
                 /\ mem'[log[j].head] = mem[log[j].head]
                 /\ \A b \in Span(log[j].pay, log[j].size) : mem'[b] = mem[b]
           /\ log[i].pay = 0 => \A b \in Blocks : log[i].head < b => Clean(b)'
  <1>1. i \in 1 .. Len(log) /\ Marked + 1 \in 1 .. Len(log) + 1
        /\ Marked + 1 .. Len(log) \subseteq 1 .. Len(log)
    BY Numbers DEF TypeInside, OrderInv
  <1>2. LapAt(Marked + 1)' = LapAt(Marked + 1) /\ PosAt(Marked + 1)' = PosAt(Marked + 1)
        /\ Marked' = Marked
    BY <1>1, SamePlaces
  <1>3. \A b \in Blocks : b \notin Occupied(log[i]) => (Clean(b)' <=> Clean(b))
    BY DEF WritesOnly, Clean
  <1>4. CleanInv'
    <2>1. \A b \in Blocks : Outside(LapAt(Marked + 1), PosAt(Marked + 1), b) => Clean(b)'
      BY <1>3, Apart DEF OrderInv, CleanInv
    <2>2. \A b : Outside(LapAt(Marked + 1), PosAt(Marked + 1), b)'
                    <=> Outside(LapAt(Marked + 1), PosAt(Marked + 1), b)
      BY <1>2 DEF Outside, WritesOnly
    <2> QED
      BY <1>2, <2>1, <2>2 DEF CleanInv
  <1>5. ASSUME NEW j \in Marked + 1 .. Len(log), j # i
        PROVE  /\ log[j].head \in Blocks /\ log[j].head \notin Occupied(log[i])
               /\ mem'[log[j].head] = mem[log[j].head]
               /\ \A b \in Span(log[j].pay, log[j].size) : mem'[b] = mem[b]
    <2>1. Occupied(log[j]) \subseteq Blocks /\ Occupied(log[j]) \cap Occupied(log[i]) = {}
      BY <1>5, Apart
    <2> QED
      BY <2>1 DEF WritesOnly, Occupied
  <1>6. ASSUME NEW j \in Marked + 1 .. Len(log), j # i
        PROVE  Holds(j)'
    <2>1. log'[j] = log[j]
      BY <1>1, <1>6 DEF WritesOnly
    <2>2. Holds(j)
      BY DEF OrderInv, MemInv
    <2>3. log[j].pay = 0 => \A b \in Blocks : log[j].head < b => Clean(b)'
      BY <1>3, <1>6, <2>2, Apart DEF Holds
    <2> QED
      BY <1>3, <1>5, <1>6, <2>1, <2>2, <2>3 DEF Holds
  <1>7. log[i].pay = 0 => \A b \in Blocks : log[i].head < b => Clean(b)'
    BY <1>3, Apart DEF OrderInv, MemInv, Holds
  <1> QED
    BY <1>4, <1>5, <1>6, <1>7

\* What a writer has to show for its own message.
LEMMA WriterMoves ==
    ASSUME TypeInside, TypeInside', OrderInv, NEW p \in Producers, Writing(p),
           NEW i, i = cur[p], WritesOnly(i), Holds(i)',
           \A q \in Producers : q # p => /\ pc'[q] = pc[q] /\ want'[q] = want[q]
                                         /\ cur'[q] = cur[q] /\ readHand'[q] = readHand[q],
           pc'[p] \notin {"load", "cas", "head"},
           pc'[p] \in {"encode", "unlock", "abandon"} =>
               /\ cur'[p] = cur[p] /\ log'[cur[p]].state = "claimed" /\ want'[p] = want[p]
               /\ mem'[log[cur[p]].head] = HeadWord(want[p], cur[p])
               /\ pc'[p] = "unlock" =>
                     \A b \in Span(log[cur[p]].pay, want[p]) : mem'[b].msg = cur[p]
    PROVE  OrderInv'
  <1>1. /\ i \in 1 .. Len(log) /\ i \in ScannedTo + 1 .. Len(log)
        /\ i \in Marked + 1 .. Len(log)
        /\ log[i].size = want[p] /\ log[i].state = "claimed"
    BY WriterAhead DEF OrderInv, WritersInv, TypeInside
  <1>2. /\ Len(log) \in Nat /\ ScannedTo \in Nat /\ Marked \in Nat /\ Len(batch) \in Nat
        /\ Len(delivered) \in Nat /\ Len(delivered) <= ScannedTo
        /\ Marked + Len(batch) = ScannedTo
    BY Numbers DEF OrderInv, TypeInside
  <1>3. Marked' = Marked /\ ScannedTo' = ScannedTo /\ ChainInv' /\ HandsInv' /\ CountsInv'
    BY <1>1, SamePlaces
  <1>4. Len(log') = Len(log) /\ \A j \in 1 .. ScannedTo : log'[j] = log[j]
    BY <1>1, <1>2 DEF WritesOnly
  <1>5. CleanInv'
    BY <1>1, OthersKept
  <1>6. MemInv'
    BY <1>1, <1>3, <1>4, OthersKept DEF MemInv
  <1>7. batch' = batch /\ delivered' = delivered
    BY DEF WritesOnly, consumer
  <1>8. BatchInv'
    <2>1. \A j \in 1 .. Len(batch) : Marked + j \in 1 .. ScannedTo
      BY <1>2
    <2> QED
      BY <1>3, <1>4, <1>7, <2>1 DEF OrderInv, BatchInv
  <1>9. DeliveredInv'
    <2>1. 1 .. Len(delivered) \subseteq 1 .. ScannedTo
      BY <1>2
    <2> QED
      BY <1>4, <1>7, <2>1 DEF OrderInv, DeliveredInv
  <1>10. SnapshotInv'
    <2>1. ~(p \in Allocating')
      BY DEF Allocating
    <2> QED
      BY <2>1, AllocatingKept DEF WritesOnly, TypeInside, TypeOK
  <1>11. WritersInv'
    <2>1. ASSUME NEW q \in Producers, q # p, Writing(q)
          PROVE  /\ cur'[q] \in 1 .. Len(log') /\ cur'[q] # i
                 /\ log'[cur'[q]].state = "claimed" /\ log'[cur'[q]].size = want'[q]
                 /\ pc'[q] # "head" =>
                       mem'[log'[cur'[q]].head] = HeadWord(want'[q], cur'[q])
                 /\ pc'[q] = "unlock" =>
                       \A b \in Span(log'[cur'[q]].pay, want'[q]) : mem'[b].msg = cur'[q]
      <3> DEFINE j == cur[q]
      <3>1. j \in 1 .. Len(log) /\ j \in Marked + 1 .. Len(log) /\ j # i
        BY <2>1, WriterAhead DEF OrderInv, WritersInv, TypeInside
      <3>2. log'[j] = log[j] /\ Len(log') = Len(log)
        BY <3>1 DEF WritesOnly
      <3>3. /\ mem'[log[j].head] = mem[log[j].head]
            /\ \A b \in Span(log[j].pay, log[j].size) : mem'[b] = mem[b]
        BY <1>1, <3>1, OthersKept
      <3>4. /\ log[j].state = "claimed" /\ log[j].size = want[q]
            /\ pc[q] # "head" => mem[log[j].head] = HeadWord(want[q], j)
            /\ pc[q] = "unlock" => \A b \in Span(log[j].pay, want[q]) : mem[b].msg = j
        BY <2>1 DEF OrderInv, WritersInv
      <3>5. pc'[q] = pc[q] /\ want'[q] = want[q] /\ cur'[q] = j
        BY <2>1
      <3> QED
        BY <3>1, <3>2, <3>3, <3>4, <3>5
    <2>2. \A q \in Producers : q # p => (Writing(q)' <=> Writing(q))
      BY DEF Writing
    <2>3. \A q, r \in Producers : Writing(q) /\ Writing(r) /\ q # r => cur[q] # cur[r]
      BY DEF OrderInv, WritersInv
    <2>4. ASSUME Writing(p)'
          PROVE  /\ cur'[p] = i /\ i \in 1 .. Len(log')
                 /\ log'[i].state = "claimed" /\ log'[i].size = want'[p]
                 /\ mem'[log'[i].head] = HeadWord(want'[p], i)
                 /\ pc'[p] = "unlock" =>
                       \A b \in Span(log'[i].pay, want'[p]) : mem'[b].msg = i
      <3>1. pc'[p] \in {"encode", "unlock", "abandon"}
        BY <2>4 DEF Writing
      <3> QED
        BY <1>1, <3>1 DEF WritesOnly
    <2>5. ASSUME NEW q \in Producers, Writing(q)'
          PROVE  /\ cur'[q] \in 1 .. Len(log')
                 /\ log'[cur'[q]].state = "claimed" /\ log'[cur'[q]].size = want'[q]
                 /\ pc'[q] # "head" =>
                       mem'[log'[cur'[q]].head] = HeadWord(want'[q], cur'[q])
                 /\ pc'[q] = "unlock" =>
                       \A b \in Span(log'[cur'[q]].pay, want'[q]) : mem'[b].msg = cur'[q]
      BY <2>1, <2>2, <2>4, <2>5
    <2>6. \A q, r \in Producers : Writing(q)' /\ Writing(r)' /\ r # q => cur'[r] # cur'[q]
      BY <2>1, <2>2, <2>3, <2>4
    <2> QED
      BY <2>5, <2>6 DEF WritersInv
  <1> QED
    BY <1>3, <1>5, <1>6, <1>8, <1>9, <1>10, <1>11 DEF OrderInv

LEMMA WriterStep ==
    ASSUME TypeInside, TypeInside', OrderInv, NEW p \in Producers,
           StoreHead(p) \/ Encode(p) \/ Unlock(p)
    PROVE  OrderInv'
  <1>1. PICK i : i = cur[p]
    OBVIOUS
  <1>2. Writing(p)
    BY DEF StoreHead, Encode, Unlock, Writing
  <1>3. /\ i \in 1 .. Len(log) /\ i \in Marked + 1 .. Len(log)
        /\ log[i].state = "claimed" /\ log[i].size = want[p]
        /\ pc[p] # "head" => mem[log[i].head] = HeadWord(want[p], i)
        /\ pc[p] = "unlock" => \A b \in Span(log[i].pay, want[p]) : mem[b].msg = i
    BY <1>1, <1>2, WriterAhead DEF OrderInv, WritersInv, TypeInside
  <1>4. /\ mem \in [Blocks -> Word] /\ mem' \in [Blocks -> Word] /\ i \in Nat
        /\ log \in Seq(Message) /\ want[p] \in Nat /\ log[i] \in Message
    <2>1. mem \in [Blocks -> Word] /\ log \in Seq(Message) /\ want[p] \in Nat
      BY DEF TypeInside, TypeOK
    <2>2. mem' \in [Blocks -> Word]
      BY DEF TypeInside, TypeOK
    <2> QED
      BY <1>3, <2>1, <2>2
  <1>5. /\ log[i].head \in Blocks /\ log[i].head \in Occupied(log[i])
        /\ Span(log[i].pay, log[i].size) \subseteq Occupied(log[i])
        /\ Occupied(log[i]) \subseteq Blocks
        /\ log[i].head \notin Span(log[i].pay, log[i].size)
    BY <1>3, Apart DEF Occupied
  <1>6. Holds(i)
    BY <1>3 DEF OrderInv, MemInv
  <1>7. CASE StoreHead(p)
    <2>1. mem' = [mem EXCEPT ![log[i].head] = HeadWord(want[p], i)]
          /\ pc' = [pc EXCEPT ![p] = "encode"]
          /\ UNCHANGED <<read_ptr, alloc_ptr, consumer, want, readHand, allocHand, cur, history>>
      BY <1>1, <1>7 DEF StoreHead
    <2>2. WritesOnly(i)
      BY <1>4, <1>5, <2>1 DEF WritesOnly, history
    <2>3. mem'[log[i].head] = HeadWord(want[p], i) /\ log' = log
      BY <1>4, <1>5, <2>1 DEF history
    <2>4. Clean(log[i].head)'
      BY <2>3 DEF Clean, HeadWord
    <2>5. Holds(i)'
      BY <1>3, <2>2, <2>3, <2>4, OthersKept DEF Holds
    <2>6. pc'[p] = "encode" /\ cur' = cur /\ want' = want
          /\ \A q \in Producers : q # p => pc'[q] = pc[q] /\ readHand'[q] = readHand[q]
      BY <2>1 DEF TypeInside, TypeOK
    <2> QED
      BY <1>1, <1>2, <1>3, <2>2, <2>3, <2>5, <2>6, WriterMoves
  <1>8. CASE Encode(p)
    <2>1. mem' = Overwrite(mem, Span(log[i].pay, want[p]), DataWord(i))
          /\ pc[p] = "encode" /\ pc' = [pc EXCEPT ![p] = "unlock"]
          /\ UNCHANGED <<read_ptr, alloc_ptr, consumer, want, readHand, allocHand, cur, history>>
      BY <1>1, <1>8 DEF Encode
    <2>2. WritesOnly(i)
      BY <1>3, <1>4, <1>5, <2>1 DEF WritesOnly, history, Overwrite
    <2>3. /\ mem'[log[i].head] = HeadWord(want[p], i) /\ log' = log
          /\ \A b \in Span(log[i].pay, want[p]) : mem'[b] = DataWord(i)
      BY <1>3, <1>5, <2>1 DEF history, Overwrite
    <2>4. Clean(log[i].head)'
      BY <2>3 DEF Clean, HeadWord
    <2>5. \A b \in Span(log[i].pay, want[p]) : mem'[b].msg = i
      BY <2>3 DEF DataWord
    <2>6. Holds(i)'
      BY <1>3, <2>2, <2>3, <2>4, <2>5, OthersKept DEF Holds
    <2>7. pc'[p] = "unlock" /\ cur' = cur /\ want' = want
          /\ \A q \in Producers : q # p => pc'[q] = pc[q] /\ readHand'[q] = readHand[q]
      BY <2>1 DEF TypeInside, TypeOK
    <2> QED
      BY <1>1, <1>2, <1>3, <2>2, <2>3, <2>5, <2>6, <2>7, WriterMoves
  <1>9. CASE Unlock(p)
    <2> DEFINE s == IF pc[p] = "unlock" THEN "published" ELSE "broken"
    <2>1. /\ mem' = [mem EXCEPT ![log[i].head] = Unlocked(mem[log[i].head])]
          /\ log' = [log EXCEPT ![i] = Settled(log[i], s)]
          /\ pc[p] \in {"unlock", "abandon"} /\ pc' = [pc EXCEPT ![p] = "idle"]
          /\ want' = [want EXCEPT ![p] = 0] /\ cur' = [cur EXCEPT ![p] = 0]
          /\ UNCHANGED <<read_ptr, alloc_ptr, consumer, readHand, allocHand,
                         delivered, freed, allocLap, readLap, scanLap, handLap, overtaken>>
      BY <1>1, <1>9 DEF Unlock
    <2>2. /\ log'[i] = Settled(log[i], s) /\ Len(log') = Len(log)
          /\ \A j \in 1 .. Len(log) : j # i => log'[j] = log[j]
      <3> HIDE DEF s
      <3> QED
        BY <1>3, <1>4, <2>1
    <2>3. /\ log'[i].head = log[i].head /\ log'[i].pay = log[i].pay
          /\ log'[i].size = log[i].size /\ log'[i].lap = log[i].lap /\ log'[i].state = s
      BY <2>2 DEF Settled
    <2>4. WritesOnly(i)
      BY <1>4, <1>5, <2>1, <2>2, <2>3 DEF WritesOnly
    <2>5. mem'[log[i].head] = Unlocked(HeadWord(want[p], i))
          /\ \A b \in Span(log[i].pay, want[p]) : mem'[b] = mem[b]
      <3>1. /\ \A b : b # log[i].head => mem'[b] = mem[b]
            /\ log[i].head \in DOMAIN mem => mem'[log[i].head] = Unlocked(mem[log[i].head])
        BY <2>1
      <3>2. pc[p] # "head"
        BY <2>1
      <3> QED
        BY <1>3, <1>4, <1>5, <3>1, <3>2
    <2>6. Holds(i)'
      <3>1. log[i].pay = 0 => \A b \in Blocks : log[i].head < b => Clean(b)'
        BY <1>3, <2>4, OthersKept
      <3>2. s = "published" => pc[p] = "unlock"
        OBVIOUS
      <3>3. s # "claimed"
        OBVIOUS
      <3> HIDE DEF s
      <3> QED
        BY <1>3, <2>3, <2>5, <3>1, <3>2, <3>3 DEF Holds
    <2>7. pc'[p] = "idle"
          /\ \A q \in Producers : q # p => /\ pc'[q] = pc[q] /\ readHand'[q] = readHand[q]
                                           /\ want'[q] = want[q] /\ cur'[q] = cur[q]
      BY <2>1 DEF TypeInside, TypeOK
    <2> QED
      BY <1>1, <1>2, <2>4, <2>6, <2>7, WriterMoves
  <1> QED
    BY <1>7, <1>8, <1>9

-----------------------------------------------------------------------------
(* A claim.                                                                 *)

\* The lap of the alloc hand behind a placement.
LapAfter(lap, a, r, k) == IF Straight(a, r, k) THEN lap ELSE lap + 1

\* The placement rule decides where a message ends.
LEMMA ClaimEnds ==
    ASSUME NEW e \in Message, NEW r \in Blocks, Fits(e.head, r, e.size),
           e.pay = PayloadAt(e.head, r, e.size)
    PROVE  EndsAt(e, LapAfter(e.lap, e.head, r, e.size), EndAt(e.head, r, e.size))
  <1> DEFINE a == e.head
             k == e.size
             al == e.lap
  <1>0. a \in Blocks /\ k \in Nat /\ al \in Nat
    BY DEF Message
  <1> HIDE DEF a, k, al
  <1> USE <1>0, RegionAssumption DEF Blocks, LapAfter
  <1>1. CASE Straight(a, r, k)
    <2>1. a + 1 + k < RegionBlocks
      BY <1>1 DEF Straight, BufferEnd, CanWrap
    <2>2. PayloadAt(a, r, k) = a + 1 /\ EndAt(a, r, k) = a + 1 + k
      BY <1>1 DEF PayloadAt, EndAt, Split, Flush
    <2> QED
      BY <1>1, <2>1, <2>2 DEF EndsAt, a, k, al
  <1>2. CASE Flush(a, r, k)
    <2>1. a + 1 + k = RegionBlocks /\ ~Straight(a, r, k)
      BY <1>2 DEF Flush
    <2>2. PayloadAt(a, r, k) = a + 1 /\ EndAt(a, r, k) = 0
      BY <1>2, <2>1 DEF PayloadAt, EndAt, Split
    <2> QED
      BY <2>1, <2>2 DEF EndsAt, a, k, al
  <1>3. CASE Split(a, r, k)
    <2>1. a >= r /\ k < r /\ ~Straight(a, r, k)
      BY <1>3 DEF Split, CanWrap
    <2>2. a + 1 + k > RegionBlocks
      BY <1>3, <2>1 DEF Split, Straight, Flush, BufferEnd, CanWrap
    <2>3. PayloadAt(a, r, k) = 0 /\ EndAt(a, r, k) = k
      BY <1>3, <2>1 DEF PayloadAt, EndAt
    <2> QED
      BY <2>1, <2>2, <2>3 DEF EndsAt, a, k, al
  <1> QED
    BY <1>1, <1>2, <1>3 DEF Fits, a, k

\* A placement made with a read hand the alloc hand did not go round past stays behind
\* the read hand there is now, which is at or ahead of it.
LEMMA ClaimInOrder ==
    ASSUME NEW al \in Nat, NEW rl \in Nat, NEW hl \in Nat, NEW a \in Blocks,
           NEW rp \in Blocks, NEW r \in Blocks, NEW k \in Nat, Fits(a, r, k),
           NotAfter(hl, r, rl, rp), Ordered(rl, rp, al, a), Ordered(hl, r, al, a)
    PROVE  /\ Ordered(rl, rp, LapAfter(al, a, r, k), EndAt(a, r, k))
           /\ Before(al, a, LapAfter(al, a, r, k), EndAt(a, r, k))
           /\ PayloadAt(a, r, k) = 0 => rl = al
  <1> DEFINE al2 == LapAfter(al, a, r, k)
  <1> USE RegionAssumption DEF Blocks, Ordered, NotAfter, Before, LapAfter
  <1>1. CASE Straight(a, r, k)
    <2>1. a + 1 + k < RegionBlocks /\ (a >= r \/ a + 1 + k < r)
      BY <1>1 DEF Straight, BufferEnd, CanWrap
    <2>2. PayloadAt(a, r, k) = a + 1 /\ EndAt(a, r, k) = a + 1 + k /\ al2 = al
      BY <1>1 DEF PayloadAt, EndAt, Split, Flush
    <2> QED
      BY <2>1, <2>2
  <1>2. CASE Flush(a, r, k)
    <2>1. a >= r /\ a + 1 + k = RegionBlocks /\ r # 0 /\ ~Straight(a, r, k)
      BY <1>2 DEF Flush, CanWrap
    <2>2. PayloadAt(a, r, k) = a + 1 /\ EndAt(a, r, k) = 0 /\ al2 = al + 1
      BY <1>2, <2>1 DEF PayloadAt, EndAt, Split
    <2> QED
      BY <2>1, <2>2
  <1>3. CASE Split(a, r, k)
    <2>1. a >= r /\ k < r /\ ~Straight(a, r, k)
      BY <1>3 DEF Split, CanWrap
    <2>2. a + 1 + k > RegionBlocks
      BY <1>3, <2>1 DEF Split, Straight, Flush, BufferEnd, CanWrap
    <2>3. PayloadAt(a, r, k) = 0 /\ EndAt(a, r, k) = k /\ al2 = al + 1
      BY <1>3, <2>1 DEF PayloadAt, EndAt
    <2> QED
      BY <2>1, <2>2, <2>3
  <1> QED
    BY <1>1, <1>2, <1>3 DEF Fits

\* The new message begins at the alloc hand.
LEMMA ClaimPlaces ==
    ASSUME TypeInside, OrderInv, NEW e \in Message, log' = Append(log, e),
           e.head = alloc_ptr, e.lap = allocLap
    PROVE  /\ Len(log') = Len(log) + 1 /\ Len(log) \in Nat
           /\ \A i \in 1 .. Len(log) : log'[i] = log[i]
           /\ log'[Len(log) + 1] = e
           /\ \A i \in 1 .. Len(log) + 1 : PosAt(i)' = PosAt(i) /\ LapAt(i)' = LapAt(i)
           /\ \A i : i = Len(log) + 2 => PosAt(i)' = alloc_ptr' /\ LapAt(i)' = allocLap'
           /\ PosAt(Len(log) + 1) = alloc_ptr /\ LapAt(Len(log) + 1) = allocLap
  <1>1. log \in Seq(Message) /\ Len(log) \in Nat
    BY DEF TypeInside, TypeOK
  <1>2. /\ Len(log') = Len(log) + 1 /\ log'[Len(log) + 1] = e
        /\ \A i \in 1 .. Len(log) : log'[i] = log[i]
    BY <1>1
  <1>3. \A i \in 1 .. Len(log) : PosAt(i)' = PosAt(i) /\ LapAt(i)' = LapAt(i)
    BY <1>1, <1>2 DEF PosAt, LapAt
  <1>4. /\ PosAt(Len(log) + 1) = alloc_ptr /\ LapAt(Len(log) + 1) = allocLap
        /\ ~(Len(log) + 2 <= Len(log'))
    BY <1>1, <1>2 DEF PosAt, LapAt
  <1>5. \A i : i = Len(log) + 2 => PosAt(i)' = alloc_ptr' /\ LapAt(i)' = allocLap'
    BY <1>4 DEF PosAt, LapAt
  <1>6. PICK n : n = Len(log) + 1
    OBVIOUS
  <1>7. PosAt(n)' = e.head /\ LapAt(n)' = e.lap
    BY <1>1, <1>2, <1>6 DEF PosAt, LapAt
  <1>8. \A i \in 1 .. Len(log) + 1 : i \in 1 .. Len(log) \/ i = n
    BY <1>1, <1>6
  <1> QED
    BY <1>1, <1>2, <1>3, <1>4, <1>5, <1>6, <1>7, <1>8

LEMMA ClaimStep ==
    ASSUME TypeInside, TypeInside', OrderInv, NEW p \in Producers, Claim(p), ~overtaken'
    PROVE  OrderInv'
  <1> DEFINE a == allocHand[p]
             r == readHand[p]
             k == want[p]
             new == [head |-> a, pay |-> PayloadAt(a, r, k), size |-> k,
                     lap |-> allocLap, state |-> "claimed"]
  <1>1. PICK e : e = new
    OBVIOUS
  <1>2. /\ pc[p] = "cas" /\ Fits(a, r, k) /\ alloc_ptr = a /\ alloc_ptr' = EndAt(a, r, k)
        /\ allocLap' = IF Straight(a, r, k) THEN allocLap ELSE allocLap + 1
        /\ log' = Append(log, e)
        /\ cur' = [cur EXCEPT ![p] = Len(log) + 1] /\ pc' = [pc EXCEPT ![p] = "head"]
        /\ UNCHANGED <<read_ptr, mem, consumer, want, delivered, freed, readLap, scanLap>>
        /\ Fresh(p)
        /\ \A q \in Producers : q # p => handLap'[q] = handLap[q] /\ readHand'[q] = readHand[q]
    <2>1. /\ handLap \in [Producers -> Nat] /\ readHand \in [Producers -> Blocks]
          /\ overtaken' = (overtaken \/ ~Fresh(p))
      BY DEF Claim, TypeInside, TypeOK
    <2>2. Fresh(p)
      BY <2>1
    <2>3. handLap' = [handLap EXCEPT ![p] = 0] /\ readHand' = [readHand EXCEPT ![p] = 0]
      BY DEF Claim, ForgetHands
    <2> QED
      BY <1>1, <2>1, <2>2, <2>3 DEF Claim
  <1>3. /\ a \in Blocks /\ r \in Blocks /\ k \in Nat /\ handLap[p] \in Nat
        /\ allocLap \in Nat /\ readLap \in Nat /\ read_ptr \in Blocks
        /\ alloc_ptr' \in Blocks /\ allocLap' \in Nat
    BY DEF TypeInside, TypeOK
  <1>4. /\ e.head = a /\ e.pay = PayloadAt(a, r, k) /\ e.size = k /\ e.lap = allocLap
        /\ e.state = "claimed" /\ e \in Message
    <2>1. PayloadAt(a, r, k) \in Nat
      BY <1>2, <1>3, PlacementInside
    <2> HIDE DEF a, r, k
    <2> QED
      BY <1>1, <1>3, <2>1 DEF Message
  <1> HIDE DEF new
  <1>5. NotAfter(handLap[p], r, readLap, read_ptr)
    BY <1>2 DEF OrderInv, SnapshotInv, Allocating
  <1>6. /\ Ordered(readLap, read_ptr, allocLap', alloc_ptr')
        /\ Before(allocLap, alloc_ptr, allocLap', alloc_ptr')
        /\ EndsAt(e, allocLap', alloc_ptr')
        /\ e.pay = 0 => readLap = allocLap
    <2>1. Ordered(readLap, read_ptr, allocLap, a) /\ Ordered(handLap[p], r, allocLap, a)
      BY <1>2 DEF OrderInv, HandsInv, Fresh
    <2> HIDE DEF a, r, k
    <2>2. allocLap' = LapAfter(allocLap, a, r, k)
      BY <1>2 DEF LapAfter
    <2>3. /\ Ordered(readLap, read_ptr, LapAfter(allocLap, a, r, k), EndAt(a, r, k))
          /\ Before(allocLap, a, LapAfter(allocLap, a, r, k), EndAt(a, r, k))
          /\ PayloadAt(a, r, k) = 0 => readLap = allocLap
      BY <1>2, <1>3, <1>5, <2>1, ClaimInOrder
    <2>4. EndsAt(e, LapAfter(allocLap, a, r, k), EndAt(a, r, k))
      BY <1>2, <1>3, <1>4, ClaimEnds
    <2> QED
      BY <1>2, <1>4, <2>2, <2>3, <2>4
  <1> HIDE DEF a, r, k
  <1>7. /\ Len(log') = Len(log) + 1 /\ Len(log) \in Nat
        /\ \A i \in 1 .. Len(log) : log'[i] = log[i]
        /\ log'[Len(log) + 1] = e
        /\ \A i \in 1 .. Len(log) + 1 : PosAt(i)' = PosAt(i) /\ LapAt(i)' = LapAt(i)
        /\ \A i : i = Len(log) + 2 => PosAt(i)' = alloc_ptr' /\ LapAt(i)' = allocLap'
        /\ PosAt(Len(log) + 1) = alloc_ptr /\ LapAt(Len(log) + 1) = allocLap
    BY <1>2, <1>4, ClaimPlaces
  <1>8. /\ freed \in Nat /\ Marked \in Nat /\ ScannedTo \in Nat /\ Len(batch) \in Nat
        /\ Len(delivered) \in Nat /\ freed <= Marked /\ Marked <= ScannedTo
        /\ Len(delivered) <= ScannedTo /\ ScannedTo <= Len(log)
        /\ Marked + Len(batch) = ScannedTo
    BY Numbers DEF OrderInv, TypeInside
  <1>9. Marked' = Marked /\ ScannedTo' = ScannedTo /\ mem' = mem /\ batch' = batch
        /\ delivered' = delivered /\ freed' = freed /\ cpc' = cpc
    BY <1>2 DEF Marked, ScannedTo, consumer
  <1>10. CountsInv'
    BY <1>7, <1>8, <1>9 DEF OrderInv, CountsInv
  <1>11. \A i \in 1 .. Len(log) + 1 : LapAt(i) \in Nat /\ PosAt(i) \in Blocks
    BY <1>7, Positions DEF TypeInside
  <1>12. ChainInv'
    <2>1. ASSUME NEW i \in 1 .. Len(log')
          PROVE  EndsAt(log'[i], LapAt(i + 1)', PosAt(i + 1)')
      <3>1. CASE i \in 1 .. Len(log)
        <4>1. EndsAt(log[i], LapAt(i + 1), PosAt(i + 1))
          BY <3>1 DEF OrderInv, ChainInv
        <4>2. i + 1 \in 1 .. Len(log) + 1
          BY <1>7, <3>1
        <4> QED
          BY <1>7, <3>1, <4>1, <4>2
      <3>2. CASE i = Len(log) + 1
        <4>1. i + 1 = Len(log) + 2
          BY <1>7, <3>2
        <4> QED
          BY <1>6, <1>7, <3>2, <4>1
      <3> QED
        BY <1>7, <3>1, <3>2
    <2>2. ASSUME NEW i \in 1 .. Len(log') + 1, NEW j \in 1 .. Len(log') + 1, i < j
          PROVE  Before(LapAt(i)', PosAt(i)', LapAt(j)', PosAt(j)')
      <3>1. i \in 1 .. Len(log) + 1
        BY <1>7, <2>2
      <3>2. CASE j \in 1 .. Len(log) + 1
        BY <1>7, <2>2, <3>1, <3>2 DEF OrderInv, ChainInv
      <3>3. CASE j = Len(log) + 2
        <4>1. NotAfter(LapAt(i), PosAt(i), allocLap, alloc_ptr)
          <5>1. Len(log) + 1 \in 1 .. Len(log) + 1 /\ i <= Len(log) + 1
            BY <1>7, <3>1
          <5> QED
            BY <1>7, <3>1, <5>1, Rises DEF OrderInv, TypeInside
        <4>2. Before(LapAt(i), PosAt(i), allocLap', alloc_ptr')
          BY <1>2, <1>3, <1>6, <1>11, <3>1, <4>1 DEF NotAfter, Before, Blocks
        <4> QED
          BY <1>7, <3>1, <3>3, <4>2
      <3> QED
        BY <1>7, <3>2, <3>3
    <2> QED
      BY <2>1, <2>2 DEF ChainInv
  <1>13. /\ freed + 1 \in 1 .. Len(log) + 1 /\ ScannedTo + 1 \in 1 .. Len(log) + 1
         /\ Marked + 1 \in 1 .. Len(log) + 1
    BY <1>7, <1>8
  <1>14. HandsInv'
    BY <1>2, <1>6, <1>7, <1>9, <1>13 DEF OrderInv, HandsInv, consumer
  <1>15. SnapshotInv'
    <2>1. ~(p \in Allocating')
      BY <1>2 DEF Allocating, TypeInside, TypeOK
    <2>2. \A q \in Producers : q # p => pc'[q] = pc[q]
      BY <1>2
    <2> QED
      BY <1>2, <2>1, <2>2, AllocatingKept DEF TypeInside, TypeOK
  <1>16. \A b \in Blocks : Outside(LapAt(Marked + 1), PosAt(Marked + 1), b)'
                              => Outside(LapAt(Marked + 1), PosAt(Marked + 1), b)
    <2> DEFINE lap == LapAt(Marked + 1)
               pos == PosAt(Marked + 1)
    <2>1. lap \in Nat /\ pos \in Blocks
      BY <1>11, <1>13
    <2>2. NotAfter(readLap, read_ptr, lap, pos) /\ NotAfter(lap, pos, allocLap, alloc_ptr)
      <3>1. /\ Len(log) + 1 \in 1 .. Len(log) + 1 /\ Marked + 1 <= Len(log) + 1
            /\ freed + 1 <= Marked + 1
        BY <1>7, <1>8
      <3>2. readLap = LapAt(freed + 1) /\ read_ptr = PosAt(freed + 1)
        BY DEF OrderInv, HandsInv
      <3> QED
        BY <1>7, <1>13, <3>1, <3>2, Rises DEF OrderInv, TypeInside
    <2>3. LapAt(Marked + 1)' = lap /\ PosAt(Marked + 1)' = pos
      <3>1. \A i : i = Marked + 1 => LapAt(i)' = LapAt(i) /\ PosAt(i)' = PosAt(i)
        BY <1>7, <1>13
      <3>2. PICK i : i = Marked + 1
        OBVIOUS
      <3>3. Marked' + 1 = i
        BY <1>9, <3>2
      <3>4. LapAt(Marked + 1)' = LapAt(i)' /\ PosAt(Marked + 1)' = PosAt(i)'
        BY <3>3
      <3> QED
        BY <3>1, <3>2, <3>4
    <2> HIDE DEF lap, pos
    <2>4. alloc_ptr \in Blocks
      BY <1>2, <1>3
    <2>5. ASSUME NEW b \in Blocks,
                 IF lap = allocLap' THEN b < pos \/ alloc_ptr' <= b
                                    ELSE alloc_ptr' <= b /\ b < pos
          PROVE  IF lap = allocLap THEN b < pos \/ alloc_ptr <= b
                                   ELSE alloc_ptr <= b /\ b < pos
      BY <1>3, <1>6, <2>1, <2>2, <2>4, <2>5 DEF NotAfter, Ordered, Before, Blocks
    <2> QED
      BY <2>3, <2>5 DEF Outside, lap, pos
  <1>17. \A b : Clean(b)' <=> Clean(b)
    BY <1>9 DEF Clean
  <1>18. CleanInv'
    BY <1>16, <1>17 DEF OrderInv, CleanInv
  <1>19. MemInv'
    <2>1. ASSUME NEW i \in Marked + 1 .. Len(log)
          PROVE  Holds(i)'
      <3>1. Holds(i) /\ log'[i] = log[i]
        BY <1>7, <1>8, <2>1 DEF OrderInv, MemInv
      <3> QED
        BY <1>9, <1>17, <3>1 DEF Holds
    <2>2. ASSUME NEW i, i = Len(log) + 1
          PROVE  Holds(i)'
      <3>1. Marked + 1 \in freed + 1 .. Len(log) + 1 /\ Marked + 1 \in Nat /\ Marked + 1 > 0
            /\ Marked + 1 \in 1 .. Len(log) + 1
        BY <1>7, <1>8
      <3>2. Ordered(LapAt(Marked + 1), PosAt(Marked + 1), allocLap, alloc_ptr)
        BY <3>1, PlacesOrdered DEF TypeInside
      <3>3. Clean(e.head)
        BY <1>2, <1>4, <3>1, <3>2, AllocFree DEF FreeFrom, OrderInv, CleanInv, TypeInside
      <3>4. ASSUME e.pay = 0, NEW b \in Blocks, e.head < b
            PROVE  Clean(b)
        <4>1. NotAfter(readLap, read_ptr, LapAt(Marked + 1), PosAt(Marked + 1))
          <5>1. freed + 1 <= Marked + 1 /\ freed + 1 \in 1 .. Len(log) + 1
            BY <1>8, <1>13
          <5> QED
            BY <3>1, <5>1, Rises DEF OrderInv, HandsInv, TypeInside
        <4>2. LapAt(Marked + 1) = allocLap
          BY <1>3, <1>6, <1>11, <3>1, <3>2, <3>4, <4>1 DEF NotAfter, Ordered
        <4>3. alloc_ptr <= b
          BY <1>2, <1>3, <1>4, <3>4, RegionAssumption DEF Blocks
        <4> QED
          BY <4>2, <4>3 DEF Outside, OrderInv, CleanInv
      <3>5. log'[i] = e
        BY <1>7, <2>2
      <3> QED
        BY <1>4, <1>17, <3>3, <3>4, <3>5 DEF Holds
    <2>3. \A i \in Marked + 1 .. Len(log') : i \in Marked + 1 .. Len(log) \/ i = Len(log) + 1
      BY <1>7, <1>8
    <2> QED
      BY <1>9, <2>1, <2>2, <2>3 DEF MemInv
  <1>20. /\ \A j \in 1 .. Len(batch) : Marked + j \in 1 .. Len(log)
         /\ 1 .. ScannedTo \subseteq 1 .. Len(log)
         /\ 1 .. Len(delivered) \subseteq 1 .. Len(log)
    BY <1>7, <1>8
  <1>21. BatchInv'
    BY <1>7, <1>9, <1>20 DEF OrderInv, BatchInv
  <1>22. DeliveredInv'
    BY <1>7, <1>9, <1>20 DEF OrderInv, DeliveredInv
  <1>23. WritersInv'
    <2>1. ASSUME NEW q \in Producers, q # p, Writing(q)
          PROVE  /\ cur'[q] = cur[q] /\ cur[q] \in 1 .. Len(log) /\ log'[cur[q]] = log[cur[q]]
                 /\ pc'[q] = pc[q] /\ want'[q] = want[q]
      BY <1>2, <1>7, <2>1 DEF OrderInv, WritersInv, TypeInside, TypeOK
    <2>2. \A q \in Producers : q # p => (Writing(q)' <=> Writing(q))
      BY <1>2 DEF Writing
    <2>3. /\ cur'[p] = Len(log) + 1 /\ pc'[p] = "head" /\ want'[p] = k
          /\ log'[Len(log) + 1] = e
      BY <1>2, <1>7 DEF TypeInside, TypeOK, k
    <2>4. ASSUME NEW q \in Producers, q # p, Writing(q)
          PROVE  /\ cur'[q] \in 1 .. Len(log') /\ cur'[q] # Len(log) + 1
                 /\ log'[cur'[q]].state = "claimed" /\ log'[cur'[q]].size = want'[q]
                 /\ pc'[q] # "head" =>
                       mem'[log'[cur'[q]].head] = HeadWord(want'[q], cur'[q])
                 /\ pc'[q] = "unlock" =>
                       \A b \in Span(log'[cur'[q]].pay, want'[q]) : mem'[b].msg = cur'[q]
      <3>1. cur[q] \in 1 .. Len(log') /\ cur[q] # Len(log) + 1
        BY <1>7, <2>1, <2>4
      <3>2. /\ log[cur[q]].state = "claimed" /\ log[cur[q]].size = want[q]
            /\ pc[q] # "head" => mem[log[cur[q]].head] = HeadWord(want[q], cur[q])
            /\ pc[q] = "unlock" =>
                  \A b \in Span(log[cur[q]].pay, want[q]) : mem[b].msg = cur[q]
        BY <2>4 DEF OrderInv, WritersInv
      <3> QED
        BY <1>9, <2>1, <2>4, <3>1, <3>2
    <2>5. \A q, s \in Producers : Writing(q) /\ Writing(s) /\ q # s => cur[q] # cur[s]
      BY DEF OrderInv, WritersInv
    <2>6. ASSUME NEW q \in Producers, Writing(q)'
          PROVE  /\ cur'[q] \in 1 .. Len(log')
                 /\ log'[cur'[q]].state = "claimed" /\ log'[cur'[q]].size = want'[q]
                 /\ pc'[q] # "head" =>
                       mem'[log'[cur'[q]].head] = HeadWord(want'[q], cur'[q])
                 /\ pc'[q] = "unlock" =>
                       \A b \in Span(log'[cur'[q]].pay, want'[q]) : mem'[b].msg = cur'[q]
      BY <1>4, <1>7, <2>2, <2>3, <2>4, <2>6
    <2>7. \A q, s \in Producers : Writing(q)' /\ Writing(s)' /\ s # q => cur'[s] # cur'[q]
      BY <2>1, <2>2, <2>3, <2>4, <2>5
    <2> QED
      BY <2>6, <2>7 DEF WritersInv
  <1> QED
    BY <1>10, <1>12, <1>14, <1>15, <1>18, <1>19, <1>21, <1>22, <1>23 DEF OrderInv

-----------------------------------------------------------------------------
(* The consumer.                                                            *)

\* An unlocked head is that of the next message, which its producer gave up.
LEMMA NextScanned ==
    ASSUME TypeInside, OrderInv, cpc = "scan", NEW h \in HeadsReadFrom(mem[readPos]), ~h.lock
    PROVE  /\ ScannedTo + 1 \in 1 .. Len(log)
           /\ log[ScannedTo + 1].state # "claimed"
           /\ readPos = log[ScannedTo + 1].head /\ scanLap = log[ScannedTo + 1].lap
           /\ h.size = log[ScannedTo + 1].size /\ h.msg = ScannedTo + 1
  <1> DEFINE n == ScannedTo + 1
  <1>1. /\ Len(log) \in Nat /\ ScannedTo \in Nat /\ Marked \in Nat /\ freed \in Nat
        /\ freed <= Marked /\ Marked <= ScannedTo /\ ScannedTo <= Len(log)
    BY Numbers DEF OrderInv, TypeInside
  <1>2. readPos = PosAt(n) /\ scanLap = LapAt(n) /\ readPos \in Blocks
    BY DEF OrderInv, HandsInv, TypeInside, TypeOK
  <1>3. Clean(readPos) => HeadsReadFrom(mem[readPos]) = {mem[readPos]} /\ mem[readPos].lock
    BY DEF Clean, HeadsReadFrom
  <1>4. ~Clean(readPos)
    BY <1>3
  <1>5. n \in 1 .. Len(log)
    <2> SUFFICES ASSUME n = Len(log) + 1 PROVE FALSE
      BY <1>1
    <2>1. readPos = alloc_ptr
      BY <1>1, <1>2 DEF PosAt
    <2>2. Marked + 1 \in freed + 1 .. Len(log) + 1 /\ Marked + 1 \in Nat /\ Marked + 1 > 0
      BY <1>1
    <2>3. Ordered(LapAt(Marked + 1), PosAt(Marked + 1), allocLap, alloc_ptr)
      BY <2>2, PlacesOrdered DEF TypeInside
    <2> QED
      BY <1>2, <1>4, <2>1, <2>2, <2>3, AllocFree DEF FreeFrom, OrderInv, CleanInv, TypeInside
  <1>6. readPos = log[n].head /\ scanLap = log[n].lap
    BY <1>2, <1>5 DEF PosAt, LapAt
  <1>7. Holds(n) /\ n \in Nat
    <2>1. n \in Marked + 1 .. Len(log)
      BY <1>1, <1>5
    <2> QED
      BY <1>1, <2>1 DEF OrderInv, MemInv
  <1> HIDE DEF n
  <1>8. log[n].state # "claimed" /\ mem[readPos] = Unlocked(HeadWord(log[n].size, n))
    BY <1>4, <1>6, <1>7 DEF Holds
  <1>9. h = Unlocked(HeadWord(log[n].size, n))
    BY <1>8 DEF HeadsReadFrom, Unlocked, HeadWord
  <1>10. h.size = log[n].size /\ h.msg = n
    BY <1>9 DEF Unlocked, HeadWord
  <1> QED
    BY <1>5, <1>6, <1>8, <1>10 DEF n

\* A scan never finds a size beyond the region.
LEMMA NeverOutside ==
    ASSUME TypeInside, OrderInv, ScanOutside
    PROVE  FALSE
  <1>1. PICK h \in HeadsReadFrom(mem[readPos]) : ~h.lock /\ h.size >= RegionBlocks
    BY DEF ScanOutside
  <1> DEFINE n == ScannedTo + 1
  <1>2. n \in 1 .. Len(log) /\ h.size = log[n].size
    BY <1>1, NextScanned DEF ScanOutside
  <1>3. EndsAt(log[n], LapAt(n + 1), PosAt(n + 1)) /\ log[n] \in Message
    BY <1>2 DEF OrderInv, ChainInv, TypeInside, TypeOK
  <1> QED
    BY <1>1, <1>2, <1>3, RegionAssumption DEF EndsAt, Message, Blocks

\* The consumer's steps leave the writers alone if they write outside their messages.
LEMMA ConsumerLeavesWriters ==
    ASSUME TypeInside, OrderInv, UNCHANGED <<locals, log>>,
           \A p \in Producers : Writing(p) =>
               /\ mem'[log[cur[p]].head] = mem[log[cur[p]].head]
               /\ \A b \in Span(log[cur[p]].pay, log[cur[p]].size) : mem'[b] = mem[b]
    PROVE  WritersInv'
  <1>1. pc' = pc /\ want' = want /\ cur' = cur /\ log' = log
    BY DEF locals
  <1>2. \A p \in Producers : Writing(p)' <=> Writing(p)
    BY <1>1 DEF Writing
  <1>3. ASSUME NEW p \in Producers, Writing(p)
        PROVE  /\ pc[p] # "head" => mem'[log[cur[p]].head] = HeadWord(want[p], cur[p])
               /\ pc[p] = "unlock" =>
                     \A b \in Span(log[cur[p]].pay, want[p]) : mem'[b].msg = cur[p]
    BY <1>3 DEF OrderInv, WritersInv
  <1>4. \A p \in Producers : Writing(p) =>
           /\ cur[p] \in 1 .. Len(log)
           /\ log[cur[p]].state = "claimed" /\ log[cur[p]].size = want[p]
           /\ \A q \in Producers : Writing(q) /\ q # p => cur[q] # cur[p]
    BY DEF OrderInv, WritersInv
  <1> QED
    BY <1>1, <1>2, <1>3, <1>4 DEF WritersInv

\* The places of the messages, when the consumer moves.
LEMMA ConsumerKeepsPlaces ==
    ASSUME OrderInv, UNCHANGED <<log, alloc_ptr, allocLap>>
    PROVE  /\ ChainInv'
           /\ \A i : PosAt(i)' = PosAt(i) /\ LapAt(i)' = LapAt(i)
           /\ \A lap, pos, b : Outside(lap, pos, b)' <=> Outside(lap, pos, b)
  <1>1. \A i : PosAt(i)' = PosAt(i) /\ LapAt(i)' = LapAt(i)
    BY DEF PosAt, LapAt
  <1> QED
    BY <1>1 DEF OrderInv, ChainInv, Outside

\* A step of the consumer that writes nothing.
LEMMA ConsumerReads ==
    ASSUME TypeInside, OrderInv, Marked' = Marked,
           UNCHANGED <<locals, log, alloc_ptr, allocLap, mem, handLap>>
    PROVE  /\ ChainInv' /\ WritersInv' /\ CleanInv' /\ MemInv'
           /\ UNCHANGED <<read_ptr, readLap>> => SnapshotInv'
  <1>1. ChainInv'
    BY ConsumerKeepsPlaces
  <1>2. WritersInv'
    BY ConsumerLeavesWriters
  <1>3. /\ \A lap, pos, b : Outside(lap, pos, b)' <=> Outside(lap, pos, b)
        /\ \A i : PosAt(i)' = PosAt(i) /\ LapAt(i)' = LapAt(i)
        /\ \A b : Clean(b)' <=> Clean(b)
    BY ConsumerKeepsPlaces DEF Clean
  <1>4. CleanInv'
    BY <1>3 DEF OrderInv, CleanInv
  <1>5. \A i : Holds(i)' <=> Holds(i)
    BY <1>3 DEF Holds
  <1>6. MemInv'
    BY <1>5 DEF OrderInv, MemInv
  <1>7. ASSUME UNCHANGED <<read_ptr, readLap>> PROVE SnapshotInv'
    BY <1>7 DEF OrderInv, SnapshotInv, Allocating, locals
  <1> QED
    BY <1>1, <1>2, <1>4, <1>6, <1>7

LEMMA ConsumeBeginStep ==
    ASSUME TypeInside, OrderInv, ConsumeBegin
    PROVE  OrderInv'
  <1>1. /\ cpc = "idle" /\ cpc' = "scan" /\ readPos' = read_ptr /\ scanLap' = readLap
        /\ UNCHANGED <<shared, locals, batch, log, delivered, freed, allocLap, readLap,
                       handLap, overtaken>>
    BY DEF ConsumeBegin
  <1>2. batch = <<>> /\ freed = Len(delivered) /\ Len(delivered) \in Nat /\ Len(batch) = 0
    BY <1>1 DEF OrderInv, CountsInv, TypeInside, TypeOK
  <1>3. Marked' = Marked /\ ScannedTo' = ScannedTo /\ Marked = freed /\ ScannedTo = freed
    BY <1>1, <1>2 DEF Marked, ScannedTo
  <1>4. ChainInv' /\ WritersInv' /\ CleanInv' /\ MemInv' /\ SnapshotInv'
    BY <1>1, <1>3, ConsumerReads DEF shared
  <1>5. CountsInv'
    BY <1>1, <1>2, <1>3 DEF OrderInv, CountsInv
  <1>6. HandsInv'
    BY <1>1, <1>2, <1>3, ConsumerKeepsPlaces DEF OrderInv, HandsInv, shared
  <1>7. BatchInv' /\ DeliveredInv'
    BY <1>1, <1>3 DEF OrderInv, BatchInv, DeliveredInv
  <1> QED
    BY <1>4, <1>5, <1>6, <1>7 DEF OrderInv

LEMMA ScanStep ==
    ASSUME TypeInside, OrderInv, Scan
    PROVE  OrderInv'
  <1>1. PICK h \in HeadsReadFrom(mem[readPos]) :
          LET pay == IF readPos + 1 + h.size > RegionBlocks THEN 0 ELSE readPos + 1
              end == pay + h.size
          IN /\ ~h.lock /\ h.size < RegionBlocks
             /\ batch' = Append(batch, [head |-> readPos, pay |-> pay,
                                        size |-> h.size, msg |-> h.msg])
             /\ readPos' = IF end = RegionBlocks THEN 0 ELSE end
             /\ scanLap' = IF pay = 0 \/ end = RegionBlocks THEN scanLap + 1 ELSE scanLap
    BY DEF Scan
  <1>2. /\ cpc = "scan" /\ cpc' = "scan"
        /\ UNCHANGED <<shared, locals, log, delivered, freed, allocLap, readLap, handLap>>
    BY DEF Scan
  <1>3. PICK n : n = ScannedTo + 1
    OBVIOUS
  <1>4. /\ n \in 1 .. Len(log) /\ log[n].state # "claimed"
        /\ readPos = log[n].head /\ scanLap = log[n].lap /\ h.size = log[n].size /\ h.msg = n
    BY <1>1, <1>2, <1>3, NextScanned
  <1>5. EndsAt(log[n], LapAt(n + 1), PosAt(n + 1)) /\ log[n] \in Message
    BY <1>4 DEF OrderInv, ChainInv, TypeInside, TypeOK
  <1> DEFINE e == log[n]
             pay == IF readPos + 1 + h.size > RegionBlocks THEN 0 ELSE readPos + 1
             end == pay + h.size
  <1>6. /\ pay = e.pay
        /\ (IF end = RegionBlocks THEN 0 ELSE end) = PosAt(n + 1)
        /\ (IF pay = 0 \/ end = RegionBlocks THEN scanLap + 1 ELSE scanLap) = LapAt(n + 1)
    <2>1. e.head \in Nat /\ e.size \in Nat /\ e.lap \in Nat /\ e.head < RegionBlocks
          /\ EndsAt(e, LapAt(n + 1), PosAt(n + 1))
          /\ readPos = e.head /\ scanLap = e.lap /\ h.size = e.size
      BY <1>4, <1>5, RegionAssumption DEF Message, Blocks
    <2> HIDE DEF e
    <2>2. CASE /\ e.pay = e.head + 1 /\ e.head + 1 + e.size < RegionBlocks
               /\ LapAt(n + 1) = e.lap /\ PosAt(n + 1) = e.head + 1 + e.size
      BY <2>1, <2>2, RegionAssumption
    <2>3. CASE /\ e.pay = e.head + 1 /\ e.head + 1 + e.size = RegionBlocks
               /\ LapAt(n + 1) = e.lap + 1 /\ PosAt(n + 1) = 0
      BY <2>1, <2>3, RegionAssumption
    <2>4. CASE /\ e.pay = 0 /\ e.head + 1 + e.size > RegionBlocks /\ e.size < e.head
               /\ LapAt(n + 1) = e.lap + 1 /\ PosAt(n + 1) = e.size
      BY <2>1, <2>4, RegionAssumption
    <2> QED
      BY <2>1, <2>2, <2>3, <2>4 DEF EndsAt
  <1>7. /\ batch' = Append(batch, [head |-> e.head, pay |-> e.pay, size |-> e.size, msg |-> n])
        /\ readPos' = PosAt(n + 1) /\ scanLap' = LapAt(n + 1)
    BY <1>1, <1>4, <1>6
  <1> HIDE DEF pay, end
  <1>8. /\ Len(batch') = Len(batch) + 1 /\ Len(batch) \in Nat
        /\ \A j \in 1 .. Len(batch) : batch'[j] = batch[j]
        /\ batch'[Len(batch) + 1] = [head |-> e.head, pay |-> e.pay, size |-> e.size, msg |-> n]
    <2> HIDE DEF e
    <2>1. batch \in Seq(Scanned)
      BY DEF TypeInside, TypeOK
    <2> QED
      BY <1>7, <2>1, AppendProperties
  <1>9. /\ Len(log) \in Nat /\ Marked \in Nat /\ ScannedTo \in Nat /\ Len(delivered) \in Nat
        /\ Marked + Len(batch) = ScannedTo /\ Marked = Len(delivered)
        /\ ScannedTo = Len(delivered) + Len(batch) /\ freed <= Marked
    BY <1>2, Numbers DEF OrderInv, TypeInside, Marked, ScannedTo
  <1>10. Marked' = Marked /\ ScannedTo' = n
    BY <1>2, <1>3, <1>8, <1>9 DEF Marked, ScannedTo
  <1>11. ChainInv' /\ WritersInv' /\ CleanInv' /\ MemInv' /\ SnapshotInv'
    BY <1>2, <1>10, ConsumerReads DEF shared
  <1>12. CountsInv'
    BY <1>2, <1>4, <1>9, <1>10 DEF OrderInv, CountsInv
  <1>13. HandsInv'
    BY <1>2, <1>7, <1>10, ConsumerKeepsPlaces DEF OrderInv, HandsInv, shared
  <1>14. BatchInv'
    <2>1. \A i \in 1 .. n : log[i].state # "claimed"
      <3>1. \A i \in 1 .. n : i \in 1 .. ScannedTo \/ i = n
        BY <1>3, <1>9
      <3> QED
        BY <1>4, <3>1 DEF OrderInv, BatchInv
    <2>2. Len(batch') = Len(batch) + 1 /\ Len(batch) \in Nat /\ Marked + (Len(batch) + 1) = n
      BY <1>3, <1>8, <1>9
    <2>3. \A j \in 1 .. Len(batch') : j \in 1 .. Len(batch) \/ j = Len(batch) + 1
      BY <2>2
    <2>4. \A j \in 1 .. Len(batch) : batch'[j] = batch[j]
      BY <1>8
    <2>5. batch'[Len(batch) + 1] = [head |-> log[n].head, pay |-> log[n].pay,
                                    size |-> log[n].size, msg |-> n]
      BY <1>8
    <2>6. \A j \in 1 .. Len(batch') :
             batch'[j] = [head |-> log[Marked + j].head, pay |-> log[Marked + j].pay,
                          size |-> log[Marked + j].size, msg |-> Marked + j]
      BY <2>2, <2>3, <2>4, <2>5 DEF OrderInv, BatchInv
    <2> QED
      BY <1>2, <1>10, <2>1, <2>6 DEF BatchInv
  <1>15. DeliveredInv'
    BY <1>2 DEF OrderInv, DeliveredInv
  <1> QED
    BY <1>11, <1>12, <1>13, <1>14, <1>15 DEF OrderInv

\* What a delivery appends.
LEMMA DeliverAppends ==
    ASSUME TypeInside, Deliver
    PROVE  /\ Len(batch) \in Nat /\ Len(delivered) \in Nat
           /\ Len(delivered') = Len(delivered) + Len(batch)
           /\ \A i \in 1 .. Len(delivered) : delivered'[i] = delivered[i]
           /\ \A j \in 1 .. Len(batch) :
                 delivered'[Len(delivered) + j] =
                    [msg |-> batch[j].msg,
                     content |-> {mem[b].msg : b \in Span(batch[j].pay, batch[j].size)
                                                        \cap Blocks}]
  <1> DEFINE content(i) ==
               {mem[b].msg : b \in Span(batch[i].pay, batch[i].size) \cap Blocks}
             more == [i \in DOMAIN batch |-> [msg |-> batch[i].msg, content |-> content(i)]]
  <1>1. delivered' = delivered \o more
    BY DEF Deliver
  <1> HIDE DEF content
  <1>2. DOMAIN batch = 1 .. Len(batch) /\ Len(batch) \in Nat
        /\ delivered \in Seq([msg : Nat, content : SUBSET Nat])
    BY DEF TypeInside, TypeOK
  <1>3. /\ more \in Seq([msg : {batch[j].msg : j \in DOMAIN batch},
                         content : {content(j) : j \in DOMAIN batch}])
        /\ Len(more) = Len(batch)
    BY <1>2
  <1>4. \A j \in 1 .. Len(batch) : more[j] = [msg |-> batch[j].msg, content |-> content(j)]
    BY <1>2
  <1> HIDE DEF more
  <1>5. /\ Len(delivered') = Len(delivered) + Len(batch) /\ Len(delivered) \in Nat
        /\ \A i \in 1 .. Len(delivered) : delivered'[i] = delivered[i]
        /\ \A j \in 1 .. Len(batch) : delivered'[Len(delivered) + j] = more[j]
    <2>1. PICK D, M : delivered \in Seq(D) /\ more \in Seq(M)
      BY <1>2, <1>3
    <2>2. Len(more) = Len(batch) /\ Len(batch) \in Nat /\ Len(delivered) \in Nat
      BY <1>2, <1>3
    <2>3. delivered \in Seq(D \cup M) /\ more \in Seq(D \cup M)
      BY <2>1
    <2>4. /\ Len(delivered') = Len(delivered) + Len(more)
          /\ \A i \in 1 .. Len(delivered) + Len(more) :
                delivered'[i] = IF i <= Len(delivered) THEN delivered[i]
                                ELSE more[i - Len(delivered)]
      BY <1>1, <2>3, ConcatProperties
    <2> QED
      BY <2>2, <2>4
  <1> QED
    BY <1>2, <1>4, <1>5 DEF content

LEMMA DeliverStep ==
    ASSUME TypeInside, OrderInv, Deliver
    PROVE  OrderInv'
  <1>1. /\ cpc = "scan" /\ cpc' = "mark"
        /\ UNCHANGED <<shared, locals, readPos, batch, log, freed, allocLap, readLap,
                       scanLap, handLap>>
    BY DEF Deliver
  <1>2. /\ Len(log) \in Nat /\ Marked \in Nat /\ ScannedTo \in Nat /\ Len(delivered) \in Nat
        /\ Len(batch) \in Nat /\ Marked = Len(delivered) /\ freed <= Marked
        /\ ScannedTo = Len(delivered) + Len(batch) /\ ScannedTo <= Len(log)
    BY <1>1, Numbers DEF OrderInv, TypeInside, Marked, ScannedTo
  <1>3. /\ Len(delivered') = Len(delivered) + Len(batch)
        /\ \A i \in 1 .. Len(delivered) : delivered'[i] = delivered[i]
    BY DeliverAppends
  <1>4. Marked' = Marked /\ ScannedTo' = ScannedTo
    BY <1>1, <1>2, <1>3 DEF Marked, ScannedTo
  <1>5. ChainInv' /\ WritersInv' /\ CleanInv' /\ MemInv' /\ SnapshotInv'
    BY <1>1, <1>4, ConsumerReads DEF shared
  <1>6. CountsInv'
    BY <1>1, <1>2, <1>4 DEF OrderInv, CountsInv
  <1>7. HandsInv'
    BY <1>1, <1>4, ConsumerKeepsPlaces DEF OrderInv, HandsInv, shared
  <1>8. BatchInv'
    BY <1>1, <1>4 DEF OrderInv, BatchInv
  <1>9. ASSUME NEW j \in 1 .. Len(batch), NEW i, i = Marked + j
        PROVE  /\ delivered'[Len(delivered) + j].msg = i
               /\ log[i].state = "published" =>
                     delivered'[Len(delivered) + j].content =
                        (IF log[i].size = 0 THEN {} ELSE {i})
    <2> DEFINE new == delivered'[Len(delivered) + j]
    <2>1. batch[j] = [head |-> log[i].head, pay |-> log[i].pay, size |-> log[i].size, msg |-> i]
      BY <1>9 DEF OrderInv, BatchInv
    <2>2. new = [msg |-> batch[j].msg,
                 content |-> {mem[b].msg : b \in Span(batch[j].pay, batch[j].size) \cap Blocks}]
      BY DeliverAppends
    <2>3. /\ new.msg = batch[j].msg
          /\ new.content = {mem[b].msg : b \in Span(batch[j].pay, batch[j].size) \cap Blocks}
      BY <2>2
    <2>4. batch[j].msg = i /\ batch[j].pay = log[i].pay /\ batch[j].size = log[i].size
      BY <2>1
    <2> HIDE DEF new
    <2>5. /\ new.msg = i
           /\ new.content = {mem[b].msg : b \in Span(log[i].pay, log[i].size) \cap Blocks}
      BY <2>3, <2>4
    <2>6. i \in Marked + 1 .. Len(log) /\ i \in 1 .. Len(log)
      BY <1>2, <1>9
    <2>7. Span(log[i].pay, log[i].size) \subseteq Blocks
      BY <2>6, Apart DEF Occupied
    <2>8. log[i] \in Message
      BY <2>6 DEF TypeInside, TypeOK
    <2>9. log[i].size = 0 => Span(log[i].pay, log[i].size) = {}
      BY <2>8 DEF Message, Span
    <2>10. log[i].size # 0 => log[i].pay \in Span(log[i].pay, log[i].size)
      BY <2>8 DEF Message, Span
    <2>11. log[i].state = "published" =>
             \A b \in Span(log[i].pay, log[i].size) : mem[b].msg = i
      BY <2>6 DEF OrderInv, MemInv, Holds
    <2> DEFINE S == Span(log[i].pay, log[i].size)
               C == {mem[b].msg : b \in S \cap Blocks}
    <2>12. CASE log[i].size = 0
      <3>1. S = {}
        BY <2>9, <2>12
      <3>2. C = {}
        BY <3>1
      <3> QED
        BY <2>5, <2>12, <3>2 DEF new
    <2>13. CASE log[i].size # 0 /\ log[i].state = "published"
      <3>1. \A b \in S \cap Blocks : mem[b].msg = i
        BY <2>11, <2>13
      <3>2. log[i].pay \in S \cap Blocks
        BY <2>7, <2>10, <2>13
      <3>3. C = {i}
        BY <3>1, <3>2
      <3> QED
        BY <2>5, <2>13, <3>3 DEF new
    <2> QED
      BY <2>5, <2>12, <2>13 DEF new
  <1>10. DeliveredInv'
    <2>1. ASSUME NEW i \in 1 .. Len(delivered')
          PROVE  /\ delivered'[i].msg = i
                 /\ log[i].state = "published" =>
                       delivered'[i].content = (IF log[i].size = 0 THEN {} ELSE {i})
      <3>1. CASE i \in 1 .. Len(delivered)
        BY <1>3, <3>1 DEF OrderInv, DeliveredInv
      <3>2. CASE i > Len(delivered)
        <4>1. PICK j : j = i - Len(delivered)
          OBVIOUS
        <4>2. j \in 1 .. Len(batch) /\ i = Len(delivered) + j /\ i = Marked + j
          BY <1>2, <1>3, <3>2, <4>1
        <4> QED
          BY <1>9, <4>2
      <3> QED
        BY <1>2, <1>3, <3>1, <3>2
    <2> QED
      BY <1>1, <2>1 DEF DeliveredInv
  <1> QED
    BY <1>5, <1>6, <1>7, <1>8, <1>10 DEF OrderInv

LEMMA ConsumeEndStep ==
    ASSUME TypeInside, TypeInside', OrderInv, ConsumeEnd
    PROVE  OrderInv'
  <1>1. /\ cpc = "scan" /\ cpc' = "idle" /\ batch = <<>> /\ read_ptr' = readPos
        /\ readLap' = scanLap /\ freed' = Len(delivered)
        /\ UNCHANGED <<alloc_ptr, mem, locals, readPos, batch, log, delivered, allocLap,
                       scanLap, handLap>>
    BY DEF ConsumeEnd
  <1>2. /\ Len(log) \in Nat /\ Marked \in Nat /\ Len(delivered) \in Nat /\ freed \in Nat
        /\ Marked = Len(delivered) /\ freed <= Marked
        /\ ScannedTo = Len(delivered) /\ ScannedTo <= Len(log)
    BY <1>1, Numbers DEF OrderInv, TypeInside, Marked, ScannedTo
  <1>3. Marked' = Marked /\ ScannedTo' = ScannedTo
    BY <1>1, <1>2 DEF Marked, ScannedTo
  <1>4. ChainInv' /\ WritersInv' /\ CleanInv' /\ MemInv'
    BY <1>1, <1>3, ConsumerReads
  <1>5. CountsInv'
    BY <1>1, <1>2, <1>3 DEF OrderInv, CountsInv
  <1>6. PICK n : n = ScannedTo + 1
    OBVIOUS
  <1>7. readLap' = LapAt(n) /\ read_ptr' = PosAt(n) /\ n = freed' + 1
    BY <1>1, <1>2, <1>6 DEF OrderInv, HandsInv
  <1>8. HandsInv'
    <2>1. n \in freed + 1 .. Len(log) + 1
      BY <1>2, <1>6
    <2>2. Ordered(readLap', read_ptr', allocLap, alloc_ptr)
      BY <1>7, <2>1, PlacesOrdered DEF TypeInside
    <2>3. LapAt(n)' = LapAt(n) /\ PosAt(n)' = PosAt(n)
      BY <1>1, ConsumerKeepsPlaces
    <2>4. readLap' = LapAt(n)' /\ read_ptr' = PosAt(n)'
      BY <1>7, <2>3
    <2> QED
      BY <1>1, <1>7, <2>2, <2>4 DEF HandsInv
  <1>9. SnapshotInv'
    <2>1. NotAfter(readLap, read_ptr, readLap', read_ptr')
      <3>1. freed + 1 \in 1 .. Len(log) + 1 /\ n \in 1 .. Len(log) + 1 /\ freed + 1 <= n
        BY <1>2, <1>6
      <3> QED
        BY <1>7, <3>1, Rises DEF OrderInv, HandsInv, TypeInside
    <2>2. /\ readLap \in Nat /\ read_ptr \in Blocks /\ readLap' \in Nat /\ read_ptr' \in Blocks
          /\ \A p \in Producers : handLap[p] \in Nat /\ readHand[p] \in Blocks
      BY DEF TypeInside, TypeOK
    <2>3. ASSUME NEW p \in Allocating
          PROVE  NotAfter(handLap[p], readHand[p], readLap', read_ptr')
      <3>1. NotAfter(handLap[p], readHand[p], readLap, read_ptr) /\ p \in Producers
        BY DEF OrderInv, SnapshotInv, Allocating
      <3> QED
        BY <2>1, <2>2, <3>1 DEF NotAfter, Blocks
    <2> QED
      BY <1>1, <2>3 DEF SnapshotInv, Allocating, locals
  <1>10. BatchInv' /\ DeliveredInv'
    BY <1>1, <1>3 DEF OrderInv, BatchInv, DeliveredInv
  <1> QED
    BY <1>4, <1>5, <1>8, <1>9, <1>10 DEF OrderInv

\* What the consumer overwrites is the next message's that it did not wipe yet.
LEMMA WipesOwn ==
    ASSUME TypeInside, OrderInv, MarkConsumed, NEW m, m = Marked + 1
    PROVE  /\ m \in Marked + 1 .. ScannedTo /\ m \in Marked + 1 .. Len(log)
           /\ m \in 1 .. Len(log)
           /\ mem'[log[m].head] = Flagged(Unlocked(HeadWord(log[m].size, m)))
           /\ \A b \in Span(log[m].pay, log[m].size) : mem'[b] = Fill
           /\ \A b \in Blocks : b \notin Occupied(log[m]) => mem'[b] = mem[b]
  <1>1. /\ cpc = "mark" /\ batch # <<>>
        /\ mem' = Overwrite([mem EXCEPT ![Head(batch).head] = Flagged(mem[Head(batch).head])],
                            Span(Head(batch).pay, Head(batch).size), Fill)
    BY DEF MarkConsumed
  <1>2. batch \in Seq(Scanned) /\ mem \in [Blocks -> Word]
    BY DEF TypeInside, TypeOK
  <1>3. Len(batch) > 0 /\ Head(batch) = batch[1]
    BY <1>1, <1>2
  <1>4. /\ Len(log) \in Nat /\ Marked \in Nat /\ ScannedTo \in Nat
        /\ Marked + Len(batch) = ScannedTo /\ ScannedTo <= Len(log)
    BY Numbers DEF OrderInv, TypeInside
  <1>5. m \in Marked + 1 .. ScannedTo /\ m \in Marked + 1 .. Len(log) /\ m \in 1 .. ScannedTo
        /\ m \in 1 .. Len(log)
    BY <1>2, <1>3, <1>4
  <1>6. Head(batch) = [head |-> log[m].head, pay |-> log[m].pay, size |-> log[m].size,
                       msg |-> m]
    <2>1. 1 \in 1 .. Len(batch)
      BY <1>2, <1>3
    <2>2. batch[1] = [head |-> log[Marked + 1].head, pay |-> log[Marked + 1].pay,
                      size |-> log[Marked + 1].size, msg |-> Marked + 1]
      BY <2>1 DEF OrderInv, BatchInv
    <2> QED
      BY <1>3, <2>2
  <1>7. mem[log[m].head] = Unlocked(HeadWord(log[m].size, m))
    <2>1. Holds(m) /\ log[m].state # "claimed"
      BY <1>5 DEF OrderInv, BatchInv, MemInv
    <2> QED
      BY <2>1 DEF Holds
  <1>8. /\ log[m].head \in Blocks /\ Span(log[m].pay, log[m].size) \subseteq Blocks
        /\ log[m].head \notin Span(log[m].pay, log[m].size)
    BY <1>5, Apart DEF Occupied
  <1>9. mem' = Overwrite([mem EXCEPT ![log[m].head] = Flagged(mem[log[m].head])],
                         Span(log[m].pay, log[m].size), Fill)
    <2>1. /\ Head(batch).head = log[m].head /\ Head(batch).pay = log[m].pay
          /\ Head(batch).size = log[m].size
      BY <1>6
    <2> QED
      BY <1>1, <2>1
  <1>10. /\ mem'[log[m].head] = Flagged(mem[log[m].head])
         /\ \A b \in Span(log[m].pay, log[m].size) : mem'[b] = Fill
         /\ \A b \in Blocks : b # log[m].head /\ b \notin Span(log[m].pay, log[m].size)
                                 => mem'[b] = mem[b]
    BY <1>2, <1>8, <1>9 DEF Overwrite
  <1> QED
    BY <1>5, <1>7, <1>10 DEF Occupied

LEMMA MarkStep ==
    ASSUME TypeInside, OrderInv, MarkConsumed
    PROVE  OrderInv'
  <1>1. PICK m : m = Marked + 1
    OBVIOUS
  <1>2. /\ cpc = "mark" /\ batch # <<>> /\ batch' = Tail(batch)
        /\ cpc' = IF Len(batch) = 1 THEN "scan" ELSE "mark"
        /\ UNCHANGED <<read_ptr, alloc_ptr, locals, readPos, history>>
    BY DEF MarkConsumed
  <1>3. /\ Len(log) \in Nat /\ Marked \in Nat /\ ScannedTo \in Nat /\ freed \in Nat
        /\ Len(batch) \in Nat /\ Len(delivered) \in Nat /\ freed <= Marked
        /\ Marked = Len(delivered) - Len(batch) /\ ScannedTo = Len(delivered)
        /\ ScannedTo <= Len(log)
    BY <1>2, Numbers DEF OrderInv, TypeInside, Marked, ScannedTo
  <1>4. /\ m \in Marked + 1 .. ScannedTo /\ m \in Marked + 1 .. Len(log) /\ m \in 1 .. Len(log)
        /\ mem'[log[m].head] = Flagged(Unlocked(HeadWord(log[m].size, m)))
        /\ \A b \in Span(log[m].pay, log[m].size) : mem'[b] = Fill
        /\ \A b \in Blocks : b \notin Occupied(log[m]) => mem'[b] = mem[b]
    BY <1>1, WipesOwn
  <1>5. batch \in Seq(Scanned) /\ Len(batch) > 0 /\ Len(batch') = Len(batch) - 1
        /\ \A j \in 1 .. Len(batch') : batch'[j] = batch[j + 1]
    BY <1>2, EmptySeq, HeadTailProperties DEF TypeInside, TypeOK
  <1>6. Marked' = m /\ ScannedTo' = ScannedTo
    <2>1. CASE Len(batch) = 1
      BY <1>1, <1>2, <1>3, <1>5, <2>1 DEF Marked, ScannedTo, history
    <2>2. CASE Len(batch) # 1
      BY <1>1, <1>2, <1>3, <1>5, <2>2 DEF Marked, ScannedTo, history
    <2> QED
      BY <2>1, <2>2
  <1>7. CountsInv'
    <2>1. cpc' \in {"scan", "mark"} /\ freed' = freed /\ log' = log
      BY <1>2 DEF history
    <2> QED
      BY <1>1, <1>3, <1>4, <1>6, <2>1 DEF CountsInv
  <1>8. /\ ChainInv'
        /\ \A i : PosAt(i)' = PosAt(i) /\ LapAt(i)' = LapAt(i)
        /\ \A lap, pos, b : Outside(lap, pos, b)' <=> Outside(lap, pos, b)
    BY <1>2, ConsumerKeepsPlaces DEF history
  <1>9. HandsInv'
    BY <1>2, <1>6, <1>8 DEF OrderInv, HandsInv, history
  <1>10. SnapshotInv'
    BY <1>2 DEF OrderInv, SnapshotInv, Allocating, locals, history
  <1>11. \A b \in Blocks : b \notin Occupied(log[m]) => (Clean(b)' <=> Clean(b))
    BY <1>4 DEF Clean
  <1>12. CleanInv'
    <2>1. ASSUME NEW b \in Blocks, Outside(LapAt(m + 1), PosAt(m + 1), b)
          PROVE  Clean(b)'
      <3>1. FreeFrom(m + 1) \subseteq FreeFrom(m) \cup Own(m)
        <4>1. m \in freed + 1 .. Len(log) + 1
          BY <1>1, <1>3, <1>4
        <4> QED
          BY <1>4, <4>1, PlacesOrdered, FreeGrows DEF OrderInv, TypeInside
      <3>2. CASE Outside(LapAt(m), PosAt(m), b)
        <4>1. b \notin Occupied(log[m])
          BY <1>1, <1>4, <3>2, Apart
        <4> QED
          BY <1>1, <1>11, <3>2, <4>1 DEF OrderInv, CleanInv
      <3>3. CASE b = log[m].head
        BY <1>4, <3>3 DEF Clean, Flagged, Unlocked, HeadWord
      <3>4. CASE b \in Span(log[m].pay, log[m].size)
        BY <1>4, <3>4 DEF Clean, Fill
      <3>5. CASE log[m].pay = 0 /\ log[m].head < b
        <4>1. Clean(b)
          BY <1>4, <3>5 DEF OrderInv, MemInv, Holds
        <4>2. b \notin Occupied(log[m])
          BY <1>4, <3>5, Apart
        <4> QED
          BY <1>11, <4>1, <4>2
      <3>6. b \in Own(m) => b \in Occupied(log[m]) \/ (log[m].pay = 0 /\ log[m].head < b)
        BY <1>4, OwnParts DEF OrderInv
      <3> QED
        BY <2>1, <3>1, <3>2, <3>3, <3>4, <3>5, <3>6 DEF FreeFrom, Occupied
    <2>2. PICK n : n = m + 1
      OBVIOUS
    <2>3. LapAt(n)' = LapAt(m + 1) /\ PosAt(n)' = PosAt(m + 1) /\ Marked' + 1 = n
      BY <1>6, <1>8, <2>2
    <2>4. LapAt(Marked + 1)' = LapAt(m + 1) /\ PosAt(Marked + 1)' = PosAt(m + 1)
      BY <2>3
    <2> QED
      BY <1>8, <2>1, <2>4 DEF CleanInv, Outside
  <1>13. ASSUME NEW j \in m + 1 .. Len(log)
         PROVE  /\ log[j].head \in Blocks
                /\ mem'[log[j].head] = mem[log[j].head]
                /\ \A b \in Span(log[j].pay, log[j].size) : mem'[b] = mem[b]
                /\ \A b \in Blocks : log[j].pay = 0 /\ log[j].head < b
                                        => b \notin Occupied(log[m])
    <2>1. j \in Marked + 1 .. Len(log) /\ j # m
      BY <1>1, <1>3, <1>4
    <2>2. /\ Occupied(log[j]) \subseteq Blocks /\ Occupied(log[j]) \cap Occupied(log[m]) = {}
          /\ log[j].pay = 0 =>
                \A b \in Blocks : log[j].head < b => b \notin Occupied(log[m])
      BY <1>4, <2>1, Apart
    <2> QED
      BY <1>4, <2>2 DEF Occupied
  <1>14. MemInv'
    <2>1. ASSUME NEW j \in m + 1 .. Len(log)
          PROVE  Holds(j)'
      <3>1. Holds(j) /\ log' = log
        <4>1. j \in Marked + 1 .. Len(log)
          BY <1>1, <1>3, <2>1
        <4> QED
          BY <1>2, <4>1 DEF OrderInv, MemInv, history
      <3>2. Clean(log[j].head)' <=> Clean(log[j].head)
        BY <1>13, <2>1, <3>1 DEF Clean
      <3> QED
        BY <1>11, <1>13, <2>1, <3>1, <3>2 DEF Holds
    <2> QED
      BY <1>2, <1>6, <2>1 DEF MemInv, history
  <1>15. BatchInv'
    <2>1. \A i \in 1 .. ScannedTo : log[i].state # "claimed"
      BY DEF OrderInv, BatchInv
    <2>2. ASSUME NEW j \in 1 .. Len(batch')
          PROVE  batch'[j] = [head |-> log[m + j].head, pay |-> log[m + j].pay,
                              size |-> log[m + j].size, msg |-> m + j]
      <3>1. j + 1 \in 1 .. Len(batch) /\ Marked + (j + 1) = m + j
        BY <1>1, <1>3, <1>5
      <3> QED
        BY <1>5, <3>1 DEF OrderInv, BatchInv
    <2> QED
      BY <1>2, <1>6, <2>1, <2>2 DEF BatchInv, history
  <1>16. WritersInv'
    <2>1. ASSUME NEW p \in Producers, Writing(p)
          PROVE  cur[p] \in m + 1 .. Len(log)
      <3>1. cur[p] \in ScannedTo + 1 .. Len(log)
        BY <2>1, WriterAhead DEF TypeInside
      <3> QED
        BY <1>3, <1>4, <3>1
    <2> QED
      BY <1>2, <1>13, <2>1, ConsumerLeavesWriters DEF history
  <1>17. DeliveredInv'
    BY <1>2 DEF OrderInv, DeliveredInv, history
  <1> QED
    BY <1>7, <1>8, <1>9, <1>10, <1>12, <1>14, <1>15, <1>16, <1>17 DEF OrderInv

-----------------------------------------------------------------------------
(* The invariant.                                                           *)

LEMMA InitRegion == Init => RegionInv
  <1> SUFFICES ASSUME Init PROVE RegionInv
    OBVIOUS
  <1>1. TypeInside
    BY InitTypeInside
  <1>2. /\ log = <<>> /\ batch = <<>> /\ delivered = <<>> /\ freed = 0 /\ cpc = "idle"
        /\ Len(log) = 0 /\ Len(batch) = 0 /\ Len(delivered) = 0
        /\ read_ptr = 0 /\ alloc_ptr = 0 /\ readLap = 0 /\ allocLap = 0
    BY DEF Init
  <1>3. Marked = 0 /\ ScannedTo = 0 /\ PosAt(1) = 0 /\ LapAt(1) = 0
    BY <1>2 DEF Marked, ScannedTo, PosAt, LapAt
  <1>4. CountsInv /\ ChainInv /\ MemInv /\ BatchInv /\ DeliveredInv
    <2>1. 1 .. 0 = {} /\ 1 .. 0 + 1 = {1} /\ 0 + 1 .. 0 = {} /\ ~(1 < 1)
      OBVIOUS
    <2> QED
      BY <1>2, <1>3, <2>1 DEF CountsInv, ChainInv, MemInv, BatchInv, DeliveredInv
  <1>5. HandsInv
    BY <1>2, <1>3 DEF HandsInv, Ordered
  <1>6. SnapshotInv /\ WritersInv
    BY DEF Init, SnapshotInv, WritersInv, Allocating, Writing
  <1>7. CleanInv
    BY DEF Init, CleanInv, Clean, Fill
  <1> QED
    BY <1>1, <1>4, <1>5, <1>6, <1>7 DEF RegionInv, OrderInv

LEMMA FreshStep ==
    ASSUME TypeInside, TypeInside', OrderInv, Next, ~overtaken'
    PROVE  OrderInv'
  <1>1. ASSUME NEW p \in Producers, Produce(p)
        PROVE  OrderInv'
    BY <1>1, AllocateStep, ClaimStep, WriterStep, EncodeFailsStep DEF Produce
  <1>2. CASE Consume
    <2>1. CASE ConsumeNothing \/ Undefined
      BY <2>1, StutterStep DEF ConsumeNothing, Undefined
    <2>2. CASE ConsumeBegin
      BY <2>2, ConsumeBeginStep
    <2>3. CASE Scan
      BY <2>3, ScanStep
    <2>4. CASE ScanOutside
      BY <2>4, NeverOutside
    <2>5. CASE Deliver
      BY <2>5, DeliverStep
    <2>6. CASE MarkConsumed
      BY <2>6, MarkStep
    <2>7. CASE ConsumeEnd
      BY <2>7, ConsumeEndStep
    <2> QED
      BY <1>2, <2>1, <2>2, <2>3, <2>4, <2>5, <2>6, <2>7 DEF Consume
  <1> QED
    BY <1>1, <1>2 DEF Next

\* Once overtaken, a region stays so.
LEMMA OvertakenForEver ==
    ASSUME TypeOK, [Next]_vars, overtaken
    PROVE  overtaken'
  BY DEF Next, Produce, Consume, LoadReadHand, LoadAllocHand, Reject, Claim, Retry, StoreHead,
         Encode, EncodeFails, Unlock, ConsumeNothing, ConsumeBegin, Scan, ScanOutside,
         Undefined, Deliver, MarkConsumed, ConsumeEnd, vars, history, TypeOK

LEMMA NextRegion == RegionInv /\ [Next]_vars => RegionInv'
  <1> SUFFICES ASSUME RegionInv, [Next]_vars PROVE RegionInv'
    OBVIOUS
  <1>1. TypeInside /\ TypeInside'
    BY NextTypeInside DEF RegionInv
  <1>2. CASE overtaken
    BY <1>1, <1>2, OvertakenForEver DEF RegionInv, TypeInside
  <1>3. CASE ~overtaken /\ UNCHANGED vars
    BY <1>1, <1>3, StutterStep DEF RegionInv
  <1>4. CASE ~overtaken /\ Next
    BY <1>1, <1>4, FreshStep DEF RegionInv
  <1> QED
    BY <1>2, <1>3, <1>4

\* The inductive invariant of a region.
THEOREM RegionInductive == Spec => []RegionInv
  BY InitRegion, NextRegion, PTL DEF Spec

-----------------------------------------------------------------------------
(* What the invariant means for the users of a region.                      *)

LEMMA FreeBlocksOutside ==
    ASSUME TypeInside, OrderInv
    PROVE  /\ FreeBlocks = FreeFrom(freed + 1)
           /\ FreeBlocks \subseteq FreeFrom(Marked + 1)
  <1>1. /\ readLap = LapAt(freed + 1) /\ read_ptr = PosAt(freed + 1)
        /\ Ordered(readLap, read_ptr, allocLap, alloc_ptr)
        /\ readLap \in Nat /\ allocLap \in Nat /\ read_ptr \in Blocks /\ alloc_ptr \in Blocks
    BY DEF OrderInv, HandsInv, TypeInside, TypeOK
  <1>2. FreeBlocks = {b \in Blocks : Outside(readLap, read_ptr, b)}
    BY <1>1 DEF FreeBlocks, Outside, Ordered, Blocks
  <1> DEFINE lap == LapAt(Marked + 1)
             pos == PosAt(Marked + 1)
  <1>3. /\ Ordered(lap, pos, allocLap, alloc_ptr) /\ NotAfter(readLap, read_ptr, lap, pos)
        /\ lap \in Nat /\ pos \in Blocks
    <2>1. /\ freed + 1 \in 1 .. Len(log) + 1 /\ Marked + 1 \in 1 .. Len(log) + 1
          /\ Marked + 1 \in freed + 1 .. Len(log) + 1 /\ freed + 1 <= Marked + 1
          /\ Marked + 1 \in Nat /\ Marked + 1 > 0
      BY Numbers DEF OrderInv, TypeInside
    <2> QED
      BY <1>1, <2>1, PlacesOrdered, Rises, Positions DEF OrderInv, TypeInside
  <1> HIDE DEF lap, pos
  <1>4. \A b \in Blocks : Outside(readLap, read_ptr, b) => Outside(lap, pos, b)
    BY <1>1, <1>3 DEF Outside, Ordered, NotAfter, Blocks
  <1> QED
    BY <1>1, <1>2, <1>4 DEF FreeFrom, lap, pos

\* The hands keep their order as long as the alloc hand goes round past no read hand a
\* running allocation remembers (allocate() and read_region(), mpsc_bus.hpp:395-520).
THEOREM HandsKeepOrder == Spec => []HandsInOrder
  <1>1. ASSUME RegionInv PROVE HandsInOrder
    <2> SUFFICES ASSUME TypeInside, OrderInv
                 PROVE  /\ Ordered(readLap, read_ptr, allocLap, alloc_ptr)
                        /\ cpc # "idle" => /\ Ordered(readLap, read_ptr, scanLap, readPos)
                                           /\ Ordered(scanLap, readPos, allocLap, alloc_ptr)
      BY <1>1 DEF RegionInv, HandsInOrder
    <2>1. /\ readLap = LapAt(freed + 1) /\ read_ptr = PosAt(freed + 1)
          /\ Ordered(readLap, read_ptr, allocLap, alloc_ptr)
          /\ cpc # "idle" => scanLap = LapAt(ScannedTo + 1) /\ readPos = PosAt(ScannedTo + 1)
      BY DEF OrderInv, HandsInv
    <2>2. /\ readLap \in Nat /\ allocLap \in Nat /\ scanLap \in Nat
          /\ read_ptr \in Blocks /\ alloc_ptr \in Blocks /\ readPos \in Blocks
      BY DEF TypeInside, TypeOK
    <2>3. ASSUME cpc # "idle"
          PROVE  /\ NotAfter(readLap, read_ptr, scanLap, readPos)
                 /\ NotAfter(scanLap, readPos, allocLap, alloc_ptr)
                 /\ Ordered(scanLap, readPos, allocLap, alloc_ptr)
      <3>1. /\ freed + 1 \in 1 .. Len(log) + 1 /\ ScannedTo + 1 \in 1 .. Len(log) + 1
            /\ ScannedTo + 1 \in freed + 1 .. Len(log) + 1 /\ freed + 1 <= ScannedTo + 1
            /\ Len(log) + 1 \in 1 .. Len(log) + 1 /\ ScannedTo + 1 <= Len(log) + 1
            /\ Len(log) \in Nat
        BY Numbers DEF OrderInv, TypeInside
      <3>2. LapAt(Len(log) + 1) = allocLap /\ PosAt(Len(log) + 1) = alloc_ptr
        BY <3>1 DEF LapAt, PosAt
      <3> QED
        BY <2>1, <2>3, <3>1, <3>2, PlacesOrdered, Rises DEF OrderInv, TypeInside
    <2> QED
      BY <2>1, <2>2, <2>3 DEF Ordered, NotAfter, Blocks
  <1> QED
    BY <1>1, RegionInductive, PTL

\* No block of the ring is ever two messages' and none in use is handed out as free
\* (the placement in allocate(), mpsc_bus.hpp:395-450).
THEOREM NoBlockShared == Spec => []NoSharedBlock
  <1>1. ASSUME RegionInv PROVE NoSharedBlock
    <2> SUFFICES ASSUME TypeInside, OrderInv, NEW i \in InUse
                 PROVE  /\ Occupied(log[i]) \subseteq Blocks \ FreeBlocks
                        /\ \A j \in InUse : i # j => Occupied(log[i]) \cap Occupied(log[j]) = {}
      BY <1>1 DEF RegionInv, NoSharedBlock
    <2>1. /\ freed \in Nat /\ freed + 1 \in 1 .. Len(log) + 1 /\ Len(log) \in Nat
          /\ \A j \in InUse : j \in freed + 1 .. Len(log) /\ j \in 1 .. Len(log)
      BY Numbers DEF OrderInv, TypeInside, InUse
    <2>2. Ordered(LapAt(freed + 1), PosAt(freed + 1), allocLap, alloc_ptr)
      BY DEF OrderInv, HandsInv
    <2>3. /\ \A j \in freed + 1 .. Len(log) : i # j => Own(i) \cap Own(j) = {}
          /\ Own(i) \cap FreeFrom(freed + 1) = {}
      BY <2>1, <2>2, OwnApart DEF OrderInv, TypeInside
    <2>4. \A j \in InUse : Occupied(log[j]) \subseteq Own(j)
      BY <2>1, OwnParts DEF OrderInv
    <2>5. Own(i) \subseteq Blocks
      BY DEF Own
    <2> QED
      BY <2>1, <2>3, <2>4, <2>5, FreeBlocksOutside
  <1> QED
    BY <1>1, RegionInductive, PTL

\* Every free block reads as a locked head: the consumer never takes payload or unused
\* memory for a message (read_region(), mpsc_bus.hpp:455-520).
THEOREM FreeLooksLocked == Spec => []FreeBlocksLookLocked
  <1>1. ASSUME RegionInv PROVE FreeBlocksLookLocked
    <2> SUFFICES ASSUME TypeInside, OrderInv
                 PROVE  /\ \A b \in FreeBlocks : mem[b].lock /\ ~mem[b].data
                        /\ cpc # "outside"
                        /\ cpc = "scan" => ~mem[readPos].data
      BY <1>1 DEF RegionInv, FreeBlocksLookLocked
    <2>1. \A b \in FreeFrom(Marked + 1) : Clean(b)
      BY DEF OrderInv, CleanInv, FreeFrom
    <2>2. \A b \in FreeBlocks : Clean(b)
      BY <2>1, FreeBlocksOutside
    <2>3. ASSUME cpc = "scan" PROVE ~mem[readPos].data
      <3>1. readPos = PosAt(ScannedTo + 1)
        BY <2>3 DEF OrderInv, HandsInv
      <3>2. /\ Marked \in Nat /\ ScannedTo \in Nat /\ Len(log) \in Nat /\ freed \in Nat
            /\ freed <= Marked /\ Marked <= ScannedTo /\ ScannedTo <= Len(log)
        BY Numbers DEF OrderInv, TypeInside
      <3>3. CASE ScannedTo = Len(log)
        <4>1. readPos = alloc_ptr
          BY <3>1, <3>2, <3>3 DEF PosAt
        <4>2. Marked + 1 \in freed + 1 .. Len(log) + 1 /\ Marked + 1 \in Nat /\ Marked + 1 > 0
          BY <3>2
        <4> QED
          BY <2>1, <4>1, <4>2, PlacesOrdered, AllocFree DEF Clean, TypeInside
      <3>4. CASE ScannedTo < Len(log)
        <4>1. ScannedTo + 1 \in Marked + 1 .. Len(log) /\ ScannedTo + 1 <= Len(log)
          BY <3>2, <3>4
        <4>2. Holds(ScannedTo + 1) /\ readPos = log[ScannedTo + 1].head
          BY <3>1, <4>1 DEF OrderInv, MemInv, PosAt
        <4> QED
          BY <4>2 DEF Holds, Clean, Unlocked, HeadWord
      <3> QED
        BY <3>2, <3>3, <3>4
    <2> QED
      BY <2>2, <2>3 DEF Clean, OrderInv, CountsInv
  <1> QED
    BY <1>1, RegionInductive, PTL

\* Records come out in the order of their allocation, exactly once, never before they are
\* published and with the payload their producer wrote (read_region() and sync_output()).
THEOREM DeliveredOrder == Spec => []DeliveredInOrder
  <1>1. ASSUME RegionInv PROVE DeliveredInOrder
    <2> SUFFICES ASSUME TypeInside, OrderInv
                 PROVE  /\ Len(delivered) <= Len(log)
                        /\ \A i \in DOMAIN delivered :
                             /\ delivered[i].msg = i
                             /\ log[i].state # "claimed"
                             /\ log[i].state = "published" =>
                                   delivered[i].content = (IF log[i].size = 0 THEN {} ELSE {i})
      BY <1>1 DEF RegionInv, DeliveredInOrder
    <2>1. /\ Len(delivered) \in Nat /\ ScannedTo \in Nat /\ Len(log) \in Nat
          /\ Len(delivered) <= ScannedTo /\ ScannedTo <= Len(log)
      BY Numbers DEF OrderInv, TypeInside
    <2>2. DOMAIN delivered = 1 .. Len(delivered)
      BY DEF TypeInside, TypeOK
    <2>3. Len(delivered) <= Len(log) /\ \A i \in 1 .. Len(delivered) : i \in 1 .. ScannedTo
      BY <2>1
    <2>4. \A i \in 1 .. Len(delivered) : log[i].state # "claimed"
      BY <2>3 DEF OrderInv, BatchInv
    <2> QED
      BY <2>2, <2>3, <2>4 DEF OrderInv, DeliveredInv
  <1> QED
    BY <1>1, RegionInductive, PTL

\* No step of the consumer touches a block of a message that is still being written
\* (the lock flag, output_buffer and read_region()).
THEOREM ConsumerStaysOff == Spec => ConsumerKeepsOff
  <1>1. ASSUME RegionInv, Consume, ~overtaken, NEW b \in BeingWritten \cap Blocks
        PROVE  mem'[b] = mem[b]
    <2>1. TypeInside /\ OrderInv
      BY <1>1 DEF RegionInv
    <2>2. CASE ~MarkConsumed
      BY <1>1, <2>2 DEF Consume, ConsumeNothing, ConsumeBegin, Scan, ScanOutside, Undefined,
                        Deliver, ConsumeEnd, vars, shared
    <2>3. CASE MarkConsumed
      <3>1. PICK p \in Producers : Writing(p) /\ b \in Occupied(log[cur[p]])
        BY <1>1 DEF BeingWritten, Writing
      <3>2. PICK m : m = Marked + 1
        OBVIOUS
      <3>3. /\ m \in Marked + 1 .. ScannedTo /\ m \in Marked + 1 .. Len(log)
            /\ \A c \in Blocks : c \notin Occupied(log[m]) => mem'[c] = mem[c]
        BY <2>1, <2>3, <3>2, WipesOwn
      <3>4. /\ cur[p] \in ScannedTo + 1 .. Len(log) /\ cur[p] \in Marked + 1 .. Len(log)
        BY <2>1, <3>1, WriterAhead DEF TypeInside
      <3>5. cur[p] # m
        <4>1. ScannedTo \in Nat
          BY <2>1, Numbers DEF TypeInside, OrderInv
        <4> QED
          BY <3>3, <3>4, <4>1
      <3> QED
        BY <1>1, <2>1, <3>1, <3>3, <3>4, <3>5, Apart
    <2> QED
      BY <2>2, <2>3
  <1>2. RegionInv /\ [Next]_vars =>
           [Consume /\ ~overtaken => \A b \in BeingWritten \cap Blocks : mem'[b] = mem[b]]_vars
    BY <1>1
  <1> QED
    BY <1>2, RegionInductive, PTL DEF Spec, ConsumerKeepsOff

\* Where the region is empty, by the hands an allocation sees, a record of less than half
\* the region is not turned away (allocate(), mpsc_bus.hpp:410-430).
THEOREM EmptyRegionAccepts == Spec => EmptyRegionTakesHalf
  <1>1. ASSUME TypeOK, NEW p \in Producers, Reject(p), 2 * want[p] + 1 < RegionBlocks
        PROVE  allocHand[p] # readHand[p]
    <2>1. allocHand[p] \in Blocks /\ want[p] \in Nat
      BY <1>1 DEF TypeOK
    <2>2. Fits(allocHand[p], allocHand[p], want[p])
      BY <1>1, <2>1, EmptyFits
    <2> QED
      BY <1>1, <2>2 DEF Reject
  <1>2. TypeOK /\ [Next]_vars =>
           [\A p \in Producers : Reject(p) /\ 2 * want[p] + 1 < RegionBlocks
                                    => allocHand[p] # readHand[p]]_vars
    BY <1>1
  <1> QED
    BY <1>2, TypeCorrect, PTL DEF Spec, EmptyRegionTakesHalf

-----------------------------------------------------------------------------
(* A region implements the queue of RecordQueue.                            *)

\* The queue's variables as MpscRegion gives them.
PlacesOf(l) == [i \in DOMAIN l |-> IF l[i].state = "claimed" THEN "reserved" ELSE "published"]
HandedOf(d) == [i \in DOMAIN d |-> d[i].msg]

LEMMA QueueInit == Init => Queue!Init
  <1> SUFFICES ASSUME Init PROVE PlacesOf(log) = <<>> /\ HandedOf(delivered) = <<>>
    BY DEF Queue!Init, PlacesOf, HandedOf
  <1>1. log = <<>> /\ delivered = <<>>
    BY DEF Init
  <1> QED
    BY <1>1 DEF PlacesOf, HandedOf

LEMMA QueueStutters ==
    ASSUME UNCHANGED <<log, delivered>>
    PROVE  UNCHANGED Queue!vars
  BY DEF Queue!vars

\* They are sequences.
LEMMA PlacesType ==
    ASSUME NEW l \in Seq(Message)
    PROVE  /\ PlacesOf(l) \in Seq({"reserved", "published"}) /\ Len(PlacesOf(l)) = Len(l)
           /\ \A i \in 1 .. Len(l) :
                 PlacesOf(l)[i] = IF l[i].state = "claimed" THEN "reserved" ELSE "published"
  <1>1. Len(l) \in Nat /\ DOMAIN l = 1 .. Len(l)
    OBVIOUS
  <1>2. PlacesOf(l) = [i \in 1 .. Len(l) |->
                          IF l[i].state = "claimed" THEN "reserved" ELSE "published"]
    BY <1>1 DEF PlacesOf
  <1>3. PlacesOf(l) \in Seq({"reserved", "published"})
    BY <1>1, <1>2
  <1>4. DOMAIN PlacesOf(l) = 1 .. Len(l)
    BY <1>2
  <1>5. Len(PlacesOf(l)) = Len(l)
    BY <1>1, <1>3, <1>4, LenProperties
  <1> QED
    BY <1>2, <1>3, <1>5

Delivery == [msg : Nat, content : SUBSET Nat]

LEMMA HandedType ==
    ASSUME NEW d \in Seq(Delivery)
    PROVE  /\ HandedOf(d) \in Seq(Nat) /\ Len(HandedOf(d)) = Len(d)
           /\ \A i \in 1 .. Len(d) : HandedOf(d)[i] = d[i].msg
  <1>1. Len(d) \in Nat /\ DOMAIN d = 1 .. Len(d) /\ \A i \in 1 .. Len(d) : d[i] \in Delivery
    OBVIOUS
  <1>2. HandedOf(d) = [i \in 1 .. Len(d) |-> d[i].msg]
    BY <1>1 DEF HandedOf
  <1>3. \A i \in 1 .. Len(d) : d[i].msg \in Nat
    BY <1>1 DEF Delivery
  <1>4. HandedOf(d) \in Seq(Nat)
    BY <1>1, <1>2, <1>3
  <1>5. DOMAIN HandedOf(d) = 1 .. Len(d)
    BY <1>2
  <1>6. Len(HandedOf(d)) = Len(d)
    BY <1>1, <1>4, <1>5, LenProperties
  <1> QED
    BY <1>2, <1>4, <1>6

LEMMA ClaimReserves ==
    ASSUME TypeInside, TypeInside', NEW p \in Producers, Claim(p)
    PROVE  Queue!Reserve
  <1>1. PICK e : log' = Append(log, e) /\ e.state = "claimed" /\ delivered' = delivered
    BY DEF Claim
  <1>2. log \in Seq(Message) /\ log' \in Seq(Message)
    BY DEF TypeInside, TypeOK
  <1>3. /\ Len(log') = Len(log) + 1 /\ log'[Len(log) + 1] = e
        /\ \A i \in 1 .. Len(log) : log'[i] = log[i]
    BY <1>1, <1>2
  <1> DEFINE P == PlacesOf(log)
             Q == PlacesOf(log')
  <1>4. /\ P \in Seq({"reserved", "published"}) /\ Len(P) = Len(log)
        /\ Q \in Seq({"reserved", "published"}) /\ Len(Q) = Len(log')
        /\ \A i \in 1 .. Len(log) :
              P[i] = IF log[i].state = "claimed" THEN "reserved" ELSE "published"
        /\ \A i \in 1 .. Len(log') :
              Q[i] = IF log'[i].state = "claimed" THEN "reserved" ELSE "published"
    BY <1>2, PlacesType
  <1> HIDE DEF P, Q
  <1>5. Q = Append(P, "reserved")
    <2>1. Append(P, "reserved") \in Seq({"reserved", "published"})
          /\ Len(Append(P, "reserved")) = Len(P) + 1
      BY <1>4
    <2>2. \A i \in 1 .. Len(P) + 1 : Append(P, "reserved")[i] = Q[i]
      BY <1>1, <1>2, <1>3, <1>4
    <2> QED
      BY <1>3, <1>4, <2>1, <2>2, SeqEqual
  <1> QED
    BY <1>1, <1>5 DEF Queue!Reserve, P, Q, PlacesOf

LEMMA UnlockPublishes ==
    ASSUME TypeInside, TypeInside', OrderInv, NEW p \in Producers, Unlock(p)
    PROVE  Queue!Publish
  <1>1. PICK i : i = cur[p]
    OBVIOUS
  <1> DEFINE s == IF pc[p] = "unlock" THEN "published" ELSE "broken"
             P == PlacesOf(log)
             Q == PlacesOf(log')
  <1>2. i \in 1 .. Len(log) /\ log[i].state = "claimed"
    BY <1>1 DEF Unlock, Writing, OrderInv, WritersInv
  <1>3. /\ log' = [log EXCEPT ![i] = Settled(log[i], s)] /\ delivered' = delivered
        /\ s # "claimed"
    BY <1>1 DEF Unlock
  <1>4. log \in Seq(Message) /\ log' \in Seq(Message)
    BY DEF TypeInside, TypeOK
  <1>5. /\ Len(log') = Len(log) /\ log'[i].state = s
        /\ \A j \in 1 .. Len(log) : j # i => log'[j] = log[j]
    <2> HIDE DEF s
    <2>1. log'[i] = Settled(log[i], s)
      BY <1>2, <1>3, <1>4
    <2> QED
      BY <1>2, <1>3, <1>4, <2>1 DEF Settled
  <1> HIDE DEF s
  <1>6. /\ P \in Seq({"reserved", "published"}) /\ Len(P) = Len(log)
        /\ Q \in Seq({"reserved", "published"}) /\ Len(Q) = Len(log')
        /\ \A j \in 1 .. Len(log) :
              P[j] = IF log[j].state = "claimed" THEN "reserved" ELSE "published"
        /\ \A j \in 1 .. Len(log') :
              Q[j] = IF log'[j].state = "claimed" THEN "reserved" ELSE "published"
    BY <1>4, PlacesType
  <1> HIDE DEF P, Q
  <1>7. i \in DOMAIN P /\ P[i] = "reserved"
    BY <1>2, <1>6, LenProperties
  <1>8. Q = [P EXCEPT ![i] = "published"]
    <2> DEFINE R == [P EXCEPT ![i] = "published"]
    <2>1. /\ R \in Seq({"reserved", "published"}) /\ Len(R) = Len(P) /\ R[i] = "published"
          /\ \A j \in 1 .. Len(P) : j # i => R[j] = P[j]
      BY <1>2, <1>6
    <2> HIDE DEF R
    <2>2. \A j \in 1 .. Len(R) : R[j] = Q[j]
      BY <1>2, <1>3, <1>5, <1>6, <2>1
    <2>3. R = Q
      BY <1>5, <1>6, <2>1, <2>2, SeqEqual
    <2> QED
      BY <2>3 DEF R
  <1> QED
    BY <1>3, <1>7, <1>8 DEF Queue!Publish, P, Q, PlacesOf

\* A batch that is handed over is the queue's next records, and each of them is published.
LEMMA DeliverDelivers ==
    ASSUME TypeInside, TypeInside', OrderInv, OrderInv', Deliver
    PROVE  Queue!Deliver
  <1> DEFINE P == PlacesOf(log)
             H == HandedOf(delivered)
             J == HandedOf(delivered')
             n == Len(batch)
  <1>1. /\ cpc = "scan" /\ cpc' = "mark" /\ batch # <<>> /\ UNCHANGED <<log, batch>>
    BY DEF Deliver
  <1>2. /\ log \in Seq(Message) /\ delivered \in Seq(Delivery) /\ delivered' \in Seq(Delivery)
        /\ batch \in Seq(Scanned)
    BY DEF TypeInside, TypeOK, Delivery
  <1>3. /\ Len(delivered) \in Nat /\ n \in Nat /\ n > 0 /\ Len(log) \in Nat
        /\ ScannedTo = Len(delivered) + n /\ Len(delivered) + n <= Len(log)
    BY <1>1, <1>2, Numbers DEF OrderInv, TypeInside, ScannedTo
  <1>4. Len(delivered') = Len(delivered) + n
    BY DeliverAppends
  <1>5. /\ H \in Seq(Nat) /\ Len(H) = Len(delivered)
        /\ J \in Seq(Nat) /\ Len(J) = Len(delivered')
        /\ \A i \in 1 .. Len(delivered) : H[i] = delivered[i].msg
        /\ \A i \in 1 .. Len(delivered') : J[i] = delivered'[i].msg
        /\ P \in Seq({"reserved", "published"}) /\ Len(P) = Len(log)
        /\ \A i \in 1 .. Len(log) :
              P[i] = IF log[i].state = "claimed" THEN "reserved" ELSE "published"
    BY <1>2, HandedType, PlacesType
  <1>6. /\ \A i \in 1 .. Len(delivered) : delivered[i].msg = i
        /\ \A i \in 1 .. Len(delivered') : delivered'[i].msg = i
    BY DEF OrderInv, DeliveredInv
  <1>7. \A i \in Len(delivered) + 1 .. Len(delivered) + n : P[i] = "published"
    <2>1. \A i \in Len(delivered) + 1 .. Len(delivered) + n :
             i \in 1 .. ScannedTo /\ i \in 1 .. Len(log)
      BY <1>3
    <2> QED
      BY <1>5, <2>1 DEF OrderInv, BatchInv
  <1> HIDE DEF P, H, J, n
  <1>8. J = H \o [j \in 1 .. n |-> Len(H) + j]
    <2> DEFINE more == [j \in 1 .. n |-> Len(H) + j]
    <2>1. more \in Seq(Nat) /\ Len(more) = n /\ \A j \in 1 .. n : more[j] = Len(H) + j
      BY <1>3, <1>5
    <2> HIDE DEF more
    <2>2. /\ H \o more \in Seq(Nat) /\ Len(H \o more) = Len(H) + n
          /\ \A i \in 1 .. Len(H) + n :
                (H \o more)[i] = IF i <= Len(H) THEN H[i] ELSE more[i - Len(H)]
      <3>1. /\ H \o more \in Seq(Nat) /\ Len(H \o more) = Len(H) + Len(more)
            /\ \A i \in 1 .. Len(H) + Len(more) :
                  (H \o more)[i] = IF i <= Len(H) THEN H[i] ELSE more[i - Len(H)]
        <4>1. H \in Seq(Nat) /\ more \in Seq(Nat)
          BY <1>5, <2>1
        <4> QED
          BY <4>1, ConcatProperties
      <3> QED
        BY <2>1, <3>1
    <2>3. \A i \in 1 .. Len(H) + n : (H \o more)[i] = i
      <3> TAKE i \in 1 .. Len(H) + n
      <3>1. CASE i <= Len(H)
        <4>1. i \in 1 .. Len(delivered)
          BY <1>3, <1>5, <3>1
        <4> QED
          BY <1>5, <1>6, <2>2, <3>1, <4>1
      <3>2. CASE ~(i <= Len(H))
        <4>1. i - Len(H) \in 1 .. n /\ Len(H) + (i - Len(H)) = i
          BY <1>3, <1>5, <3>2
        <4> QED
          BY <2>1, <2>2, <3>2, <4>1
      <3> QED
        BY <3>1, <3>2
    <2>4. \A i \in 1 .. Len(J) : J[i] = (H \o more)[i]
      BY <1>4, <1>5, <1>6, <2>3
    <2>5. Len(J) = Len(H \o more) /\ J \in Seq(Nat) /\ H \o more \in Seq(Nat)
      BY <1>4, <1>5, <2>2
    <2>6. J = H \o more
      BY <2>4, <2>5, SeqEqual
    <2> QED
      BY <2>6 DEF more
  <1>9. n \in 1 .. Len(P) /\ Len(H) + n <= Len(P) /\ Len(H) = Len(delivered)
    BY <1>3, <1>5
  <1>10. \A i \in Len(H) + 1 .. Len(H) + n : P[i] = "published"
    BY <1>7, <1>9
  <1> QED
    BY <1>1, <1>8, <1>9, <1>10 DEF Queue!Deliver, P, H, J, PlacesOf, HandedOf

LEMMA QueueStep ==
    ASSUME RegionInv, RegionInv', [Next /\ ~overtaken']_vars
    PROVE  [Queue!Next]_Queue!vars
  <1>1. CASE UNCHANGED vars
    BY <1>1, QueueStutters DEF vars, history
  <1>2. CASE overtaken'
    BY <1>1, <1>2
  <1>3. CASE Next /\ ~overtaken'
    <2>1. TypeInside /\ TypeInside' /\ OrderInv'
      BY <1>3 DEF RegionInv
    <2>2. OrderInv
      BY <1>3, OvertakenForEver DEF RegionInv, TypeInside
    <2>3. ASSUME NEW p \in Producers, Produce(p)
          PROVE  [Queue!Next]_Queue!vars
      <3>1. CASE Claim(p)
        BY <2>1, <3>1, ClaimReserves DEF Queue!Next
      <3>2. CASE Unlock(p)
        BY <2>1, <2>2, <3>2, UnlockPublishes DEF Queue!Next
      <3>3. CASE ~Claim(p) /\ ~Unlock(p)
        <4>1. UNCHANGED <<log, delivered>>
          BY <2>3, <3>3 DEF Produce, LoadReadHand, LoadAllocHand, Reject, Retry, StoreHead,
                            Encode, EncodeFails, history
        <4> QED
          BY <4>1, QueueStutters
      <3> QED
        BY <3>1, <3>2, <3>3
    <2>4. CASE Consume
      <3>1. CASE Deliver
        BY <2>1, <2>2, <3>1, DeliverDelivers DEF Queue!Next
      <3>2. CASE ~Deliver
        <4>1. UNCHANGED <<log, delivered>>
          BY <2>4, <3>2 DEF Consume, ConsumeNothing, ConsumeBegin, Scan, ScanOutside, Undefined,
                            MarkConsumed, ConsumeEnd, vars, history
        <4> QED
          BY <4>1, QueueStutters
      <3> QED
        BY <3>1, <3>2
    <2> QED
      BY <1>3, <2>3, <2>4 DEF Next
  <1> QED
    BY <1>1, <1>3

\* A region is a queue of records: places are reserved, published, and handed over in the
\* order of their reservation (allocate(), sync_output() and read_region()), as long as the
\* alloc hand goes round past no read hand an allocation remembers.
THEOREM RegionIsQueue == FreshSpec => Queue!SafeSpec
  <1>1. [Next /\ ~overtaken']_vars => [Next]_vars
    OBVIOUS
  <1>2. Init /\ [][Next /\ ~overtaken']_vars => []RegionInv
    BY <1>1, InitRegion, NextRegion, PTL
  <1>3. RegionInv /\ RegionInv' /\ [Next /\ ~overtaken']_vars => [Queue!Next]_Queue!vars
    BY QueueStep
  <1> QED
    BY <1>2, <1>3, QueueInit, PTL DEF FreshSpec, Queue!SafeSpec
=============================================================================
