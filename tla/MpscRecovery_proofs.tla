-------------------------- MODULE MpscRecovery_proofs --------------------------
(***************************************************************************)
(* What a recovery hands over, for every region size, set of producers,    *)
(* set of payload sizes and batch size: recover_region() meets the         *)
(* messages of a region one after the other, wherever producers and        *)
(* consumer were when their process died.                                  *)
(***************************************************************************)
EXTENDS MpscRecovery, MpscRegion_proofs, FiniteSetTheorems

\* What a recovery relies on besides RegionInv: heads of wiped messages keep their sizes,
\* a message that is not published has a producer, and batches are limited.
Spent(i) == mem[log[i].head] = Flagged(Unlocked(HeadWord(log[i].size, i)))
SpentInv == \A i \in freed + 1 .. Marked : Spent(i)
ClaimedInv ==
    \A i \in 1 .. Len(log) :
        log[i].state = "claimed" => \E p \in Producers : Writing(p) /\ cur[p] = i
BatchBound == Len(batch) <= BatchSize

RemainsInv == BatchBound /\ (overtaken \/ (SpentInv /\ ClaimedInv))

\* What was handed over, and what will be next.
Handed == recovered \o msgs

\* The scan is at the beginning of a message; those that it passed are handed over if
\* they were published and not wiped.
ScanInv ==
    /\ visited \in Nat /\ freed + visited <= Len(log)
    /\ scanPos = PosAt(freed + visited + 1)
    /\ recovered \in Seq(Nat) /\ msgs \in Seq(Nat)
    /\ \A i, j \in 1 .. Len(Handed) : i < j => Handed[i] < Handed[j]
    /\ \A i \in 1 .. Len(Handed) : /\ Handed[i] \in Marked + 1 .. freed + visited
                                   /\ log[Handed[i]].state # "claimed"
    /\ \A m \in Marked + 1 .. freed + visited :
          log[m].state = "published" => \E i \in 1 .. Len(Handed) : Handed[i] = m

RecoveryInv ==
    /\ RegionInv /\ RemainsInv
    /\ phase \in {"run", "recover", "done"}
    /\ phase = "run" => visited = 0 /\ recovered = <<>> /\ msgs = <<>>
    /\ phase # "run" /\ ~overtaken /\ ~Torn =>
          /\ ScanInv
          /\ phase = "done" => msgs = <<>> /\ freed + visited = Len(log)

-----------------------------------------------------------------------------
(* What is left in the region.                                              *)

\* A wiped message has no block of one that is not wiped.
LEMMA SpentApart ==
    ASSUME TypeInside, OrderInv, NEW i \in freed + 1 .. Marked, NEW j \in Marked + 1 .. Len(log)
    PROVE  log[i].head \in Blocks /\ log[i].head \notin Occupied(log[j])
  <1>1. /\ i \in 1 .. Len(log) /\ j \in 1 .. Len(log) /\ i # j
        /\ i \in freed + 1 .. Len(log) /\ j \in freed + 1 .. Len(log)
        /\ freed + 1 \in 1 .. Len(log) + 1 /\ freed + 1 \in freed + 1 .. Len(log) + 1
    BY Numbers DEF TypeInside, OrderInv
  <1>2. Ordered(LapAt(freed + 1), PosAt(freed + 1), allocLap, alloc_ptr)
    BY <1>1, PlacesOrdered DEF TypeInside
  <1>3. Own(i) \cap Own(j) = {}
    BY <1>1, <1>2, OwnApart DEF TypeInside, OrderInv
  <1>4. Occupied(log[i]) \subseteq Own(i) /\ Occupied(log[j]) \subseteq Own(j)
    BY <1>1, OwnParts DEF OrderInv
  <1>5. Own(i) \subseteq Blocks /\ log[i].head \in Occupied(log[i])
    BY DEF Own, Occupied
  <1> QED
    BY <1>3, <1>4, <1>5

LEMMA SpentStays ==
    ASSUME SpentInv, freed' = freed, Marked' = Marked,
           \A i \in freed + 1 .. Marked : /\ log'[i].head = log[i].head
                                          /\ log'[i].size = log[i].size
                                          /\ mem'[log[i].head] = mem[log[i].head]
    PROVE  SpentInv'
  BY DEF SpentInv, Spent

\* No step of a producer disturbs a wiped message.
LEMMA ProduceLeavesSpent ==
    ASSUME TypeInside, OrderInv, SpentInv, NEW p \in Producers, Produce(p)
    PROVE  SpentInv'
  <1>1. freed' = freed /\ Marked' = Marked /\ Len(log) \in Nat /\ Marked <= Len(log)
    <2>1. UNCHANGED <<consumer, delivered, freed>>
      BY DEF Produce, LoadReadHand, LoadAllocHand, Reject, Claim, Retry, StoreHead, Encode,
             EncodeFails, Unlock, history, consumer
    <2> QED
      BY <2>1, Numbers DEF consumer, Marked, TypeInside, OrderInv
  <1>2. \A i \in freed + 1 .. Marked : i \in 1 .. Len(log)
    BY <1>1, Numbers DEF TypeInside, OrderInv
  <1>3. CASE LoadReadHand(p) \/ LoadAllocHand(p) \/ Reject(p) \/ Retry(p) \/ EncodeFails(p)
    BY <1>1, <1>3, SpentStays
       DEF LoadReadHand, LoadAllocHand, Reject, Retry, EncodeFails, shared, history
  <1>4. CASE Claim(p)
    <2>1. mem' = mem /\ \A i \in 1 .. Len(log) : log'[i] = log[i]
      BY <1>4 DEF Claim, TypeInside, TypeOK
    <2> QED
      BY <1>1, <1>2, <2>1, SpentStays
  <1>5. CASE StoreHead(p) \/ Encode(p) \/ Unlock(p)
    <2> DEFINE m == cur[p]
    <2>1. Writing(p)
      BY <1>5 DEF StoreHead, Encode, Unlock, Writing
    <2>2. m \in Marked + 1 .. Len(log)
      BY <2>1, WriterAhead DEF TypeInside
    <2>3. log[m].size = want[p]
      BY <2>1 DEF OrderInv, WritersInv
    <2>4. \A b \in Blocks : b \notin Occupied(log[m]) => mem'[b] = mem[b]
      <3>1. mem \in [Blocks -> Word]
        BY DEF TypeInside, TypeOK
      <3> QED
        BY <1>5, <2>3, <3>1 DEF StoreHead, Encode, Unlock, Occupied, Overwrite
    <2>5. \A i \in 1 .. Len(log) : log'[i].head = log[i].head /\ log'[i].size = log[i].size
      <3>1. log \in Seq(Message)
        BY DEF TypeInside, TypeOK
      <3> QED
        BY <1>5, <3>1 DEF StoreHead, Encode, Unlock, Settled, history
    <2> HIDE DEF m
    <2>6. \A i \in freed + 1 .. Marked : mem'[log[i].head] = mem[log[i].head]
      BY <2>2, <2>4, SpentApart
    <2> QED
      BY <1>1, <1>2, <2>5, <2>6, SpentStays
  <1> QED
    BY <1>3, <1>4, <1>5 DEF Produce

LEMMA ConsumeSpends ==
    ASSUME TypeInside, OrderInv, SpentInv, Consume
    PROVE  SpentInv'
  <1>1. /\ freed \in Nat /\ Marked \in Nat /\ Len(delivered) \in Nat /\ Len(batch) \in Nat
        /\ freed <= Marked /\ Marked <= Len(log) /\ Len(log) \in Nat
    BY Numbers DEF TypeInside, OrderInv
  <1>2. CASE ConsumeNothing \/ ConsumeBegin \/ Scan \/ Undefined
    <2>1. UNCHANGED <<log, mem, freed, delivered>> /\ (cpc = "mark" <=> cpc' = "mark")
          /\ (cpc = "mark" => batch' = batch)
      BY <1>2 DEF ConsumeNothing, ConsumeBegin, Scan, Undefined, vars, shared, consumer,
                  history
    <2>2. Marked' = Marked
      BY <2>1 DEF Marked
    <2> QED
      BY <2>1, <2>2, SpentStays
  <1>3. CASE ScanOutside
    BY <1>3, NeverOutside
  <1>4. CASE Deliver
    <2>1. Len(delivered') = Len(delivered) + Len(batch)
      BY <1>4, DeliverAppends
    <2>2. Marked' = Marked
      BY <1>1, <1>4, <2>1 DEF Deliver, Marked
    <2> QED
      BY <1>4, <2>2, SpentStays DEF Deliver, shared
  <1>5. CASE ConsumeEnd
    <2>1. freed' = Len(delivered) /\ Marked' = Len(delivered)
      BY <1>5 DEF ConsumeEnd, Marked
    <2> QED
      BY <1>1, <2>1 DEF SpentInv
  <1>6. CASE MarkConsumed
    <2>1. PICK m : m = Marked + 1
      OBVIOUS
    <2>2. /\ m \in Marked + 1 .. ScannedTo /\ m \in Marked + 1 .. Len(log)
          /\ mem'[log[m].head] = Flagged(Unlocked(HeadWord(log[m].size, m)))
          /\ \A b \in Blocks : b \notin Occupied(log[m]) => mem'[b] = mem[b]
      BY <1>6, <2>1, WipesOwn
    <2>3. /\ UNCHANGED <<log, freed, delivered>> /\ batch' = Tail(batch) /\ cpc = "mark"
          /\ cpc' = IF Len(batch) = 1 THEN "scan" ELSE "mark"
      BY <1>6 DEF MarkConsumed, history
    <2>4. Marked' = m
      <3>1. Len(batch') = Len(batch) - 1
        BY <1>6, <2>3 DEF MarkConsumed, TypeInside, TypeOK
      <3> QED
        <4>1. Marked = Len(delivered) - Len(batch)
          BY <2>3 DEF Marked
        <4>2. Marked' = Len(delivered) - (IF Len(batch) = 1 THEN 0 ELSE Len(batch) - 1)
          BY <2>3, <3>1 DEF Marked
        <4>3. Len(delivered) \in Nat /\ Len(batch) \in Nat
          BY <1>1
        <4>4. CASE Len(batch) = 1
          BY <2>1, <4>1, <4>2, <4>3, <4>4
        <4>5. CASE Len(batch) # 1
          BY <2>1, <4>1, <4>2, <4>3, <4>5
        <4> QED
          BY <4>4, <4>5
    <2>5. ASSUME NEW i \in freed + 1 .. Marked PROVE Spent(i)'
      <3>1. mem'[log[i].head] = mem[log[i].head] /\ Spent(i)
        BY <2>2, SpentApart DEF SpentInv
      <3> QED
        BY <2>3, <3>1 DEF Spent
    <2>6. Spent(m)'
      BY <2>2, <2>3 DEF Spent
    <2>7. \A i \in freed + 1 .. m : i = m \/ i \in freed + 1 .. Marked
      BY <1>1, <2>1
    <2> QED
      BY <2>3, <2>4, <2>5, <2>6, <2>7 DEF SpentInv
  <1> QED
    BY <1>2, <1>3, <1>4, <1>5, <1>6 DEF Consume

\* A batch never has more messages than a batch may have.
LEMMA BatchLimited ==
    ASSUME TypeOK, BatchBound, [Next]_vars
    PROVE  BatchBound'
  <1> USE BatchAssumption DEF TypeOK
  <1>1. CASE Scan
    BY <1>1 DEF Scan, BatchBound
  <1>2. CASE MarkConsumed
    BY <1>2 DEF MarkConsumed, BatchBound
  <1>3. CASE Consume /\ ~Scan /\ ~MarkConsumed
    <2>1. batch' = batch
      BY <1>3 DEF Consume, ConsumeNothing, ConsumeBegin, ScanOutside, Undefined, Deliver,
                  ConsumeEnd, vars, consumer
    <2> QED
      BY <2>1 DEF BatchBound
  <1>4. ASSUME NEW p \in Producers, Produce(p) PROVE BatchBound'
    <2>1. batch' = batch
      BY <1>4 DEF Produce, LoadReadHand, LoadAllocHand, Reject, Claim, Retry, StoreHead,
                  Encode, EncodeFails, Unlock, consumer
    <2> QED
      BY <2>1 DEF BatchBound
  <1> QED
    BY <1>1, <1>2, <1>3, <1>4 DEF Next, vars, consumer, BatchBound

\* A message has a producer until it is published.
LEMMA ProduceKeepsClaimed ==
    ASSUME TypeInside, TypeInside', OrderInv, ClaimedInv, NEW p \in Producers, Produce(p)
    PROVE  ClaimedInv'
  <1> USE DEF TypeInside, TypeOK
  <1>1. Len(log) \in Nat /\ log \in Seq(Message)
    OBVIOUS
  <1>2. CASE LoadReadHand(p) \/ LoadAllocHand(p) \/ Reject(p) \/ Retry(p)
    <2>1. /\ UNCHANGED <<log, cur>>
          /\ \A q \in Producers : Writing(q) => Writing(q)'
      BY <1>2 DEF LoadReadHand, LoadAllocHand, Reject, Retry, history, Writing
    <2> QED
      BY <2>1 DEF ClaimedInv
  <1>3. CASE StoreHead(p) \/ Encode(p) \/ EncodeFails(p)
    <2>1. /\ UNCHANGED <<log, cur>>
          /\ \A q \in Producers : Writing(q) => Writing(q)'
      BY <1>3 DEF StoreHead, Encode, EncodeFails, history, Writing
    <2> QED
      BY <2>1 DEF ClaimedInv
  <1>4. CASE Claim(p)
    <2>1. /\ Len(log') = Len(log) + 1 /\ \A i \in 1 .. Len(log) : log'[i] = log[i]
          /\ cur' = [cur EXCEPT ![p] = Len(log) + 1] /\ pc' = [pc EXCEPT ![p] = "head"]
          /\ pc[p] = "cas"
      BY <1>1, <1>4 DEF Claim
    <2>2. ASSUME NEW i \in 1 .. Len(log'), log'[i].state = "claimed"
          PROVE  \E q \in Producers : Writing(q)' /\ cur'[q] = i
      <3>1. CASE i = Len(log) + 1
        BY <2>1, <3>1 DEF Writing
      <3>2. CASE i \in 1 .. Len(log)
        <4>1. PICK q \in Producers : Writing(q) /\ cur[q] = i
          BY <2>1, <2>2, <3>2 DEF ClaimedInv
        <4>2. q # p
          BY <2>1, <4>1 DEF Writing
        <4> QED
          BY <2>1, <4>1, <4>2 DEF Writing
      <3> HIDE DEF TypeInside, TypeOK
      <3>3. i = Len(log) + 1 \/ i \in 1 .. Len(log)
        BY <1>1, <2>1, <2>2
      <3> QED
        BY <3>1, <3>2, <3>3
    <2> QED
      BY <2>2 DEF ClaimedInv
  <1>5. CASE Unlock(p)
    <2>1. cur[p] \in 1 .. Len(log)
      BY <1>5 DEF Unlock, Writing, OrderInv, WritersInv
    <2>2. /\ Len(log') = Len(log) /\ log'[cur[p]].state # "claimed"
          /\ \A i \in 1 .. Len(log) : i # cur[p] => log'[i] = log[i]
      BY <1>1, <1>5, <2>1 DEF Unlock, Settled
    <2>3. \A q \in Producers : q # p => cur'[q] = cur[q] /\ pc'[q] = pc[q]
      BY <1>5 DEF Unlock
    <2>4. ASSUME NEW i \in 1 .. Len(log'), log'[i].state = "claimed"
          PROVE  \E q \in Producers : Writing(q)' /\ cur'[q] = i
      <3>1. i # cur[p] /\ log[i].state = "claimed" /\ i \in 1 .. Len(log)
        BY <2>2, <2>4
      <3>2. PICK q \in Producers : Writing(q) /\ cur[q] = i
        BY <3>1 DEF ClaimedInv
      <3> QED
        BY <2>3, <3>1, <3>2 DEF Writing
    <2> QED
      BY <2>4 DEF ClaimedInv
  <1> QED
    BY <1>2, <1>3, <1>4, <1>5 DEF Produce

LEMMA ConsumeKeepsClaimed ==
    ASSUME ClaimedInv, Consume
    PROVE  ClaimedInv'
  <1>1. UNCHANGED <<log, cur, pc>>
    BY DEF Consume, ConsumeNothing, ConsumeBegin, Scan, ScanOutside, Undefined, Deliver,
           MarkConsumed, ConsumeEnd, vars, locals, history
  <1> QED
    BY <1>1 DEF ClaimedInv, Writing

LEMMA InitRemains == Init => RemainsInv
  BY BatchAssumption
     DEF Init, RemainsInv, BatchBound, SpentInv, ClaimedInv, Marked

LEMMA NextRemains ==
    ASSUME RegionInv, RegionInv', RemainsInv, [Next]_vars
    PROVE  RemainsInv'
  <1>1. TypeInside /\ TypeInside' /\ TypeOK
    BY DEF RegionInv, TypeInside
  <1>2. BatchBound'
    BY <1>1, BatchLimited DEF RemainsInv
  <1>3. CASE overtaken'
    BY <1>2, <1>3 DEF RemainsInv
  <1>4. CASE ~overtaken'
    <2>1. ~overtaken
      BY <1>1, <1>4, OvertakenForEver
    <2>2. OrderInv /\ SpentInv /\ ClaimedInv
      BY <2>1 DEF RegionInv, RemainsInv
    <2>3. CASE UNCHANGED vars
      <3>1. UNCHANGED <<log, cur, pc, mem, freed, delivered, batch, cpc>>
        BY <2>3 DEF vars, shared, locals, consumer, history
      <3> QED
        BY <1>2, <2>2, <3>1
           DEF RemainsInv, SpentInv, ClaimedInv, Spent, Marked, Writing
    <2>4. CASE Consume
      BY <1>1, <1>2, <2>2, <2>4, ConsumeSpends, ConsumeKeepsClaimed DEF RemainsInv
    <2>5. ASSUME NEW p \in Producers, Produce(p) PROVE RemainsInv'
      BY <1>1, <1>2, <2>2, <2>5, ProduceLeavesSpent, ProduceKeepsClaimed DEF RemainsInv
    <2> QED
      BY <2>3, <2>4, <2>5 DEF Next
  <1> QED
    BY <1>3, <1>4

-----------------------------------------------------------------------------
(* One head.                                                                *)

\* The messages in use have a block each.
LEMMA OneBlockEach ==
    ASSUME TypeInside, OrderInv
    PROVE  Len(log) - freed <= RegionBlocks
  <1> DEFINE used == freed + 1 .. Len(log)
             headOf == [i \in used |-> log[i].head]
  <1>1. freed \in Nat /\ Len(log) \in Nat /\ freed <= Len(log)
    BY Numbers DEF TypeInside, OrderInv
  <1>2. ASSUME NEW i \in used, NEW j \in used, i # j
        PROVE  log[i].head # log[j].head
    <2>1. i \in 1 .. Len(log) /\ j \in 1 .. Len(log)
          /\ freed + 1 \in 1 .. Len(log) + 1 /\ freed + 1 \in freed + 1 .. Len(log) + 1
      BY <1>1
    <2>2. Ordered(LapAt(freed + 1), PosAt(freed + 1), allocLap, alloc_ptr)
      BY <2>1, PlacesOrdered DEF TypeInside
    <2>3. Own(i) \cap Own(j) = {}
      BY <1>2, <2>1, <2>2, OwnApart DEF TypeInside, OrderInv
    <2>4. Occupied(log[i]) \subseteq Own(i) /\ Occupied(log[j]) \subseteq Own(j)
      BY <2>1, OwnParts DEF OrderInv
    <2> QED
      BY <2>3, <2>4 DEF Occupied
  <1>3. headOf \in [used -> Blocks]
    <2>1. \A i \in used : i \in 1 .. Len(log)
      BY <1>1
    <2>2. \A i \in used : log[i] \in Message
      BY <2>1 DEF TypeInside, TypeOK
    <2> QED
      BY <2>2 DEF Message
  <1>4. IsFiniteSet(used) /\ IsFiniteSet(Blocks)
        /\ Cardinality(used) = Len(log) - freed /\ Cardinality(Blocks) = RegionBlocks
    <2>1. RegionBlocks - 1 \in Int /\ freed + 1 \in Int /\ Len(log) \in Int
      BY <1>1, RegionAssumption
    <2>2. /\ IsFiniteSet(used)
          /\ Cardinality(used) = IF freed + 1 > Len(log) THEN 0 ELSE Len(log) - (freed + 1) + 1
      BY <2>1, FS_Interval
    <2>3. /\ IsFiniteSet(Blocks)
          /\ Cardinality(Blocks) =
                IF 0 > RegionBlocks - 1 THEN 0 ELSE (RegionBlocks - 1) - 0 + 1
      BY <2>1, FS_Interval DEF Blocks
    <2> HIDE DEF used
    <2> QED
      BY <1>1, <2>2, <2>3, RegionAssumption
  <1>5. ASSUME Cardinality(Blocks) < Cardinality(used) PROVE FALSE
    <2>1. \E i, j \in used : i # j /\ headOf[i] = headOf[j]
      <3> HIDE DEF used, headOf
      <3> QED
        BY <1>3, <1>4, <1>5, FS_PigeonHole
    <2> QED
      BY <1>2, <2>1
  <1> QED
    BY <1>1, <1>4, <1>5, RegionAssumption

\* The alloc hand is where no message begins.
LEMMA BeforeAllocHand ==
    ASSUME TypeInside, OrderInv, NEW i \in freed + 1 .. Len(log)
    PROVE  PosAt(i) # alloc_ptr
  <1>1. freed \in Nat /\ Len(log) \in Nat /\ freed <= Len(log)
    BY Numbers DEF TypeInside, OrderInv
  <1>2. /\ i \in 1 .. Len(log) + 1 /\ freed + 1 \in 1 .. Len(log) + 1 /\ freed + 1 <= i
        /\ freed + 1 \in freed + 1 .. Len(log) + 1 /\ Len(log) + 1 \in 1 .. Len(log) + 1
        /\ i < Len(log) + 1 /\ i \in Nat /\ i > 0 /\ freed + 1 \in Nat /\ freed + 1 > 0
    BY <1>1
  <1>3. Ordered(LapAt(freed + 1), PosAt(freed + 1), allocLap, alloc_ptr)
    BY <1>2, PlacesOrdered DEF TypeInside
  <1>4. NotAfter(LapAt(freed + 1), PosAt(freed + 1), LapAt(i), PosAt(i))
    BY <1>2, Rises DEF TypeInside, OrderInv
  <1>5. Before(LapAt(i), PosAt(i), allocLap, alloc_ptr)
    <2>1. LapAt(Len(log) + 1) = allocLap /\ PosAt(Len(log) + 1) = alloc_ptr
      BY <1>1 DEF LapAt, PosAt
    <2>2. Before(LapAt(i), PosAt(i), LapAt(Len(log) + 1), PosAt(Len(log) + 1))
      BY <1>2 DEF OrderInv, ChainInv
    <2> QED
      BY <2>1, <2>2
  <1>6. /\ PosAt(i) \in Blocks /\ LapAt(i) \in Nat /\ PosAt(freed + 1) \in Blocks
        /\ LapAt(freed + 1) \in Nat /\ alloc_ptr \in Blocks /\ allocLap \in Nat
    BY <1>2, Positions DEF TypeInside, TypeOK
  <1> QED
    BY <1>3, <1>4, <1>5, <1>6 DEF Ordered, NotAfter, Before, Blocks

\* The scan goes on exactly as long as there are messages ahead of it.
LEMMA MoreAhead ==
    ASSUME TypeInside, OrderInv, ScanInv
    PROVE  MoreHeads <=> freed + visited < Len(log)
  <1>1. /\ freed \in Nat /\ Len(log) \in Nat /\ visited \in Nat /\ freed + visited <= Len(log)
        /\ scanPos = PosAt(freed + visited + 1)
    BY Numbers DEF TypeInside, OrderInv, ScanInv
  <1>2. CASE freed + visited = Len(log)
    BY <1>1, <1>2 DEF PosAt, MoreHeads
  <1>3. CASE freed + visited < Len(log)
    <2>1. visited < RegionBlocks
      BY <1>1, <1>3, OneBlockEach, RegionAssumption
    <2>2. freed + visited + 1 \in freed + 1 .. Len(log)
      BY <1>1, <1>3
    <2> QED
      BY <1>1, <1>3, <2>1, <2>2, BeforeAllocHand DEF MoreHeads
  <1> QED
    BY <1>1, <1>2, <1>3

\* The producer of message i died before it stored the head.
TornAt(i) == \E p \in Producers : pc[p] = "head" /\ cur[p] = i

\* What the head of a message is otherwise.
LEMMA HeadThere ==
    ASSUME TypeInside, OrderInv, SpentInv, ClaimedInv, NEW i \in freed + 1 .. Len(log),
           ~TornAt(i)
    PROVE  /\ ~mem[log[i].head].data /\ mem[log[i].head].size = log[i].size
           /\ i <= Marked => mem[log[i].head].consumed
           /\ i > Marked => /\ mem[log[i].head].msg = i
                            /\ log[i].state = "claimed" => mem[log[i].head].lock
                            /\ log[i].state # "claimed" => ~mem[log[i].head].lock
                                                             /\ ~mem[log[i].head].consumed
  <1>1. freed \in Nat /\ Marked \in Nat /\ Len(log) \in Nat /\ Marked <= Len(log)
    BY Numbers DEF TypeInside, OrderInv
  <1>2. CASE i <= Marked
    <2>1. Spent(i)
      BY <1>1, <1>2 DEF SpentInv
    <2> QED
      BY <1>1, <1>2, <2>1 DEF Spent, Flagged, Unlocked, HeadWord
  <1>3. CASE i > Marked
    <2>1. i \in Marked + 1 .. Len(log) /\ i \in 1 .. Len(log) /\ ~(i <= Marked)
      BY <1>1, <1>3
    <2>2. Holds(i)
      BY <2>1 DEF OrderInv, MemInv
    <2>3. CASE log[i].state # "claimed"
      BY <1>3, <2>1, <2>2, <2>3 DEF Holds, Unlocked, HeadWord
    <2>4. CASE log[i].state = "claimed"
      <3>1. PICK p \in Producers : Writing(p) /\ cur[p] = i
        BY <2>1, <2>4 DEF ClaimedInv
      <3>2. pc[p] # "head"
        BY <3>1 DEF TornAt
      <3>3. mem[log[i].head] = HeadWord(want[p], i) /\ log[i].size = want[p]
        BY <3>1, <3>2 DEF OrderInv, WritersInv
      <3> QED
        BY <1>3, <2>1, <2>4, <3>3 DEF HeadWord
    <2> QED
      BY <2>3, <2>4
  <1> QED
    BY <1>1, <1>2, <1>3

\* Where the scan finds the end of a message.
LEMMA EndOf ==
    ASSUME NEW e \in Message, NEW lap, NEW pos, EndsAt(e, lap, pos), NEW pay, NEW end,
           pay = (IF e.head + 1 + e.size > RegionBlocks THEN 0 ELSE e.head + 1),
           end = pay + e.size
    PROVE  e.size < RegionBlocks /\ pos = (IF end = RegionBlocks THEN 0 ELSE end)
  <1>1. e.head \in Blocks /\ e.size \in Nat
    BY DEF Message
  <1> QED
    BY <1>1, RegionAssumption DEF EndsAt, Blocks

LEMMA EndFound ==
    ASSUME TypeInside, OrderInv, NEW i \in 1 .. Len(log), NEW pay, NEW end,
           pay = (IF log[i].head + 1 + log[i].size > RegionBlocks THEN 0 ELSE log[i].head + 1),
           end = pay + log[i].size
    PROVE  log[i].size < RegionBlocks /\ PosAt(i + 1) = (IF end = RegionBlocks THEN 0 ELSE end)
  <1>1. EndsAt(log[i], LapAt(i + 1), PosAt(i + 1))
    BY DEF OrderInv, ChainInv
  <1>2. log[i] \in Message
    BY DEF TypeInside, TypeOK
  <1> QED
    BY <1>1, <1>2, EndOf

-----------------------------------------------------------------------------
(* The steps of a recovery.                                                 *)

LEMMA OneMore ==
    ASSUME NEW r \in Seq(Nat), NEW m \in Seq(Nat), NEW n \in Nat
    PROVE  /\ Append(m, n) \in Seq(Nat) /\ Len(r \o m) \in Nat
           /\ Len(r \o Append(m, n)) = Len(r \o m) + 1
           /\ \A i \in 1 .. Len(r \o m) : (r \o Append(m, n))[i] = (r \o m)[i]
           /\ (r \o Append(m, n))[Len(r \o m) + 1] = n
  OBVIOUS

LEMMA HeadReads ==
    ASSUME TypeInside, OrderInv, SpentInv, ClaimedInv, ScanInv, RecoverHead,
           NEW n, n = freed + visited + 1, ~TornAt(n)
    PROVE  /\ n \in freed + 1 .. Len(log) /\ visited' = visited + 1
           /\ UNCHANGED <<vars, phase, recovered>>
           /\ scanPos' = PosAt(n + 1)
           /\ \/ msgs' = msgs /\ ~(n > Marked /\ log[n].state = "published")
              \/ msgs' = Append(msgs, n) /\ n > Marked /\ log[n].state # "claimed"
  <1>1. /\ freed \in Nat /\ Marked \in Nat /\ Len(log) \in Nat /\ Marked <= Len(log)
        /\ visited \in Nat
    BY Numbers DEF TypeInside, OrderInv, ScanInv
  <1>2. freed + visited < Len(log)
    BY MoreAhead DEF RecoverHead
  <1>3. n \in freed + 1 .. Len(log) /\ n \in 1 .. Len(log) /\ scanPos = log[n].head
    BY <1>1, <1>2 DEF ScanInv, PosAt
  <1> DEFINE w == mem[scanPos]
  <1>4. /\ ~w.data /\ w.size = log[n].size
        /\ n <= Marked => w.consumed
        /\ n > Marked => /\ w.msg = n
                         /\ log[n].state = "claimed" => w.lock
                         /\ log[n].state # "claimed" => ~w.lock /\ ~w.consumed
    BY <1>3, HeadThere
  <1>5. PICK h \in HeadsReadFrom(w) :
           LET pay == IF scanPos + 1 + h.size > RegionBlocks THEN 0 ELSE scanPos + 1
               end == pay + h.size
           IN /\ \E parses \in Parses(h) :
                    msgs' = IF ~h.lock /\ ~h.consumed /\ parses
                            THEN Append(msgs, h.msg) ELSE msgs
              /\ scanPos' = IF end = RegionBlocks THEN 0 ELSE end
    BY DEF RecoverHead
  <1>6. h = w
    BY <1>4 DEF HeadsReadFrom
  <1> HIDE DEF w
  <1>7. scanPos' = PosAt(n + 1)
    <2>1. PICK pay : pay = IF scanPos + 1 + h.size > RegionBlocks THEN 0 ELSE scanPos + 1
      OBVIOUS
    <2>2. PICK end : end = pay + h.size
      OBVIOUS
    <2>3. PosAt(n + 1) = (IF end = RegionBlocks THEN 0 ELSE end)
      BY <1>3, <1>4, <1>6, <2>1, <2>2, EndFound
    <2> QED
      BY <1>5, <2>1, <2>2, <2>3
  <1>8. PICK parses \in Parses(h) :
           msgs' = IF ~h.lock /\ ~h.consumed /\ parses THEN Append(msgs, h.msg) ELSE msgs
    BY <1>5
  <1>9. log[n].state = "published" /\ n > Marked => parses
    BY <1>4, <1>6, <1>8 DEF Parses
  <1>10. \/ msgs' = msgs /\ ~(n > Marked /\ log[n].state = "published")
         \/ msgs' = Append(msgs, n) /\ n > Marked /\ log[n].state # "claimed"
    BY <1>1, <1>3, <1>4, <1>6, <1>8, <1>9
  <1> QED
    BY <1>3, <1>7, <1>10 DEF RecoverHead

LEMMA RecoverHeadStep ==
    ASSUME TypeInside, OrderInv, SpentInv, ClaimedInv, ScanInv, RecoverHead,
           ~TornAt(freed + visited + 1)
    PROVE  ScanInv'
  <1>1. PICK n : n = freed + visited + 1
    OBVIOUS
  <1>2. /\ n \in freed + 1 .. Len(log) /\ visited' = visited + 1
        /\ UNCHANGED <<vars, phase, recovered>> /\ scanPos' = PosAt(n + 1)
        /\ \/ msgs' = msgs /\ ~(n > Marked /\ log[n].state = "published")
           \/ msgs' = Append(msgs, n) /\ n > Marked /\ log[n].state # "claimed"
    BY <1>1, HeadReads
  <1>3. UNCHANGED <<log, alloc_ptr, freed, delivered, batch, cpc>>
    BY <1>2 DEF vars, shared, consumer, history
  <1>4. Marked' = Marked /\ PosAt(n + 1)' = PosAt(n + 1)
    BY <1>3 DEF Marked, PosAt
  <1>5. /\ freed \in Nat /\ Marked \in Nat /\ Len(log) \in Nat /\ Marked <= Len(log)
        /\ visited \in Nat
    BY Numbers DEF TypeInside, OrderInv, ScanInv
  <1>6. /\ visited' \in Nat /\ freed' + visited' <= Len(log') /\ freed' + visited' = n
        /\ scanPos' = PosAt(freed + visited + 1)'
    <2>1. freed' + visited' + 1 = n + 1
      BY <1>1, <1>2, <1>3, <1>5
    <2> QED
      BY <1>1, <1>2, <1>3, <1>4, <1>5, <2>1 DEF PosAt
  <1> DEFINE len == Len(Handed)
  <1>7. recovered \in Seq(Nat) /\ msgs \in Seq(Nat) /\ n \in Nat /\ len \in Nat
    BY <1>1, <1>5 DEF ScanInv, Handed
  <1>8. ASSUME NEW i \in 1 .. len
        PROVE  /\ Handed[i] \in Marked + 1 .. n - 1 /\ Handed[i] < n
               /\ log[Handed[i]].state # "claimed"
    BY <1>1, <1>5 DEF ScanInv
  <1>9. CASE msgs' = msgs /\ ~(n > Marked /\ log[n].state = "published")
    <2>1. Handed' = Handed /\ recovered' \in Seq(Nat) /\ msgs' \in Seq(Nat)
      BY <1>2, <1>7, <1>9 DEF Handed
    <2>2. \A i \in 1 .. len : Handed[i] \in Marked + 1 .. n
      BY <1>5, <1>7, <1>8
    <2>3. \A m \in Marked + 1 .. n : log[m].state = "published" => m \in Marked + 1 .. n - 1
      BY <1>5, <1>7, <1>9
    <2>4. \A m \in Marked + 1 .. n :
             log[m].state = "published" => \E i \in 1 .. len : Handed[i] = m
      BY <1>1, <1>5, <2>3 DEF ScanInv
    <2>5. \A i, j \in 1 .. len : i < j => Handed[i] < Handed[j]
      BY DEF ScanInv
    <2> QED
      BY <1>3, <1>4, <1>6, <1>8, <2>1, <2>2, <2>4, <2>5 DEF ScanInv
  <1>10. CASE msgs' = Append(msgs, n) /\ n > Marked /\ log[n].state # "claimed"
    <2>1. /\ Len(Handed') = len + 1 /\ \A i \in 1 .. len : Handed'[i] = Handed[i]
          /\ Handed'[len + 1] = n /\ recovered' \in Seq(Nat) /\ msgs' \in Seq(Nat)
      <3>1. Handed' = recovered \o Append(msgs, n) /\ Handed = recovered \o msgs
        BY <1>2, <1>10 DEF Handed
      <3>2. /\ Len(recovered \o Append(msgs, n)) = Len(recovered \o msgs) + 1
            /\ \A i \in 1 .. Len(recovered \o msgs) :
                  (recovered \o Append(msgs, n))[i] = (recovered \o msgs)[i]
            /\ (recovered \o Append(msgs, n))[Len(recovered \o msgs) + 1] = n
            /\ Append(msgs, n) \in Seq(Nat)
        BY <1>7, OneMore
      <3> QED
        BY <1>2, <1>7, <1>10, <3>1, <3>2
    <2> HIDE DEF len
    <2>2. \A i \in 1 .. len + 1 : i \in 1 .. len \/ i = len + 1
      BY <1>7
    <2>3. \A i \in 1 .. len + 1 : /\ Handed'[i] \in Marked + 1 .. n
                                  /\ log[Handed'[i]].state # "claimed"
      <3>1. ASSUME NEW i \in 1 .. len
            PROVE  Handed'[i] \in Marked + 1 .. n /\ log[Handed'[i]].state # "claimed"
        <4>1. Handed'[i] = Handed[i]
          BY <2>1
        <4>2. Handed[i] \in Marked + 1 .. n - 1 /\ log[Handed[i]].state # "claimed"
          BY <1>8
        <4>3. Marked + 1 .. n - 1 \subseteq Marked + 1 .. n
          BY <1>5, <1>7
        <4> QED
          BY <4>1, <4>2, <4>3
      <3>2. n \in Marked + 1 .. n
        BY <1>5, <1>7, <1>10
      <3> QED
        BY <1>10, <2>1, <2>2, <3>1, <3>2
    <2>4. ASSUME NEW i \in 1 .. len + 1, NEW j \in 1 .. len + 1, i < j
          PROVE  Handed'[i] < Handed'[j]
      <3>1. i \in 1 .. len
        BY <1>7, <2>4
      <3>2. CASE j \in 1 .. len
        BY <2>1, <2>4, <3>1, <3>2 DEF ScanInv, len
      <3>3. CASE j = len + 1
        BY <1>8, <2>1, <3>1, <3>3
      <3> QED
        BY <2>2, <3>2, <3>3
    <2>5. ASSUME NEW m \in Marked + 1 .. n, log[m].state = "published"
          PROVE  \E i \in 1 .. len + 1 : Handed'[i] = m
      <3>1. CASE m = n
        BY <1>7, <2>1, <3>1
      <3>2. CASE m # n
        <4>1. m \in Marked + 1 .. freed + visited
          BY <1>1, <1>5, <1>7, <3>2
        <4>2. PICK i \in 1 .. len : Handed[i] = m
          BY <2>5, <4>1 DEF ScanInv, len
        <4> QED
          BY <1>7, <2>1, <4>2
      <3> QED
        BY <3>1, <3>2
    <2> QED
      BY <1>3, <1>4, <1>6, <2>1, <2>3, <2>4, <2>5 DEF ScanInv
  <1> QED
    BY <1>2, <1>9, <1>10

LEMMA NeverStops ==
    ASSUME TypeInside, OrderInv, SpentInv, ClaimedInv, ScanInv, RecoverStop,
           ~TornAt(freed + visited + 1)
    PROVE  FALSE
  <1>1. PICK n : n = freed + visited + 1
    OBVIOUS
  <1>2. freed \in Nat /\ Len(log) \in Nat /\ visited \in Nat
    BY Numbers DEF TypeInside, OrderInv, ScanInv
  <1>3. freed + visited < Len(log)
    BY MoreAhead DEF RecoverStop
  <1>4. n \in freed + 1 .. Len(log) /\ n \in 1 .. Len(log) /\ scanPos = log[n].head
    BY <1>1, <1>2, <1>3 DEF ScanInv, PosAt
  <1>5. ~mem[scanPos].data /\ mem[scanPos].size = log[n].size
    BY <1>1, <1>4, HeadThere
  <1>6. log[n].size < RegionBlocks /\ log[n].size \in Nat
    <2>1. log[n].size < RegionBlocks
      BY <1>4, EndFound
    <2>2. log[n] \in Message
      BY <1>4 DEF TypeInside, TypeOK
    <2> QED
      BY <2>1, <2>2 DEF Message
  <1>7. log[n].size >= RegionBlocks
    BY <1>5 DEF RecoverStop, HeadsReadFrom
  <1> QED
    BY <1>6, <1>7, RegionAssumption

LEMMA RecoverBatchStep ==
    ASSUME TypeInside, OrderInv, ScanInv, RecoverBatch
    PROVE  ScanInv' /\ (phase' = "done" => msgs' = <<>> /\ (freed + visited = Len(log))')
  <1>1. /\ recovered' = recovered \o msgs /\ msgs' = <<>> /\ UNCHANGED <<visited, scanPos>>
        /\ UNCHANGED <<log, alloc_ptr, freed, delivered, batch, cpc>>
        /\ phase' = (IF MoreHeads THEN "recover" ELSE "done")
    BY DEF RecoverBatch, vars, shared, consumer, history
  <1>2. recovered \in Seq(Nat) /\ msgs \in Seq(Nat)
    BY DEF ScanInv
  <1>3. recovered' \in Seq(Nat) /\ msgs' \in Seq(Nat) /\ Handed' = Handed
    <2>1. recovered \o msgs \in Seq(Nat)
      BY <1>2, ConcatProperties
    <2>2. (recovered \o msgs) \o <<>> = recovered \o msgs
      BY <2>1, ConcatEmptySeq
    <2>3. <<>> \in Seq(Nat)
      BY EmptySeq
    <2> QED
      BY <1>1, <2>1, <2>2, <2>3 DEF Handed
  <1>4. Marked' = Marked /\ PosAt(freed + visited + 1)' = PosAt(freed + visited + 1)
    BY <1>1 DEF Marked, PosAt
  <1>5. ScanInv'
    BY <1>1, <1>3, <1>4 DEF ScanInv
  <1>6. /\ freed \in Nat /\ Len(log) \in Nat /\ visited \in Nat
        /\ freed + visited <= Len(log)
    BY Numbers DEF TypeInside, OrderInv, ScanInv
  <1>7. phase' = "done" => freed + visited = Len(log)
    BY <1>1, <1>6, MoreAhead
  <1> QED
    BY <1>1, <1>5, <1>7

LEMMA CrashStep ==
    ASSUME TypeInside, OrderInv, Crash, visited = 0, recovered = <<>>, msgs = <<>>
    PROVE  ScanInv'
  <1>1. /\ scanPos' = read_ptr /\ visited' = 0 /\ recovered' = <<>> /\ msgs' = <<>>
        /\ UNCHANGED <<log, alloc_ptr, freed, delivered, batch, cpc>>
    BY DEF Crash, vars, shared, consumer, history
  <1>2. /\ freed \in Nat /\ Marked \in Nat /\ Len(log) \in Nat /\ freed <= Len(log)
        /\ freed <= Marked
    BY Numbers DEF TypeInside, OrderInv
  <1>3. Handed' = <<>> /\ <<>> \in Seq(Nat) /\ Len(<<>>) = 0
    BY <1>1 DEF Handed
  <1>4. Marked' = Marked
    BY <1>1 DEF Marked
  <1>5. freed + 0 = freed /\ freed + 0 + 1 = freed + 1
    BY <1>2
  <1>6. scanPos' = PosAt(freed + visited + 1)'
    <2>1. read_ptr = PosAt(freed + 1)
      BY DEF OrderInv, HandsInv
    <2> QED
      BY <1>1, <1>5, <2>1 DEF PosAt
  <1>7. 1 .. 0 = {} /\ Marked + 1 .. freed + 0 = {}
    BY <1>2
  <1> QED
    BY <1>1, <1>2, <1>3, <1>4, <1>5, <1>6, <1>7 DEF ScanInv

-----------------------------------------------------------------------------
(* The invariant.                                                           *)

LEMMA InitRecoveryInv == InitRecovery => RecoveryInv
  BY InitRegion, InitRemains DEF InitRecovery, RecoveryInv

LEMMA NextRecoveryInv == RecoveryInv /\ [NextRecovery]_allVars => RecoveryInv'
  <1> SUFFICES ASSUME RecoveryInv, [NextRecovery]_allVars PROVE RecoveryInv'
    OBVIOUS
  <1>1. RegionInv' /\ RemainsInv'
    <2>1. [Next]_vars
      BY DEF NextRecovery, Run, Crash, Recover, RecoverHead, RecoverStop, RecoverBatch, allVars
    <2> QED
      BY <2>1, NextRegion, NextRemains DEF RecoveryInv
  <1>2. CASE Run
    BY <1>1, <1>2 DEF Run, RecoveryInv, recoveryVars
  <1>3. CASE Crash \/ Recover \/ UNCHANGED allVars
    <2>1. UNCHANGED vars
      BY <1>3 DEF Crash, Recover, RecoverHead, RecoverStop, RecoverBatch, allVars
    <2>2. UNCHANGED <<pc, overtaken>>
      BY <2>1 DEF vars, locals, history
    <2>3. (overtaken' <=> overtaken) /\ (Torn' <=> Torn)
      BY <2>2 DEF Torn
    <2>4. phase' \in {"run", "recover", "done"} /\ (phase' = "run" => UNCHANGED recoveryVars)
      BY <1>3 DEF Crash, Recover, RecoverHead, RecoverStop, RecoverBatch, allVars, recoveryVars,
                  RecoveryInv
    <2>5. phase' = "run" => phase = "run"
      BY <2>4 DEF recoveryVars
    <2>6. ASSUME phase' # "run", ~overtaken, ~Torn
          PROVE  /\ ScanInv'
                 /\ phase' = "done" => msgs' = <<>> /\ (freed + visited = Len(log))'
      <3>1. TypeInside /\ OrderInv /\ SpentInv /\ ClaimedInv /\ ~TornAt(freed + visited + 1)
        BY <2>6 DEF RecoveryInv, RegionInv, RemainsInv, Torn, TornAt
      <3>2. CASE Crash
        BY <3>1, <3>2, CrashStep DEF Crash, RecoveryInv
      <3>3. CASE RecoverHead
        <4>1. ScanInv /\ phase' = "recover"
          BY <2>6, <3>3 DEF RecoverHead, RecoveryInv
        <4> QED
          BY <2>6, <3>1, <3>3, <4>1, RecoverHeadStep
      <3>4. CASE RecoverStop
        <4>1. ScanInv
          BY <2>6, <3>4 DEF RecoverStop, RecoveryInv
        <4> QED
          BY <2>6, <3>1, <3>4, <4>1, NeverStops
      <3>5. CASE RecoverBatch
        <4>1. ScanInv
          BY <2>6, <3>5 DEF RecoverBatch, RecoveryInv
        <4> QED
          BY <3>1, <3>5, <4>1, RecoverBatchStep
      <3>6. CASE UNCHANGED allVars
        <4>1. UNCHANGED <<log, alloc_ptr, freed, delivered, batch, cpc>>
              /\ UNCHANGED <<phase, scanPos, visited, msgs, recovered>>
          BY <3>6 DEF allVars, vars, shared, consumer, history, recoveryVars
        <4>2. /\ Marked' = Marked /\ Handed' = Handed
              /\ PosAt(freed + visited + 1)' = PosAt(freed + visited + 1)
          BY <4>1 DEF Marked, Handed, PosAt
        <4>3. ScanInv /\ (phase = "done" => msgs = <<>> /\ freed + visited = Len(log))
          BY <2>6, <4>1 DEF RecoveryInv
        <4> QED
          BY <4>1, <4>2, <4>3 DEF ScanInv
      <3> QED
        BY <1>3, <3>2, <3>3, <3>4, <3>5, <3>6 DEF Recover
    <2>7. phase' = "run" => visited' = 0 /\ recovered' = <<>> /\ msgs' = <<>>
      BY <2>4, <2>5 DEF RecoveryInv, recoveryVars
    <2> QED
      BY <1>1, <2>3, <2>4, <2>6, <2>7 DEF RecoveryInv
  <1> QED
    BY <1>2, <1>3 DEF NextRecovery

\* The inductive invariant of a region whose owner may die.
THEOREM RecoveryInductive == SpecRecovery => []RecoveryInv
  <1>1. InitRecovery /\ [][NextRecovery]_allVars => []RecoveryInv
    BY InitRecoveryInv, NextRecoveryInv, PTL
  <1> QED
    BY <1>1, PTL DEF SpecRecovery

-----------------------------------------------------------------------------
(* What follows.                                                            *)

\* A recovery that found no torn place hands over what was published and not flagged
\* as consumed, exactly once and in the order of allocation (recover_region(),
\* mpsc_bus.cpp:308-372).
THEOREM RecoveryIsExact == SpecRecovery => []RecoveryExact
  <1>1. ASSUME RecoveryInv PROVE RecoveryExact
    <2> SUFFICES ASSUME phase = "done", ~overtaken, ~Torn
                 PROVE  /\ \A i, j \in DOMAIN recovered : i < j => recovered[i] < recovered[j]
                        /\ Unmarked("published") \subseteq {recovered[i] : i \in DOMAIN recovered}
                        /\ {recovered[i] : i \in DOMAIN recovered} \subseteq
                              Unmarked("published") \cup Unmarked("broken")
      BY DEF RecoveryExact
    <2>1. ScanInv /\ msgs = <<>> /\ freed + visited = Len(log) /\ TypeOK /\ CountsInv
      BY <1>1 DEF RecoveryInv, RegionInv, TypeInside, OrderInv
    <2>2. recovered \in Seq(Nat) /\ Handed = recovered /\ DOMAIN recovered = 1 .. Len(Handed)
      <3>1. recovered \in Seq(Nat)
        BY <2>1 DEF ScanInv
      <3>2. recovered \o <<>> = recovered
        BY <3>1, ConcatEmptySeq
      <3> QED
        BY <2>1, <3>1, <3>2, LenProperties DEF Handed
    <2>3. MarkedCount = Marked
      <3>1. Len(delivered) \in Nat
        BY <2>1, Numbers
      <3> QED
        BY <3>1 DEF MarkedCount, Marked
    <2>4. \A i \in Marked + 1 .. Len(log) : log[i].state \in {"claimed", "published", "broken"}
      <3>1. \A i \in Marked + 1 .. Len(log) : i \in 1 .. Len(log)
        BY <2>1, Numbers
      <3>2. \A i \in 1 .. Len(log) : log[i] \in Message
        BY <2>1 DEF TypeOK
      <3> QED
        BY <3>1, <3>2 DEF Message
    <2>5. Unmarked("published") \subseteq {recovered[i] : i \in DOMAIN recovered}
      <3>1. \A m \in Marked + 1 .. Len(log) :
               log[m].state = "published" => \E i \in DOMAIN recovered : recovered[i] = m
        BY <2>1, <2>2 DEF ScanInv
      <3> QED
        BY <2>3, <3>1 DEF Unmarked
    <2>6. \A i \in DOMAIN recovered : recovered[i] \in Unmarked("published") \cup Unmarked("broken")
      BY <2>1, <2>2, <2>3, <2>4 DEF ScanInv, Unmarked
    <2>7. \A i, j \in DOMAIN recovered : i < j => recovered[i] < recovered[j]
      BY <2>1, <2>2 DEF ScanInv
    <2> QED
      BY <2>5, <2>6, <2>7
  <1> QED
    BY <1>1, RecoveryInductive, PTL

\* At most the batch the consumer worked on is seen twice, once by the dead
\* process and once by the recovery.
AtMostOneBatchTwice ==
    ~overtaken /\ ~Torn =>
        Cardinality({recovered[i] : i \in DOMAIN recovered} \cap 1 .. Len(delivered))
            <= BatchSize

\* Dead process and recovery hand over at most one batch both: the one the consumer
\* worked on when it died (read_region(), mpsc_bus.hpp:298-343).
THEOREM OneBatchTwice == SpecRecovery => []AtMostOneBatchTwice
  <1>1. ASSUME RecoveryInv PROVE AtMostOneBatchTwice
    <2> DEFINE twice == {recovered[i] : i \in DOMAIN recovered} \cap 1 .. Len(delivered)
    <2> SUFFICES ASSUME ~overtaken, ~Torn
                 PROVE  Cardinality(twice) <= BatchSize
      BY DEF AtMostOneBatchTwice
    <2>1. /\ TypeOK /\ CountsInv /\ Len(batch) <= BatchSize
      BY <1>1 DEF RecoveryInv, RegionInv, TypeInside, OrderInv, RemainsInv, BatchBound
    <2>2. /\ Len(delivered) \in Nat /\ Marked \in Nat /\ Marked <= Len(delivered)
          /\ Len(batch) \in Nat /\ Len(delivered) - Marked <= Len(batch)
      <3>1. /\ Len(delivered) \in Nat /\ Marked \in Nat /\ Marked <= Len(delivered)
            /\ Len(batch) \in Nat
        BY <2>1, Numbers
      <3> QED
        BY <3>1 DEF Marked
    <2>3. \A i \in DOMAIN recovered : recovered[i] \in Nat /\ recovered[i] > Marked
      <3>1. CASE phase = "run"
        BY <1>1, <3>1 DEF RecoveryInv
      <3>2. CASE phase # "run"
        <4>1. ScanInv
          BY <1>1, <3>2 DEF RecoveryInv
        <4>2. recovered \in Seq(Nat) /\ msgs \in Seq(Nat)
          BY <4>1 DEF ScanInv
        <4>3. \A i \in DOMAIN recovered : i \in 1 .. Len(Handed) /\ Handed[i] = recovered[i]
          BY <4>2, ConcatProperties, LenProperties DEF Handed
        <4>4. \A i \in 1 .. Len(Handed) : Handed[i] \in Marked + 1 .. freed + visited
          BY <4>1 DEF ScanInv
        <4>5. freed + visited \in Int /\ Marked + 1 .. freed + visited \subseteq Int
          BY <2>1, <4>1, Numbers DEF ScanInv
        <4>6. \A k \in Marked + 1 .. freed + visited : k \in Nat /\ k > Marked
          BY <2>2, <4>5
        <4> QED
          BY <4>3, <4>4, <4>6
      <3> QED
        BY <3>1, <3>2
    <2>4. twice \in SUBSET (Marked + 1 .. Len(delivered))
      BY <2>2, <2>3
    <2>5. /\ IsFiniteSet(Marked + 1 .. Len(delivered))
          /\ Cardinality(Marked + 1 .. Len(delivered)) =
                IF Marked + 1 > Len(delivered) THEN 0 ELSE Len(delivered) - (Marked + 1) + 1
      <3>1. Marked + 1 \in Int /\ Len(delivered) \in Int
        BY <2>2
      <3> QED
        BY <3>1, FS_Interval
    <2> HIDE DEF twice
    <2>6. IsFiniteSet(twice) /\ Cardinality(twice) <= Cardinality(Marked + 1 .. Len(delivered))
      BY <2>4, <2>5, FS_Subset
    <2>7. Cardinality(twice) \in Nat
      BY <2>6, FS_CardinalityType
    <2> QED
      BY <2>1, <2>2, <2>5, <2>6, <2>7, BatchAssumption
  <1> QED
    BY <1>1, RecoveryInductive, PTL

-----------------------------------------------------------------------------
(* Recoveries that met a torn place.                                        *)

\* A word that a scan may take for a message, wherever it stops, is one of a message the
\* consumer did not wipe, and in its place.
Readable(w) == w.data \/ ~w.consumed
Belongs(b) == \E m \in Marked + 1 .. Len(log) : mem[b].msg = m /\ b \in Occupied(log[m])
LeftInv == \A b \in Blocks : Readable(mem[b]) => Belongs(b)

\* The scan stays inside the region, and what it collected was not given back.
CollectInv ==
    /\ scanPos \in Blocks /\ msgs \in Seq(Nat) /\ recovered \in Seq(Nat)
    /\ ~overtaken => /\ \A i \in DOMAIN msgs : msgs[i] > freed
                     /\ \A i \in DOMAIN recovered : recovered[i] > freed

GoneInv == RecoveryInv /\ (overtaken \/ LeftInv) /\ CollectInv

LEMMA ProduceLeaves ==
    ASSUME TypeInside, OrderInv, LeftInv, NEW p \in Producers, Produce(p)
    PROVE  LeftInv'
  <1>1. Marked' = Marked /\ Len(log) \in Nat /\ mem \in [Blocks -> Word] /\ Marked \in Nat
    <2>1. UNCHANGED <<consumer, delivered>>
      BY DEF Produce, LoadReadHand, LoadAllocHand, Reject, Claim, Retry, StoreHead, Encode,
             EncodeFails, Unlock, history, consumer
    <2> QED
      BY <2>1, Numbers DEF consumer, Marked, TypeInside, TypeOK, OrderInv
  <1>2. CASE LoadReadHand(p) \/ LoadAllocHand(p) \/ Reject(p) \/ Retry(p) \/ EncodeFails(p)
    <2>1. mem' = mem /\ log' = log
      BY <1>2 DEF LoadReadHand, LoadAllocHand, Reject, Retry, EncodeFails, shared, history
    <2> QED
      BY <1>1, <2>1 DEF LeftInv, Belongs
  <1>3. CASE Claim(p)
    <2>1. mem' = mem /\ Len(log') = Len(log) + 1 /\ \A i \in 1 .. Len(log) : log'[i] = log[i]
      BY <1>3 DEF Claim, TypeInside, TypeOK
    <2>2. \A m \in Marked + 1 .. Len(log) : m \in 1 .. Len(log) /\ m \in Marked + 1 .. Len(log')
      BY <1>1, <2>1
    <2> QED
      BY <1>1, <2>1, <2>2 DEF LeftInv, Belongs
  <1>4. CASE StoreHead(p) \/ Encode(p) \/ Unlock(p)
    <2> DEFINE c == cur[p]
    <2>1. Writing(p)
      BY <1>4 DEF StoreHead, Encode, Unlock, Writing
    <2>2. c \in Marked + 1 .. Len(log) /\ log[c].size = want[p]
      BY <2>1, WriterAhead DEF TypeInside, OrderInv, WritersInv
    <2>3. \A b \in Blocks : mem'[b] # mem[b] => b \in Occupied(log[c]) /\ mem'[b].msg = c
      <3>1. CASE StoreHead(p)
        BY <1>1, <2>2, <3>1 DEF StoreHead, HeadWord, Occupied
      <3>2. CASE Encode(p)
        BY <1>1, <2>2, <3>2 DEF Encode, DataWord, Overwrite, Occupied
      <3>3. CASE Unlock(p)
        <4>1. mem[log[c].head] = HeadWord(want[p], c)
          BY <2>1, <3>3 DEF Unlock, OrderInv, WritersInv
        <4> QED
          BY <1>1, <3>3, <4>1 DEF Unlock, Unlocked, HeadWord, Occupied
      <3> QED
        BY <1>4, <3>1, <3>2, <3>3
    <2>4. Len(log') = Len(log) /\ \A i \in 1 .. Len(log) : Occupied(log'[i]) = Occupied(log[i])
      <3>1. log \in Seq(Message)
        BY DEF TypeInside, TypeOK
      <3> QED
        BY <1>4, <3>1 DEF StoreHead, Encode, Unlock, Settled, history, Occupied
    <2>5. \A m \in Marked + 1 .. Len(log) : m \in 1 .. Len(log)
      BY <1>1
    <2> HIDE DEF c
    <2>6. ASSUME NEW b \in Blocks, Readable(mem'[b]) PROVE Belongs(b)'
      <3>1. CASE mem'[b] = mem[b]
        <4>1. PICK m \in Marked + 1 .. Len(log) : mem[b].msg = m /\ b \in Occupied(log[m])
          BY <2>6, <3>1 DEF LeftInv, Belongs
        <4> QED
          BY <1>1, <2>4, <2>5, <3>1, <4>1 DEF Belongs
      <3>2. CASE mem'[b] # mem[b]
        BY <1>1, <2>2, <2>3, <2>4, <2>5, <3>2 DEF Belongs
      <3> QED
        BY <3>1, <3>2
    <2> QED
      BY <2>6 DEF LeftInv
  <1> QED
    BY <1>2, <1>3, <1>4 DEF Produce

LEMMA ConsumeLeaves ==
    ASSUME TypeInside, OrderInv, LeftInv, Consume
    PROVE  LeftInv'
  <1>1. /\ Marked \in Nat /\ Len(delivered) \in Nat /\ Len(batch) \in Nat /\ Len(log) \in Nat
    BY Numbers DEF TypeInside, OrderInv
  <1>2. CASE ConsumeNothing \/ ConsumeBegin \/ Scan \/ Undefined
    <2>1. UNCHANGED <<log, mem, delivered>> /\ (cpc = "mark" <=> cpc' = "mark")
          /\ (cpc = "mark" => batch' = batch)
      BY <1>2 DEF ConsumeNothing, ConsumeBegin, Scan, Undefined, vars, shared, consumer,
                  history
    <2>2. Marked' = Marked
      BY <2>1 DEF Marked
    <2> QED
      BY <2>1, <2>2 DEF LeftInv, Belongs
  <1>3. CASE ScanOutside
    BY <1>3, NeverOutside
  <1>4. CASE Deliver
    <2>1. Len(delivered') = Len(delivered) + Len(batch)
      BY <1>4, DeliverAppends
    <2>2. Marked' = Marked /\ UNCHANGED <<log, mem>>
      BY <1>1, <1>4, <2>1 DEF Deliver, Marked, shared
    <2> QED
      BY <2>2 DEF LeftInv, Belongs
  <1>5. CASE ConsumeEnd
    <2>1. Marked' = Marked /\ UNCHANGED <<log, mem>>
      BY <1>1, <1>5 DEF ConsumeEnd, Marked
    <2> QED
      BY <2>1 DEF LeftInv, Belongs
  <1>6. CASE MarkConsumed
    <2>1. PICK m : m = Marked + 1
      OBVIOUS
    <2>2. /\ mem'[log[m].head] = Flagged(Unlocked(HeadWord(log[m].size, m)))
          /\ \A b \in Span(log[m].pay, log[m].size) : mem'[b] = Fill
          /\ \A b \in Blocks : b \notin Occupied(log[m]) => mem'[b] = mem[b]
      BY <1>6, <2>1, WipesOwn
    <2>3. log' = log /\ Marked' = m
      <3>1. /\ log' = log /\ batch' = Tail(batch) /\ cpc = "mark" /\ batch # <<>>
            /\ cpc' = IF Len(batch) = 1 THEN "scan" ELSE "mark"
            /\ delivered' = delivered
        BY <1>6 DEF MarkConsumed, history
      <3>2. Len(batch') = Len(batch) - 1
        BY <3>1 DEF TypeInside, TypeOK
      <3>3. Marked = Len(delivered) - Len(batch)
        BY <3>1 DEF Marked
      <3>4. Marked' = Len(delivered) - (IF Len(batch) = 1 THEN 0 ELSE Len(batch) - 1)
        BY <3>1, <3>2 DEF Marked
      <3>5. CASE Len(batch) = 1
        BY <1>1, <2>1, <3>1, <3>3, <3>4, <3>5
      <3>6. CASE Len(batch) # 1
        BY <1>1, <2>1, <3>1, <3>3, <3>4, <3>6
      <3> QED
        BY <3>5, <3>6
    <2>4. ASSUME NEW b \in Blocks, Readable(mem'[b]) PROVE Belongs(b)'
      <3>1. b \notin Occupied(log[m])
        BY <2>2, <2>4 DEF Occupied, Readable, Fill, Flagged, Unlocked, HeadWord
      <3>2. mem'[b] = mem[b]
        BY <2>2, <3>1
      <3>3. PICK k \in Marked + 1 .. Len(log) : mem[b].msg = k /\ b \in Occupied(log[k])
        BY <2>4, <3>2 DEF LeftInv, Belongs
      <3>4. k \in m + 1 .. Len(log)
        BY <1>1, <2>1, <3>1, <3>3
      <3> QED
        BY <2>3, <3>2, <3>3, <3>4 DEF Belongs
    <2> QED
      BY <2>4 DEF LeftInv
  <1> QED
    BY <1>2, <1>3, <1>4, <1>5, <1>6 DEF Consume

\* What a scan takes from any word of the region was not given back.
LEMMA HeadLeft ==
    ASSUME TypeInside, OrderInv, LeftInv, NEW b \in Blocks, NEW h \in HeadsReadFrom(mem[b]),
           ~h.consumed
    PROVE  h.msg > freed
  <1>1. h.msg = mem[b].msg /\ Readable(mem[b])
    <2>1. CASE mem[b].data
      <3> DEFINE flags == IF mem[b].consumed THEN {TRUE} ELSE BOOLEAN
      <3>1. h \in [data : {TRUE}, lock : flags, consumed : flags,
                   size : 0 .. RegionBlocks, msg : {mem[b].msg}]
        BY <2>1 DEF HeadsReadFrom
      <3> QED
        BY <2>1, <3>1 DEF Readable
    <2>2. CASE ~mem[b].data
      BY <2>2 DEF HeadsReadFrom, Readable
    <2> QED
      BY <2>1, <2>2
  <1>2. h.msg \in Marked + 1 .. Len(log)
    BY <1>1 DEF LeftInv, Belongs
  <1> QED
    BY <1>2, Numbers DEF TypeInside, OrderInv

LEMMA CollectHead ==
    ASSUME TypeInside, overtaken \/ (OrderInv /\ LeftInv), CollectInv, RecoverHead
    PROVE  CollectInv'
  <1> DEFINE pay(h) == IF scanPos + 1 + h.size > RegionBlocks THEN 0 ELSE scanPos + 1
             end(h) == pay(h) + h.size
  <1>1. UNCHANGED <<freed, overtaken, recovered>>
    BY DEF RecoverHead, vars, history
  <1>2. PICK h \in HeadsReadFrom(mem[scanPos]) :
          /\ h.size < RegionBlocks
          /\ msgs' = msgs \/ (~h.consumed /\ msgs' = Append(msgs, h.msg))
          /\ scanPos' = IF end(h) = RegionBlocks THEN 0 ELSE end(h)
    BY DEF RecoverHead
  <1>3. scanPos \in Blocks /\ mem[scanPos] \in Word
    BY DEF CollectInv, TypeInside, TypeOK
  <1>4. h.size \in Nat /\ h.msg \in Nat
    BY <1>3, HeadInside
  <1>5. scanPos' \in Blocks
    BY <1>2, <1>3, <1>4, RegionAssumption DEF Blocks
  <1>6. msgs' \in Seq(Nat)
    BY <1>2, <1>4 DEF CollectInv
  <1>7. ~overtaken => \A i \in DOMAIN msgs' : msgs'[i] > freed
    <2> SUFFICES ASSUME ~overtaken, NEW i \in DOMAIN msgs' PROVE msgs'[i] > freed
      OBVIOUS
    <2>1. CASE msgs' = msgs
      BY <2>1 DEF CollectInv
    <2>2. CASE ~h.consumed /\ msgs' = Append(msgs, h.msg)
      <3>1. h.msg > freed
        BY <1>3, <2>2, HeadLeft
      <3>2. i \in DOMAIN msgs \/ i = Len(msgs) + 1
        BY <2>2 DEF CollectInv
      <3>3. msgs'[i] = IF i = Len(msgs) + 1 THEN h.msg ELSE msgs[i]
        BY <1>4, <2>2 DEF CollectInv
      <3>4. i \in DOMAIN msgs => i # Len(msgs) + 1
        BY DEF CollectInv
      <3> QED
        BY <3>1, <3>2, <3>3, <3>4 DEF CollectInv
    <2> QED
      BY <1>2, <2>1, <2>2
  <1> QED
    BY <1>1, <1>5, <1>6, <1>7 DEF CollectInv

LEMMA CollectBatch ==
    ASSUME CollectInv, RecoverBatch
    PROVE  CollectInv'
  <1>1. /\ recovered' = recovered \o msgs /\ msgs' = <<>> /\ scanPos' = scanPos
        /\ UNCHANGED <<freed, overtaken>>
    BY DEF RecoverBatch, vars, history
  <1>2. recovered \in Seq(Nat) /\ msgs \in Seq(Nat)
    BY DEF CollectInv
  <1>3. /\ recovered' \in Seq(Nat) /\ msgs' \in Seq(Nat) /\ DOMAIN msgs' = {}
    BY <1>1, <1>2, ConcatProperties
  <1>4. \A i \in DOMAIN recovered' :
           \/ i \in DOMAIN recovered /\ recovered'[i] = recovered[i]
           \/ \E j \in DOMAIN msgs : recovered'[i] = msgs[j]
    BY <1>1, <1>2
  <1> QED
    BY <1>1, <1>3, <1>4 DEF CollectInv

LEMMA InitGone == InitRecovery => GoneInv
  <1> SUFFICES ASSUME InitRecovery PROVE GoneInv
    OBVIOUS
  <1>1. RecoveryInv
    BY InitRecoveryInv
  <1>2. LeftInv
    BY DEF InitRecovery, Init, LeftInv, Readable, Fill
  <1>3. CollectInv
    BY RegionAssumption DEF InitRecovery, CollectInv, Blocks
  <1> QED
    BY <1>1, <1>2, <1>3 DEF GoneInv

LEMMA NextGone == GoneInv /\ [NextRecovery]_allVars => GoneInv'
  <1> SUFFICES ASSUME GoneInv, [NextRecovery]_allVars PROVE GoneInv'
    OBVIOUS
  <1>1. RecoveryInv /\ RecoveryInv'
    BY NextRecoveryInv DEF GoneInv
  <1>2. /\ TypeInside /\ (overtaken \/ (OrderInv /\ LeftInv)) /\ CollectInv
        /\ TypeInside' /\ TypeOK
    BY <1>1 DEF GoneInv, RecoveryInv, RegionInv, TypeInside
  <1>3. CASE Run
    <2>1. Next /\ UNCHANGED recoveryVars /\ phase = "run"
      BY <1>3 DEF Run
    <2>2. overtaken' \/ LeftInv'
      <3>1. CASE overtaken
        BY <1>2, <2>1, <3>1, OvertakenForEver
      <3>2. CASE ~overtaken
        BY <1>2, <2>1, <3>2, ProduceLeaves, ConsumeLeaves DEF Next
      <3> QED
        BY <3>1, <3>2
    <2>3. msgs' = <<>> /\ recovered' = <<>> /\ scanPos' = scanPos
      BY <1>1, <2>1 DEF RecoveryInv, recoveryVars
    <2>4. CollectInv'
      BY <1>2, <2>3 DEF CollectInv
    <2> QED
      BY <1>1, <2>2, <2>4 DEF GoneInv
  <1>4. CASE Crash \/ Recover \/ UNCHANGED allVars
    <2>1. UNCHANGED vars
      BY <1>4 DEF Crash, Recover, RecoverHead, RecoverStop, RecoverBatch, allVars
    <2>2. UNCHANGED <<mem, log, delivered, batch, cpc, freed, overtaken>>
      BY <2>1 DEF vars, shared, consumer, history
    <2>3. overtaken' \/ LeftInv'
      BY <1>2, <2>2 DEF LeftInv, Belongs, Marked
    <2>4. CollectInv'
      <3>1. CASE Crash
        <4>1. scanPos' = read_ptr /\ UNCHANGED <<msgs, recovered>> /\ read_ptr \in Blocks
          BY <1>2, <3>1 DEF Crash, TypeOK
        <4> QED
          BY <1>2, <2>2, <4>1 DEF CollectInv
      <3>2. CASE RecoverHead
        BY <1>2, <3>2, CollectHead
      <3>3. CASE RecoverBatch
        BY <1>2, <3>3, CollectBatch
      <3>4. CASE RecoverStop \/ UNCHANGED allVars
        <4>1. UNCHANGED <<scanPos, msgs, recovered>>
          BY <3>4 DEF RecoverStop, allVars, recoveryVars
        <4> QED
          BY <1>2, <2>2, <4>1 DEF CollectInv
      <3> QED
        BY <1>4, <3>1, <3>2, <3>3, <3>4 DEF Recover
    <2> QED
      BY <1>1, <2>3, <2>4 DEF GoneInv
  <1> QED
    BY <1>3, <1>4 DEF NextRecovery

\* Wherever the process died and however far the scan got out of step in a torn place, the
\* recovery hands over nothing of a message that the consumer gave back to the producers:
\* read_region() wipes a message before it moves the read hand (mpsc_bus.hpp:269-338).
THEOREM GivenBackIsGone == SpecRecovery => []GivenBackStaysGone
  <1>1. GoneInv => GivenBackStaysGone
    BY DEF GoneInv, CollectInv, GivenBackStaysGone
  <1>2. InitRecovery /\ [][NextRecovery]_allVars => []GoneInv
    BY InitGone, NextGone, PTL
  <1> QED
    BY <1>1, <1>2, PTL DEF SpecRecovery

-----------------------------------------------------------------------------
(* How a recovery begins.                                                   *)

\* The first n messages handed over are those in front of the first torn place, as they
\* should be.
InFront(m) == \A p \in Producers : pc[p] = "head" => m < cur[p]
Front(n) ==
    /\ n \in 0 .. Len(Handed)
    /\ \A i, j \in 1 .. n : i < j => Handed[i] < Handed[j]
    /\ \A i \in 1 .. n : /\ Handed[i] \in Marked + 1 .. Len(log)
                         /\ log[Handed[i]].state # "claimed" /\ InFront(Handed[i])
    /\ \A m \in Marked + 1 .. Len(log) :
          log[m].state = "published" /\ InFront(m) => \E i \in 1 .. n : Handed[i] = m

\* The scan met no torn place yet, or it began as it should.
InStep ==
    /\ ScanInv
    /\ \A i \in freed + 1 .. freed + visited : ~TornAt(i)
    /\ phase = "done" => freed + visited = Len(log)
FrontInv == phase # "run" /\ ~overtaken => InStep \/ \E n \in Nat : Front(n)

LimitInv ==
    /\ Len(msgs) <= BatchSize
    /\ phase = "done" => Len(msgs) < BatchSize

BeginInv == GoneInv /\ FrontInv /\ LimitInv

\* Up to the first torn place the scan makes no mistake.
LEMMA FrontFound ==
    ASSUME TypeInside, OrderInv, InStep,
           TornAt(freed + visited + 1) \/ freed + visited = Len(log)
    PROVE  Front(Len(Handed)) /\ Len(Handed) \in Nat
  <1>1. /\ freed \in Nat /\ Marked \in Nat /\ Len(log) \in Nat /\ Marked <= Len(log)
        /\ visited \in Nat /\ freed + visited <= Len(log) /\ freed <= Marked
    BY Numbers DEF TypeInside, OrderInv, InStep, ScanInv
  <1>2. recovered \in Seq(Nat) /\ msgs \in Seq(Nat)
    BY DEF InStep, ScanInv
  <1>3. Len(Handed) \in Nat
    BY <1>2 DEF Handed
  <1>4. ASSUME NEW p \in Producers, pc[p] = "head" PROVE cur[p] > freed + visited
    <2>1. cur[p] \in Marked + 1 .. Len(log)
      BY <1>4, WriterAhead DEF Writing, TypeInside
    <2>2. cur[p] \notin freed + 1 .. freed + visited
      BY <1>4 DEF InStep, TornAt
    <2> QED
      BY <1>1, <2>1, <2>2
  <1>5. \A i \in 1 .. Len(Handed) : /\ Handed[i] \in Marked + 1 .. freed + visited
                                    /\ log[Handed[i]].state # "claimed"
    BY DEF InStep, ScanInv
  <1>6. ASSUME NEW i \in 1 .. Len(Handed)
        PROVE  /\ Handed[i] \in Marked + 1 .. Len(log)
               /\ log[Handed[i]].state # "claimed" /\ InFront(Handed[i])
    <2>1. PICK m \in Marked + 1 .. freed + visited : m = Handed[i]
      BY <1>5
    <2>2. m \in Marked + 1 .. Len(log) /\ m <= freed + visited /\ m \in Int
      BY <1>1, <2>1
    <2>3. \A p \in Producers : pc[p] = "head" => cur[p] \in Nat
      BY DEF TypeInside, TypeOK
    <2>4. InFront(m)
      BY <1>1, <1>4, <2>2, <2>3 DEF InFront
    <2> QED
      BY <1>5, <2>1, <2>2, <2>4
  <1>7. ASSUME NEW m \in Marked + 1 .. Len(log), log[m].state = "published", InFront(m)
        PROVE  \E i \in 1 .. Len(Handed) : Handed[i] = m
    <2>1. m \in Marked + 1 .. freed + visited
      <3>1. CASE freed + visited = Len(log)
        BY <3>1
      <3>2. CASE TornAt(freed + visited + 1)
        <4>1. m < freed + visited + 1
          BY <1>7, <3>2 DEF TornAt, InFront
        <4> QED
          BY <1>1, <4>1
      <3> QED
        BY <3>1, <3>2
    <2> QED
      BY <1>7, <2>1 DEF InStep, ScanInv
  <1>8. \A i, j \in 1 .. Len(Handed) : i < j => Handed[i] < Handed[j]
    BY DEF InStep, ScanInv
  <1>9. Len(Handed) \in 0 .. Len(Handed)
    BY <1>3
  <1> QED
    BY <1>3, <1>6, <1>7, <1>8, <1>9 DEF Front

\* What begins as it should goes on to.
LEMMA FrontStays ==
    ASSUME NEW n \in Nat, Front(n), UNCHANGED vars, Len(Handed) \in Nat,
           Len(Handed') \in Nat, Len(Handed) <= Len(Handed'),
           \A i \in 1 .. Len(Handed) : Handed'[i] = Handed[i]
    PROVE  Front(n)'
  <1>1. UNCHANGED <<log, delivered, batch, cpc, pc, cur>>
    BY DEF vars, consumer, locals, history
  <1>2. Marked' = Marked /\ \A m : InFront(m)' = InFront(m)
    BY <1>1 DEF Marked, InFront
  <1>3. n \in 0 .. Len(Handed') /\ \A i \in 1 .. n : i \in 1 .. Len(Handed)
    BY DEF Front
  <1>4. \A i \in 1 .. n : Handed'[i] = Handed[i]
    BY <1>3
  <1> QED
    BY <1>1, <1>2, <1>3, <1>4 DEF Front

\* What is handed over grows, by a message at most.
LEMMA HandedGrows ==
    ASSUME msgs \in Seq(Nat), recovered \in Seq(Nat), TypeInside, scanPos \in Blocks,
           RecoverHead \/ RecoverStop \/ RecoverBatch \/ UNCHANGED allVars
    PROVE  /\ UNCHANGED vars /\ Len(Handed) \in Nat /\ Len(Handed') \in Nat
           /\ Len(Handed) <= Len(Handed')
           /\ \A i \in 1 .. Len(Handed) : Handed'[i] = Handed[i]
  <1>1. CASE RecoverHead
    <2>1. PICK h \in HeadsReadFrom(mem[scanPos]) : msgs' = msgs \/ msgs' = Append(msgs, h.msg)
      BY <1>1 DEF RecoverHead
    <2>2. UNCHANGED <<vars, recovered>>
      BY <1>1 DEF RecoverHead
    <2>3. h.msg \in Nat
      BY HeadInside DEF TypeInside, TypeOK
    <2>4. CASE msgs' = msgs
      BY <2>2, <2>4 DEF Handed
    <2>5. CASE msgs' = Append(msgs, h.msg)
      <3>1. Handed' = recovered \o Append(msgs, h.msg)
        BY <2>2, <2>5 DEF Handed
      <3> QED
        BY <2>2, <2>3, <3>1, OneMore DEF Handed
    <2> QED
      BY <2>1, <2>4, <2>5
  <1>2. CASE RecoverStop \/ UNCHANGED allVars
    <2>1. UNCHANGED <<vars, msgs, recovered>>
      BY <1>2 DEF RecoverStop, allVars, recoveryVars
    <2> QED
      BY <2>1 DEF Handed
  <1>3. CASE RecoverBatch
    <2>1. UNCHANGED vars /\ recovered' = recovered \o msgs /\ msgs' = <<>>
      BY <1>3 DEF RecoverBatch
    <2>2. (recovered \o msgs) \o <<>> = recovered \o msgs /\ recovered \o msgs \in Seq(Nat)
      BY ConcatEmptySeq, ConcatProperties
    <2> QED
      BY <2>1, <2>2 DEF Handed
  <1> QED
    BY <1>1, <1>2, <1>3

LEMMA InitBegin == InitRecovery => BeginInv
  BY InitGone, BatchAssumption DEF InitRecovery, BeginInv, FrontInv, LimitInv

LEMMA NextLimit ==
    ASSUME msgs \in Seq(Nat), LimitInv, RecoveryInv', [NextRecovery]_allVars
    PROVE  LimitInv'
  <1>1. CASE Run \/ Crash
    BY <1>1, BatchAssumption DEF Run, Crash, recoveryVars, LimitInv
  <1>2. CASE RecoverHead
    <2>1. PICK h : msgs' = msgs \/ msgs' = Append(msgs, h)
      BY <1>2 DEF RecoverHead
    <2>2. Len(msgs) < BatchSize /\ phase' = "recover"
      BY <1>2 DEF RecoverHead
    <2>3. Len(msgs') <= Len(msgs) + 1 /\ Len(msgs) \in Nat /\ Len(msgs') \in Nat
      BY <2>1
    <2> QED
      BY <2>2, <2>3, BatchAssumption DEF LimitInv
  <1>3. CASE RecoverStop
    BY <1>3, BatchAssumption DEF RecoverStop, LimitInv
  <1>4. CASE RecoverBatch
    <2>1. Len(msgs') = 0
      BY <1>4 DEF RecoverBatch
    <2> QED
      BY <2>1, BatchAssumption DEF LimitInv
  <1>5. CASE UNCHANGED allVars
    BY <1>5 DEF allVars, recoveryVars, LimitInv
  <1> QED
    BY <1>1, <1>2, <1>3, <1>4, <1>5 DEF NextRecovery, Recover

LEMMA NextFront ==
    ASSUME GoneInv, FrontInv, [NextRecovery]_allVars
    PROVE  FrontInv'
  <1>1. TypeInside /\ RecoveryInv /\ CollectInv
    BY DEF GoneInv, RecoveryInv, RegionInv
  <1>2. CASE Run
    BY <1>2 DEF Run, recoveryVars, FrontInv
  <1>3. CASE Crash
    <2> SUFFICES ASSUME ~overtaken PROVE InStep'
      <3>1. overtaken' = overtaken
        BY <1>3 DEF Crash, vars, history
      <3> QED
        BY <3>1 DEF FrontInv
    <2>1. OrderInv
      BY <1>1 DEF RecoveryInv, RegionInv
    <2>2. ScanInv' /\ visited' = 0 /\ phase' = "recover" /\ freed' = freed
      BY <1>1, <1>3, <2>1, CrashStep DEF Crash, RecoveryInv, vars, history
    <2>3. freed \in Nat
      BY <1>1, <2>1, Numbers DEF TypeInside, OrderInv
    <2>4. freed' + 1 .. freed' + visited' = {}
      BY <2>2, <2>3
    <2> QED
      BY <2>2, <2>4 DEF InStep
  <1>4. CASE Recover \/ UNCHANGED allVars
    <2>1. /\ UNCHANGED vars /\ Len(Handed) \in Nat /\ Len(Handed') \in Nat
          /\ Len(Handed) <= Len(Handed')
          /\ \A i \in 1 .. Len(Handed) : Handed'[i] = Handed[i]
      BY <1>1, <1>4, HandedGrows DEF Recover, CollectInv
    <2>2. UNCHANGED <<freed, overtaken, pc, cur, log>>
      BY <2>1 DEF vars, locals, history
    <2> SUFFICES ASSUME ~overtaken, phase' # "run"
                 PROVE  InStep' \/ \E n \in Nat : Front(n)'
      BY <2>2 DEF FrontInv
    <2>3. /\ OrderInv /\ SpentInv /\ ClaimedInv /\ phase # "run"
      <3>1. phase # "run"
        BY <1>4 DEF Recover, RecoverHead, RecoverStop, RecoverBatch, allVars, recoveryVars
      <3> QED
        BY <1>1, <3>1 DEF RecoveryInv, RegionInv, RemainsInv
    <2>4. ASSUME NEW n \in Nat, Front(n) PROVE Front(n)'
      BY <2>1, <2>4, FrontStays
    <2>5. CASE ~InStep
      BY <2>3, <2>4, <2>5 DEF FrontInv
    <2>6. CASE InStep
      <3> DEFINE next == freed + visited + 1
      <3>1. CASE TornAt(next)
        BY <1>1, <2>3, <2>4, <2>6, <3>1, FrontFound
      <3>2. CASE ~TornAt(next)
        <4>1. CASE RecoverHead
          <5>1. ScanInv' /\ visited' = visited + 1 /\ phase' = "recover"
            BY <1>1, <2>3, <2>6, <3>2, <4>1, RecoverHeadStep DEF InStep, RecoverHead
          <5>2. freed \in Nat /\ visited \in Nat
            BY <1>1, <2>3, <2>6, Numbers DEF TypeInside, OrderInv, InStep, ScanInv
          <5>3. \A i \in freed + 1 .. freed + visited' : i \in freed + 1 .. freed + visited \/ i = next
            BY <5>1, <5>2
          <5>4. \A i : TornAt(i)' <=> TornAt(i)
            BY <2>2 DEF TornAt
          <5> QED
            BY <2>2, <2>6, <3>2, <5>1, <5>3, <5>4 DEF InStep
        <4>2. CASE RecoverStop
          BY <1>1, <2>3, <2>6, <3>2, <4>2, NeverStops DEF InStep
        <4>3. CASE RecoverBatch
          <5>1. ScanInv' /\ visited' = visited /\ (phase' = "done" => (freed + visited = Len(log))')
            BY <1>1, <2>3, <2>6, <4>3, RecoverBatchStep DEF InStep, RecoverBatch
          <5>2. \A i : TornAt(i)' <=> TornAt(i)
            BY <2>2 DEF TornAt
          <5> QED
            BY <2>2, <2>6, <5>1, <5>2 DEF InStep
        <4>4. CASE UNCHANGED allVars
          <5>1. UNCHANGED <<log, alloc_ptr, freed, delivered, batch, cpc>>
                /\ UNCHANGED <<phase, scanPos, visited, msgs, recovered>>
            BY <4>4 DEF allVars, vars, shared, consumer, history, recoveryVars
          <5>2. /\ Marked' = Marked /\ Handed' = Handed
                /\ PosAt(freed + visited + 1)' = PosAt(freed + visited + 1)
            BY <5>1 DEF Marked, Handed, PosAt
          <5>3. \A i : TornAt(i)' <=> TornAt(i)
            BY <2>2 DEF TornAt
          <5> QED
            BY <2>6, <5>1, <5>2, <5>3 DEF InStep, ScanInv
        <4> QED
          BY <1>4, <4>1, <4>2, <4>3, <4>4 DEF Recover
      <3> QED
        BY <3>1, <3>2
    <2> QED
      BY <2>5, <2>6
  <1> QED
    BY <1>2, <1>3, <1>4 DEF NextRecovery

LEMMA NextBegin == BeginInv /\ [NextRecovery]_allVars => BeginInv'
  <1> SUFFICES ASSUME BeginInv, [NextRecovery]_allVars PROVE BeginInv'
    OBVIOUS
  <1>1. GoneInv /\ GoneInv' /\ FrontInv /\ LimitInv
    BY NextGone DEF BeginInv
  <1>2. msgs \in Seq(Nat) /\ RecoveryInv'
    BY <1>1 DEF GoneInv, CollectInv
  <1> QED
    BY <1>1, <1>2, NextFront, NextLimit DEF BeginInv

\* The messages of a batch are no more than its places.
LEMMA BatchCount ==
    ASSUME NEW m \in Seq(Nat), NEW T \in SUBSET {m[j] : j \in 1 .. Len(m)}
    PROVE  Cardinality(T) \in Nat /\ Cardinality(T) <= Len(m)
  <1> DEFINE all == {m[j] : j \in 1 .. Len(m)}
  <1>1. Len(m) \in Nat /\ m \in [1 .. Len(m) -> all]
    BY LenProperties
  <1>2. m \in Surjection(1 .. Len(m), all)
    BY <1>1 DEF Surjection
  <1>3. IsFiniteSet(1 .. Len(m)) /\ Cardinality(1 .. Len(m)) = Len(m)
    <2>1. 1 \in Int /\ Len(m) \in Int
      BY <1>1
    <2>2. /\ IsFiniteSet(1 .. Len(m))
          /\ Cardinality(1 .. Len(m)) = IF 1 > Len(m) THEN 0 ELSE Len(m) - 1 + 1
      BY <2>1, FS_Interval
    <2> QED
      BY <1>1, <2>2
  <1> HIDE DEF all
  <1>4. IsFiniteSet(all) /\ Cardinality(all) <= Len(m)
    BY <1>2, <1>3, FS_Surjection
  <1>5. IsFiniteSet(T) /\ Cardinality(T) <= Cardinality(all)
    BY <1>4, FS_Subset DEF all
  <1> QED
    BY <1>1, <1>4, <1>5, FS_CardinalityType

\* Wherever the process died, a recovery begins with what was published and not flagged in
\* front of the first torn place, once and in order, and what it drops of that is less than a
\* batch (recover_region(), mpsc_bus.cpp:308-372).
THEOREM RecoveryBeginsRight == SpecRecovery => []BeginsRight
  <1>1. ASSUME BeginInv PROVE BeginsRight
    <2> DEFINE take(k) == {recovered[i] : i \in 1 .. k}
    <2> SUFFICES ASSUME phase = "done", ~overtaken
                 PROVE  \E k \in 0 .. Len(recovered) :
                           /\ \A i, j \in 1 .. k : i < j => recovered[i] < recovered[j]
                           /\ take(k) \subseteq
                                 (Unmarked("published") \cup Unmarked("broken")) \cap BeforeTorn
                           /\ Cardinality((Unmarked("published") \cap BeforeTorn) \ take(k)) < BatchSize
      BY DEF BeginsRight
    <2>1. TypeInside /\ TypeOK /\ OrderInv /\ CountsInv /\ LimitInv
      BY <1>1 DEF BeginInv, GoneInv, RecoveryInv, RegionInv, TypeInside, OrderInv
    <2>2. msgs \in Seq(Nat) /\ recovered \in Seq(Nat)
      BY <1>1 DEF BeginInv, GoneInv, CollectInv
    <2>3. /\ Len(log) \in Nat /\ Marked \in Nat /\ DOMAIN log = 1 .. Len(log)
          /\ MarkedCount = Marked
      <3>1. Len(log) \in Nat /\ Marked \in Nat /\ Len(delivered) \in Nat /\ Len(batch) \in Nat
        BY <2>1, Numbers
      <3> QED
        BY <2>1, <3>1 DEF MarkedCount, Marked, TypeOK
    <2>4. PICK n \in Nat : Front(n)
      BY <1>1, <2>1, FrontFound DEF BeginInv, FrontInv, InStep
    <2>5. /\ Len(recovered) \in Nat /\ Len(msgs) \in Nat
          /\ Len(Handed) = Len(recovered) + Len(msgs)
          /\ \A i \in 1 .. Len(recovered) : Handed[i] = recovered[i]
          /\ \A i \in 1 .. Len(Handed) :
                i > Len(recovered) => /\ i - Len(recovered) \in 1 .. Len(msgs)
                                      /\ Handed[i] = msgs[i - Len(recovered)]
      BY <2>2 DEF Handed
    <2>6. PICK k \in Nat : k = IF n <= Len(recovered) THEN n ELSE Len(recovered)
      BY <2>5
    <2>7. /\ k \in 0 .. Len(recovered) /\ k <= n
          /\ \A i \in 1 .. k : i \in 1 .. n /\ i \in 1 .. Len(recovered)
          /\ \A i \in 1 .. n : i <= Len(recovered) => i \in 1 .. k
      BY <2>5, <2>6
    <2>8. \A i, j \in 1 .. k : i < j => recovered[i] < recovered[j]
      BY <2>4, <2>5, <2>7 DEF Front
    <2>9. ASSUME NEW i \in 1 .. k
          PROVE  recovered[i] \in (Unmarked("published") \cup Unmarked("broken")) \cap BeforeTorn
      <3>1. PICK m \in Marked + 1 .. Len(log) : /\ m = recovered[i]
                                                /\ log[m].state # "claimed" /\ InFront(m)
        BY <2>4, <2>5, <2>7 DEF Front
      <3>2. m \in DOMAIN log /\ log[m] \in Message
        BY <2>1, <2>3 DEF TypeOK
      <3>3. log[m].state \in {"published", "broken"}
        BY <3>1, <3>2 DEF Message
      <3> QED
        BY <2>3, <3>1, <3>2, <3>3 DEF Unmarked, BeforeTorn, InFront
    <2>10. (Unmarked("published") \cap BeforeTorn) \ take(k) \in
              SUBSET {msgs[j] : j \in 1 .. Len(msgs)}
      <3> SUFFICES ASSUME NEW m \in Unmarked("published"), m \in BeforeTorn, m \notin take(k)
                   PROVE  \E j \in 1 .. Len(msgs) : m = msgs[j]
        OBVIOUS
      <3>1. m \in Marked + 1 .. Len(log) /\ log[m].state = "published" /\ InFront(m)
        BY <2>3 DEF Unmarked, BeforeTorn, InFront
      <3>2. PICK i \in 1 .. n : Handed[i] = m
        BY <2>4, <3>1 DEF Front
      <3>3. i > Len(recovered)
        BY <2>5, <2>7, <3>2
      <3>4. i \in 1 .. Len(Handed)
        BY <2>4, <2>5, <3>2 DEF Front
      <3> QED
        BY <2>5, <3>2, <3>3, <3>4
    <2>11. Len(msgs) < BatchSize
      BY <2>1 DEF LimitInv
    <2>12. Cardinality((Unmarked("published") \cap BeforeTorn) \ take(k)) < BatchSize
      <3> DEFINE lost == (Unmarked("published") \cap BeforeTorn) \ take(k)
      <3>1. lost \in SUBSET {msgs[j] : j \in 1 .. Len(msgs)}
        BY <2>10
      <3> HIDE DEF lost
      <3>2. Cardinality(lost) \in Nat /\ Cardinality(lost) <= Len(msgs)
        BY <2>2, <3>1, BatchCount
      <3>3. Cardinality(lost) < BatchSize
        BY <2>5, <2>11, <3>2, BatchAssumption
      <3> QED
        BY <3>3 DEF lost
    <2>13. take(k) \subseteq (Unmarked("published") \cup Unmarked("broken")) \cap BeforeTorn
      BY <2>9
    <2> HIDE DEF take
    <2> QED
      BY <2>7, <2>8, <2>12, <2>13
  <1>2. InitRecovery /\ [][NextRecovery]_allVars => []BeginInv
    BY InitBegin, NextBegin, PTL
  <1> QED
    BY <1>1, <1>2, PTL DEF SpecRecovery
=============================================================================
