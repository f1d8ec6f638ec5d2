---------------------------- MODULE LogView_proofs ----------------------------
(***************************************************************************)
(* Theorems about LogView: the epoch of the clock, for every number of     *)
(* threads that synchronise it, and the window of records that is shown,   *)
(* for every number of records, sizes of the screen and keys.              *)
(***************************************************************************)
EXTENDS LogView, FiniteSetTheorems, SequenceTheorems, TLAPS

-----------------------------------------------------------------------------
(* The clock.                                                               *)

\* A thread between its two readings has one that was right when it took it.
Syncing == [step : {"idle", "sample", "system", "steady"}, old : Int, read : Int, at : Int]
ReadRight(s) ==
    /\ s.step = "system" => s.at <= steady /\ s.read - s.at \in leads
    /\ s.step = "steady" => s.at <= steady /\ s.read = s.at
ClockInv ==
    /\ steady \in Nat /\ pause \in Nat /\ reference \in Int
    /\ leads \subseteq Int /\ lead \in leads
    /\ sync \in [Syncers -> Syncing]
    /\ \A t \in Syncers : ReadRight(sync[t])
    /\ EpochTrue

LEMMA Closeness ==
    ASSUME NEW l \in Int, NEW p \in Nat, NEW r \in Int
    PROVE  r \in l - p .. l + p <=> l - p <= r /\ r <= l + p
  OBVIOUS

LEMMA CloseStill ==
    ASSUME NEW l \in Int, NEW p \in Nat, NEW q \in Nat, p <= q, NEW r \in l - p .. l + p
    PROVE  r \in l - q .. l + q
  OBVIOUS

LEMMA ClockInit == Init => ClockInv
  <1> SUFFICES ASSUME Init PROVE ClockInv
    OBVIOUS
  <1>1. /\ steady = 0 /\ lead = 0 /\ leads = {0}
        /\ pause \in StartPauses /\ reference \in {-pause, pause}
        /\ sync = [t \in Syncers |-> Idle]
    BY DEF Init, InitPath, InitBus, InitClock
  <1>2. pause \in Nat /\ reference \in Int /\ 0 - pause <= reference /\ reference <= 0 + pause
    BY <1>1, StartPausesAssumption
  <1>3. reference \in 0 - pause .. 0 + pause
    BY <1>2, Closeness
  <1>4. EpochTrue
    BY <1>1, <1>3 DEF EpochTrue
  <1>5. sync \in [Syncers -> Syncing] /\ \A t \in Syncers : ReadRight(sync[t])
    BY <1>1 DEF Syncing, Idle, ReadRight
  <1> QED
    BY <1>1, <1>2, <1>4, <1>5 DEF ClockInv

\* The epoch stays true as leads and pauses only grow.
LEMMA EpochStays ==
    ASSUME ClockInv, reference' = reference, leads \subseteq leads', pause' \in Nat, pause <= pause'
    PROVE  EpochTrue'
  <1>1. PICK l \in leads : reference \in l - pause .. l + pause
    BY DEF ClockInv, EpochTrue
  <1>2. l \in Int /\ pause \in Nat /\ reference \in Int
    BY DEF ClockInv
  <1>3. reference' \in l - pause' .. l + pause'
    BY <1>1, <1>2, CloseStill
  <1> QED
    BY <1>1, <1>3 DEF EpochTrue

\* Two readings differ by a lead, and by the time that passed in between.
LEMMA ReadingsClose ==
    ASSUME ClockInv, NEW t \in Syncers, sync[t].step \in {"system", "steady"}
    PROVE  /\ sync[t] \in Syncing /\ sync[t].at <= steady
           /\ \E l \in leads : \E w \in {sync[t].at - steady, steady - sync[t].at} :
                 sync[t].old + Drift(t, steady) = l + w
  <1>1. /\ sync[t] \in Syncing /\ ReadRight(sync[t]) /\ steady \in Nat
        /\ leads \subseteq Int /\ lead \in leads
    BY DEF ClockInv
  <1>2. CASE sync[t].step = "system"
    <2> DEFINE l == sync[t].read - sync[t].at
               w == sync[t].at - steady
    <2>1. /\ l \in leads /\ sync[t].at <= steady
          /\ w \in {sync[t].at - steady, steady - sync[t].at}
      BY <1>1, <1>2 DEF ReadRight
    <2>2. sync[t].old + Drift(t, steady) = l + w
      BY <1>1, <1>2 DEF Drift, SystemRead, SteadyRead, Syncing
    <2> HIDE DEF l, w
    <2> QED
      BY <1>1, <2>1, <2>2
  <1>3. CASE sync[t].step = "steady"
    <2>1. sync[t].at <= steady /\ sync[t].read = sync[t].at
      BY <1>1, <1>3 DEF ReadRight
    <2>2. SystemRead(t, steady) = steady + lead /\ SteadyRead(t, steady) = sync[t].at
      BY <1>3, <2>1 DEF SystemRead, SteadyRead
    <2>3. /\ lead \in Int /\ steady \in Int /\ sync[t].at \in Int /\ sync[t].old \in Int
      BY <1>1 DEF Syncing
    <2>4. sync[t].old + Drift(t, steady) = lead + (steady - sync[t].at)
      BY <2>2, <2>3 DEF Drift
    <2> QED
      BY <1>1, <2>1, <2>4
  <1> QED
    BY <1>2, <1>3

LEMMA EndSyncKeeps ==
    ASSUME ClockInv, NEW t \in Syncers, EndSync(t, steady), steady' = steady
    PROVE  ClockInv'
  <1> DEFINE waited == steady - sync[t].at
  <1>1. /\ sync[t] \in Syncing /\ steady \in Nat /\ pause \in Nat
        /\ leads \subseteq Int /\ reference \in Int
    BY DEF ClockInv
  <1>2. /\ sync[t].step \in {"system", "steady"} /\ leads' = leads /\ lead' = lead
        /\ sync' = [sync EXCEPT ![t] = Idle]
        /\ pause' = IF waited > pause THEN waited ELSE pause
    BY DEF EndSync
  <1>3. sync[t].at <= steady
    BY <1>2, ReadingsClose
  <1>4. pause' \in Nat /\ pause <= pause' /\ waited <= pause' /\ waited \in Nat
    BY <1>1, <1>2, <1>3 DEF Syncing
  <1>5. reference' = reference \/ reference' = sync[t].old + Drift(t, steady)
    BY DEF EndSync, Exchange
  <1>6. PICK l \in leads : \E w \in {sync[t].at - steady, steady - sync[t].at} :
          sync[t].old + Drift(t, steady) = l + w
    BY <1>2, ReadingsClose
  <1>7. EpochTrue' /\ reference' \in Int
    <2>1. CASE reference' = reference
      BY <2>1, <1>1, <1>2, <1>4, EpochStays
    <2>2. CASE reference' = sync[t].old + Drift(t, steady)
      <3>1. reference' = l - waited \/ reference' = l + waited
        BY <2>2, <1>1, <1>6 DEF Syncing
      <3> HIDE DEF waited
      <3>2. /\ l \in Int /\ l \in leads' /\ reference' \in Int
            /\ l - pause' <= reference' /\ reference' <= l + pause'
        BY <3>1, <1>1, <1>2, <1>4
      <3>3. reference' \in l - pause' .. l + pause'
        BY <3>2, <1>4, Closeness
      <3> QED
        BY <3>2, <3>3 DEF EpochTrue
    <2> QED
      BY <2>1, <2>2, <1>5
  <1>8. sync' \in [Syncers -> Syncing]
    BY <1>2 DEF ClockInv, Idle, Syncing
  <1>9. ASSUME NEW u \in Syncers PROVE ReadRight(sync[u])'
    <2>1. CASE u = t
      BY <1>2, <2>1 DEF ClockInv, ReadRight, Idle
    <2>2. CASE u # t
      <3>1. sync'[u] = sync[u] /\ ReadRight(sync[u])
        BY <1>2, <2>2 DEF ClockInv
      <3> QED
        BY <1>2, <3>1 DEF ReadRight
    <2> QED
      BY <2>1, <2>2
  <1> QED
    BY <1>1, <1>2, <1>4, <1>7, <1>8, <1>9 DEF ClockInv

LEMMA ClockNext == ClockInv /\ [Next]_vars => ClockInv'
  <1> SUFFICES ASSUME ClockInv, [Next]_vars PROVE ClockInv'
    OBVIOUS
  <1>1. CASE UNCHANGED clockVars /\ steady' \in Nat /\ steady <= steady'
    <2>1. EpochTrue'
      BY <1>1, EpochStays DEF ClockInv, clockVars
    <2>2. ASSUME NEW t \in Syncers PROVE ReadRight(sync[t])'
      <3>1. sync[t] \in Syncing /\ ReadRight(sync[t]) /\ steady \in Nat
        BY DEF ClockInv
      <3> QED
        BY <1>1, <3>1 DEF Syncing, ReadRight, clockVars
    <2> QED
      BY <1>1, <2>1, <2>2 DEF ClockInv, clockVars
  <1>2. CASE SetClock /\ UNCHANGED steady
    <2>1. /\ leads \subseteq leads' /\ leads' \subseteq Int /\ lead' \in leads'
          /\ UNCHANGED <<reference, sync, pause, steady>>
      BY <1>2, LeadsAssumption DEF SetClock, ClockInv
    <2>2. EpochTrue'
      BY <2>1, EpochStays DEF ClockInv
    <2>3. ASSUME NEW t \in Syncers PROVE ReadRight(sync[t])'
      BY <2>1 DEF ClockInv, ReadRight
    <2> QED
      BY <2>1, <2>2, <2>3 DEF ClockInv
  <1>3. ASSUME NEW t \in Syncers, UNCHANGED steady,
               BeginSync(t) \/ SampleSystem(t, steady) \/ SampleSteady(t, steady)
        PROVE  ClockInv'
    <2>1. UNCHANGED <<lead, reference, leads, pause, steady>>
      BY <1>3 DEF BeginSync, SampleSystem, SampleSteady
    <2>2. EpochTrue'
      BY <2>1, EpochStays DEF ClockInv
    <2>3. /\ sync \in [Syncers -> Syncing] /\ sync[t] \in Syncing
          /\ steady \in Nat /\ reference \in Int /\ lead \in leads /\ lead \in Int
      BY DEF ClockInv
    <2>4. PICK s \in Syncing : sync' = [sync EXCEPT ![t] = s] /\ ReadRight(s)
      <3>1. CASE BeginSync(t)
        <4> DEFINE s == [step |-> "sample", old |-> reference, read |-> 0, at |-> 0]
        <4>1. sync' = [sync EXCEPT ![t] = s] /\ s \in Syncing /\ ReadRight(s)
          BY <2>3, <3>1 DEF BeginSync, Syncing, ReadRight
        <4> QED
          BY <4>1
      <3>2. CASE SampleSystem(t, steady)
        <4> DEFINE s == [step |-> "system", old |-> sync[t].old, read |-> steady + lead, at |-> steady]
        <4>1. sync' = [sync EXCEPT ![t] = s] /\ s \in Syncing
          BY <2>3, <3>2 DEF SampleSystem, Syncing
        <4>2. s.step = "system" /\ s.at <= steady /\ s.read - s.at \in leads
          BY <2>3
        <4> HIDE DEF s
        <4> QED
          BY <4>1, <4>2 DEF ReadRight
      <3>3. CASE SampleSteady(t, steady)
        <4> DEFINE s == [step |-> "steady", old |-> sync[t].old, read |-> steady, at |-> steady]
        <4>1. sync' = [sync EXCEPT ![t] = s] /\ s \in Syncing /\ ReadRight(s)
          BY <2>3, <3>3 DEF SampleSteady, Syncing, ReadRight
        <4> QED
          BY <4>1
      <3> QED
        BY <1>3, <3>1, <3>2, <3>3
    <2>5. ASSUME NEW u \in Syncers PROVE ReadRight(sync[u])'
      <3>1. sync'[u] = s \/ sync'[u] = sync[u]
        BY <2>3, <2>4
      <3>2. ReadRight(sync'[u])
        BY <2>4, <3>1 DEF ClockInv
      <3> QED
        BY <2>1, <3>2 DEF ReadRight
    <2> QED
      BY <2>1, <2>2, <2>3, <2>4, <2>5 DEF ClockInv
  <1>4. ASSUME NEW t \in Syncers, EndSync(t, steady), UNCHANGED steady
        PROVE  ClockInv'
    BY <1>4, EndSyncKeeps
  <1>5. (UNCHANGED clockVars /\ steady' \in Nat /\ steady <= steady') \/ (ClockStep /\ UNCHANGED steady)
    <2>1. CASE UNCHANGED vars
      BY <2>1 DEF vars, pathVars, ClockInv
    <2>2. CASE ViewStep /\ UNCHANGED pathVars
      BY <2>2 DEF pathVars, ClockInv
    <2>3. CASE PathStep
      <3>1. steady \in Nat
        BY DEF ClockInv
      <3>2. CASE Tick /\ UNCHANGED clockVars
        BY <3>1, <3>2 DEF Tick
      <3>3. CASE Call /\ UNCHANGED clockVars
        BY <3>1, <3>3 DEF Call
      <3>4. CASE (OpenContainer \/ Retire \/ EndContainer \/ Leave) /\ UNCHANGED clockVars
        <4>1. (OpenContainer \/ EndContainer \/ Leave) => steady' = steady
          BY DEF OpenContainer, EndContainer, Leave
        <4>2. Retire => steady' = steady
          BY DEF Retire
        <4> QED
          BY <3>1, <3>4, <4>1, <4>2
      <3> QED
        BY <2>3, <3>2, <3>3, <3>4 DEF PathStep
    <2> QED
      BY <2>1, <2>2, <2>3 DEF Next
  <1> QED
    BY <1>1, <1>2, <1>3, <1>4, <1>5 DEF ClockStep

\* The epoch is one the system's clock has given, early or late by no more than the time
\* that passed between two readings, in try_sync_epoch() or at the start, whichever clock
\* is read first and however many threads synchronise at once.
THEOREM EpochIsTrue == Spec => []EpochTrue
  <1>1. ClockInv => EpochTrue
    BY DEF ClockInv
  <1> QED
    BY <1>1, ClockInit, ClockNext, PTL DEF Spec

-----------------------------------------------------------------------------
(* Lists.                                                                   *)

IsList(s) == \E S : s \in Seq(S)

LEMMA ListFacts ==
    ASSUME NEW s, IsList(s)
    PROVE  /\ Len(s) \in Nat /\ DOMAIN s = 1 .. Len(s)
           /\ s = <<>> <=> Len(s) = 0
  <1>1. PICK S : s \in Seq(S)
    BY DEF IsList
  <1> QED
    BY <1>1, LenProperties, EmptySeq

LEMMA EmptyList == IsList(<<>>)
  BY EmptySeq DEF IsList

LEMMA AppendList ==
    ASSUME NEW s, IsList(s), NEW x
    PROVE  /\ IsList(Append(s, x)) /\ Len(Append(s, x)) = Len(s) + 1
           /\ Append(s, x)[Len(s) + 1] = x
           /\ \A i \in 1 .. Len(s) : Append(s, x)[i] = s[i]
  <1>1. PICK S : s \in Seq(S)
    BY DEF IsList
  <1>2. s \in Seq(S \cup {x})
    BY <1>1, SeqMonotonic
  <1> QED
    BY <1>2, AppendProperties DEF IsList

LEMMA ConcatList ==
    ASSUME NEW s, IsList(s), NEW t, IsList(t)
    PROVE  IsList(s \o t)
  <1>1. PICK S : s \in Seq(S)
    BY DEF IsList
  <1>2. PICK T : t \in Seq(T)
    BY DEF IsList
  <1>3. s \in Seq(S \cup T) /\ t \in Seq(S \cup T)
    BY <1>1, <1>2, SeqMonotonic
  <1> QED
    BY <1>3, ConcatProperties DEF IsList

LEMMA ExceptList ==
    ASSUME NEW s, IsList(s), NEW i \in DOMAIN s, NEW x
    PROVE  /\ IsList([s EXCEPT ![i] = x]) /\ Len([s EXCEPT ![i] = x]) = Len(s)
  <1>1. PICK S : s \in Seq(S)
    BY DEF IsList
  <1>2. s \in Seq(S \cup {x}) /\ i \in 1 .. Len(s)
    BY <1>1, SeqMonotonic, LenProperties
  <1> QED
    BY <1>2, ExceptSeq DEF IsList

LEMMA FunctionIsList ==
    ASSUME NEW n \in Nat, NEW S, NEW f \in [1 .. n -> S]
    PROVE  IsList(f)
  <1>1. f \in Seq(S)
    BY SeqDef
  <1> QED
    BY <1>1 DEF IsList

\* The positions of a list that satisfy something are finitely many.
LEMMA PartOfList ==
    ASSUME NEW s, IsList(s), NEW D, D \subseteq DOMAIN s
    PROVE  IsFiniteSet(D) /\ Cardinality(D) \in Nat
  <1>1. DOMAIN s = 1 .. Len(s) /\ Len(s) \in Nat
    BY ListFacts
  <1>2. IsFiniteSet(1 .. Len(s))
    BY <1>1, FS_Interval
  <1>3. IsFiniteSet(D)
    BY <1>1, <1>2, FS_Subset
  <1> QED
    BY <1>3, FS_CardinalityType

-----------------------------------------------------------------------------
(* The containers.                                                          *)

ListsInv ==
    /\ IsList(blocks) /\ IsList(containers)
    /\ \A k \in DOMAIN containers :
          "messages" \in DOMAIN containers[k] /\ IsList(containers[k].messages)

LEMMA ListsInit == Init => ListsInv
  <1> SUFFICES ASSUME Init PROVE ListsInv
    OBVIOUS
  <1>1. blocks = <<>> /\ containers = <<>>
    BY DEF Init, InitPath, InitBus
  <1>2. DOMAIN <<>> = {}
    BY ListFacts, EmptyList
  <1> QED
    BY <1>1, <1>2, EmptyList DEF ListsInv

\* What Retire keeps of the messages it was handed is a list.
LEMMA PassingList ==
    ASSUME ListsInv, Retire
    PROVE  \E more : IsList(more) /\ containers' = [containers EXCEPT ![Current].messages = @ \o more]
  <1> DEFINE Kept(handed) == {k \in DOMAIN handed : Passes(handed[k])}
             Passing(handed) ==
                 [k \in 1 .. Cardinality(Kept(handed)) |->
                    CHOOSE x \in Kept(handed) : Cardinality({y \in Kept(handed) : y < x}) = k - 1]
             More(handed) == [k \in DOMAIN Passing(handed) |-> handed[Passing(handed)[k]].raw]
  <1>1. PICK takesEffect \in BOOLEAN :
           containers' = [containers EXCEPT ![Current].messages = @ \o More(Handed(takesEffect))]
    BY DEF Retire, InOrder
  <1> DEFINE handed == Handed(takesEffect)
             more == More(handed)
             n == Cardinality(Kept(handed))
  <1>2. n \in Nat
    <2>1. DOMAIN handed = DOMAIN blocks
      BY DEF Handed
    <2>2. Kept(handed) \subseteq DOMAIN blocks
      BY <2>1
    <2> QED
      BY <2>2, PartOfList DEF ListsInv
  <1>3. more \in [1 .. n -> {more[k] : k \in 1 .. n}]
    OBVIOUS
  <1>4. IsList(more)
    <2> HIDE DEF more, n
    <2> QED
      BY <1>2, <1>3, FunctionIsList
  <1> QED
    BY <1>1, <1>4

LEMMA ListsNext == ListsInv /\ [Next]_vars => ListsInv'
  <1> SUFFICES ASSUME ListsInv, [Next]_vars PROVE ListsInv'
    OBVIOUS
  <1>1. IsList(blocks) /\ IsList(containers) /\ Len(containers) \in Nat
        /\ DOMAIN containers = 1 .. Len(containers)
    BY ListFacts DEF ListsInv
  <1>2. IsList(blocks')
    <2>1. CASE UNCHANGED blocks
      BY <1>1, <2>1
    <2>2. CASE Call
      <3>1. \E x : blocks' = Append(blocks, x)
        BY <2>2 DEF Call, Log, StartSpan, EndSpan, Write
      <3> QED
        BY <1>1, <3>1, AppendList
    <2>3. CASE Retire
      BY <2>3, EmptyList DEF Retire, ClearContent, InOrder
    <2> QED
      BY <2>1, <2>2, <2>3
         DEF Next, PathStep, Tick, OpenContainer, EndContainer, Leave, vars, pathVars, busVars
  <1>3. CASE UNCHANGED containers
    BY <1>2, <1>3 DEF ListsInv
  <1>4. CASE OpenContainer
    <2>1. PICK c : containers' = Append(containers, c) /\ "messages" \in DOMAIN c /\ c.messages = <<>>
      <3> DEFINE c == [epoch |-> reference, messages |-> <<>>, ended |-> FALSE]
      <3>1. containers' = Append(containers, c) /\ "messages" \in DOMAIN c /\ c.messages = <<>>
        BY <1>4 DEF OpenContainer
      <3> QED
        BY <3>1
    <2>2. IsList(containers')
      BY <1>1, <2>1, AppendList
    <2>3. ASSUME NEW k \in DOMAIN containers'
          PROVE  "messages" \in DOMAIN containers'[k] /\ IsList(containers'[k].messages)
      <3>1. k \in 1 .. Len(containers) + 1
        BY <1>1, <2>1, <2>2, <2>3, AppendList, ListFacts
      <3>2. CASE k = Len(containers) + 1
        BY <1>1, <2>1, <3>2, AppendList, EmptyList
      <3>3. CASE k \in 1 .. Len(containers)
        BY <1>1, <2>1, <3>3, AppendList DEF ListsInv
      <3> QED
        BY <1>1, <3>1, <3>2, <3>3
    <2> QED
      BY <1>2, <2>2, <2>3 DEF ListsInv
  <1>5. ASSUME NEW c, containers' = [containers EXCEPT ![Current] = c], Current \in DOMAIN containers,
               "messages" \in DOMAIN c, IsList(c.messages)
        PROVE  ListsInv'
    <2>1. IsList(containers')
      BY <1>1, <1>5, ExceptList
    <2> QED
      BY <1>1, <1>2, <1>5, <2>1 DEF ListsInv
  <1>6. IsOpen => Current \in DOMAIN containers
    BY <1>1 DEF IsOpen, Current
  <1>7. CASE Retire
    <2>1. PICK more : IsList(more) /\ containers' = [containers EXCEPT ![Current].messages = @ \o more]
      BY <1>7, PassingList
    <2>2. Current \in DOMAIN containers
      BY <1>6, <1>7 DEF Retire, InOrder
    <2> DEFINE old == containers[Current]
               c == [old EXCEPT !.messages = @ \o more]
    <2>3. "messages" \in DOMAIN old /\ IsList(old.messages)
      BY <2>2 DEF ListsInv
    <2>4. containers' = [containers EXCEPT ![Current] = c]
      BY <2>1, <2>2
    <2>5. "messages" \in DOMAIN c /\ c.messages = old.messages \o more
      BY <2>3
    <2>6. IsList(c.messages)
      BY <2>1, <2>3, <2>5, ConcatList
    <2> HIDE DEF c
    <2> QED
      BY <1>5, <2>2, <2>4, <2>5, <2>6
  <1>8. CASE EndContainer
    <2>1. Current \in DOMAIN containers
      BY <1>6, <1>8 DEF EndContainer
    <2> DEFINE old == containers[Current]
               c == [old EXCEPT !.ended = TRUE]
    <2>2. containers' = [containers EXCEPT ![Current] = c]
      BY <1>8, <2>1 DEF EndContainer
    <2>3. "messages" \in DOMAIN c /\ IsList(c.messages)
      BY <2>1 DEF ListsInv
    <2> HIDE DEF c
    <2> QED
      BY <1>5, <2>1, <2>2, <2>3
  <1>9. UNCHANGED containers \/ OpenContainer \/ Retire \/ EndContainer
    BY DEF Next, PathStep, Leave, vars, pathVars, containerVars
  <1> QED
    BY <1>3, <1>4, <1>7, <1>8, <1>9

-----------------------------------------------------------------------------
(* The display.                                                             *)

\* What View sorts is a finite set of records, so what is shown is a list.
LEMMA SortedList ==
    ASSUME ListsInv, NEW ks, ks \subseteq DOMAIN containers, NEW order \in SetToSeqs(ks)
    PROVE  IsList(Sorted(order))
  <1>1. PICK n \in Nat : order \in [1 .. n -> ks]
    <2>1. Cardinality(ks) \in Nat
      BY PartOfList DEF ListsInv
    <2> QED
      BY <2>1 DEF SetToSeqs
  <1>2. ASSUME NEW p \in 1 .. n
        PROVE  IsFiniteSet({<<p, j>> : j \in RecordsOf(order[p])})
    <2> DEFINE messages == containers[order[p]].messages
    <2>1. IsList(messages)
      BY <1>1 DEF ListsInv
    <2>2. IsFiniteSet(RecordsOf(order[p]))
      BY <2>1, PartOfList DEF RecordsOf
    <2>3. IsFiniteSet({p} \X RecordsOf(order[p]))
      BY <2>2, FS_Singleton, FS_Product
    <2>4. {<<p, j>> : j \in RecordsOf(order[p])} \subseteq {p} \X RecordsOf(order[p])
      OBVIOUS
    <2> QED
      BY <2>3, <2>4, FS_Subset
  <1>3. IsFiniteSet(Places(order))
    <2> DEFINE f == [p \in 1 .. n |-> {<<p, j>> : j \in RecordsOf(order[p])}]
               T == {{<<p, j>> : j \in RecordsOf(order[p])} : p \in 1 .. n}
    <2>1. f \in Surjection(1 .. n, T)
      BY DEF Surjection
    <2>2. IsFiniteSet(1 .. n)
      BY FS_Interval
    <2>3. IsFiniteSet(T)
      <3> HIDE DEF f, T
      <3> QED
        BY <2>1, <2>2, FS_Surjection
    <2>4. \A x \in T : IsFiniteSet(x)
      BY <1>2
    <2>5. Places(order) = UNION T
      BY <1>1 DEF Places
    <2> HIDE DEF T
    <2> QED
      BY <2>3, <2>4, <2>5, FS_UNION
  <1>4. Cardinality(Places(order)) \in Nat
    BY <1>3, FS_CardinalityType
  <1> DEFINE f == Sorted(order)
             n2 == Cardinality(Places(order))
  <1>5. f \in [1 .. n2 -> {f[k] : k \in 1 .. n2}]
    BY DEF Sorted, InOrder
  <1> HIDE DEF f, n2
  <1>6. IsList(f)
    BY <1>4, <1>5, FunctionIsList DEF n2
  <1> QED
    BY <1>6 DEF f

\* The window of compute_render_window() has the selected record, if there is room for two.
LEMMA WindowHolds ==
    ASSUME NEW count \in Nat, NEW selected \in Nat, selected < count,
           NEW lines \in Nat, lines >= 2
    PROVE  \E a \in Nat, b \in Nat :
              /\ RenderWindow(selected, count, lines) = <<a, b>>
              /\ a <= selected /\ selected < b /\ b <= count
  <1> DEFINE split == (lines + 1) \div 2
  <1>1. split \in Nat /\ split >= 1 /\ split < lines
    OBVIOUS
  <1>2. CASE count <= lines
    BY <1>2 DEF RenderWindow
  <1>3. CASE ~(count <= lines) /\ selected <= split
    BY <1>1, <1>3 DEF RenderWindow
  <1>4. CASE ~(count <= lines) /\ ~(selected <= split) /\ split >= count - selected
    <2>1. RenderWindow(selected, count, lines) = <<count - lines, count>>
      BY <1>4 DEF RenderWindow
    <2>2. count - lines \in Nat /\ count - lines <= selected
      BY <1>1, <1>4
    <2> QED
      BY <2>1, <2>2
  <1>5. CASE ~(count <= lines) /\ ~(selected <= split) /\ ~(split >= count - selected)
    <2>1. RenderWindow(selected, count, lines) = <<selected - split, selected + split>>
      BY <1>5 DEF RenderWindow
    <2>2. selected - split \in Nat /\ selected + split \in Nat /\ selected + split <= count
      BY <1>1, <1>5
    <2> QED
      BY <1>1, <2>1, <2>2
  <1> QED
    BY <1>2, <1>3, <1>4, <1>5

\* Before the viewer runs the display has all the rows there may be; while it shows records
\* it has room for one, and the selected one is among them.
GridInv ==
    /\ IsList(shown)
    /\ grid \in [selected : Nat, lastLines : Nat, rows : Nat, screen : Nat \ {0}]
    /\ ~viewing => shown = <<>> /\ grid.selected = 0 /\ grid.rows = Huge
    /\ shown # <<>> => grid.selected < Len(shown) /\ grid.rows > 0
    /\ SelectedVisible

LEMMA GridInit == Init => GridInv
  <1> SUFFICES ASSUME Init PROVE GridInv
    OBVIOUS
  <1>1. Max(Screens) \in Nat \ {0}
    BY ViewAssumption DEF Max
  <1>2. /\ shown = <<>> /\ grid.selected = 0 /\ grid.rows = Huge
        /\ grid \in [selected : Nat, lastLines : Nat, rows : Nat, screen : Nat \ {0}]
    BY <1>1, ViewAssumption DEF Init, InitView
  <1> QED
    BY <1>2, EmptyList DEF GridInv, SelectedVisible

\* At first the first record is selected.
LEMMA ViewShows ==
    ASSUME ListsInv, GridInv, View
    PROVE  GridInv'
  <1>1. loaded' \subseteq DOMAIN containers
    BY DEF View
  <1>2. PICK order \in SetToSeqs(loaded') : shown' = Sorted(order)
    BY DEF View
  <1>3. IsList(shown')
    BY <1>1, <1>2, SortedList
  <1>4. Len(shown') \in Nat /\ (shown' # <<>> => Len(shown') > 0)
    BY <1>3, ListFacts
  <1>5. grid' = grid /\ viewing' = TRUE /\ frame' = "event" /\ grid.selected = 0 /\ grid.rows = Huge
    BY DEF View, GridInv
  <1> QED
    BY <1>3, <1>4, <1>5, ViewAssumption DEF GridInv, SelectedVisible

\* A frame takes at least two lines, as the display keeps room for one.
LEMMA FrameHasSelected ==
    ASSUME GridInv, viewing, Render
    PROVE  GridInv'
  <1>1. IsList(shown) /\ Len(shown) \in Nat /\ (shown = <<>> <=> Len(shown) = 0)
    BY ListFacts DEF GridInv
  <1> DEFINE lines == Lines
  <1>2. /\ grid \in [selected : Nat, lastLines : Nat, rows : Nat, screen : Nat \ {0}]
        /\ grid.selected \in Nat /\ grid.rows \in Nat /\ grid.screen \in Nat \ {0}
    BY DEF GridInv
  <1>3. lines \in Nat /\ (grid.rows > 0 => lines >= 2)
    BY <1>2 DEF Lines
  <1>4. PICK a \in Nat, b \in Nat :
           /\ window' = <<a, b>> /\ a <= b
           /\ shown # <<>> => a <= grid.selected /\ grid.selected < b /\ b <= Len(shown)
    <2> HIDE DEF lines
    <2>1. window' = RenderWindow(grid.selected, Len(shown), lines)
      BY DEF Render, lines
    <2>2. CASE shown = <<>>
      <3>1. RenderWindow(grid.selected, Len(shown), lines) = <<0, 0>>
        BY <1>1, <1>3, <2>2 DEF RenderWindow
      <3> QED
        BY <2>1, <2>2, <3>1
    <2>3. CASE shown # <<>>
      <3>1. grid.selected < Len(shown) /\ lines >= 2
        BY <1>3, <2>3 DEF GridInv
      <3>2. PICK a \in Nat, b \in Nat :
               /\ RenderWindow(grid.selected, Len(shown), lines) = <<a, b>>
               /\ a <= grid.selected /\ grid.selected < b /\ b <= Len(shown)
        <4> DEFINE count == Len(shown)
                   selected == grid.selected
        <4>1. count \in Nat /\ selected \in Nat /\ selected < count /\ lines \in Nat /\ lines >= 2
          BY <1>1, <1>2, <1>3, <3>1
        <4> HIDE DEF count, selected
        <4>2. \E a \in Nat, b \in Nat :
                 /\ RenderWindow(selected, count, lines) = <<a, b>>
                 /\ a <= selected /\ selected < b /\ b <= count
          BY <4>1, WindowHolds
        <4> QED
          BY <4>2 DEF count, selected
      <3>3. a <= b
        BY <1>2, <3>2
      <3> QED
        BY <2>1, <3>2, <3>3
    <2> QED
      BY <2>2, <2>3
  <1>5. grid' = [grid EXCEPT !.lastLines = lines, !.rows = Lesser(b - a, grid.screen)]
    BY <1>4 DEF Render, NextGrid
  <1>6. Lesser(b - a, grid.screen) \in Nat /\ (a < b => Lesser(b - a, grid.screen) > 0)
    BY <1>2, <1>4 DEF Lesser
  <1>7. UNCHANGED <<viewing, shown>>
    BY DEF Render
  <1> DEFINE rows == Lesser(b - a, grid.screen)
  <1> HIDE DEF lines, rows
  <1>8. /\ grid' \in [selected : Nat, lastLines : Nat, rows : Nat, screen : Nat \ {0}]
        /\ grid'.selected = grid.selected /\ grid'.rows = rows
    BY <1>2, <1>3, <1>5, <1>6 DEF rows
  <1>9. shown # <<>> => a < b
    BY <1>2, <1>4
  <1> QED
    BY <1>1, <1>4, <1>6, <1>7, <1>8, <1>9 DEF GridInv, SelectedVisible, rows

LEMMA KeySelects ==
    ASSUME GridInv, viewing, Key
    PROVE  GridInv'
  <1>1. Len(shown) \in Nat /\ Len(shown) > 0
    BY ListFacts DEF GridInv, Key
  <1>2. /\ grid \in [selected : Nat, lastLines : Nat, rows : Nat, screen : Nat \ {0}]
        /\ grid.selected \in Nat /\ grid.rows \in Nat /\ grid.selected < Len(shown) /\ grid.rows > 0
    BY DEF GridInv, Key
  <1>3. PICK selected \in Moves(grid.selected) : grid' = [grid EXCEPT !.selected = selected]
    BY DEF Key
  <1>4. selected \in Nat /\ selected < Len(shown)
    BY <1>1, <1>2, <1>3 DEF Moves, Lesser
  <1>5. /\ grid' \in [selected : Nat, lastLines : Nat, rows : Nat, screen : Nat \ {0}]
        /\ grid'.selected = selected /\ grid'.rows = grid.rows
    BY <1>2, <1>3, <1>4
  <1>6. UNCHANGED <<viewing, shown>> /\ frame' = "event"
    BY DEF Key
  <1> QED
    BY <1>2, <1>4, <1>5, <1>6 DEF GridInv, SelectedVisible

LEMMA GridNext == ListsInv /\ GridInv /\ [Next]_vars => GridInv'
  <1> SUFFICES ASSUME ListsInv, GridInv, [Next]_vars PROVE GridInv'
    OBVIOUS
  <1>1. CASE UNCHANGED viewVars
    BY <1>1 DEF GridInv, SelectedVisible, viewVars
  <1>2. CASE View
    BY <1>2, ViewShows
  <1>3. CASE viewing /\ Render
    BY <1>3, FrameHasSelected
  <1>4. CASE viewing /\ Key
    BY <1>4, KeySelects
  <1>5. CASE viewing /\ Resize
    <2>1. PICK screen \in Screens : grid' = [grid EXCEPT !.screen = screen]
      BY <1>5 DEF Resize
    <2>2. screen \in Nat \ {0}
      BY ViewAssumption
    <2>3. /\ grid' \in [selected : Nat, lastLines : Nat, rows : Nat, screen : Nat \ {0}]
          /\ grid'.selected = grid.selected /\ grid'.rows = grid.rows
      BY <2>1, <2>2 DEF GridInv
    <2>4. UNCHANGED <<viewing, shown>> /\ frame' = "event"
      BY <1>5 DEF Resize
    <2> QED
      BY <1>5, <2>3, <2>4 DEF GridInv, SelectedVisible
  <1> QED
    BY <1>1, <1>2, <1>3, <1>4, <1>5 DEF Next, ViewStep, vars

\* compute_render_window() and OnRender() keep the selected record among those shown, for
\* every number of records, every order of keys and every sequence of screen sizes.
THEOREM SelectedIsVisible == Spec => []SelectedVisible
  <1>1. ListsInv /\ GridInv => SelectedVisible
    BY DEF GridInv
  <1> QED
    BY <1>1, ListsInit, ListsNext, GridInit, GridNext, PTL DEF Spec
=============================================================================
