-------------------------- MODULE BusRegistry_proofs --------------------------
(***************************************************************************)
(* Proofs about the message buses of a file database, for every set of     *)
(* processes, any rotation the database was left with and any number of    *)
(* buses, failures and crashes: file_database_handle and                   *)
(* db_mpsc_bus_handle.                                                     *)
(***************************************************************************)
EXTENDS BusRegistry, FiniteSetTheorems, WellFoundedInduction, TLAPS

BusFile == [id : Nat, owner : Handles \cup {Nobody}]

\* What the lock's holder does.
Creating == {"naming", "named", "unregistered", "registered"}
Removing == {"removing", "removed", "gone"}
Pruning == {"pruning", "erased", "replaying", "replayed", "recovered"}

TypeInv ==
    /\ current \in Lists /\ intent \in Lists /\ holder \in Handles \cup {Nobody}
    /\ DOMAIN busFiles \subseteq Nat /\ busFiles \in [DOMAIN busFiles -> BusFile]
    /\ DOMAIN recFiles \subseteq Nat \X Nat /\ recFiles \in [DOMAIN recFiles -> SUBSET Nat]
    /\ own \in [Handles -> Nat] /\ phase \in [Handles -> {"none", "new", "open", "unlinked"}]
    /\ step \in {"none", "failed", "emptying"} \cup Creating \cup Removing \cup Pruning
    /\ at \in Entry /\ todo \subseteq Entry /\ due \subseteq Nat /\ created \in Nat

\* Rotations have a bound, and the one of a bus is the one in its name or erased.
Bounded(entries) == \E b \in Nat : \A e \in entries : e.rotation <= b
RotationsTell(entries) == \A e \in entries : e.rotation # 0 => e.rotation = e.bus
WellFormed(list) == Bounded(list.ctrs) /\ Bounded(list.buses) /\ RotationsTell(list.buses)
ListInv == WellFormed(current) /\ WellFormed(intent)

\* The state of an operation is that of the holder of the lock.
HolderInv ==
    /\ holder = Nobody <=> step = "none"
    /\ step = "none" => intent = NoEntries
    /\ step \in Creating => phase[holder] = "none" /\ at.rotation = at.bus /\ at.bus # 0
    /\ step \in {"named", "unregistered"} => at \in intent.buses
    /\ step = "registered" => at \in current.buses
    /\ step \in Removing => phase[holder] = "unlinked"
    /\ step \in Pruning \ {"recovered"} => intent.ctrs = current.ctrs
    /\ step \notin Pruning => due = {}

\* The ids of buses tell files apart and are used once.
IdsDiffer(files) == \A m, n \in DOMAIN files : files[m].id = files[n].id => m = n
IdInv ==
    /\ \A n \in DOMAIN busFiles : busFiles[n].id <= created
    /\ IdsDiffer(busFiles)
    /\ \A r \in DOMAIN recFiles : \A id \in recFiles[r] : id <= created
    /\ owed \subseteq 0..created

\* A process that has its bus owns the file; what is not open yet has no records.
Living(p) == phase[p] \in {"new", "open"}
Unused(n) == busFiles[n].id \notin owed
LivingOwn == \A p \in Handles : Living(p) => Exists(own[p]) /\ busFiles[own[p]].owner = p
NewUnused == \A p \in Handles : phase[p] = "new" => Unused(own[p])
NamedInv ==
    step \in Creating \ {"naming"} =>
        Exists(at.bus) /\ busFiles[at.bus].owner = holder /\ Unused(at.bus)
OwnInv == LivingOwn /\ NewUnused /\ NamedInv

\* Files with records, and those in use, are listed and will be, unless the entry
\* was removed for another bus of the same rotation.
Live(list, n) == \E e \in list.buses : e.bus = n /\ e.rotation # 0
Wanted(n) ==
    /\ busFiles[n].id \notin stolen
    /\ busFiles[n].id \in owed \/ \E p \in Handles : own[p] = n /\ Living(p)
Dropped(n) == step \in {"removed", "gone"} /\ own[holder] = n
FilesListed ==
    \A n \in DOMAIN busFiles : Wanted(n) =>
        /\ Live(current, n)
        /\ holder = Nobody \/ Dropped(n) \/ Live(intent, n)

\* A list has the records of a bus once, and not while the bus is there.
NameOf(e) == <<e.bus, e.rotation>>
Contains(e, id) == NameOf(e) \in DOMAIN recFiles /\ id \in recFiles[NameOf(e)]
NotInFile(list) ==
    \A e \in list.ctrs, id \in Nat : Contains(e, id) =>
        \A n \in DOMAIN busFiles : busFiles[n].id # id
Once(list) ==
    \A e, f \in list.ctrs, id \in Nat :
        Contains(e, id) /\ Contains(f, id) => NameOf(e) = NameOf(f)
ExactInv == NotInFile(current) /\ NotInFile(intent) /\ Once(current) /\ Once(intent)

\* The bus that is being recovered stays, and its container has no other records.
ReplayInv ==
    /\ step \in {"replaying", "replayed"} =>
         /\ Exists(at.bus) /\ ~Locked(at.bus)
         /\ RecoveryName(at) \in DOMAIN recFiles
         /\ recFiles[RecoveryName(at)] \subseteq {busFiles[at.bus].id}
    /\ step = "replayed" => owed \cap {busFiles[at.bus].id} \subseteq recFiles[RecoveryName(at)]

\* What a prune has to recover stays abandoned until it comes to it.
DueInv ==
    \A n \in due : Exists(n) =>
        /\ ~Locked(n)
        /\ (\E e \in todo : e.bus = n) \/ (\E r \in DOMAIN recFiles : r[1] = n)

BusesInv ==
    /\ TypeInv /\ ListInv /\ HolderInv /\ IdInv /\ OwnInv /\ FilesListed /\ ExactInv
    /\ ReplayInv /\ DueInv

-----------------------------------------------------------------------------
(* Helpers of the model.                                                    *)

LEMMA HasLeast ==
    ASSUME NEW S \in SUBSET Nat, S # {}
    PROVE  \E least \in S : \A s \in S : least <= s
  <1> DEFINE R == {ss \in Nat \X Nat : ss[1] < ss[2]}
  <1>1. IsWellFoundedOn(R, Nat)
    BY NatLessThanWellFounded DEF OpToRel
  <1> HIDE DEF R
  <1>2. PICK least \in S : \A s \in S : ~(<<s, least>> \in R)
    BY <1>1, WFMin
  <1>3. \A s \in S : ~(s < least)
    BY <1>2 DEF R
  <1> QED
    BY <1>3

\* A set of numbers that has a bound has a largest one.
LEMMA LargestOfBounded ==
    ASSUME NEW S \in SUBSET Nat, S # {}, NEW b \in Nat, \A s \in S : s <= b
    PROVE  Max(S) \in S /\ \A s \in S : s <= Max(S)
  <1> DEFINE Bounds == {n \in Nat : \A s \in S : s <= n}
  <1>1. PICK least \in Bounds : \A n \in Bounds : least <= n
    BY HasLeast
  <1>2. least \in S
    <2> SUFFICES ASSUME least \notin S PROVE FALSE
      OBVIOUS
    <2>1. PICK s0 \in S : TRUE
      OBVIOUS
    <2>2. least - 1 \in Bounds
      BY <2>1
    <2> QED
      BY <1>1, <2>2
  <1>3. \A s \in S : least >= s
    OBVIOUS
  <1> HIDE DEF Bounds
  <1> QED
    BY <1>2, <1>3 DEF Max

\* The last rotation of a list is a number, and none is larger.
LEMMA LastIsLargest ==
    ASSUME NEW entries \in SUBSET Entry, Bounded(entries)
    PROVE  /\ Max({0} \cup Rotations(entries)) \in Nat
           /\ \A e \in entries : e.rotation <= Max({0} \cup Rotations(entries))
  <1> DEFINE S == {0} \cup Rotations(entries)
  <1>1. PICK b \in Nat : \A e \in entries : e.rotation <= b
    BY DEF Bounded
  <1>2. S \in SUBSET Nat /\ S # {} /\ \A s \in S : s <= b
    BY <1>1 DEF Rotations, Entry
  <1>3. \A e \in entries : e.rotation \in S
    BY DEF Rotations
  <1> HIDE DEF S
  <1>4. Max(S) \in S /\ \A s \in S : s <= Max(S)
    BY <1>2, LargestOfBounded
  <1>5. Max(S) \in Nat /\ \A e \in entries : e.rotation <= Max(S)
    BY <1>2, <1>3, <1>4
  <1> QED
    BY <1>5 DEF S

\* A container gets a name that no listed one has.
LEMMA RecoveryNameIsNew ==
    ASSUME intent \in Lists, Bounded(intent.ctrs), NEW e \in Entry
    PROVE  /\ RecoveryName(e) \in Nat \X Nat /\ RecoveryName(e)[1] = e.bus
           /\ Recovered(e) \in Entry /\ NameOf(Recovered(e)) = RecoveryName(e)
           /\ \A f \in intent.ctrs : f.rotation < Recovered(e).rotation
  <1> DEFINE last == Max({0} \cup Rotations(intent.ctrs))
  <1>1. intent.ctrs \in SUBSET Entry
    BY DEF Lists
  <1>2. last \in Nat /\ \A f \in intent.ctrs : f.rotation <= last
    BY <1>1, LastIsLargest
  <1>3. RecoveryName(e) = <<e.bus, 1 + last>> /\ Recovered(e) = [bus |-> e.bus, rotation |-> 1 + last]
    BY DEF RecoveryName, Recovered
  <1> HIDE DEF last
  <1>4. \A f \in intent.ctrs : f.rotation \in Nat
    BY <1>1 DEF Entry
  <1> QED
    BY <1>2, <1>3, <1>4 DEF Entry, NameOf

-----------------------------------------------------------------------------
(* The root file.                                                           *)

LEMMA AcquireTakes ==
    ASSUME current \in Lists, NEW p \in Handles, Acquire(p)
    PROVE  /\ holder = Nobody /\ holder' = p /\ current' = current
           /\ intent' \in Lists /\ intent'.ctrs = current.ctrs
           /\ intent'.buses = {e \in current.buses : e.rotation # 0}
  BY DEF Acquire, Tidied, Lists, NoEntries

\* Nobody changes the lists but through these steps.
LEMMA RootSteps ==
    ASSUME NEW p \in Handles, NextBuses!(p)
    PROVE  \/ UNCHANGED rootVars
           \/ Acquire(p) \/ Commit(p) \/ Release(p)
           \/ NameFree(p) \/ RemoveEntry(p) \/ UnlinkRecovered(p)
           \/ \E e \in todo : EraseMissing(p, e) \/ UnlinkTakes(p, e)
  <1>1. CASE BeginCreate(p) \/ BeginRemove(p) \/ BeginPrune(p) \/ BeginUnlinkAll(p)
    BY <1>1 DEF BeginCreate, BeginRemove, BeginPrune, BeginUnlinkAll
  <1>2. CASE \/ Register(p) \/ RegisterFails(p) \/ Unregister(p) \/ RetireErased(p)
             \/ RetireErasedFails(p) \/ RetireEmptied(p)
    BY <1>2 DEF Register, RegisterFails, Unregister, RetireErased, RetireErasedFails,
                RetireEmptied, Retire, RetireFails, rootVars
  <1>3. CASE FinishCreate(p) \/ Return(p) \/ FinishRemove(p) \/ FinishPrune(p) \/ Leave(p)
    BY <1>3 DEF FinishCreate, Return, FinishRemove, FinishPrune, Leave
  <1>4. CASE NameTaken(p) \/ GiveUp(p) \/ UnlinkNew(p) \/ InitBus(p) \/ InitBusFails(p)
    BY <1>4 DEF NameTaken, GiveUp, UnlinkNew, InitBus, InitBusFails
  <1>5. CASE Log(p) \/ Consume(p) \/ Unlink(p) \/ NothingToRemove(p) \/ Replay(p) \/ GiveBack(p)
    BY <1>5 DEF Log, Consume, Unlink, NothingToRemove, Replay, GiveBack
  <1>6. CASE \E e \in todo : Skip(p, e) \/ OpenContainer(p, e) \/ UnlinkSkips(p, e)
    BY <1>6 DEF Skip, OpenContainer, UnlinkSkips
  <1> QED
    BY <1>1, <1>2, <1>3, <1>4, <1>5, <1>6

\* Nor the files of buses.
LEMMA FileSteps ==
    ASSUME NEW p \in Handles, NextBuses!(p)
    PROVE  \/ UNCHANGED busFiles
           \/ NameFree(p) \/ UnlinkNew(p) \/ InitBusFails(p) \/ Unlink(p) \/ Leave(p)
           \/ UnlinkRecovered(p) \/ \E e \in todo : UnlinkTakes(p, e)
  <1>1. CASE BeginCreate(p) \/ BeginRemove(p) \/ BeginPrune(p) \/ BeginUnlinkAll(p)
    BY <1>1 DEF BeginCreate, BeginRemove, BeginPrune, BeginUnlinkAll
  <1>2. CASE \/ Register(p) \/ RegisterFails(p) \/ Unregister(p) \/ RetireErased(p)
             \/ RetireErasedFails(p) \/ RetireEmptied(p)
    BY <1>2 DEF Register, RegisterFails, Unregister, RetireErased, RetireErasedFails,
                RetireEmptied, Retire, RetireFails
  <1>3. CASE FinishCreate(p) \/ Return(p) \/ FinishRemove(p) \/ FinishPrune(p) \/ RemoveEntry(p)
    BY <1>3 DEF FinishCreate, Return, FinishRemove, FinishPrune, RemoveEntry
  <1>4. CASE NameTaken(p) \/ GiveUp(p) \/ InitBus(p)
    BY <1>4 DEF NameTaken, GiveUp, InitBus
  <1>5. CASE Log(p) \/ Consume(p) \/ NothingToRemove(p) \/ Replay(p) \/ GiveBack(p)
    BY <1>5 DEF Log, Consume, NothingToRemove, Replay, GiveBack
  <1>6. CASE \E e \in todo : \/ Skip(p, e) \/ OpenContainer(p, e) \/ UnlinkSkips(p, e)
                           \/ EraseMissing(p, e)
    BY <1>6 DEF Skip, OpenContainer, UnlinkSkips, EraseMissing
  <1> QED
    BY <1>1, <1>2, <1>3, <1>4, <1>5, <1>6

\* Nor the recovery containers.
LEMMA ContainerSteps ==
    ASSUME NEW p \in Handles, NextBuses!(p)
    PROVE  \/ UNCHANGED recFiles
           \/ Replay(p) \/ GiveBack(p) \/ RetireErasedFails(p)
           \/ \E e \in todo : OpenContainer(p, e)
  <1>1. CASE BeginCreate(p) \/ BeginRemove(p) \/ BeginPrune(p) \/ BeginUnlinkAll(p)
    BY <1>1 DEF BeginCreate, BeginRemove, BeginPrune, BeginUnlinkAll
  <1>2. CASE \/ Register(p) \/ RegisterFails(p) \/ Unregister(p) \/ RetireErased(p) \/ RetireEmptied(p)
    BY <1>2 DEF Register, RegisterFails, Unregister, RetireErased, RetireEmptied, Retire
  <1>3. CASE FinishCreate(p) \/ Return(p) \/ FinishRemove(p) \/ FinishPrune(p) \/ RemoveEntry(p)
    BY <1>3 DEF FinishCreate, Return, FinishRemove, FinishPrune, RemoveEntry
  <1>4. CASE NameFree(p) \/ NameTaken(p) \/ GiveUp(p) \/ InitBus(p) \/ InitBusFails(p) \/ UnlinkNew(p)
    BY <1>4 DEF NameFree, NameTaken, GiveUp, InitBus, InitBusFails, UnlinkNew
  <1>5. CASE \/ Log(p) \/ Consume(p) \/ Unlink(p) \/ NothingToRemove(p) \/ Leave(p)
             \/ UnlinkRecovered(p)
    BY <1>5 DEF Log, Consume, Unlink, NothingToRemove, Leave, UnlinkRecovered
  <1>6. CASE \E e \in todo : \/ Skip(p, e) \/ UnlinkSkips(p, e) \/ EraseMissing(p, e)
                           \/ UnlinkTakes(p, e)
    BY <1>6 DEF Skip, UnlinkSkips, EraseMissing, UnlinkTakes
  <1> QED
    BY <1>1, <1>2, <1>3, <1>4, <1>5, <1>6

LEMMA FreedFile ==
    ASSUME NEW file \in BusFile, NEW new \in {file, [file EXCEPT !.owner = Nobody]}
    PROVE  new \in BusFile /\ new.id = file.id /\ new.owner \in {file.owner, Nobody}
  BY DEF BusFile

\* A file that is not new was there before, with the same bus in it.
LEMMA FilesOnlyGo ==
    ASSUME TypeInv, NEW p \in Handles, NextBuses!(p), ~NameFree(p)
    PROVE  /\ DOMAIN busFiles' \subseteq DOMAIN busFiles
           /\ busFiles' \in [DOMAIN busFiles' -> BusFile]
           /\ \A n \in DOMAIN busFiles' :
                 /\ busFiles'[n].id = busFiles[n].id
                 /\ busFiles'[n].owner \in {busFiles[n].owner, Nobody}
  <1> USE DEF TypeInv
  <1>1. \A n \in DOMAIN busFiles :
            /\ busFiles[n] \in BusFile
            /\ [busFiles[n] EXCEPT !.owner = Nobody] \in BusFile
            /\ [busFiles[n] EXCEPT !.owner = Nobody].id = busFiles[n].id
            /\ [busFiles[n] EXCEPT !.owner = Nobody].owner = Nobody
    BY DEF BusFile
  <1>2. \A m : LET f == [busFiles EXCEPT ![m].owner = Nobody]
               IN /\ DOMAIN f = DOMAIN busFiles
                  /\ \A n \in DOMAIN f : f[n] \in {busFiles[n], [busFiles[n] EXCEPT !.owner = Nobody]}
    OBVIOUS
  <1>3. \A f, m : /\ DOMAIN Without(f, m) \subseteq DOMAIN f
                  /\ \A n \in DOMAIN Without(f, m) : Without(f, m)[n] = f[n]
    BY DEF Without
  <1>4. \A m : Without(busFiles, m) = [n \in DOMAIN Without(busFiles, m) |-> Without(busFiles, m)[n]]
    BY DEF Without
  <1>5. CASE UNCHANGED busFiles
    BY <1>1, <1>5
  <1>6. CASE Unlink(p) \/ UnlinkRecovered(p) \/ \E e \in todo : UnlinkTakes(p, e)
    <2>1. PICK m : busFiles' = Without(busFiles, m)
      BY <1>6 DEF Unlink, UnlinkRecovered, UnlinkTakes
    <2> QED
      BY <1>1, <1>3, <1>4, <2>1
  <1>7. CASE UnlinkNew(p) \/ InitBusFails(p)
    <2>1. PICK m : busFiles' \in TryUnlink([busFiles EXCEPT ![m].owner = Nobody], m)
      BY <1>7 DEF UnlinkNew, InitBusFails
    <2> DEFINE f == [busFiles EXCEPT ![m].owner = Nobody]
    <2>2. /\ DOMAIN f = DOMAIN busFiles
          /\ \A n \in DOMAIN f : f[n] \in {busFiles[n], [busFiles[n] EXCEPT !.owner = Nobody]}
          /\ f = [n \in DOMAIN f |-> f[n]]
      BY <1>2
    <2>3. busFiles' = f \/ busFiles' = Without(f, m)
      BY <2>1 DEF TryUnlink
    <2> HIDE DEF f
    <2>6. \A n \in DOMAIN f :
              /\ f[n] \in BusFile /\ f[n].id = busFiles[n].id
              /\ f[n].owner \in {busFiles[n].owner, Nobody}
      <3> SUFFICES ASSUME NEW n \in DOMAIN f
                   PROVE  /\ f[n] \in BusFile /\ f[n].id = busFiles[n].id
                          /\ f[n].owner \in {busFiles[n].owner, Nobody}
        OBVIOUS
      <3>1. f[n] \in {busFiles[n], [busFiles[n] EXCEPT !.owner = Nobody]} /\ busFiles[n] \in BusFile
        BY <1>1, <2>2
      <3> QED
        BY <3>1, FreedFile
    <2>4. CASE busFiles' = f
      <3>1. f \in [DOMAIN f -> BusFile]
        BY <2>2, <2>6
      <3> QED
        BY <2>2, <2>4, <2>6, <3>1
    <2>5. CASE busFiles' = Without(f, m)
      <3>1. Without(f, m) = [n \in DOMAIN Without(f, m) |-> Without(f, m)[n]]
        BY DEF Without
      <3>2. /\ DOMAIN Without(f, m) \subseteq DOMAIN f
            /\ \A n \in DOMAIN Without(f, m) : Without(f, m)[n] = f[n]
        BY <1>3
      <3>3. \A n \in DOMAIN Without(f, m) :
                /\ Without(f, m)[n] \in BusFile /\ Without(f, m)[n].id = busFiles[n].id
                /\ Without(f, m)[n].owner \in {busFiles[n].owner, Nobody}
        BY <2>6, <3>2
      <3> HIDE DEF Without
      <3>4. Without(f, m) \in [DOMAIN Without(f, m) -> BusFile]
        BY <3>1, <3>3
      <3> QED
        BY <2>2, <2>5, <3>2, <3>3, <3>4
    <2> QED
      BY <2>3, <2>4, <2>5
  <1>8. CASE Leave(p)
    <2>1. /\ DOMAIN busFiles' = DOMAIN busFiles
          /\ \A n \in DOMAIN busFiles' :
                busFiles'[n] \in {busFiles[n], [busFiles[n] EXCEPT !.owner = Nobody]}
          /\ busFiles' = [n \in DOMAIN busFiles' |-> busFiles'[n]]
      BY <1>8 DEF Leave
    <2>2. \A n \in DOMAIN busFiles' :
              /\ busFiles'[n] \in BusFile /\ busFiles'[n].id = busFiles[n].id
              /\ busFiles'[n].owner \in {busFiles[n].owner, Nobody}
      <3> SUFFICES ASSUME NEW n \in DOMAIN busFiles'
                   PROVE  /\ busFiles'[n] \in BusFile /\ busFiles'[n].id = busFiles[n].id
                          /\ busFiles'[n].owner \in {busFiles[n].owner, Nobody}
        OBVIOUS
      <3>1. /\ busFiles[n] \in BusFile
            /\ busFiles'[n] \in {busFiles[n], [busFiles[n] EXCEPT !.owner = Nobody]}
        BY <1>1, <2>1
      <3> QED
        BY <3>1, FreedFile
    <2> QED
      BY <2>1, <2>2
  <1> QED
    BY <1>5, <1>6, <1>7, <1>8, FileSteps

-----------------------------------------------------------------------------
(* Types and lists.                                                         *)

\* What becomes of lists when a step changes them.
LEMMA ChangedLists ==
    ASSUME TypeInv, NEW p \in Handles
    PROVE  /\ NameFree(p) => intent' = [intent EXCEPT !.buses = @ \cup {at}]
           /\ RemoveEntry(p) => intent' = [intent EXCEPT !.buses = {e \in @ : e.rotation # own[p]}]
           /\ UnlinkRecovered(p) => intent' = Relisted(intent, at)
           /\ \A e \in todo : EraseMissing(p, e) => intent' = Erased(intent, e)
           /\ \A e \in todo : UnlinkTakes(p, e) => intent' = [intent EXCEPT !.buses = @ \ {e}]
           /\ (NameFree(p) \/ RemoveEntry(p) \/ UnlinkRecovered(p)
               \/ \E e \in todo : EraseMissing(p, e) \/ UnlinkTakes(p, e))
                  => UNCHANGED <<current, holder>> /\ holder = p
  BY DEF NameFree, RemoveEntry, UnlinkRecovered, EraseMissing, UnlinkTakes, Change

LEMMA ErasedIsList ==
    ASSUME NEW list \in Lists, NEW e \in Entry, WellFormed(list)
    PROVE  /\ Erased(list, e) \in Lists /\ WellFormed(Erased(list, e))
           /\ Erased(list, e).ctrs = list.ctrs
           /\ \A f \in list.buses \ {e} : f \in Erased(list, e).buses
  <1>1. [e EXCEPT !.rotation = 0] \in Entry /\ [e EXCEPT !.rotation = 0].rotation = 0
    BY DEF Entry
  <1> DEFINE gone == [e EXCEPT !.rotation = 0]
  <1>2. Erased(list, e) = [ctrs |-> list.ctrs, buses |-> (list.buses \ {e}) \cup {gone}]
    BY DEF Erased, Lists
  <1>3. gone \in Entry /\ gone.rotation = 0
    BY <1>1
  <1> HIDE DEF gone
  <1>4. Erased(list, e) \in Lists
    BY <1>2, <1>3 DEF Lists
  <1>5. RotationsTell(Erased(list, e).buses)
    BY <1>2, <1>3 DEF WellFormed, RotationsTell
  <1>6. Bounded(Erased(list, e).buses)
    <2>1. PICK b \in Nat : \A f \in list.buses : f.rotation <= b
      BY DEF WellFormed, Bounded
    <2>2. \A f \in Erased(list, e).buses : f.rotation <= b
      BY <1>2, <1>3, <2>1
    <2> QED
      BY <2>2 DEF Bounded
  <1> QED
    BY <1>2, <1>4, <1>5, <1>6 DEF WellFormed

LEMMA RelistedIsList ==
    ASSUME intent \in Lists, NEW e \in Entry, WellFormed(intent)
    PROVE  /\ Relisted(intent, e) \in Lists /\ WellFormed(Relisted(intent, e))
           /\ Relisted(intent, e).ctrs = intent.ctrs \cup {Recovered(e)}
           /\ Relisted(intent, e).buses = Erased(intent, e).buses
  <1> DEFINE list == Erased(intent, e)
             new == Recovered(e)
  <1>1. list \in Lists /\ WellFormed(list) /\ list.ctrs = intent.ctrs
    BY ErasedIsList
  <1>2. new \in Entry
    BY RecoveryNameIsNew DEF WellFormed
  <1>3. Relisted(intent, e) = [list EXCEPT !.ctrs = @ \cup {new}]
    BY DEF Relisted
  <1> HIDE DEF list, new
  <1>4. Relisted(intent, e) = [ctrs |-> list.ctrs \cup {new}, buses |-> list.buses]
    BY <1>1, <1>3 DEF Lists
  <1>5. Bounded(list.ctrs \cup {new})
    <2>1. PICK b \in Nat : \A f \in list.ctrs : f.rotation <= b
      BY <1>1 DEF WellFormed, Bounded
    <2>2. b + new.rotation \in Nat /\ \A f \in list.ctrs : f.rotation \in Nat
      BY <1>1, <1>2 DEF Lists, Entry
    <2>3. new.rotation \in Nat
      BY <1>2 DEF Entry
    <2>4. \A f \in list.ctrs \cup {new} : f.rotation <= b + new.rotation
      BY <2>1, <2>2, <2>3
    <2> QED
      BY <2>2, <2>4 DEF Bounded
  <1>6. Relisted(intent, e) \in Lists
    BY <1>1, <1>2, <1>4 DEF Lists
  <1>7. WellFormed(Relisted(intent, e))
    BY <1>1, <1>4, <1>5 DEF WellFormed
  <1>8. Relisted(intent, e).ctrs = intent.ctrs \cup {new} /\ Relisted(intent, e).buses = list.buses
    BY <1>1, <1>4
  <1> QED
    BY <1>6, <1>7, <1>8 DEF list, new

\* Fewer buses in a list do it no harm.
LEMMA FewerBuses ==
    ASSUME NEW list \in Lists, WellFormed(list), NEW buses \in SUBSET list.buses
    PROVE  /\ [list EXCEPT !.buses = buses] \in Lists /\ WellFormed([list EXCEPT !.buses = buses])
           /\ [list EXCEPT !.buses = buses].ctrs = list.ctrs
           /\ [list EXCEPT !.buses = buses].buses = buses
  <1>1. [list EXCEPT !.buses = buses] = [ctrs |-> list.ctrs, buses |-> buses]
    BY DEF Lists
  <1> QED
    BY <1>1 DEF Lists, WellFormed, Bounded, RotationsTell

LEMMA MoreBuses ==
    ASSUME NEW list \in Lists, WellFormed(list), NEW e \in Entry, e.rotation = e.bus
    PROVE  /\ [list EXCEPT !.buses = @ \cup {e}] \in Lists
           /\ WellFormed([list EXCEPT !.buses = @ \cup {e}])
           /\ [list EXCEPT !.buses = @ \cup {e}].ctrs = list.ctrs
           /\ [list EXCEPT !.buses = @ \cup {e}].buses = list.buses \cup {e}
  <1> DEFINE new == [list EXCEPT !.buses = @ \cup {e}]
  <1>1. new = [ctrs |-> list.ctrs, buses |-> list.buses \cup {e}]
    BY DEF Lists
  <1> HIDE DEF new
  <1>2. Bounded(new.buses)
    <2>1. PICK b \in Nat : \A f \in list.buses : f.rotation <= b
      BY DEF WellFormed, Bounded
    <2>2. e.rotation \in Nat /\ \A f \in list.buses : f.rotation \in Nat
      BY DEF Lists, Entry
    <2>3. b + e.rotation \in Nat /\ \A f \in list.buses \cup {e} : f.rotation <= b + e.rotation
      BY <2>1, <2>2
    <2> QED
      BY <1>1, <2>3 DEF Bounded
  <1>3. new \in Lists
    BY <1>1 DEF Lists
  <1>4. WellFormed(new)
    BY <1>1, <1>2 DEF WellFormed, RotationsTell
  <1> QED
    BY <1>1, <1>3, <1>4 DEF new

LEMMA ListStep ==
    ASSUME TypeInv, ListInv, HolderInv, NEW p \in Handles, NextBuses!(p)
    PROVE  /\ current' \in Lists /\ intent' \in Lists /\ holder' \in Handles \cup {Nobody}
           /\ WellFormed(current)' /\ WellFormed(intent)'
  <1> USE DEF TypeInv, ListInv
  <1>0. NoEntries \in Lists /\ WellFormed(NoEntries)
    <2>1. \A e \in {} : e.rotation <= 0
      OBVIOUS
    <2> QED
      BY <2>1 DEF NoEntries, Lists, WellFormed, Bounded, RotationsTell
  <1>1. CASE UNCHANGED rootVars
    BY <1>1 DEF rootVars, WellFormed, Bounded, RotationsTell
  <1>2. CASE Acquire(p)
    <2>1. /\ holder' = p /\ current' = current
          /\ intent' \in Lists /\ intent'.ctrs = current.ctrs
          /\ intent'.buses \in SUBSET current.buses
      BY <1>2, AcquireTakes
    <2> QED
      BY <2>1 DEF WellFormed, Bounded, RotationsTell
  <1>3. CASE Commit(p)
    BY <1>3 DEF Commit, WellFormed
  <1>4. CASE Release(p)
    BY <1>0, <1>4 DEF Release, WellFormed
  <1>5. CASE NameFree(p)
    <2>1. at \in Entry /\ at.rotation = at.bus /\ current' = current /\ holder' = holder
          /\ intent' = [intent EXCEPT !.buses = @ \cup {at}]
      BY <1>5, ChangedLists DEF HolderInv, Creating, NameFree
    <2>2. /\ [intent EXCEPT !.buses = @ \cup {at}] \in Lists
          /\ WellFormed([intent EXCEPT !.buses = @ \cup {at}])
      BY <2>1, MoreBuses
    <2> QED
      BY <2>1, <2>2 DEF WellFormed
  <1>6. CASE RemoveEntry(p)
    <2> DEFINE kept == {e \in intent.buses : e.rotation # own[p]}
    <2>1. intent' = [intent EXCEPT !.buses = kept] /\ current' = current /\ holder' = holder
      BY <1>6, ChangedLists
    <2>2. [intent EXCEPT !.buses = kept] \in Lists /\ WellFormed([intent EXCEPT !.buses = kept])
      BY FewerBuses
    <2> QED
      BY <2>1, <2>2 DEF WellFormed
  <1>7. CASE UnlinkRecovered(p)
    <2>1. intent' = Relisted(intent, at) /\ current' = current /\ holder' = holder
      BY <1>7, ChangedLists
    <2>2. Relisted(intent, at) \in Lists /\ WellFormed(Relisted(intent, at))
      BY RelistedIsList
    <2> QED
      BY <2>1, <2>2 DEF WellFormed
  <1>8. ASSUME NEW e \in todo, EraseMissing(p, e) \/ UnlinkTakes(p, e)
        PROVE  /\ current' \in Lists /\ intent' \in Lists /\ holder' \in Handles \cup {Nobody}
               /\ WellFormed(current)' /\ WellFormed(intent)'
    <2>1. /\ intent' \in {Erased(intent, e), [intent EXCEPT !.buses = @ \ {e}]}
          /\ current' = current /\ holder' = holder
      BY <1>8, ChangedLists
    <2>2. Erased(intent, e) \in Lists /\ WellFormed(Erased(intent, e))
      BY ErasedIsList
    <2>3. intent.buses \ {e} \in SUBSET intent.buses
      OBVIOUS
    <2>4. [intent EXCEPT !.buses = @ \ {e}] \in Lists /\ WellFormed([intent EXCEPT !.buses = @ \ {e}])
      BY <2>3, FewerBuses
    <2> QED
      BY <2>1, <2>2, <2>4 DEF WellFormed
  <1> QED
    BY <1>1, <1>2, <1>3, <1>4, <1>5, <1>6, <1>7, <1>8, RootSteps

\* The containers of recoveries; their ids are those of buses.
LEMMA ContainerTypes ==
    ASSUME TypeInv, ListInv, HolderInv, IdInv, ReplayInv, NEW p \in Handles, NextBuses!(p)
    PROVE  /\ DOMAIN recFiles' \subseteq Nat \X Nat
           /\ recFiles' \in [DOMAIN recFiles' -> SUBSET Nat]
           /\ \A r \in DOMAIN recFiles' : \A id \in recFiles'[r] : id <= created
  <1> USE DEF TypeInv
  <1>1. \A n \in DOMAIN busFiles : busFiles[n].id \in Nat /\ busFiles[n].id <= created
    BY DEF BusFile, IdInv
  <1>2. \A e \in Entry : RecoveryName(e) \in Nat \X Nat
    BY RecoveryNameIsNew DEF ListInv, WellFormed
  <1>3. \A r \in DOMAIN recFiles : \A id \in recFiles[r] : id <= created
    BY DEF IdInv
  <1>4. CASE UNCHANGED recFiles
    BY <1>3, <1>4
  <1>5. ASSUME NEW e \in todo, OpenContainer(p, e)
        PROVE  /\ DOMAIN recFiles' \subseteq Nat \X Nat
               /\ recFiles' \in [DOMAIN recFiles' -> SUBSET Nat]
               /\ \A r \in DOMAIN recFiles' : \A id \in recFiles'[r] : id <= created
    <2>1. recFiles' = Sets(recFiles, RecoveryName(e), {})
      BY <1>5 DEF OpenContainer
    <2>2. RecoveryName(e) \in Nat \X Nat
      BY <1>2
    <2> DEFINE r == RecoveryName(e)
    <2> HIDE DEF r
    <2>3. recFiles' = Sets(recFiles, r, {}) /\ r \in Nat \X Nat
      BY <2>1, <2>2 DEF r
    <2> QED
      BY <1>3, <2>3 DEF Sets
  <1>6. CASE Replay(p)
    <2> DEFINE ids == {id \in owed : Exists(at.bus) /\ id = busFiles[at.bus].id}
               r == RecoveryName(at)
    <2>1. recFiles' = [recFiles EXCEPT ![r] = ids]
      BY <1>6 DEF Replay
    <2>2. ids \in SUBSET Nat /\ \A id \in ids : id <= created
      BY <1>1 DEF Exists
    <2> HIDE DEF ids, r
    <2> QED
      BY <1>3, <2>1, <2>2
  <1>7. CASE GiveBack(p) \/ RetireErasedFails(p)
    <2>1. PICK r : recFiles' \in {recFiles, Without(recFiles, r)}
      BY <1>7 DEF GiveBack, RetireErasedFails, TryUnlink
    <2>2. CASE recFiles' = Without(recFiles, r)
      BY <1>3, <2>2 DEF Without
    <2> QED
      BY <1>3, <2>1, <2>2
  <1> QED
    BY <1>4, <1>5, <1>6, <1>7, ContainerSteps

\* What the processes and the holder of the lock are doing.
LEMMA OpTypes ==
    ASSUME TypeInv, ListInv, HolderInv, NEW p \in Handles, NextBuses!(p)
    PROVE  /\ own' \in [Handles -> Nat]
           /\ phase' \in [Handles -> {"none", "new", "open", "unlinked"}]
           /\ step' \in {"none", "failed", "emptying"} \cup Creating \cup Removing \cup Pruning
           /\ at' \in Entry /\ todo' \subseteq Entry /\ due' \subseteq Nat /\ created' \in Nat
  <1> USE DEF TypeInv
  <1>0. NoEntry \in Entry /\ at.bus \in Nat
    BY DEF NoEntry, Entry
  <1>1. current.buses \subseteq Entry /\ intent.buses \subseteq Entry
    BY DEF Lists
  <1>2. CASE BeginCreate(p)
    <2>1. LastRotation(intent') \in Nat
      <3>1. intent'.buses \in SUBSET Entry /\ Bounded(intent'.buses)
        <4>1. intent' \in Lists /\ intent'.buses = {e \in current.buses : e.rotation # 0}
          BY <1>2, AcquireTakes DEF BeginCreate
        <4> QED
          BY <4>1 DEF Lists, ListInv, WellFormed, Bounded
      <3> QED
        BY <3>1, LastIsLargest DEF LastRotation
    <2>2. at' \in Entry
      BY <1>2, <2>1 DEF BeginCreate, Named, Entry
    <2> QED
      BY <1>2, <2>2 DEF BeginCreate, Creating
  <1>3. CASE NameTaken(p)
    <2>1. at' \in Entry
      BY <1>0, <1>3 DEF NameTaken, Named, Entry
    <2> QED
      BY <1>3, <2>1 DEF NameTaken
  <1>4. CASE NameFree(p) \/ GiveUp(p) \/ UnlinkNew(p) \/ Return(p)
    BY <1>0, <1>4 DEF NameFree, GiveUp, UnlinkNew, Return, Ended, Ends, Creating
  <1>5. CASE Register(p) \/ RegisterFails(p) \/ Unregister(p) \/ RetireErased(p)
    BY <1>5 DEF Register, RegisterFails, Unregister, RetireErased, Retire, RetireFails,
                Creating, Removing, Pruning
  <1>6. CASE RetireErasedFails(p) \/ RetireEmptied(p) \/ FinishPrune(p)
    BY <1>0, <1>6 DEF RetireErasedFails, RetireEmptied, FinishPrune, RetireFails, Ended, Ends
  <1>7. CASE FinishCreate(p) \/ FinishRemove(p)
    BY <1>0, <1>7 DEF FinishCreate, FinishRemove, Ended, Ends
  <1>8. CASE InitBus(p) \/ Log(p) \/ Consume(p) \/ Unlink(p)
    BY <1>8 DEF InitBus, Log, Consume, Unlink, opVars
  <1>9. CASE InitBusFails(p)
    BY <1>9 DEF InitBusFails, opVars
  <1>10. CASE Leave(p)
    BY <1>0, <1>10 DEF Leave, opVars, Ended, Ends
  <1>11. CASE BeginRemove(p) \/ RemoveEntry(p) \/ NothingToRemove(p)
    BY <1>11 DEF BeginRemove, RemoveEntry, NothingToRemove, Removing
  <1>12. CASE BeginPrune(p) \/ BeginUnlinkAll(p)
    <2>1. intent'.buses \subseteq current.buses
      BY <1>12, AcquireTakes DEF BeginPrune, BeginUnlinkAll
    <2>2. \A e \in intent'.buses : e \in Entry /\ e.bus \in Nat
      BY <1>1, <2>1 DEF Entry
    <2>3. BeginPrune(p) => due' \subseteq Nat
      BY <2>2 DEF BeginPrune
    <2> QED
      BY <1>12, <2>2, <2>3 DEF BeginPrune, BeginUnlinkAll, Pruning
  <1>13. CASE Replay(p) \/ GiveBack(p) \/ UnlinkRecovered(p)
    BY <1>13 DEF Replay, GiveBack, UnlinkRecovered, Pruning
  <1>14. CASE \E e \in todo : \/ Skip(p, e) \/ EraseMissing(p, e) \/ OpenContainer(p, e)
                            \/ UnlinkSkips(p, e) \/ UnlinkTakes(p, e)
    BY <1>14 DEF Skip, EraseMissing, OpenContainer, UnlinkSkips, UnlinkTakes, Looks, Empties, Pruning
  <1> QED
    BY <1>2, <1>3, <1>4, <1>5, <1>6, <1>7, <1>8, <1>9, <1>10, <1>11, <1>12, <1>13, <1>14

\* created counts what NameFree() makes; the last one is not in use yet.
LEMMA NewFile ==
    ASSUME TypeInv, IdInv, NEW p \in Handles, NameFree(p)
    PROVE  /\ ~Exists(at.bus) /\ DOMAIN busFiles' = DOMAIN busFiles \cup {at.bus}
           /\ busFiles' \in [DOMAIN busFiles' -> BusFile]
           /\ busFiles'[at.bus].id = created + 1 /\ busFiles'[at.bus].owner = p
           /\ \A n \in DOMAIN busFiles : busFiles'[n] = busFiles[n]
           /\ created' = created + 1 /\ UNCHANGED <<recFiles, owed, stolen>>
  <1> USE DEF TypeInv
  <1> DEFINE new == [id |-> created + 1, owner |-> p]
  <1>1. busFiles' = Sets(busFiles, at.bus, new) /\ ~Exists(at.bus)
    BY DEF NameFree
  <1>2. new \in BusFile /\ new.id = created + 1 /\ new.owner = p
    BY DEF BusFile
  <1> HIDE DEF new
  <1>3. /\ DOMAIN busFiles' = DOMAIN busFiles \cup {at.bus}
        /\ busFiles' \in [DOMAIN busFiles' -> BusFile] /\ busFiles'[at.bus] = new
        /\ \A n \in DOMAIN busFiles : busFiles'[n] = busFiles[n]
    BY <1>1, <1>2 DEF Sets, Exists
  <1> QED
    BY <1>1, <1>2, <1>3 DEF NameFree

LEMMA TypeStep ==
    ASSUME TypeInv, ListInv, HolderInv, IdInv, ReplayInv, NEW p \in Handles, NextBuses!(p)
    PROVE  TypeInv'
  <1>1. DOMAIN busFiles' \subseteq Nat /\ busFiles' \in [DOMAIN busFiles' -> BusFile]
    <2>1. CASE NameFree(p)
      <3>1. at.bus \in Nat
        BY DEF TypeInv, Entry
      <3> QED
        BY <2>1, <3>1, NewFile DEF TypeInv
    <2> QED
      BY <2>1, FilesOnlyGo DEF TypeInv
  <1> QED
    BY <1>1, ListStep, ContainerTypes, OpTypes DEF TypeInv, BusFile

\* Only a log call adds records, to a bus that is there.
LEMMA OwedSteps ==
    ASSUME NEW p \in Handles, NextBuses!(p)
    PROVE  \/ owed' \subseteq owed
           \/ Log(p)
  <1>1. CASE \/ BeginCreate(p) \/ NameFree(p) \/ NameTaken(p) \/ GiveUp(p) \/ UnlinkNew(p)
             \/ FinishCreate(p) \/ Return(p)
    BY <1>1 DEF BeginCreate, NameFree, NameTaken, GiveUp, UnlinkNew, FinishCreate, Return
  <1>2. CASE \/ Register(p) \/ RegisterFails(p) \/ Unregister(p) \/ RetireErased(p)
             \/ RetireErasedFails(p) \/ RetireEmptied(p)
    BY <1>2 DEF Register, RegisterFails, Unregister, RetireErased, RetireErasedFails,
                RetireEmptied, Retire, RetireFails
  <1>3. CASE \/ InitBus(p) \/ InitBusFails(p) \/ Consume(p) \/ Unlink(p) \/ BeginRemove(p)
             \/ RemoveEntry(p) \/ NothingToRemove(p) \/ FinishRemove(p) \/ Leave(p)
    BY <1>3 DEF InitBus, InitBusFails, Consume, Unlink, BeginRemove, RemoveEntry, NothingToRemove,
                FinishRemove, Leave
  <1>4. CASE \/ BeginPrune(p) \/ Replay(p) \/ GiveBack(p) \/ UnlinkRecovered(p) \/ FinishPrune(p)
             \/ BeginUnlinkAll(p)
    BY <1>4 DEF BeginPrune, Replay, GiveBack, UnlinkRecovered, FinishPrune, BeginUnlinkAll
  <1>5. CASE \E e \in todo : \/ Skip(p, e) \/ EraseMissing(p, e) \/ OpenContainer(p, e)
                           \/ UnlinkSkips(p, e) \/ UnlinkTakes(p, e)
    BY <1>5 DEF Skip, EraseMissing, OpenContainer, UnlinkSkips, UnlinkTakes
  <1> QED
    BY <1>1, <1>2, <1>3, <1>4, <1>5

LEMMA HistorySteps ==
    ASSUME NEW p \in Handles, NextBuses!(p)
    PROVE  (created' = created \/ NameFree(p)) /\ (stolen' = stolen \/ Unregister(p))
  <1>1. CASE \/ BeginCreate(p) \/ NameTaken(p) \/ GiveUp(p) \/ UnlinkNew(p)
             \/ FinishCreate(p) \/ Return(p)
    BY <1>1 DEF BeginCreate, NameTaken, GiveUp, UnlinkNew, FinishCreate, Return
  <1>2. CASE \/ Register(p) \/ RegisterFails(p) \/ Unregister(p) \/ RetireErased(p)
             \/ RetireErasedFails(p) \/ RetireEmptied(p)
    BY <1>2 DEF Register, RegisterFails, Unregister, RetireErased, RetireErasedFails,
                RetireEmptied, Retire, RetireFails
  <1>3. CASE \/ InitBus(p) \/ InitBusFails(p) \/ Log(p) \/ Consume(p) \/ Unlink(p) \/ BeginRemove(p)
             \/ RemoveEntry(p) \/ NothingToRemove(p) \/ FinishRemove(p) \/ Leave(p)
    BY <1>3 DEF InitBus, InitBusFails, Log, Consume, Unlink, BeginRemove, RemoveEntry,
                NothingToRemove, FinishRemove, Leave
  <1>4. CASE \/ BeginPrune(p) \/ Replay(p) \/ GiveBack(p) \/ UnlinkRecovered(p) \/ FinishPrune(p)
             \/ BeginUnlinkAll(p)
    BY <1>4 DEF BeginPrune, Replay, GiveBack, UnlinkRecovered, FinishPrune, BeginUnlinkAll
  <1>5. CASE \E e \in todo : \/ Skip(p, e) \/ EraseMissing(p, e) \/ OpenContainer(p, e)
                           \/ UnlinkSkips(p, e) \/ UnlinkTakes(p, e)
    BY <1>5 DEF Skip, EraseMissing, OpenContainer, UnlinkSkips, UnlinkTakes
  <1>6. CASE NameFree(p)
    BY <1>6 DEF NameFree
  <1> QED
    BY <1>1, <1>2, <1>3, <1>4, <1>5, <1>6

LEMMA IdStep ==
    ASSUME TypeInv, ListInv, HolderInv, IdInv, ReplayInv, OwnInv, NEW p \in Handles, NextBuses!(p)
    PROVE  IdInv'
  <1> USE DEF TypeInv
  <1>1. created' \in Nat /\ created <= created'
    BY HistorySteps DEF NameFree
  <1>2. /\ \A n \in DOMAIN busFiles' : busFiles'[n].id <= created'
        /\ IdsDiffer(busFiles)'
    <2>1. CASE NameFree(p)
      <3>1. \A n \in DOMAIN busFiles : busFiles[n].id \in Nat /\ busFiles[n].id <= created
        BY DEF IdInv, BusFile
      <3> QED
        BY <2>1, <3>1, NewFile DEF IdInv, IdsDiffer
    <2>2. CASE ~NameFree(p)
      BY <2>2, FilesOnlyGo, HistorySteps DEF IdInv, IdsDiffer
    <2> QED
      BY <2>1, <2>2
  <1>3. \A r \in DOMAIN recFiles' : \A id \in recFiles'[r] : id <= created'
    <2>1. \A r \in DOMAIN recFiles' : \A id \in recFiles'[r] : id \in Nat /\ id <= created
      BY ContainerTypes
    <2> QED
      BY <1>1, <2>1
  <1>4. owed' \subseteq 0..created'
    <2>1. owed \subseteq 0..created'
      BY <1>1 DEF IdInv
    <2>2. CASE Log(p)
      <3>1. Exists(own[p])
        BY <2>2 DEF Log, OwnInv, LivingOwn, Living
      <3>2. busFiles[own[p]].id \in 0..created
        BY <3>1 DEF Exists, IdInv, BusFile
      <3> QED
        BY <1>1, <2>1, <2>2, <3>2 DEF Log
    <2> QED
      BY <2>1, <2>2, OwedSteps
  <1> QED
    BY <1>2, <1>3, <1>4 DEF IdInv

-----------------------------------------------------------------------------
(* The lock's holder, and processes with their buses.                       *)

\* What a process does without the lock of the root file.
Outside(p) ==
    \/ InitBus(p) \/ InitBusFails(p) \/ Log(p) \/ Consume(p) \/ Unlink(p)
    \/ Leave(p) /\ holder # p

LEMMA OutsideSteps ==
    ASSUME TypeInv, HolderInv, NEW p \in Handles, Outside(p)
    PROVE  /\ UNCHANGED <<rootVars, opVars>>
           /\ \A q \in Handles \ {p} : own'[q] = own[q] /\ phase'[q] = phase[q]
           /\ step \in Creating \cup Removing => holder # p
  <1>1. UNCHANGED <<rootVars, opVars>>
    BY DEF Outside, InitBus, InitBusFails, Log, Consume, Unlink, Leave
  <1>2. \A q \in Handles \ {p} : own'[q] = own[q] /\ phase'[q] = phase[q]
    BY DEF Outside, InitBus, InitBusFails, Log, Consume, Unlink, Leave, TypeInv
  <1>3. holder # p \/ Living(p)
    BY DEF Outside, InitBus, InitBusFails, Log, Consume, Unlink, Leave, Living
  <1>4. step \in Creating \cup Removing => ~Living(holder)
    BY DEF HolderInv, Living
  <1> QED
    BY <1>1, <1>2, <1>3, <1>4

\* Processes have their buses from create_message_bus() alone.
LEMMA OwnSteps ==
    ASSUME TypeInv, NEW p \in Handles, NextBuses!(p)
    PROVE  /\ \A q \in Handles \ {p} : own'[q] = own[q] /\ phase'[q] = phase[q]
           /\ \/ FinishCreate(p) \/ phase'[p] \in {"none", "unlinked"}
              \/ own'[p] = own[p] /\ phase'[p] = phase[p]
              \/ InitBus(p)
  <1> USE DEF TypeInv
  <1>1. CASE \/ BeginCreate(p) \/ NameFree(p) \/ NameTaken(p) \/ GiveUp(p) \/ UnlinkNew(p)
             \/ Return(p)
    BY <1>1 DEF BeginCreate, NameFree, NameTaken, GiveUp, UnlinkNew, Return
  <1>2. CASE \/ Register(p) \/ RegisterFails(p) \/ Unregister(p) \/ RetireErased(p)
             \/ RetireErasedFails(p) \/ RetireEmptied(p)
    BY <1>2 DEF Register, RegisterFails, Unregister, RetireErased, RetireErasedFails,
                RetireEmptied, Retire, RetireFails
  <1>3. CASE \/ Log(p) \/ Consume(p) \/ BeginRemove(p) \/ RemoveEntry(p) \/ NothingToRemove(p)
    BY <1>3 DEF Log, Consume, BeginRemove, RemoveEntry, NothingToRemove
  <1>4. CASE InitBusFails(p) \/ Unlink(p) \/ FinishRemove(p) \/ Leave(p)
    BY <1>4 DEF InitBusFails, Unlink, FinishRemove, Leave
  <1>5. CASE \/ BeginPrune(p) \/ Replay(p) \/ GiveBack(p) \/ UnlinkRecovered(p) \/ FinishPrune(p)
             \/ BeginUnlinkAll(p)
    BY <1>5 DEF BeginPrune, Replay, GiveBack, UnlinkRecovered, FinishPrune, BeginUnlinkAll
  <1>6. CASE \E e \in todo : \/ Skip(p, e) \/ EraseMissing(p, e) \/ OpenContainer(p, e)
                           \/ UnlinkSkips(p, e) \/ UnlinkTakes(p, e)
    BY <1>6 DEF Skip, EraseMissing, OpenContainer, UnlinkSkips, UnlinkTakes
  <1>7. CASE FinishCreate(p) \/ InitBus(p)
    BY <1>7 DEF FinishCreate, InitBus
  <1> QED
    BY <1>1, <1>2, <1>3, <1>4, <1>5, <1>6, <1>7

LEMMA HolderStep ==
    ASSUME TypeInv, ListInv, HolderInv, NEW p \in Handles, NextBuses!(p)
    PROVE  HolderInv'
  <1> USE DEF TypeInv, HolderInv
  <1>0. p # Nobody
    BY MarkerAssumption
  <1>1. CASE Outside(p)
    <2>1. /\ UNCHANGED <<rootVars, opVars>>
          /\ \A q \in Handles \ {p} : own'[q] = own[q] /\ phase'[q] = phase[q]
          /\ step \in Creating \cup Removing => holder # p
      BY <1>1, OutsideSteps
    <2>2. step \in Creating \cup Removing => phase'[holder] = phase[holder]
      BY <2>1 DEF Creating, Removing
    <2> QED
      BY <2>1, <2>2 DEF rootVars, opVars
  <1>2. CASE FinishCreate(p) \/ Return(p) \/ FinishRemove(p) \/ FinishPrune(p) \/ (Leave(p) /\ holder = p)
    <2>1. Release(p) /\ Ended
      BY <1>2 DEF FinishCreate, Return, FinishRemove, FinishPrune, Leave
    <2> QED
      BY <2>1 DEF Release, Ended, Ends, Creating, Removing, Pruning
  <1>3. CASE BeginCreate(p)
    <2>1. holder' = p /\ due = {} /\ due' = due /\ phase'[p] = "none"
      BY <1>3, AcquireTakes DEF BeginCreate, Idle, Pruning
    <2>2. at'.rotation = at'.bus /\ at'.bus # 0
      <3>1. intent' \in Lists /\ intent'.buses = {e \in current.buses : e.rotation # 0}
        BY <1>3, AcquireTakes DEF BeginCreate
      <3>2. intent'.buses \in SUBSET Entry /\ Bounded(intent'.buses)
        BY <3>1 DEF Lists, ListInv, WellFormed, Bounded
      <3>3. LastRotation(intent') \in Nat
        BY <3>2, LastIsLargest DEF LastRotation
      <3> QED
        BY <1>3, <3>3 DEF BeginCreate, Named
    <2> QED
      BY <1>0, <1>3, <2>1, <2>2 DEF BeginCreate, Creating, Removing, Pruning
  <1>4. CASE BeginRemove(p) \/ BeginUnlinkAll(p)
    <2>1. holder' = p /\ due = {} /\ due' = due /\ phase' = phase
      BY <1>4, AcquireTakes DEF BeginRemove, BeginUnlinkAll, Pruning
    <2> QED
      BY <1>0, <1>4, <2>1 DEF BeginRemove, BeginUnlinkAll, Creating, Removing, Pruning
  <1>5. CASE BeginPrune(p)
    <2>1. holder' = p /\ intent'.ctrs = current'.ctrs
      BY <1>5, AcquireTakes DEF BeginPrune
    <2> QED
      BY <1>0, <1>5, <2>1 DEF BeginPrune, Creating, Removing, Pruning
  <1>6. CASE NameFree(p)
    <2>1. intent' = [intent EXCEPT !.buses = @ \cup {at}] /\ UNCHANGED <<current, holder>> /\ holder = p
      BY <1>6, ChangedLists
    <2>2. at \in intent'.buses
      BY <2>1 DEF Lists
    <2> QED
      BY <1>0, <1>6, <2>1, <2>2 DEF NameFree, Creating, Removing, Pruning
  <1>7. CASE NameTaken(p)
    <2>1. at'.rotation = at'.bus /\ at'.bus # 0
      BY <1>7 DEF NameTaken, Named, Entry
    <2> QED
      BY <1>0, <1>7, <2>1 DEF NameTaken, rootVars, Creating, Removing, Pruning
  <1>8. CASE GiveUp(p) \/ UnlinkNew(p)
    BY <1>0, <1>8 DEF GiveUp, UnlinkNew, Ends, rootVars, Creating, Removing, Pruning
  <1>9. CASE Register(p) \/ RegisterFails(p)
    BY <1>0, <1>9 DEF Register, RegisterFails, Retire, RetireFails, Commit, rootVars, Creating,
                      Removing, Pruning
  <1>10. CASE RemoveEntry(p)
    BY <1>0, <1>10, ChangedLists DEF RemoveEntry, Creating, Removing, Pruning
  <1>11. CASE NothingToRemove(p) \/ Unregister(p)
    BY <1>0, <1>11 DEF NothingToRemove, Unregister, Commit, rootVars, Creating, Removing, Pruning
  <1>12. CASE Replay(p) \/ GiveBack(p)
    BY <1>0, <1>12 DEF Replay, GiveBack, rootVars, Creating, Removing, Pruning
  <1>13. CASE UnlinkRecovered(p)
    BY <1>0, <1>13, ChangedLists DEF UnlinkRecovered, Creating, Removing, Pruning
  <1>14. CASE RetireErased(p)
    BY <1>0, <1>14 DEF RetireErased, Retire, Commit, Creating, Removing, Pruning
  <1>15. CASE RetireErasedFails(p) \/ RetireEmptied(p)
    BY <1>0, <1>15 DEF RetireErasedFails, RetireEmptied, RetireFails, Commit, Ends, rootVars,
                       Creating, Removing, Pruning
  <1>16. ASSUME NEW e \in todo, Skip(p, e) \/ OpenContainer(p, e) \/ UnlinkSkips(p, e)
         PROVE  HolderInv'
    BY <1>0, <1>16 DEF Skip, OpenContainer, UnlinkSkips, Looks, Empties, rootVars, Creating,
                       Removing, Pruning
  <1>17. ASSUME NEW e \in todo, EraseMissing(p, e)
         PROVE  HolderInv'
    <2>1. /\ UNCHANGED <<current, holder>> /\ holder = p
          /\ intent' = Erased(intent, e) /\ Erased(intent, e).ctrs = intent.ctrs
      BY <1>17, ChangedLists, ErasedIsList DEF ListInv
    <2> QED
      BY <1>0, <1>17, <2>1 DEF EraseMissing, Looks, Creating, Removing, Pruning
  <1>18. ASSUME NEW e \in todo, UnlinkTakes(p, e)
         PROVE  HolderInv'
    BY <1>0, <1>18, ChangedLists DEF UnlinkTakes, Empties, Creating, Removing, Pruning
  <1> QED
    BY <1>1, <1>2, <1>3, <1>4, <1>5, <1>6, <1>7, <1>8, <1>9, <1>10, <1>11, <1>12, <1>13, <1>14,
       <1>15, <1>16, <1>17, <1>18 DEF Outside

\* Nobody touches the file of a bus that its owner has.
LEMMA OwnerKeepsFile ==
    ASSUME TypeInv, HolderInv, IdInv, OwnInv, ReplayInv, NEW p \in Handles, NextBuses!(p),
           NEW q \in Handles, Living(q), Living(q)'
    PROVE  /\ own'[q] = own[q] /\ (phase'[q] = "new" => phase[q] = "new")
           /\ own[q] \in DOMAIN busFiles' /\ busFiles'[own[q]] = busFiles[own[q]]
  <1> USE DEF TypeInv
  <1>1. own'[q] = own[q] /\ (phase'[q] = "new" => phase[q] = "new")
    <2>1. CASE q # p
      BY <2>1, OwnSteps
    <2>2. CASE q = p
      <3>1. ~FinishCreate(p)
        BY <2>2 DEF FinishCreate, HolderInv, Creating, Living
      <3>2. InitBus(p) => phase'[p] = "open" /\ own'[p] = own[p]
        BY DEF InitBus
      <3> QED
        BY <2>2, <3>1, <3>2, OwnSteps DEF Living
    <2> QED
      BY <2>1, <2>2
  <1> SUFFICES own[q] \in DOMAIN busFiles' /\ busFiles'[own[q]] = busFiles[own[q]]
    BY <1>1
  <1>2. Exists(own[q]) /\ busFiles[own[q]].owner = q /\ q # Nobody
    BY MarkerAssumption DEF OwnInv, LivingOwn
  <1>3. CASE UNCHANGED busFiles
    BY <1>2, <1>3 DEF Exists
  <1>4. CASE NameFree(p)
    BY <1>2, <1>4, NewFile DEF Exists
  <1>5. CASE UnlinkNew(p)
    <2>1. at.bus # own[q]
      BY <1>2, <1>5 DEF UnlinkNew, OwnInv, NamedInv, HolderInv, Creating, Living
    <2>2. busFiles' \in TryUnlink([busFiles EXCEPT ![at.bus].owner = Nobody], at.bus)
      BY <1>5 DEF UnlinkNew
    <2> QED
      BY <1>2, <2>1, <2>2 DEF TryUnlink, Without, Exists
  <1>6. CASE InitBusFails(p)
    <2>1. own[p] # own[q]
      <3>1. busFiles[own[p]].owner = p
        BY <1>6 DEF InitBusFails, OwnInv, LivingOwn, Living
      <3>2. p # q
        BY <1>6 DEF InitBusFails, Living
      <3> QED
        BY <1>2, <3>1, <3>2
    <2>2. busFiles' \in TryUnlink([busFiles EXCEPT ![own[p]].owner = Nobody], own[p])
      BY <1>6 DEF InitBusFails
    <2> QED
      BY <1>2, <2>1, <2>2 DEF TryUnlink, Without, Exists
  <1>7. CASE Unlink(p)
    <2>1. own[p] # own[q]
      <3>1. busFiles[own[p]].owner = p
        BY <1>7 DEF Unlink, OwnInv, LivingOwn, Living
      <3>2. p # q
        BY <1>7 DEF Unlink, Living
      <3> QED
        BY <1>2, <3>1, <3>2
    <2> QED
      BY <1>2, <1>7, <2>1 DEF Unlink, Without, Exists
  <1>8. CASE Leave(p)
    <2>1. p # q
      BY <1>8 DEF Leave, Living
    <2> QED
      BY <1>2, <1>8, <2>1 DEF Leave, Exists
  <1>9. CASE UnlinkRecovered(p)
    <2>1. at.bus # own[q]
      BY <1>2, <1>9 DEF UnlinkRecovered, ReplayInv, Locked
    <2> QED
      BY <1>2, <1>9, <2>1 DEF UnlinkRecovered, Without, Exists
  <1>10. ASSUME NEW e \in todo, UnlinkTakes(p, e)
         PROVE  own[q] \in DOMAIN busFiles' /\ busFiles'[own[q]] = busFiles[own[q]]
    <2>1. e.bus # own[q]
      BY <1>2, <1>10 DEF UnlinkTakes, Locked
    <2> QED
      BY <1>2, <1>10, <2>1 DEF UnlinkTakes, Without, Exists
  <1> QED
    BY <1>1, <1>3, <1>4, <1>5, <1>6, <1>7, <1>8, <1>9, <1>10, FileSteps

LEMMA LivingOwnStep ==
    ASSUME TypeInv, HolderInv, IdInv, OwnInv, ReplayInv, NEW p \in Handles, NextBuses!(p)
    PROVE  LivingOwn'
  <1> SUFFICES ASSUME NEW q \in Handles, Living(q)'
               PROVE  own'[q] \in DOMAIN busFiles' /\ busFiles'[own'[q]].owner = q
    BY DEF LivingOwn, Exists
  <1>1. CASE Living(q)
    <2>1. own'[q] = own[q] /\ own[q] \in DOMAIN busFiles' /\ busFiles'[own[q]] = busFiles[own[q]]
      BY <1>1, OwnerKeepsFile
    <2> QED
      BY <1>1, <2>1 DEF OwnInv, LivingOwn
  <1>2. CASE ~Living(q)
    <2>1. q = p /\ FinishCreate(p)
      <3>1. ~InitBus(p) \/ q # p
        BY <1>2 DEF InitBus, Living
      <3> QED
        BY <1>2, <3>1, OwnSteps DEF Living
    <2>2. Exists(at.bus) /\ busFiles[at.bus].owner = p
      BY <2>1 DEF FinishCreate, OwnInv, NamedInv, Creating
    <2> QED
      BY <2>1, <2>2 DEF FinishCreate, Exists, TypeInv
  <1> QED
    BY <1>1, <1>2

LEMMA NewUnusedStep ==
    ASSUME TypeInv, HolderInv, IdInv, OwnInv, ReplayInv, NEW p \in Handles, NextBuses!(p)
    PROVE  NewUnused'
  <1> USE DEF TypeInv
  <1> SUFFICES ASSUME NEW q \in Handles, phase'[q] = "new"
               PROVE  busFiles'[own'[q]].id \notin owed'
    BY DEF NewUnused, Unused
  <1>1. CASE Living(q)
    <2>1. own'[q] = own[q] /\ phase[q] = "new" /\ busFiles'[own[q]] = busFiles[own[q]]
      BY <1>1, OwnerKeepsFile DEF Living
    <2>2. busFiles[own[q]].id \notin owed
      BY <2>1 DEF OwnInv, NewUnused, Unused
    <2>3. CASE Log(p)
      <3>1. p # q /\ Living(p) /\ owed' = owed \cup {busFiles[own[p]].id}
        BY <2>1, <2>3 DEF Log, Living
      <3>2. Exists(own[p]) /\ Exists(own[q]) /\ own[p] # own[q]
        BY <1>1, <3>1 DEF OwnInv, LivingOwn
      <3>3. busFiles[own[p]].id # busFiles[own[q]].id
        BY <3>2 DEF IdInv, IdsDiffer, Exists
      <3> QED
        BY <2>1, <2>2, <3>1, <3>3
    <2> QED
      BY <2>1, <2>2, <2>3, OwedSteps
  <1>2. CASE ~Living(q)
    <2>1. q = p /\ FinishCreate(p)
      <3>1. ~InitBus(p) \/ q # p
        BY <1>2 DEF InitBus, Living
      <3> QED
        BY <1>2, <3>1, OwnSteps DEF Living
    <2>2. Unused(at.bus)
      BY <2>1 DEF FinishCreate, OwnInv, NamedInv, Creating
    <2> QED
      BY <2>1, <2>2 DEF FinishCreate, Unused
  <1> QED
    BY <1>1, <1>2

\* The bus that is being created stays as it is, but for its creator.
LEMMA NamedStep ==
    ASSUME TypeInv, ListInv, HolderInv, HolderInv', IdInv, OwnInv, ReplayInv,
           NEW p \in Handles, NextBuses!(p)
    PROVE  NamedInv'
  <1> USE DEF TypeInv
  <1> SUFFICES ASSUME step' \in {"named", "unregistered", "registered"}
               PROVE  /\ at'.bus \in DOMAIN busFiles' /\ busFiles'[at'.bus].owner = holder'
                      /\ busFiles'[at'.bus].id \notin owed'
    BY DEF NamedInv, Creating, Exists, Unused
  <1>1. CASE NameFree(p)
    <2>1. at' = at /\ holder' = p
      BY <1>1, ChangedLists DEF NameFree
    <2>2. created + 1 \notin owed
      BY DEF IdInv
    <2> QED
      BY <1>1, <2>1, <2>2, NewFile
  <1>2. CASE Register(p) \/ RegisterFails(p)
    <2>1. UNCHANGED <<at, holder, busFiles, owed>> /\ step \in Creating \ {"naming"}
      BY <1>2 DEF Register, RegisterFails, Retire, RetireFails, Commit, rootVars, Creating
    <2> QED
      BY <2>1 DEF OwnInv, NamedInv, Exists, Unused
  <1>3. CASE Outside(p)
    <2>1. UNCHANGED <<rootVars, opVars>> /\ step \in Creating \ {"naming"} /\ holder # p
      BY <1>3, OutsideSteps DEF opVars, Creating
    <2>2. Exists(at.bus) /\ busFiles[at.bus].owner = holder /\ Unused(at.bus)
      BY <2>1 DEF OwnInv, NamedInv
    <2>3. Living(p) => own[p] # at.bus /\ Exists(own[p])
      BY <2>1, <2>2 DEF OwnInv, LivingOwn
    <2>4. at.bus \in DOMAIN busFiles' /\ busFiles'[at.bus] = busFiles[at.bus]
      <3>1. CASE InitBusFails(p)
        <4>1. busFiles' \in TryUnlink([busFiles EXCEPT ![own[p]].owner = Nobody], own[p]) /\ Living(p)
          BY <3>1 DEF InitBusFails, Living
        <4> QED
          BY <2>2, <2>3, <4>1 DEF TryUnlink, Without, Exists
      <3>2. CASE Unlink(p)
        BY <2>2, <2>3, <3>2 DEF Unlink, Without, Exists, Living
      <3>3. CASE Leave(p)
        BY <2>1, <2>2, <3>3 DEF Leave, Exists
      <3>4. CASE InitBus(p) \/ Log(p) \/ Consume(p)
        BY <2>2, <3>4 DEF InitBus, Log, Consume, Exists
      <3> QED
        BY <1>3, <3>1, <3>2, <3>3, <3>4 DEF Outside
    <2>5. busFiles[at.bus].id \notin owed'
      <3>1. CASE Log(p)
        <4>1. busFiles[own[p]].id # busFiles[at.bus].id
          BY <2>2, <2>3, <3>1 DEF Log, Living, IdInv, IdsDiffer, Exists
        <4> QED
          BY <2>2, <3>1, <4>1 DEF Log, Unused
      <3> QED
        BY <2>2, <3>1, OwedSteps DEF Unused
    <2> QED
      BY <2>1, <2>2, <2>4, <2>5 DEF rootVars, opVars
  <1>4. NameFree(p) \/ Register(p) \/ RegisterFails(p) \/ Outside(p)
    <2>1. ~(FinishCreate(p) \/ Return(p) \/ FinishRemove(p) \/ FinishPrune(p) \/ (Leave(p) /\ holder = p))
      BY DEF FinishCreate, Return, FinishRemove, FinishPrune, Leave, Ended, Ends
    <2>2. ~(BeginCreate(p) \/ BeginRemove(p) \/ BeginUnlinkAll(p) \/ BeginPrune(p))
      BY DEF BeginCreate, BeginRemove, BeginUnlinkAll, BeginPrune
    <2>3. ~(NameTaken(p) \/ GiveUp(p) \/ UnlinkNew(p) \/ RemoveEntry(p) \/ NothingToRemove(p) \/ Unregister(p))
      BY DEF NameTaken, GiveUp, UnlinkNew, RemoveEntry, NothingToRemove, Unregister, Ends
    <2>4. ~(Replay(p) \/ GiveBack(p) \/ UnlinkRecovered(p) \/ RetireErased(p) \/ RetireErasedFails(p) \/ RetireEmptied(p))
      BY DEF Replay, GiveBack, UnlinkRecovered, RetireErased, RetireErasedFails, RetireEmptied,
             Retire, Ends
    <2>5. ~\E e \in todo : \/ Skip(p, e) \/ EraseMissing(p, e) \/ OpenContainer(p, e)
                           \/ UnlinkSkips(p, e) \/ UnlinkTakes(p, e)
      BY DEF Skip, EraseMissing, OpenContainer, UnlinkSkips, UnlinkTakes, Looks, Empties
    <2> QED
      BY <2>1, <2>2, <2>3, <2>4, <2>5 DEF Outside
  <1> QED
    BY <1>1, <1>2, <1>3, <1>4

LEMMA OwnStep ==
    ASSUME TypeInv, ListInv, HolderInv, HolderInv', IdInv, OwnInv, ReplayInv,
           NEW p \in Handles, NextBuses!(p)
    PROVE  OwnInv'
  BY LivingOwnStep, NewUnusedStep, NamedStep DEF OwnInv

-----------------------------------------------------------------------------
(* Files that are wanted are listed.                                        *)

\* But for the end of its creation, a file that is wanted was so before.
LEMMA WantedBefore ==
    ASSUME TypeInv, HolderInv, IdInv, OwnInv, NEW p \in Handles, NextBuses!(p), ~FinishCreate(p),
           NEW n \in DOMAIN busFiles', Wanted(n)'
    PROVE  n \in DOMAIN busFiles /\ Wanted(n) /\ busFiles'[n].id = busFiles[n].id
  <1> USE DEF TypeInv
  <1>1. \A q \in Handles : Living(q)' => Living(q) /\ own'[q] = own[q]
    <2>1. InitBus(p) => Living(p) /\ own'[p] = own[p]
      BY DEF InitBus, Living
    <2> QED
      BY <2>1, OwnSteps DEF Living
  <1>2. n \in DOMAIN busFiles /\ busFiles'[n].id = busFiles[n].id
    <2>1. CASE NameFree(p)
      <3>1. SUFFICES n # at.bus
        BY <2>1, NewFile
      <3>2. \A q \in Handles : ~(Living(q)' /\ own'[q] = at.bus)
        BY <1>1, <2>1, NewFile DEF OwnInv, LivingOwn, Living
      <3>3. created + 1 \notin owed
        BY DEF IdInv
      <3> QED
        BY <2>1, <3>2, <3>3, NewFile DEF Wanted
    <2>2. CASE ~NameFree(p)
      BY <2>2, FilesOnlyGo
    <2> QED
      BY <2>1, <2>2
  <1>3. stolen \subseteq stolen'
    BY HistorySteps DEF Unregister, rootVars
  <1>4. \/ busFiles[n].id \in owed
        \/ \E q \in Handles : own[q] = n /\ Living(q)
    <2>1. CASE \E q \in Handles : (own[q] = n /\ Living(q))'
      BY <1>1, <2>1
    <2>2. CASE busFiles'[n].id \in owed' /\ Log(p)
      <3>1. Living(p) /\ owed' = owed \cup {busFiles[own[p]].id}
        BY <2>2 DEF Log, Living
      <3>2. Exists(own[p])
        BY <3>1 DEF OwnInv, LivingOwn
      <3>3. busFiles[n].id = busFiles[own[p]].id => n = own[p]
        BY <1>2, <3>2 DEF IdInv, IdsDiffer, Exists
      <3> QED
        BY <1>2, <2>2, <3>1, <3>3
    <2> QED
      BY <1>2, <2>1, <2>2, OwedSteps DEF Wanted
  <1> QED
    BY <1>2, <1>3, <1>4 DEF Wanted

\* An entry that was removed stays so until the lock is released.
LEMMA DroppedStays ==
    ASSUME TypeInv, HolderInv, NEW p \in Handles, NextBuses!(p), NEW n, Dropped(n), holder' = holder
    PROVE  Dropped(n)'
  <1>1. CASE Outside(p)
    <2>1. UNCHANGED opVars /\ holder # p
      BY <1>1, OutsideSteps DEF Dropped, Removing
    <2>2. holder \in Handles
      BY DEF Dropped, TypeInv, HolderInv
    <2>3. own'[holder] = own[holder]
      BY <1>1, <2>1, <2>2, OutsideSteps
    <2> QED
      BY <2>1, <2>3 DEF Dropped, opVars
  <1>2. CASE Unregister(p)
    BY <1>2 DEF Unregister, Dropped
  <1>3. Outside(p) \/ Unregister(p)
    <2>0. holder # Nobody
      BY DEF Dropped, HolderInv
    <2>1. ~(FinishCreate(p) \/ Return(p) \/ FinishRemove(p) \/ FinishPrune(p) \/ (Leave(p) /\ holder = p))
      BY <2>0 DEF FinishCreate, Return, FinishRemove, FinishPrune, Leave, Release
    <2>2. ~(BeginCreate(p) \/ BeginRemove(p) \/ BeginUnlinkAll(p) \/ BeginPrune(p))
      BY <2>0 DEF BeginCreate, BeginRemove, BeginUnlinkAll, BeginPrune, Acquire
    <2>3. ~(NameFree(p) \/ NameTaken(p) \/ GiveUp(p) \/ UnlinkNew(p) \/ RemoveEntry(p) \/ NothingToRemove(p))
      BY DEF NameFree, NameTaken, GiveUp, UnlinkNew, RemoveEntry, NothingToRemove, Dropped
    <2>4. ~(Register(p) \/ RegisterFails(p) \/ Replay(p) \/ GiveBack(p) \/ UnlinkRecovered(p))
      BY DEF Register, RegisterFails, Retire, RetireFails, Replay, GiveBack, UnlinkRecovered, Dropped
    <2>5. ~(RetireErased(p) \/ RetireErasedFails(p) \/ RetireEmptied(p))
      BY DEF RetireErased, RetireErasedFails, RetireEmptied, Retire, RetireFails, Dropped
    <2>6. ~\E e \in todo : \/ Skip(p, e) \/ EraseMissing(p, e) \/ OpenContainer(p, e)
                           \/ UnlinkSkips(p, e) \/ UnlinkTakes(p, e)
      BY DEF Skip, EraseMissing, OpenContainer, UnlinkSkips, UnlinkTakes, Looks, Empties, Dropped
    <2> QED
      BY <2>1, <2>2, <2>3, <2>4, <2>5, <2>6 DEF Outside
  <1> QED
    BY <1>1, <1>2, <1>3

\* A commit with an entry removed is that of remove_message_bus().
LEMMA DroppedCommits ==
    ASSUME TypeInv, HolderInv, NEW p \in Handles, NextBuses!(p), Commit(p), ~UNCHANGED rootVars,
           NEW n \in DOMAIN busFiles, Dropped(n)
    PROVE  busFiles[n].id \in stolen'
  <1>1. ~Outside(p)
    BY OutsideSteps
  <1>2. ~(FinishCreate(p) \/ Return(p) \/ FinishRemove(p) \/ FinishPrune(p) \/ (Leave(p) /\ holder = p))
    BY MarkerAssumption DEF FinishCreate, Return, FinishRemove, FinishPrune, Leave, Release, Commit
  <1>3. ~(BeginCreate(p) \/ BeginRemove(p) \/ BeginUnlinkAll(p) \/ BeginPrune(p))
    BY MarkerAssumption DEF BeginCreate, BeginRemove, BeginUnlinkAll, BeginPrune, Acquire, Commit
  <1>4. ~(NameFree(p) \/ NameTaken(p) \/ GiveUp(p) \/ UnlinkNew(p) \/ RemoveEntry(p) \/ NothingToRemove(p))
    BY DEF NameFree, NameTaken, GiveUp, UnlinkNew, RemoveEntry, NothingToRemove, Dropped
  <1>5. ~(Register(p) \/ RegisterFails(p) \/ Replay(p) \/ GiveBack(p) \/ UnlinkRecovered(p))
    BY DEF Register, RegisterFails, Retire, RetireFails, Replay, GiveBack, UnlinkRecovered, Dropped
  <1>6. ~(RetireErased(p) \/ RetireErasedFails(p) \/ RetireEmptied(p))
    BY DEF RetireErased, RetireErasedFails, RetireEmptied, Retire, RetireFails, Dropped
  <1>7. ~\E e \in todo : \/ Skip(p, e) \/ EraseMissing(p, e) \/ OpenContainer(p, e)
                         \/ UnlinkSkips(p, e) \/ UnlinkTakes(p, e)
    BY DEF Skip, EraseMissing, OpenContainer, UnlinkSkips, UnlinkTakes, Looks, Empties, Dropped
  <1>8. Unregister(p)
    BY <1>1, <1>2, <1>3, <1>4, <1>5, <1>6, <1>7 DEF Outside
  <1>9. n = own[p]
    BY DEF Dropped, Commit
  <1>10. stolen' = stolen \cup {busFiles[m].id : m \in DOMAIN busFiles \cap {own[p]}}
    BY <1>8 DEF Unregister, rootVars
  <1> QED
    BY <1>9, <1>10

LEMMA ListedStep ==
    ASSUME TypeInv, ListInv, HolderInv, IdInv, OwnInv, FilesListed, NEW p \in Handles, NextBuses!(p)
    PROVE  FilesListed'
  <1> USE DEF TypeInv
  <1> SUFFICES ASSUME NEW n \in DOMAIN busFiles', Wanted(n)'
               PROVE  /\ Live(current', n)
                      /\ holder' = Nobody \/ Dropped(n)' \/ Live(intent', n)
    BY DEF FilesListed, Live
  <1>1. CASE FinishCreate(p)
    <2>1. current' = current /\ holder' = Nobody
      BY <1>1 DEF FinishCreate, Release
    <2>2. Live(current, at.bus)
      BY <1>1 DEF FinishCreate, HolderInv, Creating, Live
    <2>3. n # at.bus => n \in DOMAIN busFiles /\ Wanted(n)
      BY <1>1 DEF FinishCreate, Wanted, Living
    <2> QED
      BY <2>1, <2>2, <2>3 DEF FilesListed
  <1>2. CASE ~FinishCreate(p)
    <2>1. n \in DOMAIN busFiles /\ Wanted(n) /\ busFiles'[n].id = busFiles[n].id
      BY <1>2, WantedBefore
    <2>2. Live(current, n) /\ (holder = Nobody \/ Dropped(n) \/ Live(intent, n))
      BY <2>1 DEF FilesListed
    <2>3. CASE UNCHANGED rootVars
      BY <2>2, <2>3, DroppedStays DEF rootVars
    <2>4. CASE Acquire(p)
      <3>1. /\ current' = current /\ intent' \in Lists
            /\ intent'.buses = {e \in current.buses : e.rotation # 0}
        BY <2>4, AcquireTakes
      <3> QED
        BY <2>2, <3>1 DEF Live
    <2>5. CASE Commit(p) /\ ~UNCHANGED rootVars
      <3>1. holder = p /\ holder' = p /\ intent' = intent /\ current' = intent /\ p # Nobody
        BY <2>5, MarkerAssumption DEF Commit
      <3>2. ~Dropped(n)
        BY <2>1, <2>5, DroppedCommits DEF Wanted
      <3> QED
        BY <2>2, <3>1, <3>2
    <2>6. CASE Release(p)
      BY <2>2, <2>6 DEF Release
    <2>7. CASE NameFree(p)
      <3>1. intent' = [intent EXCEPT !.buses = @ \cup {at}] /\ current' = current
            /\ holder = p /\ p # Nobody /\ ~Dropped(n)
        BY <2>7, ChangedLists, MarkerAssumption DEF NameFree, Dropped
      <3>2. intent'.buses = intent.buses \cup {at}
        BY <3>1 DEF Lists
      <3> QED
        BY <2>2, <3>1, <3>2 DEF Live
    <2>8. CASE RemoveEntry(p)
      <3>1. intent' = [intent EXCEPT !.buses = {e \in @ : e.rotation # own[p]}] /\ current' = current
            /\ holder = p /\ holder' = p /\ p # Nobody /\ ~Dropped(n)
        BY <2>8, ChangedLists, MarkerAssumption DEF RemoveEntry, Dropped
      <3>2. intent'.buses = {e \in intent.buses : e.rotation # own[p]}
        BY <3>1 DEF Lists
      <3>3. CASE n = own[p]
        BY <2>2, <2>8, <3>1, <3>3 DEF RemoveEntry, Dropped
      <3>4. CASE n # own[p]
        <4>1. PICK e \in intent.buses : e.bus = n /\ e.rotation # 0
          BY <2>2, <3>1 DEF Live
        <4>2. e.rotation = n
          BY <4>1 DEF ListInv, WellFormed, RotationsTell
        <4> QED
          BY <2>2, <3>1, <3>2, <3>4, <4>1, <4>2 DEF Live
      <3> QED
        BY <3>3, <3>4
    <2>9. CASE UnlinkRecovered(p)
      <3>1. intent' = Relisted(intent, at) /\ current' = current /\ holder = p /\ p # Nobody /\ ~Dropped(n)
        BY <2>9, ChangedLists, MarkerAssumption DEF UnlinkRecovered, Dropped
      <3>2. intent'.buses = Erased(intent, at).buses
        BY <3>1, RelistedIsList DEF ListInv
      <3>3. \A e \in intent.buses \ {at} : e \in intent'.buses
        BY <3>2, ErasedIsList DEF ListInv
      <3>4. n # at.bus
        BY <2>9 DEF UnlinkRecovered, Without
      <3> QED
        BY <2>2, <3>1, <3>3, <3>4 DEF Live
    <2>10. ASSUME NEW e \in todo, EraseMissing(p, e)
           PROVE  Live(current', n) /\ Live(intent', n)
      <3>1. intent' = Erased(intent, e) /\ current' = current /\ holder = p /\ p # Nobody /\ ~Dropped(n)
        BY <2>10, ChangedLists, MarkerAssumption DEF EraseMissing, Looks, Dropped
      <3>2. \A f \in intent.buses \ {e} : f \in intent'.buses
        BY <3>1, ErasedIsList DEF ListInv
      <3>3. n # e.bus
        BY <2>1, <2>10 DEF EraseMissing, Exists
      <3> QED
        BY <2>2, <3>1, <3>2, <3>3 DEF Live
    <2>11. ASSUME NEW e \in todo, UnlinkTakes(p, e)
           PROVE  Live(current', n) /\ Live(intent', n)
      <3>1. intent' = [intent EXCEPT !.buses = @ \ {e}] /\ current' = current
            /\ holder = p /\ p # Nobody /\ ~Dropped(n)
        BY <2>11, ChangedLists, MarkerAssumption DEF UnlinkTakes, Empties, Dropped
      <3>2. intent'.buses = intent.buses \ {e}
        BY <3>1 DEF Lists
      <3>3. n # e.bus
        BY <2>11 DEF UnlinkTakes, Without
      <3> QED
        BY <2>2, <3>1, <3>2, <3>3 DEF Live
    <2> QED
      BY <2>3, <2>4, <2>5, <2>6, <2>7, <2>8, <2>9, <2>10, <2>11, RootSteps
  <1> QED
    BY <1>1, <1>2

-----------------------------------------------------------------------------
(* Recovery.                                                                *)

LEMMA PruneSteps ==
    ASSUME TypeInv, HolderInv, NEW p \in Handles, NextBuses!(p), step' \in Pruning
    PROVE  \/ Outside(p) \/ BeginPrune(p) \/ Replay(p) \/ GiveBack(p) \/ UnlinkRecovered(p)
           \/ RetireErased(p)
           \/ \E e \in todo : Skip(p, e) \/ EraseMissing(p, e) \/ OpenContainer(p, e)
  <1> USE DEF Pruning
  <1>1. ~(FinishCreate(p) \/ Return(p) \/ FinishRemove(p) \/ FinishPrune(p) \/ (Leave(p) /\ holder = p))
    BY DEF FinishCreate, Return, FinishRemove, FinishPrune, Leave, Ended, Ends
  <1>2. ~(BeginCreate(p) \/ BeginRemove(p) \/ BeginUnlinkAll(p))
    BY DEF BeginCreate, BeginRemove, BeginUnlinkAll
  <1>3. ~(NameFree(p) \/ NameTaken(p) \/ GiveUp(p) \/ UnlinkNew(p) \/ RemoveEntry(p) \/ NothingToRemove(p))
    BY DEF NameFree, NameTaken, GiveUp, UnlinkNew, RemoveEntry, NothingToRemove, Ends
  <1>4. ~(Register(p) \/ RegisterFails(p) \/ Unregister(p) \/ RetireErasedFails(p) \/ RetireEmptied(p))
    BY DEF Register, RegisterFails, Retire, RetireFails, Unregister, RetireErasedFails, RetireEmptied, Ends
  <1>5. ~\E e \in todo : UnlinkSkips(p, e) \/ UnlinkTakes(p, e)
    BY DEF UnlinkSkips, UnlinkTakes, Empties
  <1> QED
    BY <1>1, <1>2, <1>3, <1>4, <1>5 DEF Outside

\* Without the lock nobody touches an abandoned bus.
LEMMA AbandonedStays ==
    ASSUME TypeInv, IdInv, OwnInv, NEW p \in Handles, Outside(p),
           NEW n \in DOMAIN busFiles, ~Locked(n)
    PROVE  /\ n \in DOMAIN busFiles' /\ busFiles'[n] = busFiles[n]
           /\ busFiles[n].id \in owed' => busFiles[n].id \in owed
           /\ UNCHANGED recFiles
  <1>1. Living(p) => Exists(own[p]) /\ busFiles[own[p]].owner = p /\ own[p] # n
    BY MarkerAssumption DEF OwnInv, LivingOwn, Locked, Exists
  <1>2. busFiles[n].owner = Nobody /\ p # Nobody
    BY MarkerAssumption DEF Locked, Exists
  <1>3. n \in DOMAIN busFiles' /\ busFiles'[n] = busFiles[n]
    <2>1. CASE InitBusFails(p)
      <3>1. busFiles' \in TryUnlink([busFiles EXCEPT ![own[p]].owner = Nobody], own[p]) /\ Living(p)
        BY <2>1 DEF InitBusFails, Living
      <3> QED
        BY <1>1, <3>1 DEF TryUnlink, Without
    <2>2. CASE Unlink(p)
      BY <1>1, <2>2 DEF Unlink, Without, Living
    <2>3. CASE Leave(p)
      BY <1>2, <2>3 DEF Leave
    <2>4. CASE InitBus(p) \/ Log(p) \/ Consume(p)
      BY <2>4 DEF InitBus, Log, Consume
    <2> QED
      BY <2>1, <2>2, <2>3, <2>4 DEF Outside
  <1>4. busFiles[n].id \in owed' => busFiles[n].id \in owed
    <2>1. CASE Log(p)
      <3>1. busFiles[own[p]].id # busFiles[n].id
        BY <1>1, <2>1 DEF Log, Living, IdInv, IdsDiffer, Exists
      <3> QED
        BY <2>1, <3>1 DEF Log
    <2>2. CASE InitBus(p) \/ InitBusFails(p) \/ Consume(p) \/ Unlink(p) \/ Leave(p)
      BY <2>2 DEF InitBus, InitBusFails, Consume, Unlink, Leave
    <2> QED
      BY <2>1, <2>2 DEF Outside
  <1>5. UNCHANGED recFiles
    BY DEF Outside, InitBus, InitBusFails, Log, Consume, Unlink, Leave
  <1> QED
    BY <1>3, <1>4, <1>5

LEMMA ReplayStep ==
    ASSUME TypeInv, ListInv, HolderInv, HolderInv', IdInv, OwnInv, ReplayInv,
           NEW p \in Handles, NextBuses!(p)
    PROVE  ReplayInv'
  <1> USE DEF TypeInv
  <1> DEFINE name == <<at'.bus, 1 + Max({0} \cup Rotations(intent'.ctrs))>>
  <1>0. SUFFICES ASSUME step' \in {"replaying", "replayed"}
                 PROVE  /\ at'.bus \in DOMAIN busFiles' /\ busFiles'[at'.bus].owner = Nobody
                        /\ name \in DOMAIN recFiles'
                        /\ recFiles'[name] \subseteq {busFiles'[at'.bus].id}
                        /\ step' = "replayed" =>
                              owed' \cap {busFiles'[at'.bus].id} \subseteq recFiles'[name]
    <2>1. RecoveryName(at)' = name
      BY DEF RecoveryName
    <2> HIDE DEF name
    <2> QED
      BY <2>1 DEF ReplayInv, Exists, Locked
  <1>1. CASE Outside(p)
    <2>1. UNCHANGED <<rootVars, opVars>>
      BY <1>1, OutsideSteps
    <2>2. name = RecoveryName(at) /\ at' = at /\ step' = step
      BY <2>1 DEF RecoveryName, rootVars, opVars
    <2> HIDE DEF name
    <2>3. at.bus \in DOMAIN busFiles /\ ~Locked(at.bus)
      BY <1>0, <2>2 DEF ReplayInv, Exists
    <2>4. /\ at.bus \in DOMAIN busFiles' /\ busFiles'[at.bus] = busFiles[at.bus]
          /\ busFiles[at.bus].id \in owed' => busFiles[at.bus].id \in owed
          /\ UNCHANGED recFiles
      BY <1>1, <2>3, AbandonedStays
    <2> QED
      BY <1>0, <2>2, <2>3, <2>4 DEF ReplayInv, Locked, Exists
  <1>2. ASSUME NEW e \in todo, OpenContainer(p, e)
        PROVE  /\ at'.bus \in DOMAIN busFiles' /\ busFiles'[at'.bus].owner = Nobody
               /\ name \in DOMAIN recFiles' /\ recFiles'[name] = {} /\ step' = "replaying"
    <2>1. name = RecoveryName(e) /\ at' = e /\ busFiles' = busFiles
      BY <1>2 DEF OpenContainer, RecoveryName, rootVars
    <2> HIDE DEF name
    <2> QED
      BY <1>2, <2>1 DEF OpenContainer, Recoverable, Locked, Exists, Sets
  <1>3. CASE Replay(p)
    <2>1. name = RecoveryName(at) /\ at' = at /\ busFiles' = busFiles /\ owed' = owed
      BY <1>3 DEF Replay, RecoveryName, rootVars
    <2> HIDE DEF name
    <2>2. at.bus \in DOMAIN busFiles /\ ~Locked(at.bus) /\ name \in DOMAIN recFiles
      BY <1>3, <2>1 DEF Replay, ReplayInv, Exists
    <2>3. name \in DOMAIN recFiles' /\ recFiles'[name] = {id \in owed : id = busFiles[at.bus].id}
      BY <1>3, <2>1, <2>2 DEF Replay, Exists
    <2> QED
      BY <2>1, <2>2, <2>3 DEF Locked, Exists
  <1>4. Outside(p) \/ Replay(p) \/ \E e \in todo : OpenContainer(p, e)
    <2>1. step' \in Pruning
      BY <1>0 DEF Pruning
    <2>2. ~(BeginPrune(p) \/ GiveBack(p) \/ UnlinkRecovered(p) \/ RetireErased(p))
      BY <1>0 DEF BeginPrune, GiveBack, UnlinkRecovered, RetireErased, Retire
    <2>3. ~\E e \in todo : Skip(p, e) \/ EraseMissing(p, e)
      BY <1>0 DEF Skip, EraseMissing, Looks
    <2> QED
      BY <2>1, <2>2, <2>3, PruneSteps
  <1> HIDE DEF name
  <1> QED
    BY <1>0, <1>1, <1>2, <1>3, <1>4

LEMMA DueStep ==
    ASSUME TypeInv, ListInv, HolderInv, HolderInv', IdInv, OwnInv, ReplayInv, DueInv,
           NEW p \in Handles, NextBuses!(p)
    PROVE  DueInv'
  <1> USE DEF TypeInv
  <1>0. SUFFICES ASSUME NEW n \in due', n \in DOMAIN busFiles'
                 PROVE  /\ busFiles'[n].owner = Nobody
                        /\ (\E e \in todo' : e.bus = n) \/ (\E r \in DOMAIN recFiles' : r[1] = n)
    BY DEF DueInv, Exists, Locked
  <1>1. step' \in Pruning
    BY <1>0 DEF HolderInv
  <1>2. ASSUME n \in due, n \in DOMAIN busFiles
        PROVE  /\ busFiles[n].owner = Nobody
               /\ (\E e \in todo : e.bus = n) \/ (\E r \in DOMAIN recFiles : r[1] = n)
    BY <1>2 DEF DueInv, Locked, Exists
  <1>3. CASE Outside(p)
    <2>1. UNCHANGED opVars
      BY <1>3, OutsideSteps
    <2>2. n \in DOMAIN busFiles /\ n \in due
      <3>1. ~NameFree(p)
        BY <1>1 DEF NameFree, Pruning
      <3> QED
        BY <1>0, <2>1, <3>1, FilesOnlyGo DEF opVars
    <2>3. ~Locked(n)
      BY <1>2, <2>2 DEF Locked
    <2>4. busFiles'[n] = busFiles[n] /\ UNCHANGED recFiles
      BY <1>3, <2>2, <2>3, AbandonedStays
    <2> QED
      BY <1>2, <2>1, <2>2, <2>4 DEF opVars
  <1>4. CASE BeginPrune(p)
    <2>1. PICK e \in intent'.buses : e.bus = n
      BY <1>0, <1>4 DEF BeginPrune
    <2>2. todo' = intent'.buses /\ busFiles' = busFiles /\ ~Locked(n)
      BY <1>0, <1>4 DEF BeginPrune
    <2> QED
      BY <1>0, <2>1, <2>2 DEF Locked, Exists
  <1>5. ASSUME NEW e \in todo, Skip(p, e) \/ EraseMissing(p, e) \/ OpenContainer(p, e)
        PROVE  /\ busFiles'[n].owner = Nobody
               /\ (\E f \in todo' : f.bus = n) \/ (\E r \in DOMAIN recFiles' : r[1] = n)
    <2>1. todo' = todo \ {e} /\ busFiles' = busFiles /\ due' = due
      BY <1>5 DEF Skip, EraseMissing, OpenContainer, Looks
    <2>2. DOMAIN recFiles \subseteq DOMAIN recFiles'
      BY <1>5 DEF Skip, EraseMissing, OpenContainer, Sets
    <2>3. busFiles[n].owner = Nobody /\ ~Locked(n) /\ Exists(n)
      BY <1>0, <1>2, <2>1 DEF Locked, Exists
    <2>4. CASE n = e.bus
      <3>1. RecoveryName(e) \in DOMAIN recFiles'
        BY <1>5, <2>3, <2>4 DEF Skip, EraseMissing, OpenContainer, Sets
      <3>2. RecoveryName(e)[1] = n
        BY <2>4 DEF RecoveryName
      <3> QED
        BY <2>1, <2>3, <3>1, <3>2
    <2>5. CASE n # e.bus
      BY <1>0, <1>2, <2>1, <2>2, <2>5
    <2> QED
      BY <2>4, <2>5
  <1>6. CASE Replay(p) \/ RetireErased(p)
    <2>1. UNCHANGED <<busFiles, todo, due>> /\ DOMAIN recFiles' = DOMAIN recFiles
      BY <1>6 DEF Replay, RetireErased, Retire
    <2> QED
      BY <1>0, <1>2, <2>1
  <1>7. CASE GiveBack(p)
    <2>1. UNCHANGED <<busFiles, todo>> /\ n \in due /\ n # at.bus
      BY <1>0, <1>7 DEF GiveBack
    <2>2. \A r \in DOMAIN recFiles : r[1] = n => r \in DOMAIN recFiles'
      <3>1. recFiles' \in TryUnlink(recFiles, RecoveryName(at)) /\ RecoveryName(at)[1] = at.bus
        BY <1>7 DEF GiveBack, RecoveryName
      <3> QED
        BY <2>1, <3>1 DEF TryUnlink, Without
    <2> QED
      BY <1>0, <1>2, <2>1, <2>2
  <1>8. CASE UnlinkRecovered(p)
    BY <1>0, <1>2, <1>8 DEF UnlinkRecovered, Without
  <1> QED
    BY <1>1, <1>3, <1>4, <1>5, <1>6, <1>7, <1>8, PruneSteps

\* What the listed containers hold stays the same or goes.
LEMMA ListedContainersKeep ==
    ASSUME TypeInv, ListInv, HolderInv, NEW p \in Handles, NextBuses!(p),
           NEW e \in current.ctrs \cup intent.ctrs, NEW id \in Nat, Contains(e, id)'
    PROVE  Contains(e, id)
  <1> USE DEF TypeInv
  <1>0. NameOf(e) \in DOMAIN recFiles' /\ id \in recFiles'[NameOf(e)]
    BY DEF Contains, NameOf
  <1>1. CASE UNCHANGED recFiles
    BY <1>0, <1>1 DEF Contains
  <1>2. CASE GiveBack(p) \/ RetireErasedFails(p)
    <2>1. PICK r : recFiles' \in {recFiles, Without(recFiles, r)}
      BY <1>2 DEF GiveBack, RetireErasedFails, TryUnlink
    <2> QED
      BY <1>0, <2>1 DEF Without, Contains
  <1>3. ASSUME NEW f \in todo, OpenContainer(p, f)
        PROVE  Contains(e, id)
    <2>1. recFiles' = Sets(recFiles, RecoveryName(f), {})
      BY <1>3 DEF OpenContainer
    <2> HIDE DEF RecoveryName, NameOf
    <2> QED
      BY <1>0, <2>1 DEF Sets, Contains
  <1>4. CASE Replay(p)
    <2>1. intent.ctrs = current.ctrs
      BY <1>4 DEF Replay, HolderInv, Pruning
    <2>2. /\ e.rotation < Recovered(at).rotation /\ NameOf(Recovered(at)) = RecoveryName(at)
      BY <2>1, RecoveryNameIsNew DEF ListInv, WellFormed
    <2>3. e.rotation \in Nat
      BY DEF Lists, Entry
    <2>4. NameOf(e) # RecoveryName(at)
      BY <2>2, <2>3 DEF NameOf
    <2>5. DOMAIN recFiles' = DOMAIN recFiles
          /\ \A r \in DOMAIN recFiles : r # RecoveryName(at) => recFiles'[r] = recFiles[r]
      BY <1>4 DEF Replay
    <2> HIDE DEF RecoveryName, NameOf
    <2> QED
      BY <1>0, <2>4, <2>5 DEF Contains
  <1> QED
    BY <1>1, <1>2, <1>3, <1>4, ContainerSteps

\* Where the containers of a list come from.
LEMMA ContainersOfLists ==
    ASSUME TypeInv, ListInv, HolderInv, NEW p \in Handles, NextBuses!(p)
    PROVE  /\ current'.ctrs \in {current.ctrs, intent.ctrs}
           /\ \/ intent'.ctrs \in {intent.ctrs, current.ctrs, {}}
              \/ UnlinkRecovered(p) /\ intent'.ctrs = intent.ctrs \cup {Recovered(at)}
  <1> USE DEF TypeInv
  <1>1. CASE UNCHANGED rootVars
    BY <1>1 DEF rootVars
  <1>2. CASE Acquire(p)
    BY <1>2, AcquireTakes
  <1>3. CASE Commit(p) \/ Release(p)
    BY <1>3 DEF Commit, Release, NoEntries
  <1>4. CASE NameFree(p) \/ RemoveEntry(p)
    <2>1. intent'.ctrs = intent.ctrs /\ current' = current
      BY <1>4, ChangedLists DEF Lists
    <2> QED
      BY <2>1
  <1>5. CASE UnlinkRecovered(p)
    BY <1>5, ChangedLists, RelistedIsList DEF ListInv
  <1>6. ASSUME NEW e \in todo, EraseMissing(p, e) \/ UnlinkTakes(p, e)
        PROVE  intent'.ctrs = intent.ctrs /\ current' = current
    <2>1. CASE EraseMissing(p, e)
      BY <2>1, ChangedLists, ErasedIsList DEF ListInv
    <2>2. CASE UnlinkTakes(p, e)
      BY <2>2, ChangedLists DEF Lists
    <2> QED
      BY <1>6, <2>1, <2>2
  <1> QED
    BY <1>1, <1>2, <1>3, <1>4, <1>5, <1>6, RootSteps

LEMMA NotInFileStep ==
    ASSUME TypeInv, ListInv, HolderInv, IdInv, ExactInv, NEW p \in Handles, NextBuses!(p),
           NEW e \in current.ctrs \cup intent.ctrs, NEW id \in Nat, Contains(e, id)',
           NEW n \in DOMAIN busFiles'
    PROVE  busFiles'[n].id # id
  <1>1. Contains(e, id)
    BY ListedContainersKeep
  <1>2. \A m \in DOMAIN busFiles : busFiles[m].id # id
    BY <1>1 DEF ExactInv, NotInFile
  <1>3. CASE NameFree(p)
    <2>1. id <= created /\ created \in Nat
      BY <1>1 DEF Contains, IdInv, TypeInv
    <2> QED
      BY <1>2, <1>3, <2>1, NewFile
  <1>4. CASE ~NameFree(p)
    BY <1>2, <1>4, FilesOnlyGo
  <1> QED
    BY <1>3, <1>4

\* The container that is listed has what was in the bus, whose file is gone.
LEMMA RecoveredIsExact ==
    ASSUME TypeInv, IdInv, ListInv, ExactInv, ReplayInv, NEW p \in Handles, UnlinkRecovered(p),
           NEW c, c = Recovered(at), NEW id \in Nat, Contains(c, id)'
    PROVE  /\ \A n \in DOMAIN busFiles' : busFiles'[n].id # id
           /\ \A e \in current.ctrs \cup intent.ctrs : ~Contains(e, id)'
  <1> USE DEF TypeInv
  <1>1. NameOf(c) = RecoveryName(at)
    BY RecoveryNameIsNew DEF ListInv, WellFormed
  <1>2. UNCHANGED recFiles /\ busFiles' = Without(busFiles, at.bus)
    BY DEF UnlinkRecovered
  <1>3. id \in recFiles[RecoveryName(at)]
    BY <1>1, <1>2 DEF Contains, NameOf
  <1>4. Exists(at.bus) /\ id = busFiles[at.bus].id
    BY <1>3 DEF UnlinkRecovered, ReplayInv
  <1>5. \A n \in DOMAIN busFiles' : n \in DOMAIN busFiles /\ n # at.bus /\ busFiles'[n] = busFiles[n]
    BY <1>2 DEF Without
  <1>6. \A n \in DOMAIN busFiles' : busFiles'[n].id # id
    BY <1>4, <1>5 DEF IdInv, IdsDiffer, Exists
  <1>7. \A e \in current.ctrs \cup intent.ctrs : ~Contains(e, id)
    BY <1>4 DEF ExactInv, NotInFile, Exists
  <1>8. \A e \in current.ctrs \cup intent.ctrs : ~Contains(e, id)'
    BY <1>2, <1>7 DEF Contains, NameOf
  <1> QED
    BY <1>6, <1>8

LEMMA ExactStep ==
    ASSUME TypeInv, ListInv, HolderInv, IdInv, ExactInv, ReplayInv, NEW p \in Handles, NextBuses!(p)
    PROVE  ExactInv'
  <1> USE DEF TypeInv
  <1> DEFINE old == current.ctrs \cup intent.ctrs
             Exact(ctrs) ==
                /\ \A e \in ctrs, id \in Nat : Contains(e, id)' =>
                      \A n \in DOMAIN busFiles' : busFiles'[n].id # id
                /\ \A e, f \in ctrs, id \in Nat :
                      Contains(e, id)' /\ Contains(f, id)' => NameOf(e) = NameOf(f)
  <1>1. \A e \in old, id \in Nat, n \in DOMAIN busFiles' : Contains(e, id)' => busFiles'[n].id # id
    BY NotInFileStep
  <1>2. \A e \in old, id \in Nat : Contains(e, id)' => Contains(e, id)
    BY ListedContainersKeep
  <1>3. /\ \A e, f \in current.ctrs, id \in Nat :
              Contains(e, id)' /\ Contains(f, id)' => NameOf(e) = NameOf(f)
        /\ \A e, f \in intent.ctrs, id \in Nat :
              Contains(e, id)' /\ Contains(f, id)' => NameOf(e) = NameOf(f)
    BY <1>2 DEF ExactInv, Once
  <1>4. Exact(current.ctrs) /\ Exact(intent.ctrs) /\ Exact({})
    BY <1>1, <1>3
  <1>5. UnlinkRecovered(p) => Exact(intent.ctrs \cup {Recovered(at)})
    <2> SUFFICES ASSUME UnlinkRecovered(p)
                 PROVE  Exact(intent.ctrs \cup {Recovered(at)})
      OBVIOUS
    <2>1. PICK c : c = Recovered(at)
      OBVIOUS
    <2>2. \A id \in Nat : Contains(c, id)' =>
              /\ \A n \in DOMAIN busFiles' : busFiles'[n].id # id
              /\ \A e \in old : ~Contains(e, id)'
      BY <2>1, RecoveredIsExact
    <2>3. Exact(intent.ctrs \cup {c})
      BY <1>1, <1>3, <2>2
    <2> HIDE DEF Exact
    <2> QED
      BY <2>1, <2>3
  <1>6. /\ current'.ctrs \in {current.ctrs, intent.ctrs}
        /\ \/ intent'.ctrs \in {intent.ctrs, current.ctrs, {}}
           \/ UnlinkRecovered(p) /\ intent'.ctrs = intent.ctrs \cup {Recovered(at)}
    BY ContainersOfLists
  <1> HIDE DEF Exact
  <1>7. Exact(current'.ctrs) /\ Exact(intent'.ctrs)
    BY <1>4, <1>5, <1>6
  <1> USE DEF Exact
  <1> QED
    BY <1>7 DEF ExactInv, NotInFile, Once, Contains, NameOf

-----------------------------------------------------------------------------
(* The theorems.                                                            *)

LEMMA InitHolds ==
    ASSUME InitBuses
    PROVE  BusesInv
  <1>1. PICK n \in OldRotations :
            IF n = 0
            THEN current = NoEntries /\ busFiles = <<>> /\ created = 0 /\ owed = {}
            ELSE /\ current = [NoEntries EXCEPT !.buses = {[bus |-> n, rotation |-> n]}]
                 /\ busFiles = [m \in {n} |-> [id |-> 0, owner |-> Nobody]]
                 /\ created = 0 /\ owed = {0}
    BY DEF InitBuses
  <1>2. n \in Nat
    BY RotationAssumption
  <1>3. /\ holder = Nobody /\ intent = NoEntries /\ recFiles = <<>> /\ created = 0
        /\ own = [p \in Handles |-> 0] /\ phase = [p \in Handles |-> "none"]
        /\ step = "none" /\ at = NoEntry /\ todo = {} /\ due = {} /\ stolen = {}
    BY <1>1 DEF InitBuses
  <1>4. DOMAIN recFiles = {} /\ recFiles \in [DOMAIN recFiles -> SUBSET Nat]
    BY <1>3
  <1>5. NoEntries \in Lists /\ NoEntries.ctrs = {} /\ NoEntries.buses = {}
    BY DEF NoEntries, Lists
  <1>6. Bounded({}) /\ RotationsTell({})
    <2>1. \A e \in {} : e.rotation <= 0
      OBVIOUS
    <2> QED
      BY <2>1 DEF Bounded, RotationsTell
  <1>7. WellFormed(intent) /\ intent \in Lists /\ intent.ctrs = {}
    BY <1>3, <1>5, <1>6 DEF WellFormed
  <1>8. /\ current \in Lists /\ current.ctrs = {} /\ WellFormed(current)
        /\ DOMAIN busFiles \subseteq Nat /\ busFiles \in [DOMAIN busFiles -> BusFile]
        /\ \A m \in DOMAIN busFiles : busFiles[m].id = 0 /\ Live(current, m)
        /\ IdsDiffer(busFiles) /\ owed \subseteq {0}
    <2>1. CASE n = 0
      <3>1. current = NoEntries /\ busFiles = <<>> /\ owed = {}
        BY <1>1, <2>1
      <3>2. DOMAIN busFiles = {} /\ busFiles \in [DOMAIN busFiles -> BusFile]
        BY <3>1
      <3>3. current \in Lists /\ current.ctrs = {} /\ WellFormed(current)
        BY <1>5, <1>6, <3>1 DEF WellFormed
      <3> QED
        BY <3>1, <3>2, <3>3 DEF IdsDiffer
    <2>2. CASE n # 0
      <3> DEFINE e == [bus |-> n, rotation |-> n]
      <3>1. e \in Entry /\ e.bus = n /\ e.rotation = n
        BY <1>2 DEF Entry
      <3>2. current = [NoEntries EXCEPT !.buses = {e}] /\ owed = {0}
        BY <1>1, <2>2
      <3>3. busFiles = [m \in {n} |-> [id |-> 0, owner |-> Nobody]]
        BY <1>1, <2>2
      <3> HIDE DEF e
      <3>4. current = [ctrs |-> {}, buses |-> {e}]
        BY <3>2 DEF NoEntries
      <3>5. \A f \in {e} : f.rotation <= n
        BY <1>2, <3>1
      <3>6. WellFormed(current)
        BY <1>2, <1>6, <3>1, <3>4, <3>5 DEF WellFormed, Bounded, RotationsTell
      <3>7. current \in Lists /\ Live(current, n)
        BY <2>2, <3>1, <3>4 DEF Lists, Live
      <3>8. DOMAIN busFiles = {n} /\ busFiles[n] = [id |-> 0, owner |-> Nobody]
        BY <3>3
      <3>9. busFiles \in [DOMAIN busFiles -> BusFile] /\ busFiles[n].id = 0
        BY <3>3, <3>8 DEF BusFile
      <3> QED
        BY <1>2, <3>2, <3>4, <3>6, <3>7, <3>8, <3>9 DEF IdsDiffer
    <2> QED
      BY <2>1, <2>2
  <1>9. TypeInv
    <2>1. at \in Entry
      BY <1>3 DEF NoEntry, Entry
    <2> QED
      BY <1>3, <1>4, <1>7, <1>8, <2>1 DEF TypeInv
  <1>10. ListInv /\ HolderInv
    BY <1>3, <1>7, <1>8 DEF ListInv, HolderInv, Creating, Removing, Pruning
  <1>11. IdInv
    BY <1>3, <1>4, <1>8 DEF IdInv
  <1>12. OwnInv
    BY <1>3 DEF OwnInv, LivingOwn, NewUnused, NamedInv, Living, Creating
  <1>13. FilesListed
    BY <1>3, <1>8 DEF FilesListed
  <1>14. ExactInv
    BY <1>7, <1>8 DEF ExactInv, NotInFile, Once
  <1>15. ReplayInv /\ DueInv
    BY <1>3 DEF ReplayInv, DueInv
  <1> QED
    BY <1>9, <1>10, <1>11, <1>12, <1>13, <1>14, <1>15 DEF BusesInv

allVars == <<rootVars, busVars>>

LEMMA StepHolds ==
    ASSUME BusesInv, [NextBuses]_allVars
    PROVE  BusesInv'
  <1> USE DEF BusesInv
  <1>1. CASE UNCHANGED allVars
    <2>1. /\ UNCHANGED <<current, holder, intent, busFiles, recFiles, own, phase, step, at>>
          /\ UNCHANGED <<todo, due, created, owed, stolen>>
      BY <1>1 DEF allVars, rootVars, busVars, opVars
    <2>2. TypeInv' /\ ListInv' /\ HolderInv'
      BY <2>1 DEF TypeInv, ListInv, HolderInv, WellFormed, Bounded, RotationsTell
    <2>3. IdInv' /\ OwnInv'
      BY <2>1 DEF IdInv, IdsDiffer, OwnInv, LivingOwn, NewUnused, NamedInv, Living, Unused, Exists
    <2>4. FilesListed'
      BY <2>1 DEF FilesListed, Wanted, Dropped, Live, Living
    <2>5. ExactInv'
      BY <2>1 DEF ExactInv, NotInFile, Once, Contains, NameOf
    <2>6. ReplayInv' /\ DueInv'
      BY <2>1 DEF ReplayInv, DueInv, RecoveryName, Exists, Locked
    <2> QED
      BY <2>2, <2>3, <2>4, <2>5, <2>6
  <1>2. CASE NextBuses
    <2> PICK p \in Handles : NextBuses!(p)
      BY <1>2 DEF NextBuses
    <2>1. TypeInv' /\ ListInv' /\ HolderInv' /\ IdInv'
      BY TypeStep, ListStep, HolderStep, IdStep DEF ListInv
    <2>2. OwnInv' /\ FilesListed' /\ ExactInv'
      BY <2>1, OwnStep, ListedStep, ExactStep
    <2>3. ReplayInv' /\ DueInv'
      BY <2>1, ReplayStep, DueStep
    <2> QED
      BY <2>1, <2>2, <2>3
  <1> QED
    BY <1>1, <1>2

\* The invariant of the message buses of a file database: every part of it holds
\* through every operation, failure and crash.
THEOREM BusesInductive == SpecBuses => []BusesInv
  <1>1. InitBuses => BusesInv
    BY InitHolds
  <1>2. BusesInv /\ [NextBuses]_allVars => BusesInv'
    BY StepHolds
  <1> QED
    BY <1>1, <1>2, PTL DEF SpecBuses, allVars

\* An abandoned bus with records stays listed, whatever fails and whoever dies; only
\* remove_message_bus() of a bus with the same rotation can take its entry.
THEOREM AbandonedStayListed == SpecBuses => []AbandonedListed
  <1>1. BusesInv => AbandonedListed
    BY DEF BusesInv, FilesListed, Wanted, Live, AbandonedListed, ListedBuses
  <1> QED
    BY <1>1, BusesInductive, PTL

\* The listed containers have the records of a bus at most once, and none of a bus
\* that is listed itself.
THEOREM RecordsRecoveredOnce == SpecBuses => []RecoveredOnce
  <1>1. BusesInv => RecoveredOnce
    <2> SUFFICES ASSUME BusesInv, NEW id \in owed
                 PROVE  /\ Cardinality({r \in ListedCtrs \cap DOMAIN recFiles : id \in recFiles[r]}) <= 1
                        /\ \A r \in ListedCtrs \cap DOMAIN recFiles, n \in ListedBuses \cap DOMAIN busFiles :
                              id \in recFiles[r] => busFiles[n].id # id
      BY DEF RecoveredOnce
    <2> DEFINE S == {r \in ListedCtrs \cap DOMAIN recFiles : id \in recFiles[r]}
    <2>1. id \in Nat
      BY DEF BusesInv, IdInv, TypeInv
    <2>2. \A r \in S : \E e \in current.ctrs : NameOf(e) = r /\ Contains(e, id)
      BY DEF ListedCtrs, NameOf, Contains
    <2>3. \A r, s \in S : r = s
      BY <2>1, <2>2 DEF BusesInv, ExactInv, Once
    <2>4. \A r \in S, n \in DOMAIN busFiles : busFiles[n].id # id
      BY <2>1, <2>2 DEF BusesInv, ExactInv, NotInFile
    <2>5. Cardinality(S) <= 1
      <3>1. CASE S = {}
        BY <3>1, FS_EmptySet
      <3>2. CASE S # {}
        <4>1. PICK r \in S : S = {r}
          BY <2>3, <3>2
        <4> HIDE DEF S
        <4>2. IsFiniteSet({}) /\ Cardinality({}) = 0
          BY FS_EmptySet
        <4>3. Cardinality({} \cup {r}) = 1
          BY <4>2, FS_AddElement
        <4>4. S = {} \cup {r}
          BY <4>1
        <4> QED
          BY <4>3, <4>4
      <3> QED
        BY <3>1, <3>2
    <2> QED
      BY <2>4, <2>5
  <1> QED
    BY <1>1, BusesInductive, PTL

\* A prune that comes to the end of its list has recovered every bus that it found
\* abandoned, unless that failed or the container of an earlier try is in its way.
THEOREM PruneServesAbandoned == SpecBuses => []PruneServesAll
  <1>1. BusesInv => PruneServesAll
    BY DEF BusesInv, DueInv, PruneServesAll, PruneEnds
  <1> QED
    BY <1>1, BusesInductive, PTL

\* No step of another process removes, replaces or unlocks the file of a bus that
\* its owner has.
THEOREM OwnersHaveTheirFiles == SpecBuses => OwnersKeepFiles
  <1> DEFINE Kept ==
        \A n \in DOMAIN busFiles, p \in Handles :
            own[p] = n /\ own'[p] = n /\ phase'[p] \in {"new", "open"}
                => n \in DOMAIN busFiles' /\ busFiles'[n] = busFiles[n]
  <1>1. BusesInv /\ [NextBuses]_allVars => [Kept]_allVars
    <2> SUFFICES ASSUME BusesInv, NextBuses, NEW n \in DOMAIN busFiles, NEW q \in Handles,
                        own[q] = n, phase'[q] \in {"new", "open"}
                 PROVE  n \in DOMAIN busFiles' /\ busFiles'[n] = busFiles[n]
      OBVIOUS
    <2> PICK p \in Handles : NextBuses!(p)
      BY DEF NextBuses
    <2>1. CASE Living(q)
      BY <2>1, OwnerKeepsFile DEF BusesInv, Living
    <2>2. CASE ~Living(q)
      <3>1. FinishCreate(p)
        <4>1. ~InitBus(p) \/ q # p
          BY <2>2 DEF InitBus, Living
        <4> QED
          BY <2>2, <4>1, OwnSteps DEF BusesInv, Living
      <3> QED
        BY <3>1 DEF FinishCreate
    <2> QED
      BY <2>1, <2>2
  <1>2. OwnersKeepFiles <=> [][Kept]_allVars
    BY PTL DEF OwnersKeepFiles, allVars
  <1> QED
    BY <1>1, <1>2, BusesInductive, PTL DEF SpecBuses, allVars

\* A file with records that somebody still waits for goes only once they are in a container.
LEMMA FileKeepsRecords ==
    ASSUME BusesInv, NEW p \in Handles, NextBuses!(p), NEW n \in DOMAIN busFiles,
           busFiles[n].id \in owed \cap owed'
    PROVE  \/ \E m \in DOMAIN busFiles' : busFiles'[m].id = busFiles[n].id
           \/ \E r \in DOMAIN recFiles' : busFiles[n].id \in recFiles'[r]
  <1> USE DEF BusesInv, TypeInv
  <1> DEFINE id == busFiles[n].id
  <1>1. CASE UNCHANGED busFiles
    BY <1>1
  <1>2. CASE NameFree(p)
    BY <1>2, NewFile
  <1>3. ASSUME NEW m, busFiles' \in TryUnlink([busFiles EXCEPT ![m].owner = Nobody], m), n # m
        PROVE  n \in DOMAIN busFiles' /\ busFiles'[n] = busFiles[n]
    BY <1>3 DEF TryUnlink, Without
  <1>4. CASE UnlinkNew(p)
    <2>1. at.bus # n
      BY <1>4 DEF UnlinkNew, OwnInv, NamedInv, Creating, Unused
    <2>2. busFiles' \in TryUnlink([busFiles EXCEPT ![at.bus].owner = Nobody], at.bus)
      BY <1>4 DEF UnlinkNew
    <2> QED
      BY <1>3, <2>1, <2>2
  <1>5. CASE InitBusFails(p)
    <2>1. own[p] # n
      BY <1>5 DEF InitBusFails, OwnInv, NewUnused, Unused
    <2>2. busFiles' \in TryUnlink([busFiles EXCEPT ![own[p]].owner = Nobody], own[p])
      BY <1>5 DEF InitBusFails
    <2> QED
      BY <1>3, <2>1, <2>2
  <1>6. CASE Unlink(p)
    <2>1. own[p] # n
      BY <1>6 DEF Unlink
    <2> QED
      BY <1>6, <2>1 DEF Unlink, Without
  <1>7. CASE Leave(p)
    <2>1. n \in DOMAIN busFiles' /\ busFiles'[n] \in {busFiles[n], [busFiles[n] EXCEPT !.owner = Nobody]}
      BY <1>7 DEF Leave
    <2>2. busFiles[n] \in BusFile
      OBVIOUS
    <2> QED
      BY <2>1, <2>2, FreedFile
  <1>8. CASE UnlinkRecovered(p)
    <2>1. step = "replayed" /\ busFiles' = Without(busFiles, at.bus) /\ recFiles' = recFiles
      BY <1>8 DEF UnlinkRecovered
    <2>2. CASE n = at.bus
      BY <2>1, <2>2 DEF ReplayInv
    <2>3. CASE n # at.bus
      BY <2>1, <2>3 DEF Without
    <2> QED
      BY <2>2, <2>3
  <1>9. ASSUME NEW e \in todo, UnlinkTakes(p, e)
        PROVE  n \in DOMAIN busFiles' /\ busFiles'[n] = busFiles[n]
    <2>1. n # e.bus
      BY <1>9 DEF UnlinkTakes
    <2> QED
      BY <1>9, <2>1 DEF UnlinkTakes, Without
  <1> QED
    BY <1>1, <1>2, <1>4, <1>5, <1>6, <1>7, <1>8, <1>9, FileSteps

\* A container goes only while the bus is still there, or when the list could not be
\* written after the bus was unlinked.
LEMMA ContainerKeepsRecords ==
    ASSUME BusesInv, NEW p \in Handles, NextBuses!(p), NEW r \in DOMAIN recFiles, NEW id \in recFiles[r],
           ~(step = "recovered" /\ step' = "failed")
    PROVE  \/ \E m \in DOMAIN busFiles' : busFiles'[m].id = id
           \/ \E s \in DOMAIN recFiles' : id \in recFiles'[s]
  <1> USE DEF BusesInv, TypeInv
  <1>1. CASE UNCHANGED recFiles
    BY <1>1
  <1>2. ASSUME NEW e \in todo, OpenContainer(p, e)
        PROVE  r \in DOMAIN recFiles' /\ recFiles'[r] = recFiles[r]
    <2>1. RecoveryName(e) \notin DOMAIN recFiles /\ recFiles' = Sets(recFiles, RecoveryName(e), {})
      BY <1>2 DEF OpenContainer, Recoverable
    <2> HIDE DEF RecoveryName
    <2> QED
      BY <2>1 DEF Sets
  <1>3. CASE Replay(p) \/ GiveBack(p)
    <2>1. /\ UNCHANGED busFiles /\ Exists(at.bus)
          /\ recFiles[RecoveryName(at)] \subseteq {busFiles[at.bus].id}
      BY <1>3 DEF Replay, GiveBack, ReplayInv
    <2>2. CASE r = RecoveryName(at)
      BY <2>1, <2>2 DEF Exists
    <2>3. CASE r # RecoveryName(at)
      <3>1. r \in DOMAIN recFiles' /\ recFiles'[r] = recFiles[r]
        BY <1>3, <2>3 DEF Replay, GiveBack, TryUnlink, Without
      <3> QED
        BY <3>1
    <2> QED
      BY <2>2, <2>3
  <1>4. CASE RetireErasedFails(p)
    <2>1. step' = "failed" /\ step # "recovered"
      BY <1>4 DEF RetireErasedFails, Ends
    <2>2. UNCHANGED recFiles
      BY <1>4, <2>1 DEF RetireErasedFails, RetireFails
    <2> QED
      BY <1>1, <2>2
  <1> QED
    BY <1>1, <1>2, <1>3, <1>4, ContainerSteps

\* No crash and no failure loses records that are in a bus or a container, but for a
\* list that cannot be written after the bus was unlinked.
THEOREM RecordsSurvive == SpecBuses => NothingLost
  <1> DEFINE Kept ==
        \A id \in owed \cap owed' : Held(id) => Held(id)' \/ (step = "recovered" /\ step' = "failed")
  <1>1. BusesInv /\ [NextBuses]_allVars => [Kept]_allVars
    <2> SUFFICES ASSUME BusesInv, NextBuses, NEW id \in owed \cap owed', Held(id),
                        ~(step = "recovered" /\ step' = "failed")
                 PROVE  \/ \E m \in DOMAIN busFiles' : busFiles'[m].id = id
                        \/ \E s \in DOMAIN recFiles' : id \in recFiles'[s]
      BY DEF Held
    <2> PICK p \in Handles : NextBuses!(p)
      BY DEF NextBuses
    <2>1. ASSUME NEW n \in DOMAIN busFiles, busFiles[n].id = id
          PROVE  \/ \E m \in DOMAIN busFiles' : busFiles'[m].id = id
                 \/ \E s \in DOMAIN recFiles' : id \in recFiles'[s]
      BY <2>1, FileKeepsRecords
    <2>2. ASSUME NEW r \in DOMAIN recFiles, id \in recFiles[r]
          PROVE  \/ \E m \in DOMAIN busFiles' : busFiles'[m].id = id
                 \/ \E s \in DOMAIN recFiles' : id \in recFiles'[s]
      BY <2>2, ContainerKeepsRecords
    <2> QED
      BY <2>1, <2>2 DEF Held
  <1>2. NothingLost <=> [][Kept]_allVars
    BY PTL DEF NothingLost, allVars
  <1> QED
    BY <1>1, <1>2, BusesInductive, PTL DEF SpecBuses, allVars
=============================================================================
