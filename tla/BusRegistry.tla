----------------------------- MODULE BusRegistry -----------------------------
(***************************************************************************)
(* Message buses in a file database: how they are created, registered,     *)
(* unlinked, left behind by a dead process and recovered by another.  The  *)
(* root file is taken for a Registry, which RootFile implements.           *)
(*                                                                         *)
(* A bus is a file of its own, named after its rotation and locked by its  *)
(* owner as long as that lives.  Buses of one id are modelled: an id only  *)
(* separates names and rotations.  A list is a set of entries here: no two *)
(* of them have the same name, and they are looked at in any order.        *)
(***************************************************************************)
EXTENDS Naturals, FiniteSets, FiniteSetsExt

CONSTANTS
    Handles,       \* processes with the database open
    Nobody,        \* a lock is free
    OldRotations,  \* rotations that the last bus of an older process may have had
    RetryReach,    \* how far rotations are tried
    MaxBuses       \* bound on the buses created

ASSUME RotationAssumption == OldRotations \subseteq Nat
ASSUME MarkerAssumption == Nobody \notin Handles

\* Recovery containers are listed by the bus that they were recovered from.
Entry == [bus : Nat, rotation : Nat]
Lists == [ctrs : SUBSET Entry, buses : SUBSET Entry]
NoEntries == [ctrs |-> {}, buses |-> {}]

\* Entries are erased by their rotation; every fetch drops those.
Tidied == [l \in Lists |-> [l EXCEPT !.buses = {e \in @ : e.rotation # 0}]]

VARIABLES
    current,   \* the list in the root file
    holder,    \* who holds the lock of the root file
    intent,    \* the list it works on
    busFiles,  \* the bus files: which bus is in them and who locks them
    recFiles,  \* recovery containers: the buses whose records they hold
    own,       \* the rotation of each process's bus, 0 for none
    phase,     \* what each process is doing with its bus
    step,      \* where the holder of the registry's lock is
    at,        \* the entry that it is about to add or has to recover
    todo,      \* the entries it has yet to look at
    (* history *)
    tries,     \* how many names were taken
    due,       \* abandoned buses that the prune in progress has to recover
    created,   \* how many buses there were
    owed,      \* buses with records that nobody consumed
    stolen     \* buses whose entry another process removed

\* That there is no list yet makes no difference to an empty one here.
INSTANCE Registry WITH Data <- Lists, None <- NoEntries

rootVars == <<current, holder, intent>>
opVars == <<step, at, todo, tries, due>>
busVars == <<busFiles, recFiles, own, phase, opVars, created, owed, stolen>>

Exists(n) == n \in DOMAIN busFiles
Locked(n) == Exists(n) /\ busFiles[n].owner # Nobody
Without(f, n) == [m \in DOMAIN f \ {n} |-> f[m]]
\* (void)unlink(): nobody looks at whether the file is gone.
TryUnlink(f, n) == {f, Without(f, n)}
Sets(f, n, v) == [m \in DOMAIN f \cup {n} |-> IF m = n THEN v ELSE f[m]]

NoEntry == [bus |-> 0, rotation |-> 0]
Ends(s) == step' = s /\ at' = NoEntry /\ todo' = {} /\ tries' = 0 /\ due' = {}
Ended == Ends("none")

Idle(p) == own[p] = 0 /\ phase[p] = "none"

\* The database may have been used before; the bus of then was left behind.
InitBuses ==
    /\ holder = Nobody /\ intent = NoEntries
    /\ recFiles = <<>> /\ own = [p \in Handles |-> 0] /\ phase = [p \in Handles |-> "none"]
    /\ step = "none" /\ at = NoEntry /\ todo = {} /\ tries = 0 /\ due = {} /\ stolen = {}
    /\ \E n \in OldRotations :
        IF n = 0
        THEN current = NoEntries /\ busFiles = <<>> /\ created = 0 /\ owed = {}
        ELSE /\ current = [NoEntries EXCEPT !.buses = {[bus |-> n, rotation |-> n]}]
             /\ busFiles = [m \in {n} |-> [id |-> 0, owner |-> Nobody]]
             /\ created = 0 /\ owed = {0}

-----------------------------------------------------------------------------
(* create_message_bus()                                                     *)

Rotations(entries) == {e.rotation : e \in entries}
LastRotation(list) == Max({0} \cup Rotations(list.buses))

\* rotation - RetryReach < last, in unsigned arithmetic.
MayRetry(rotation, last) == rotation >= RetryReach /\ rotation - RetryReach < last

Named(n) == [bus |-> n, rotation |-> n]

BeginCreate(p) ==
    /\ Idle(p) /\ created < MaxBuses
    /\ Acquire(p)
    /\ step' = "naming" /\ at' = Named(LastRotation(intent') + 1) /\ tries' = 0
    /\ UNCHANGED <<busFiles, recFiles, own, phase, todo, due, created, owed, stolen>>

NameFree(p) ==
    /\ holder = p /\ step = "naming" /\ ~Exists(at.bus)
    /\ Change(p, [intent EXCEPT !.buses = @ \cup {at}])
    /\ busFiles' = Sets(busFiles, at.bus, [id |-> created + 1, owner |-> p])
    /\ created' = created + 1 /\ step' = "named"
    /\ UNCHANGED <<recFiles, own, phase, at, todo, tries, due, owed, stolen>>

NameTaken(p) ==
    /\ holder = p /\ step = "naming" /\ Exists(at.bus) /\ MayRetry(at.bus, LastRotation(intent))
    /\ at' = Named(at.bus + 2) /\ tries' = tries + 1
    /\ UNCHANGED <<rootVars, busFiles, recFiles, own, phase, step, todo, due, created, owed, stolen>>

GiveUp(p) ==
    /\ holder = p /\ step = "naming" /\ Exists(at.bus) /\ ~MayRetry(at.bus, LastRotation(intent))
    /\ Ends("failed")
    /\ UNCHANGED <<rootVars, busFiles, recFiles, own, phase, created, owed, stolen>>

\* retire_to_storage() of any operation reports success or a failure; after a
\* failure the new list may be in the file or not.
Retire(p, from, to) ==
    /\ holder = p /\ step = from /\ step' = to
    /\ Commit(p)
    /\ UNCHANGED <<busFiles, recFiles, own, phase, todo, tries, due, created, owed, stolen>>
RetireFails(p, from) ==
    /\ holder = p /\ step = from
    /\ Commit(p) \/ UNCHANGED rootVars
    /\ UNCHANGED <<own, phase, created, owed, stolen>>

Register(p) == Retire(p, "named", "registered") /\ UNCHANGED at
RegisterFails(p) ==
    /\ RetireFails(p, "named") /\ step' = "unregistered"
    /\ UNCHANGED <<busFiles, recFiles, at, todo, tries, due>>

UnlinkNew(p) ==
    /\ holder = p /\ step = "unregistered" /\ Ends("failed")
    /\ busFiles' \in TryUnlink([busFiles EXCEPT ![at.bus].owner = Nobody], at.bus)
    /\ UNCHANGED <<rootVars, recFiles, own, phase, created, owed, stolen>>

FinishCreate(p) ==
    /\ holder = p /\ step = "registered"
    /\ Release(p)
    /\ own' = [own EXCEPT ![p] = at.bus] /\ phase' = [phase EXCEPT ![p] = "new"]
    /\ Ended
    /\ UNCHANGED <<busFiles, recFiles, created, owed, stolen>>

\* An operation returns its error.
Return(p) ==
    /\ holder = p /\ step = "failed"
    /\ Release(p) /\ Ended
    /\ UNCHANGED <<busFiles, recFiles, own, phase, created, owed, stolen>>

-----------------------------------------------------------------------------
(* A process and its bus (db_mpsc_bus_handle).                              *)

InitBus(p) ==
    /\ phase[p] = "new"
    /\ phase' = [phase EXCEPT ![p] = "open"]
    /\ UNCHANGED <<rootVars, busFiles, recFiles, own, opVars, created, owed, stolen>>

\* The bus cannot be set up.  It tries to remove its file; its entry stays.
InitBusFails(p) ==
    /\ phase[p] = "new"
    /\ busFiles' \in TryUnlink([busFiles EXCEPT ![own[p]].owner = Nobody], own[p])
    /\ own' = [own EXCEPT ![p] = 0] /\ phase' = [phase EXCEPT ![p] = "none"]
    /\ UNCHANGED <<rootVars, recFiles, opVars, created, owed, stolen>>

Log(p) ==
    /\ phase[p] = "open"
    /\ owed' = owed \cup {busFiles[own[p]].id}
    /\ UNCHANGED <<rootVars, busFiles, recFiles, own, phase, opVars, created, stolen>>

Consume(p) ==
    /\ phase[p] = "open"
    /\ owed' = owed \ {busFiles[own[p]].id}
    /\ UNCHANGED <<rootVars, busFiles, recFiles, own, phase, opVars, created, stolen>>

\* unlink(): the file first, then its entry.  What is still in the bus is given up.
Unlink(p) ==
    /\ phase[p] = "open"
    /\ busFiles' = Without(busFiles, own[p])
    /\ owed' = owed \ {busFiles[own[p]].id}
    /\ phase' = [phase EXCEPT ![p] = "unlinked"]
    /\ UNCHANGED <<rootVars, recFiles, own, opVars, created, stolen>>

BeginRemove(p) ==
    /\ phase[p] = "unlinked"
    /\ Acquire(p)
    /\ step' = "removing"
    /\ UNCHANGED <<busFiles, recFiles, own, phase, at, todo, tries, due, created, owed, stolen>>

\* remove_message_bus() looks for id and rotation only.
RemoveEntry_AllOfId(p) ==  \* mutant: the rotation is not compared
    /\ holder = p /\ step = "removing" /\ intent.buses # {}
    /\ Change(p, [intent EXCEPT !.buses = {}])
    /\ step' = "removed"
    /\ UNCHANGED <<busFiles, recFiles, own, phase, at, todo, tries, due, created, owed, stolen>>
RemoveEntry(p) ==
    /\ holder = p /\ step = "removing" /\ own[p] \in Rotations(intent.buses)
    /\ Change(p, [intent EXCEPT !.buses = {e \in @ : e.rotation # own[p]}])
    /\ step' = "removed"
    /\ UNCHANGED <<busFiles, recFiles, own, phase, at, todo, tries, due, created, owed, stolen>>

NothingToRemove(p) ==
    /\ holder = p /\ step = "removing" /\ own[p] \notin Rotations(intent.buses)
    /\ step' = "gone"
    /\ UNCHANGED <<rootVars, busFiles, recFiles, own, phase, at, todo, tries, due, created, owed, stolen>>

Unregister(p) ==
    /\ holder = p /\ step = "removed" /\ step' = "gone"
    /\ \/ Commit(p) /\ stolen' = stolen \cup {busFiles[n].id : n \in DOMAIN busFiles \cap {own[p]}}
       \/ UNCHANGED <<rootVars, stolen>>
    /\ UNCHANGED <<busFiles, recFiles, own, phase, at, todo, tries, due, created, owed>>

FinishRemove(p) ==
    /\ holder = p /\ step = "gone"
    /\ Release(p)
    /\ own' = [own EXCEPT ![p] = 0] /\ phase' = [phase EXCEPT ![p] = "none"]
    /\ Ended
    /\ UNCHANGED <<busFiles, recFiles, created, owed, stolen>>

\* The bus is closed but not unlinked, or its process dies, at any point.
Leave(p) ==
    /\ ~Idle(p) \/ holder = p
    /\ busFiles' = [n \in DOMAIN busFiles |->
                       IF busFiles[n].owner = p THEN [busFiles[n] EXCEPT !.owner = Nobody]
                       ELSE busFiles[n]]
    /\ own' = [own EXCEPT ![p] = 0] /\ phase' = [phase EXCEPT ![p] = "none"]
    /\ IF holder = p THEN Release(p) /\ Ended
       ELSE UNCHANGED <<rootVars, opVars>>
    /\ UNCHANGED <<recFiles, created, owed, stolen>>

-----------------------------------------------------------------------------
(* prune_message_buses()                                                    *)

RecoveryName(e) == <<e.bus, 1 + Max({0} \cup Rotations(intent.ctrs))>>
Recovered(e) == [bus |-> e.bus, rotation |-> RecoveryName(e)[2]]
Looks(p, e) == holder = p /\ step = "pruning" /\ e \in todo /\ todo' = todo \ {e}

BeginPrune_SkipsFirst(p) ==  \* mutant: off by one
    /\ Acquire(p)
    /\ step' = "pruning" /\ \E e \in intent'.buses : todo' = intent'.buses \ {e}
    /\ due' = {n \in {e.bus : e \in intent'.buses} : Exists(n) /\ ~Locked(n)}
    /\ UNCHANGED <<busFiles, recFiles, own, phase, at, tries, created, owed, stolen>>
BeginPrune(p) ==
    /\ Acquire(p)
    /\ step' = "pruning" /\ todo' = intent'.buses
    /\ due' = {n \in {e.bus : e \in intent'.buses} : Exists(n) /\ ~Locked(n)}
    /\ UNCHANGED <<busFiles, recFiles, own, phase, at, tries, created, owed, stolen>>

\* Its owner lives, or a container with the name of its recovery exists.
Skip(p, e) ==
    /\ Looks(p, e) /\ Exists(e.bus)
    /\ Locked(e.bus) \/ RecoveryName(e) \in DOMAIN recFiles
    /\ UNCHANGED <<rootVars, busFiles, recFiles, own, phase, step, at, tries, due, created, owed, stolen>>

\* The entry is only marked; nothing is written back that lacks it.
Erased(list, e) == [list EXCEPT !.buses = (@ \ {e}) \cup {[e EXCEPT !.rotation = 0]}]

EraseMissing(p, e) ==
    /\ Looks(p, e) /\ ~Exists(e.bus)
    /\ Change(p, Erased(intent, e))
    /\ step' = "erased"
    /\ UNCHANGED <<busFiles, recFiles, own, phase, at, tries, due, created, owed, stolen>>

Recoverable_Locked(e) == \* mutant: the lock of the bus is not tried
    Exists(e.bus) /\ RecoveryName(e) \notin DOMAIN recFiles
Recoverable(e) ==
    Exists(e.bus) /\ ~Locked(e.bus) /\ RecoveryName(e) \notin DOMAIN recFiles

OpenContainer(p, e) ==
    /\ Looks(p, e) /\ Recoverable(e)
    /\ recFiles' = Sets(recFiles, RecoveryName(e), {})
    /\ step' = "replaying" /\ at' = e
    /\ UNCHANGED <<rootVars, busFiles, own, phase, tries, due, created, owed, stolen>>

Replay(p) ==
    /\ holder = p /\ step = "replaying" /\ step' = "replayed"
    /\ recFiles' = [recFiles EXCEPT ![RecoveryName(at)] =
                        {id \in owed : Exists(at.bus) /\ id = busFiles[at.bus].id}]
    /\ UNCHANGED <<rootVars, busFiles, own, phase, at, todo, tries, due, created, owed, stolen>>

\* Replaying, finishing the container or unlinking the bus fails.
GiveBack(p) ==
    /\ holder = p /\ step \in {"replaying", "replayed"} /\ step' = "pruning"
    /\ recFiles' \in TryUnlink(recFiles, RecoveryName(at))
    /\ due' = due \ {at.bus}
    /\ UNCHANGED <<rootVars, busFiles, own, phase, at, todo, tries, created, owed, stolen>>

\* The bus is unlinked, its entry marked and the container listed.
Relisted(list, e) == [Erased(list, e) EXCEPT !.ctrs = @ \cup {Recovered(e)}]

UnlinkRecovered_Early(p) ==  \* mutant: before the replay
    /\ holder = p /\ step = "replaying" /\ step' = "recovered"
    /\ busFiles' = Without(busFiles, at.bus)
    /\ Change(p, Relisted(intent, at))
    /\ UNCHANGED <<recFiles, own, phase, at, todo, tries, due, created, owed, stolen>>
UnlinkRecovered_KeepsFile(p) ==  \* mutant: a failure to unlink is ignored
    /\ holder = p /\ step = "replayed" /\ step' = "recovered"
    /\ Change(p, Relisted(intent, at))
    /\ UNCHANGED <<busFiles, recFiles, own, phase, at, todo, tries, due, created, owed, stolen>>
UnlinkRecovered(p) ==
    /\ holder = p /\ step = "replayed" /\ step' = "recovered"
    /\ busFiles' = Without(busFiles, at.bus)
    /\ Change(p, Relisted(intent, at))
    /\ UNCHANGED <<recFiles, own, phase, at, todo, tries, due, created, owed, stolen>>

RetireErased(p) ==
    \E from \in {"erased", "recovered"} : Retire(p, from, "pruning") /\ UNCHANGED at

\* The container, named by the entry just added, goes if it cannot be registered.
NewestCtr == <<at.bus, Max(Rotations(intent.ctrs))>>

RetireErasedFails(p) ==
    /\ Ends("failed")
    /\ \/ RetireFails(p, "erased") /\ UNCHANGED <<busFiles, recFiles>>
       \/ /\ RetireFails(p, "recovered")
          /\ recFiles' \in TryUnlink(recFiles, NewestCtr) /\ UNCHANGED busFiles

\* All entries were looked at, or the time is up.
FinishPrune(p) ==
    /\ holder = p /\ step = "pruning"
    /\ Release(p) /\ Ended
    /\ UNCHANGED <<busFiles, recFiles, own, phase, created, owed, stolen>>

-----------------------------------------------------------------------------
(* unlink_all_message_buses(), also a part of unlink_all().                 *)

BeginUnlinkAll(p) ==
    /\ Acquire(p)
    /\ step' = "emptying" /\ todo' = intent'.buses
    /\ UNCHANGED <<busFiles, recFiles, own, phase, at, tries, due, created, owed, stolen>>

Empties(p, e) == holder = p /\ step = "emptying" /\ e \in todo /\ todo' = todo \ {e}

\* Its owner lives, or it cannot be opened or unlinked.
UnlinkSkips(p, e) ==
    /\ Empties(p, e) /\ Exists(e.bus)
    /\ UNCHANGED <<rootVars, busFiles, recFiles, own, phase, step, at, tries, due, created, owed, stolen>>

\* What is still in the bus is given up.
UnlinkTakes(p, e) ==
    /\ Empties(p, e) /\ ~Locked(e.bus)
    /\ busFiles' = Without(busFiles, e.bus)
    /\ owed' = owed \ {busFiles[n].id : n \in DOMAIN busFiles \cap {e.bus}}
    /\ Change(p, [intent EXCEPT !.buses = @ \ {e}])
    /\ UNCHANGED <<recFiles, own, phase, step, at, tries, due, created, stolen>>

\* Whether the list could be written is not looked at.
RetireEmptied(p) ==
    /\ holder = p /\ step = "emptying" /\ todo = {}
    /\ Commit(p) \/ UNCHANGED rootVars
    /\ Ends("failed")
    /\ UNCHANGED <<busFiles, recFiles, own, phase, created, owed, stolen>>

NextBuses ==
    \E p \in Handles :
        \/ BeginCreate(p) \/ NameFree(p) \/ NameTaken(p) \/ GiveUp(p) \/ Register(p)
        \/ RegisterFails(p) \/ UnlinkNew(p) \/ FinishCreate(p) \/ Return(p)
        \/ InitBus(p) \/ InitBusFails(p) \/ Log(p) \/ Consume(p)
        \/ Unlink(p) \/ BeginRemove(p) \/ RemoveEntry(p) \/ NothingToRemove(p)
        \/ Unregister(p) \/ FinishRemove(p) \/ Leave(p)
        \/ BeginPrune(p) \/ Replay(p) \/ GiveBack(p) \/ UnlinkRecovered(p) \/ RetireErased(p)
        \/ RetireErasedFails(p) \/ FinishPrune(p) \/ BeginUnlinkAll(p) \/ RetireEmptied(p)
        \/ \E e \in todo :
              \/ Skip(p, e) \/ EraseMissing(p, e) \/ OpenContainer(p, e)
              \/ UnlinkSkips(p, e) \/ UnlinkTakes(p, e)

SpecBuses == InitBuses /\ [][NextBuses]_<<rootVars, busVars>>

-----------------------------------------------------------------------------
(* Properties.                                                              *)

ListedBuses == {e.bus : e \in current.buses}
ListedCtrs == {<<e.bus, e.rotation>> : e \in current.ctrs}

\* A bus whose process is gone is listed as long as it holds records that nobody
\* consumed: the next prune finds it.  Only a process that removed the entry of
\* another bus, of the same rotation, can have broken this.
AbandonedListed ==
    \A n \in DOMAIN busFiles :
        ~Locked(n) /\ busFiles[n].id \in owed \ stolen => n \in ListedBuses

\* The records of a bus are in its file or in a recovery container.
Held(id) ==
    \/ \E n \in DOMAIN busFiles : busFiles[n].id = id
    \/ \E r \in DOMAIN recFiles : id \in recFiles[r]

\* No crash and no failure loses records, but for one: the registry cannot be
\* written after the bus was unlinked and the container is thrown away.
NothingLost ==
    [][\A id \in owed \cap owed' :
          Held(id) => Held(id)' \/ (step = "recovered" /\ step' = "failed")]_<<rootVars, busVars>>

\* However often a recovery was interrupted and repeated, the listed containers
\* hold the records of a bus once, and not while the bus itself is listed.
RecoveredOnce ==
    \A id \in owed :
        /\ Cardinality({r \in ListedCtrs \cap DOMAIN recFiles : id \in recFiles[r]}) <= 1
        /\ \A r \in ListedCtrs \cap DOMAIN recFiles, n \in ListedBuses \cap DOMAIN busFiles :
              id \in recFiles[r] => busFiles[n].id # id

\* Nobody takes away the file of a bus from its living owner.
OwnersKeepFiles ==
    [][\A n \in DOMAIN busFiles, p \in Handles :
          own[p] = n /\ own'[p] = n /\ phase'[p] \in {"new", "open"}
              => n \in DOMAIN busFiles' /\ busFiles'[n] = busFiles[n]]_<<rootVars, busVars>>

PruneEnds == step = "pruning" /\ todo = {}

\* A prune that ends in time recovers every bus that was abandoned before it
\* began, unless recovering it failed or an earlier recovery of this bus, that was
\* interrupted, left its container behind.
PruneServesAll ==
    PruneEnds => \A n \in due : Exists(n) => \E r \in DOMAIN recFiles : r[1] = n

\* file_database.cpp:285, 527: "5 retries hoping that the user chose a file name
\* pattern which disambiguates by timestamp or rotation count".
FiveRetries == [][\A p \in Handles : GiveUp(p) => tries = 5]_<<rootVars, busVars>>
=============================================================================
