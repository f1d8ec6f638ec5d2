-------------------------- MODULE ContainerRegistry --------------------------
(***************************************************************************)
(* Record containers in a file database: how sinks create, size and close  *)
(* them, how other processes prune them, and how everything is unlinked.   *)
(* The root file is taken for a Registry, which RootFile implements; a     *)
(* list is a set of entries here, as every fetch sorts it by rotation and  *)
(* an entry is looked up by sink and rotation.                             *)
(*                                                                         *)
(* A container is a file of its own, named after its sink and rotation and *)
(* locked by its sink as long as that has it open.                         *)
(***************************************************************************)
EXTENDS Naturals, FiniteSets, FiniteSetsExt, Functions

CONSTANTS
    Handles,        \* processes with the database open
    Nobody,         \* a lock is free
    Sinks,          \* sink ids, which processes may share
    OldRotations,   \* rotations of a container from before, of OldSink; 0 for none
    OldSink,
    RetryReach,     \* how far rotations are tried
    MaxFiles,       \* max_files_to_keep
    SizeLimit,      \* global_size_limit
    PageSize,       \* sizes count in whole pages
    FileSizes,      \* sizes that a file grows to
    MaxContainers,  \* bound on the containers created
    MaxFaults       \* bound on the failures and crashes

ASSUME PageAssumption == PageSize \in Nat \ {0}
ASSUME LimitAssumption == MaxFiles \in Nat
ASSUME RotationAssumption == OldRotations \subseteq Nat
ASSUME SizeAssumption == FileSizes \subseteq Nat

\* A list has an entry for each container and none that is marked as erased.
Entry == [sink : Sinks \cup {OldSink}, rotation : Nat, size : Nat]
Lists == SUBSET Entry

ASSUME MarkerAssumption == Nobody \notin Handles

VARIABLES
    current,    \* the list in the root file
    holder,     \* who holds the lock of the root file
    intent,     \* the list it works on
    files,      \* the container files: which container, who locks it, its size
    own,        \* the entry of each process's sink
    phase,      \* what each process is doing with it
    step,       \* where the holder of the registry's lock is
    at,         \* the entry it is about to add
    todo,       \* the entries it has yet to look at
    tally,      \* the files kept so far and their size
    removed,    \* the root file was unlinked
    (* history *)
    created,    \* how many containers there were
    faults,     \* how many failures and crashes
    strays,     \* containers whose file was left without an entry
    kept,       \* containers this prune kept and counted, with their sinks
    pruned,     \* containers this prune removed because of the limits
    late,       \* containers created after unlink_all() gave up the lock
    reused      \* containers with the name of one whose size is yet to be reported

\* That there is no list yet makes no difference to an empty one here.
INSTANCE Registry WITH Data <- Lists, NoEntries <- {}, None <- {}, Tidied <- [l \in Lists |-> l]

rootVars == <<current, holder, intent>>
histVars == <<created, faults, strays, late, reused>>
dirVars == <<files, own, phase, removed, histVars>>
opVars == <<step, at, todo, tally, kept, pruned>>
containerVars == <<rootVars, dirVars, opVars>>

Sets(f, n, v) == [m \in DOMAIN f \cup {n} |-> IF m = n THEN v ELSE f[m]]
Exists(n) == n \in DOMAIN files
Locked(n) == Exists(n) /\ files[n].owner # Nobody
\* File names have the sink and the rotation in them.
NameOf(e) == <<e.sink, e.rotation>>
IdAt(n) == {files[m].id : m \in DOMAIN files \cap {n}}

NoEntry == [sink |-> OldSink, rotation |-> 0, size |-> 0]
NoTally == [files |-> 0, size |-> 0]
Idle(p) == own[p] = NoEntry /\ phase[p] = "none"

\* Where an operation continues, and its end.
Goes(s) == step' = s /\ UNCHANGED <<at, todo, tally, kept, pruned>>
Ended ==
    /\ step' = "none" /\ at' = NoEntry /\ todo' = {} /\ tally' = NoTally
    /\ kept' = {} /\ pruned' = {}

\* The database may have been used before.
InitContainers ==
    /\ holder = Nobody /\ intent = {}
    /\ own = [p \in Handles |-> NoEntry] /\ phase = [p \in Handles |-> "none"]
    /\ step = "none" /\ at = NoEntry /\ todo = {} /\ tally = NoTally
    /\ removed = FALSE /\ created = 0 /\ faults = 0
    /\ strays = {} /\ kept = {} /\ pruned = {} /\ late = {} /\ reused = {}
    /\ \E n \in OldRotations :
          LET old == [sink |-> OldSink, rotation |-> n, size |-> 1]
          IN IF n = 0
             THEN current = {} /\ files = <<>>
             ELSE /\ current = {old}
                  /\ files = [m \in {NameOf(old)} |-> [id |-> 0, owner |-> Nobody, size |-> 1]]

Faulty == faults < MaxFaults /\ faults' = faults + 1

\* A transaction begins; the root file is still there.
Fetch(p) == ~removed /\ Acquire(p)

\* (void)unlink() of the container n: its file may survive, without an entry.
TryUnlink(n) ==
    \/ files' = Restrict(files, DOMAIN files \ {n}) /\ UNCHANGED <<strays, faults>>
    \/ Faulty /\ strays' = strays \cup IdAt(n) /\ UNCHANGED files

-----------------------------------------------------------------------------
(* create_record_container()                                                *)

Rotations(entries) == {e.rotation : e \in entries}

\* The rotation of the first entry with the highest rotation of this sink; if
\* there is none that is the first of all entries.
LastRotation(entries, sink) ==
    LET mine == {e \in entries : e.sink = sink}
    IN IF entries = {} THEN 0
       ELSE IF mine = {} THEN Min(Rotations(entries)) ELSE Max(Rotations(mine))

\* rotation - RetryReach < last, in unsigned arithmetic.
MayRetry(rotation, last) == rotation >= RetryReach /\ rotation - RetryReach < last

BeginCreate(p, s) ==
    /\ phase[p] = "none" /\ created < MaxContainers
    /\ Fetch(p)
    /\ step' = "naming"
    /\ at' = [sink |-> s, rotation |-> LastRotation(intent', s) + 1, size |-> 0]
    /\ UNCHANGED <<dirVars, todo, tally, kept, pruned>>

\* The file is new.  It may be impossible to lock it, and then it is left behind.
NameFree(p) ==
    /\ holder = p /\ step = "naming" /\ ~Exists(NameOf(at))
    /\ created' = created + 1
    /\ \/ /\ files' = Sets(files, NameOf(at), [id |-> created', owner |-> p, size |-> 0])
          /\ Change(p, intent \cup {at}) /\ Goes("named") /\ UNCHANGED <<strays, faults>>
       \/ /\ Faulty
          /\ files' = Sets(files, NameOf(at), [id |-> created', owner |-> Nobody, size |-> 0])
          /\ strays' = strays \cup {created'} /\ Goes("failed") /\ UNCHANGED rootVars
    /\ late' = IF removed \/ \E q \in Handles : phase[q] = "unlinking"
               THEN late \cup {created'} ELSE late
    /\ reused' = IF \E q \in Handles : phase[q] = "closed" /\ NameOf(own[q]) = NameOf(at)
                 THEN reused \cup {created'} ELSE reused
    /\ UNCHANGED <<own, phase, removed>>

NameTaken(p) ==
    /\ holder = p /\ step = "naming" /\ Exists(NameOf(at))
    /\ IF MayRetry(at.rotation, LastRotation(intent, at.sink))
       THEN at' = [at EXCEPT !.rotation = @ + 2] /\ UNCHANGED step
       ELSE step' = "failed" /\ UNCHANGED at
    /\ UNCHANGED <<rootVars, dirVars, todo, tally, kept, pruned>>

CannotCreate(p) ==
    /\ holder = p /\ step = "naming" /\ Goes("failed")
    /\ UNCHANGED <<rootVars, dirVars>>

\* retire_to_storage() reports success, or a failure after which the new list may
\* be in the file or not.
Retire(p) ==
    /\ holder = p
    /\ \/ step = "named" /\ Goes("created")
       \/ step = "sized" /\ Goes("done")
       \/ step \in {"limiting", "filtering"} /\ todo = {} /\ Goes("done")
    /\ Commit(p)
    /\ UNCHANGED dirVars
RetireFails(p) ==
    /\ holder = p
    /\ \/ step = "named" /\ Goes("unregistered")
       \/ step = "sized" /\ Goes("failed")
       \/ step \in {"limiting", "filtering"} /\ todo = {} /\ Goes("failed")
    /\ Commit(p) \/ UNCHANGED rootVars
    /\ Faulty
    /\ UNCHANGED <<files, own, phase, removed, created, strays, late, reused>>

UnlinkNew(p) ==
    /\ holder = p /\ step = "unregistered" /\ Goes("failed")
    /\ \/ files' = Restrict(files, DOMAIN files \ {NameOf(at)}) /\ UNCHANGED <<strays, faults>>
       \/ /\ Faulty
          /\ files' = [files EXCEPT ![NameOf(at)].owner = Nobody]
          /\ strays' = strays \cup IdAt(NameOf(at))
    /\ UNCHANGED <<rootVars, own, phase, removed, created, late, reused>>

FinishCreate(p) ==
    /\ holder = p /\ step = "created"
    /\ Release(p) /\ Ended
    /\ own' = [own EXCEPT ![p] = at] /\ phase' = [phase EXCEPT ![p] = "open"]
    /\ UNCHANGED <<files, removed, histVars>>

-----------------------------------------------------------------------------
(* A process and its container (db_file_sink_backend).                      *)

Write(p) ==
    /\ phase[p] = "open" /\ holder # p
    /\ \E size \in FileSizes :
          /\ size > files[NameOf(own[p])].size
          /\ files' = [files EXCEPT ![NameOf(own[p])].size = size]
    /\ UNCHANGED <<rootVars, own, phase, removed, histVars, opVars>>

\* A finished sink closes its file, which unlocks it, before it reports the size;
\* one that rotates reports the size first.
Close(p) ==
    /\ phase[p] \in {"open", "sized"} /\ holder # p
    /\ files' = [files EXCEPT ![NameOf(own[p])].owner = Nobody]
    /\ IF phase[p] = "open"
       THEN /\ phase' = [phase EXCEPT ![p] = "closed"]
            /\ own' = [own EXCEPT ![p].size = files[NameOf(own[p])].size]
       ELSE phase' = [phase EXCEPT ![p] = "none"] /\ own' = [own EXCEPT ![p] = NoEntry]
    /\ UNCHANGED <<rootVars, removed, histVars, opVars>>

\* update_record_container_size()
BeginUpdate(p) ==
    /\ phase[p] \in {"open", "closed"}
    /\ Fetch(p)
    /\ step' = "sizing"
    /\ at' = IF phase[p] = "closed" THEN own[p]
             ELSE [own[p] EXCEPT !.size = files[NameOf(own[p])].size]
    /\ UNCHANGED <<dirVars, todo, tally, kept, pruned>>

Update(p) ==
    /\ holder = p /\ step = "sizing"
    /\ LET old == {e \in intent : NameOf(e) = NameOf(at)}
       IN IF old = {} THEN Goes("failed") /\ UNCHANGED rootVars
          ELSE Goes("sized") /\ Change(p, (intent \ old) \cup {at})
    /\ UNCHANGED dirVars

\* An operation ends.  The sink does not look at how its update went.
Finish(p) ==
    /\ holder = p /\ step \in {"done", "failed"}
    /\ Release(p) /\ Ended
    /\ IF at = NoEntry THEN UNCHANGED <<own, phase>>
       ELSE IF phase[p] = "open"
       THEN phase' = [phase EXCEPT ![p] = "sized"] /\ UNCHANGED own
       ELSE phase' = [phase EXCEPT ![p] = "none"] /\ own' = [own EXCEPT ![p] = NoEntry]
    /\ UNCHANGED <<files, removed, histVars>>

\* The process dies at any point, or its sink cannot be finalised.
Leave(p) ==
    /\ ~Idle(p) \/ holder = p
    /\ Faulty
    /\ LET left == {n \in DOMAIN files : files[n].owner = p}
       IN /\ files' = [n \in DOMAIN files |->
                          IF n \in left THEN [files[n] EXCEPT !.owner = Nobody] ELSE files[n]]
          /\ strays' = strays \cup
                UNION {IdAt(n) : n \in left \ {NameOf(e) : e \in current}}
    /\ own' = [own EXCEPT ![p] = NoEntry] /\ phase' = [phase EXCEPT ![p] = "none"]
    /\ IF holder = p THEN Release(p) /\ Ended ELSE UNCHANGED <<rootVars, opVars>>
    /\ UNCHANGED <<removed, created, late, reused>>

-----------------------------------------------------------------------------
(* prune_record_containers(), with limits or with a predicate.              *)

BeginPrune(p, how) ==
    /\ Fetch(p)
    /\ step' = how /\ todo' = intent'
    /\ UNCHANGED <<dirVars, at, tally, kept, pruned>>

\* The limits are applied from the highest rotation on, in any order where
\* rotations are equal; a predicate is asked in some order.
Looks_Forward(p, e) ==  \* mutant: from the lowest rotation on
    /\ holder = p /\ e \in todo
    /\ \/ step = "filtering"
       \/ step = "limiting" /\ \A f \in todo : f.rotation >= e.rotation
    /\ todo' = todo \ {e} /\ UNCHANGED <<step, at>>
Looks(p, e) ==
    /\ holder = p /\ e \in todo
    /\ \/ step = "filtering"
       \/ step = "limiting" /\ \A f \in todo : f.rotation <= e.rotation
    /\ todo' = todo \ {e} /\ UNCHANGED <<step, at>>

Exceeded == tally.files > MaxFiles \/ tally.size >= SizeLimit
Counted(e) == [sink |-> e.sink, id |-> files[NameOf(e)].id]
Pages(size) == ((size + PageSize - 1) \div PageSize) * PageSize

\* sanitize_container_byte_size()
Sanitized(e) == IF e.size # 0 THEN e ELSE [e EXCEPT !.size = Max({1, files[NameOf(e)].size})]

PruneMissing(p, e) ==
    /\ Looks(p, e) /\ ~Exists(NameOf(e))
    /\ Change(p, intent \ {e})
    /\ UNCHANGED <<dirVars, tally, kept, pruned>>

\* Its sink has it open, or it cannot be opened.
PruneSkips_Forgets(p, e) ==  \* mutant: what cannot be opened is taken for missing
    /\ Looks(p, e) /\ Exists(NameOf(e))
    /\ IF Locked(NameOf(e)) THEN UNCHANGED rootVars ELSE Change(p, intent \ {e})
    /\ UNCHANGED <<dirVars, tally, kept, pruned>>
PruneSkips(p, e) ==
    /\ Looks(p, e) /\ Exists(NameOf(e))
    /\ UNCHANGED <<rootVars, dirVars, tally, kept, pruned>>

\* The limits are exceeded, or the predicate is true or has closed the file.
PruneTakes_Locked(p, e) ==  \* mutant: the lock is not tried
    /\ Looks(p, e) /\ Exists(NameOf(e))
    /\ step = "limiting" => Exceeded
    /\ TryUnlink(NameOf(e)) /\ Change(p, intent \ {e})
    /\ pruned' = IF step = "limiting" THEN pruned \cup {Counted(e)} ELSE pruned
    /\ UNCHANGED <<own, phase, removed, created, late, reused, tally, kept>>
PruneTakes(p, e) ==
    /\ Looks(p, e) /\ Exists(NameOf(e)) /\ ~Locked(NameOf(e))
    /\ step = "limiting" => Exceeded
    /\ TryUnlink(NameOf(e)) /\ Change(p, intent \ {e})
    /\ pruned' = IF step = "limiting" THEN pruned \cup {Counted(e)} ELSE pruned
    /\ UNCHANGED <<own, phase, removed, created, late, reused, tally, kept>>

PruneKeeps_Locked(p, e) ==  \* mutant: the lock is not tried
    /\ Looks(p, e) /\ Exists(NameOf(e))
    /\ step = "limiting" => ~Exceeded
    /\ Change(p, (intent \ {e}) \cup {Sanitized(e)})
    /\ IF step = "limiting"
       THEN /\ tally' = [files |-> tally.files + 1,
                         size |-> tally.size + Pages(Sanitized(e).size)]
            /\ kept' = kept \cup {Counted(e)}
       ELSE UNCHANGED <<tally, kept>>
    /\ UNCHANGED <<dirVars, pruned>>
PruneKeeps(p, e) ==
    /\ Looks(p, e) /\ Exists(NameOf(e)) /\ ~Locked(NameOf(e))
    /\ step = "limiting" => ~Exceeded
    /\ Change(p, (intent \ {e}) \cup {Sanitized(e)})
    /\ IF step = "limiting"
       THEN /\ tally' = [files |-> tally.files + 1,
                         size |-> tally.size + Pages(Sanitized(e).size)]
            /\ kept' = kept \cup {Counted(e)}
       ELSE UNCHANGED <<tally, kept>>
    /\ UNCHANGED <<dirVars, pruned>>

-----------------------------------------------------------------------------
(* unlink_all_record_containers() and unlink_all().                         *)

\* They write what is left in place, which RootFile looks at; here it is
\* written or not.
BeginUnlinkAll(p, how) ==
    /\ phase[p] = "none"
    /\ Fetch(p)
    /\ step' = how /\ todo' = intent'
    /\ UNCHANGED <<dirVars, at, tally, kept, pruned>>

Empties(p, e) ==
    /\ holder = p /\ step \in {"emptying", "razing"} /\ e \in todo
    /\ todo' = todo \ {e} /\ UNCHANGED <<step, at, tally, kept, pruned>>

UnlinkSkips(p, e) ==
    /\ Empties(p, e) /\ Exists(NameOf(e))
    /\ UNCHANGED <<rootVars, dirVars>>

UnlinkTakes(p, e) ==
    /\ Empties(p, e) /\ ~Locked(NameOf(e))
    /\ files' = Restrict(files, DOMAIN files \ {NameOf(e)})
    /\ Change(p, intent \ {e})
    /\ UNCHANGED <<own, phase, removed, histVars>>

RetireEmptied(p) ==
    /\ holder = p /\ todo = {}
    /\ \/ step = "emptying" /\ Goes("done")
       \/ step = "razing" /\ Goes("razed")
    /\ Commit(p) \/ UNCHANGED rootVars
    /\ UNCHANGED dirVars

\* unlink_all() unlocks the root file and then removes it, if nothing is listed;
\* listed buses may prevent that as well.
Unlock(p) ==
    /\ holder = p /\ step = "razed"
    /\ Release(p) /\ Ended
    /\ \/ intent = {} /\ phase' = [phase EXCEPT ![p] = "unlinking"]
       \/ UNCHANGED phase
    /\ UNCHANGED <<files, own, removed, histVars>>

RemoveRoot(p) ==
    /\ phase[p] = "unlinking" /\ phase' = [phase EXCEPT ![p] = "none"]
    /\ removed' \in {removed, TRUE}
    /\ UNCHANGED <<rootVars, files, own, histVars, opVars>>

NextContainers ==
    \E p \in Handles :
        \/ \E s \in Sinks : BeginCreate(p, s)
        \/ NameFree(p) \/ NameTaken(p) \/ CannotCreate(p) \/ Retire(p) \/ RetireFails(p)
        \/ UnlinkNew(p) \/ FinishCreate(p)
        \/ Write(p) \/ Close(p) \/ BeginUpdate(p) \/ Update(p) \/ Finish(p) \/ Leave(p)
        \/ \E how \in {"limiting", "filtering"} : BeginPrune(p, how)
        \/ \E how \in {"emptying", "razing"} : BeginUnlinkAll(p, how)
        \/ \E e \in todo :
              \/ PruneMissing(p, e) \/ PruneSkips(p, e) \/ PruneTakes(p, e) \/ PruneKeeps(p, e)
              \/ UnlinkSkips(p, e) \/ UnlinkTakes(p, e)
        \/ RetireEmptied(p) \/ Unlock(p) \/ RemoveRoot(p)

SpecContainers == InitContainers /\ [][NextContainers]_containerVars

-----------------------------------------------------------------------------
(* Properties.                                                              *)

Listed(n) == \E e \in current : NameOf(e) = n

\* Whatever other processes create, prune and unlink, the container of a sink
\* stays where it is, under the sink's lock, and listed.
OwnersKeepContainers ==
    \A p \in Handles : phase[p] \in {"open", "sized"} =>
        LET n == NameOf(own[p])
        IN /\ Exists(n) /\ files[n].owner = p
           /\ ~removed => Listed(n)

\* Nobody forgets the container of another: a file is listed until it is unlinked.
\* The exceptions are failures and crashes of the one who creates or removes it, and
\* what is created after unlink_all() gave up the lock.
FilesListed ==
    \A n \in DOMAIN files :
        \/ IdAt(n) \subseteq strays \cup late
        \/ Listed(n) /\ ~removed
        \/ holder # Nobody /\ n = NameOf(at)

\* A prune with limits keeps the newest containers of each sink: rotations follow
\* their age, though they may start again when none is left.  It keeps one file
\* more than max_files_to_keep.
PruneKeepsNewest ==
    step = "limiting" =>
        /\ \A k \in kept, x \in pruned : k.sink = x.sink => k.id > x.id
        /\ Cardinality(kept) <= MaxFiles + 1

\* The size an entry has is that of its file, whoever found it out, and 1 if that
\* is empty.  A finished sink reports
\* its size after it gave up the lock: the container that it means may have been
\* pruned, and another one created that has its rotation.
SizesTrue ==
    \A e \in current :
        Exists(NameOf(e)) /\ ~removed /\ IdAt(NameOf(e)) \cap reused = {}
            => e.size = 0 \/ Max({1, e.size}) = Max({1, files[NameOf(e)].size})
=============================================================================
