-------------------------- MODULE ContainerRegistry_proofs --------------------------
(***************************************************************************)
(* Proofs about the record containers of a file database, for every set of *)
(* processes and sinks, every limit and any number of containers, failures *)
(* and crashes: file_database_handle, core/file_database.cpp.              *)
(***************************************************************************)
EXTENDS ContainerRegistry, FiniteSetTheorems, WellFoundedInduction, TLAPS

Names == (Sinks \cup {OldSink}) \X Nat
File == [id : Nat, owner : Handles \cup {Nobody}, size : Nat]

\* What the lock's holder does.
Creating == {"naming", "named", "unregistered", "created"}
Sizing == {"sizing", "sized"}
Sweeping == {"limiting", "filtering", "emptying", "razing", "razed"}

TypeInv ==
    /\ current \in Lists /\ intent \in Lists /\ holder \in Handles \cup {Nobody}
    /\ DOMAIN files \subseteq Names /\ files \in [DOMAIN files -> File]
    /\ own \in [Handles -> Entry]
    /\ phase \in [Handles -> {"none", "open", "sized", "closed", "unlinking"}]
    /\ step \in {"none", "done", "failed"} \cup Creating \cup Sizing \cup Sweeping
    /\ at \in Entry /\ todo \subseteq Entry /\ tally.files \in Nat
    /\ removed \in BOOLEAN /\ created \in Nat

ListedIn(list, n) == \E e \in list : NameOf(e) = n

\* A list is finite, and no two entries mean the same file.
Bounded(list) == \E b \in Nat : \A e \in list : e.rotation <= b
NamesDiffer(list) == \A e, f \in list : NameOf(e) = NameOf(f) => e = f
\* Rotations follow the age of what is there.
InOrder(list, there) ==
    \A e, f \in list :
        NameOf(e) \in DOMAIN there /\ NameOf(f) \in DOMAIN there /\ e.sink = f.sink
        /\ e.rotation < f.rotation
            => there[NameOf(e)].id < there[NameOf(f)].id

ListInv ==
    /\ Bounded(current) /\ Bounded(intent)
    /\ NamesDiffer(current) /\ NamesDiffer(intent)
    /\ InOrder(current, files) /\ InOrder(intent, files)

\* The state of an operation is that of the holder of the lock.
HolderInv ==
    /\ holder = Nobody <=> step = "none"
    /\ step = "none" => at = NoEntry /\ intent = {}
    /\ step \in Creating => phase[holder] = "none" /\ at.size = 0
    /\ step = "naming" =>
          /\ intent = current
          /\ \A e \in intent : e.sink = at.sink => e.rotation < at.rotation
    /\ step \in Creating \ {"naming"} =>
          /\ Exists(NameOf(at)) /\ files[NameOf(at)].owner = holder
          /\ files[NameOf(at)].size = 0
          /\ at \in intent
    /\ step = "created" => current = intent
    /\ step \in Sizing => /\ phase[holder] \in {"open", "closed"}
                          /\ NameOf(at) = NameOf(own[holder])
    /\ step \in Sweeping => at = NoEntry
    /\ step \in {"done", "failed"} /\ at # NoEntry => phase[holder] \in {"none", "open", "closed"}

\* A sink that has its container open owns the file, which is listed and will be.
Living(p) == phase[p] \in {"open", "sized"}
OwnInv ==
    \A p \in Handles : Living(p) =>
        LET n == NameOf(own[p])
        IN /\ Exists(n) /\ files[n].owner = p
           /\ ListedIn(current, n)
           /\ step # "none" => ListedIn(intent, n)

\* What nobody has to list.
Given(n) == files[n].id \in strays \cup late

\* A file is listed and will be, or it is about to be.
FileInv ==
    \A n \in DOMAIN files : Given(n) \/
        /\ ListedIn(current, n) \/ (step \in {"named", "unregistered"} /\ n = NameOf(at))
        /\ ListedIn(current, n) /\ step # "none" => ListedIn(intent, n)

\* Once unlink_all() gave up the lock nothing has to be listed.
GoneInv ==
    removed \/ (\E p \in Handles : phase[p] = "unlinking") => \A n \in DOMAIN files : Given(n)

AgeInv == \A n \in DOMAIN files : files[n].id <= created

\* An entry has the size of its file, or none yet.
Fresh(n) == Exists(n) /\ files[n].id \notin reused
TrueSize(e) ==
    Fresh(NameOf(e)) => e.size = 0 \/ Max({1, e.size}) = Max({1, files[NameOf(e)].size})
EntrySizes == \A e \in current \cup intent : TrueSize(e)
\* ... none while the sink writes, unless it has begun to report it
Reporting(p) ==
    holder = p /\ step \in {"sizing", "sized", "done", "failed"} /\ at # NoEntry
OpenSizes ==
    \A p \in Handles : phase[p] = "open" /\ Fresh(NameOf(own[p])) /\ ~Reporting(p) =>
        \A e \in current \cup intent : NameOf(e) = NameOf(own[p]) => e.size = 0
\* ... a closed file does not grow
ClosedSizes ==
    \A p \in Handles : phase[p] = "closed" /\ Fresh(NameOf(own[p])) =>
        /\ files[NameOf(own[p])].owner = Nobody
        /\ files[NameOf(own[p])].size = own[p].size
ReportedSize == step = "sizing" /\ Fresh(NameOf(at)) => at.size = files[NameOf(at)].size
SizeInv == EntrySizes /\ OpenSizes /\ ClosedSizes /\ ReportedSize

\* A prune with limits goes from the highest rotation on.
KeptInv ==
    \A k \in kept : \E e \in intent :
        /\ Exists(NameOf(e)) /\ k = Counted(e)
        /\ \A f \in todo : f.rotation <= e.rotation /\ NameOf(f) # NameOf(e)
PruneInv ==
    /\ step \in {"limiting", "filtering", "emptying", "razing"} => todo \subseteq intent
    /\ step = "none" => kept = {} /\ pruned = {} /\ tally = NoTally
    /\ step = "limiting" =>
          /\ KeptInv
          /\ pruned # {} => Exceeded
          /\ \A k \in kept, x \in pruned : k.sink = x.sink => k.id > x.id
          /\ IsFiniteSet(kept) /\ Cardinality(kept) <= tally.files
          /\ tally.files <= MaxFiles + 1

ContainersInv ==
    /\ TypeInv /\ ListInv /\ HolderInv /\ OwnInv /\ FileInv /\ GoneInv /\ AgeInv /\ SizeInv
    /\ PruneInv

-----------------------------------------------------------------------------
(* Helpers of the model.                                                    *)

\* The largest of two numbers of which one is 1.
LEMMA AtLeastOne ==
    ASSUME NEW x \in Nat
    PROVE  Max({1, x}) = IF x > 1 THEN x ELSE 1
  <1>1. \A y \in {1, x} : (IF x > 1 THEN x ELSE 1) >= y
    OBVIOUS
  <1> QED
    BY <1>1 DEF Max

LEMMA HasLeast ==
    ASSUME NEW S \in SUBSET Nat, S # {}
    PROVE  \E least \in S : \A s \in S : least <= s
  <1> DEFINE R == {ss \in Nat \X Nat : ss[1] < ss[2]}
  <1>1. IsWellFoundedOn(R, Nat)
    BY NatLessThanWellFounded DEF OpToRel
  <1> HIDE DEF R
  <1>2. PICK least \in S : \A s \in S : ~(<<s, least>> \in R)
    BY <1>1, WFMin
  <1>3. \A s \in S : ~(s < least)
    BY <1>2 DEF R
  <1> QED
    BY <1>3

\* A set of numbers that has a bound has a largest one.
LEMMA LargestOfBounded ==
    ASSUME NEW S \in SUBSET Nat, S # {}, NEW b \in Nat, \A s \in S : s <= b
    PROVE  Max(S) \in S /\ \A s \in S : s <= Max(S)
  <1> DEFINE Bounds == {n \in Nat : \A s \in S : s <= n}
  <1>1. PICK least \in Bounds : \A n \in Bounds : least <= n
    BY HasLeast
  <1>2. least \in S
    <2> SUFFICES ASSUME least \notin S PROVE FALSE
      OBVIOUS
    <2>1. PICK s0 \in S : TRUE
      OBVIOUS
    <2>2. least - 1 \in Bounds
      BY <2>1
    <2> QED
      BY <1>1, <2>2
  <1>3. \A s \in S : least >= s
    OBVIOUS
  <1> HIDE DEF Bounds
  <1> QED
    BY <1>2, <1>3 DEF Max

LEMMA NewRotationIsNat ==
    ASSUME NEW list \in Lists, Bounded(list), NEW s \in Sinks
    PROVE  /\ LastRotation(list, s) \in Nat
           /\ \A e \in list : e.sink = s => e.rotation <= LastRotation(list, s)
  <1> DEFINE mine == {e \in list : e.sink = s}
  <1>1. PICK b \in Nat : \A e \in list : e.rotation <= b
    BY DEF Bounded
  <1>2. CASE mine # {}
    <2>1. /\ Rotations(mine) \in SUBSET Nat /\ Rotations(mine) # {}
          /\ \A r \in Rotations(mine) : r <= b
      BY <1>1, <1>2 DEF Rotations, Lists, Entry
    <2>2. /\ Max(Rotations(mine)) \in Rotations(mine)
          /\ \A r \in Rotations(mine) : r <= Max(Rotations(mine))
      BY <2>1, LargestOfBounded
    <2>3. LastRotation(list, s) = Max(Rotations(mine))
      BY <1>2 DEF LastRotation
    <2>4. \A e \in mine : e.rotation \in Rotations(mine)
      BY DEF Rotations
    <2> HIDE DEF mine
    <2>5. \A e \in list : e.sink = s => e \in mine
      BY DEF mine
    <2> QED
      BY <2>1, <2>2, <2>3, <2>4, <2>5
  <1>3. CASE mine = {} /\ list # {}
    <2>1. Rotations(list) \in SUBSET Nat /\ Rotations(list) # {}
      BY <1>3 DEF Rotations, Lists, Entry
    <2>2. Min(Rotations(list)) \in Nat
      <3>1. PICK least \in Rotations(list) : \A n \in Rotations(list) : least <= n
        BY <2>1, HasLeast
      <3> QED
        BY <2>1, <3>1 DEF Min
    <2>3. LastRotation(list, s) = Min(Rotations(list))
      BY <1>3 DEF LastRotation
    <2> QED
      BY <1>3, <2>2, <2>3
  <1>4. CASE list = {}
    BY <1>4 DEF LastRotation
  <1> QED
    BY <1>2, <1>3, <1>4

-----------------------------------------------------------------------------
(* Types.                                                                   *)

\* Steps of the root file's lock keep lists what they are.
LEMMA RootTypes ==
    ASSUME current \in Lists, intent \in Lists, holder \in Handles \cup {Nobody}, NEW p \in Handles,
           \/ Acquire(p) \/ Commit(p) \/ Release(p) \/ UNCHANGED rootVars
           \/ \E list \in Lists : Change(p, list)
    PROVE  current' \in Lists /\ intent' \in Lists /\ holder' \in Handles \cup {Nobody}
  BY DEF Acquire, Commit, Release, Change, rootVars, Lists

LEMMA AcquireTakes ==
    ASSUME current \in Lists, NEW p \in Handles, Acquire(p)
    PROVE  intent' = current /\ current' = current /\ holder = Nobody /\ holder' = p
  BY DEF Acquire

LEMMA SanitizedIsEntry ==
    ASSUME TypeInv, NEW e \in Entry, Exists(NameOf(e))
    PROVE  Sanitized(e) \in Entry /\ NameOf(Sanitized(e)) = NameOf(e)
  <1>1. Max({1, files[NameOf(e)].size}) \in Nat
    BY AtLeastOne DEF TypeInv, File, Exists
  <1> QED
    BY <1>1 DEF Sanitized, Entry, NameOf

LEMMA TypeStep ==
    ASSUME TypeInv, ListInv, HolderInv, OwnInv, NextContainers
    PROVE  TypeInv'
  <1> USE DEF TypeInv
  <1> PICK p \in Handles : NextContainers!(p)
    BY DEF NextContainers
  <1>1. ASSUME NEW s \in Sinks, BeginCreate(p, s)
        PROVE  TypeInv'
    <2>1. intent' = current /\ current' = current /\ holder' = p
      BY <1>1, AcquireTakes DEF BeginCreate, Fetch
    <2>2. LastRotation(intent', s) \in Nat
      BY <2>1, NewRotationIsNat DEF ListInv
    <2>3. at' \in Entry
      BY <1>1, <2>2 DEF BeginCreate, Entry
    <2> QED
      BY <1>1, <2>1, <2>3 DEF BeginCreate, dirVars, histVars, Creating
  <1>2. CASE NameFree(p)
    <2>1. NameOf(at) \in Names /\ created + 1 \in Nat
      BY DEF Names, NameOf, Entry
    <2>2. DOMAIN files' \subseteq Names /\ files' \in [DOMAIN files' -> File]
      BY <1>2, <2>1 DEF NameFree, Sets, File
    <2>3. intent' \in Lists /\ current' = current /\ holder' = holder
      BY <1>2 DEF NameFree, Change, rootVars, Lists
    <2> QED
      BY <1>2, <2>2, <2>3 DEF NameFree, Goes, Creating
  <1>3. CASE NameTaken(p)
    <2>1. [at EXCEPT !.rotation = @ + 2] \in Entry
      BY DEF Entry
    <2> QED
      BY <1>3, <2>1 DEF NameTaken, rootVars, dirVars, histVars
  <1>4. CASE CannotCreate(p)
    BY <1>4 DEF CannotCreate, Goes, rootVars, dirVars, histVars
  <1>5. CASE Retire(p)
    BY <1>5 DEF Retire, Commit, Goes, dirVars, histVars, Creating
  <1>6. CASE RetireFails(p)
    BY <1>6 DEF RetireFails, Commit, Goes, rootVars, Creating
  <1>7. CASE UnlinkNew(p)
    <2>1. Exists(NameOf(at))
      BY <1>7 DEF UnlinkNew, HolderInv, Creating
    <2>2. DOMAIN files' \subseteq Names /\ files' \in [DOMAIN files' -> File]
      BY <1>7, <2>1 DEF UnlinkNew, Restrict, File, Exists
    <2> QED
      BY <1>7, <2>2 DEF UnlinkNew, Goes, rootVars
  <1>8. CASE FinishCreate(p)
    BY <1>8 DEF FinishCreate, Release, Ended, NoEntry, NoTally, Entry, Lists, histVars
  <1>9. CASE Write(p)
    <2>1. \A size \in FileSizes : size \in Nat
      BY SizeAssumption
    <2>3. PICK size \in FileSizes : files' = [files EXCEPT ![NameOf(own[p])].size = size]
      BY <1>9 DEF Write
    <2>4. \A file \in File : [file EXCEPT !.size = size] \in File
      BY <2>1 DEF File
    <2>2. DOMAIN files' \subseteq Names /\ files' \in [DOMAIN files' -> File]
      BY <2>3, <2>4
    <2> QED
      BY <1>9, <2>2 DEF Write, rootVars, histVars, opVars
  <1>10. CASE Close(p)
    <2> DEFINE n == NameOf(own[p])
    <2>1. Exists(n)
      BY <1>10 DEF Close, OwnInv, Living
    <2>2. [files[n] EXCEPT !.owner = Nobody] \in File /\ files[n].size \in Nat
      BY <2>1 DEF Exists, File
    <2>3. files' = [files EXCEPT ![n] = [files[n] EXCEPT !.owner = Nobody]]
      BY <1>10 DEF Close
    <2>4. [own[p] EXCEPT !.size = files[n].size] \in Entry /\ NoEntry \in Entry
      BY <2>2 DEF Entry, NoEntry
    <2>5. own' = [own EXCEPT ![p] = [own[p] EXCEPT !.size = files[n].size]]
              \/ own' = [own EXCEPT ![p] = NoEntry]
      BY <1>10 DEF Close
    <2> HIDE DEF n
    <2>6. DOMAIN files' \subseteq Names /\ files' \in [DOMAIN files' -> File]
      BY <2>2, <2>3
    <2>7. own' \in [Handles -> Entry]
      BY <2>4, <2>5
    <2> QED
      BY <1>10, <2>6, <2>7 DEF Close, rootVars, histVars, opVars
  <1>11. CASE BeginUpdate(p)
    <2>1. intent' = current /\ current' = current /\ holder' = p
      BY <1>11, AcquireTakes DEF BeginUpdate, Fetch
    <2>2. at' \in Entry
      <3>1. phase[p] = "open" => Exists(NameOf(own[p]))
        BY DEF OwnInv, Living
      <3> QED
        BY <1>11, <3>1 DEF BeginUpdate, Entry, File, Exists
    <2> QED
      BY <1>11, <2>1, <2>2 DEF BeginUpdate, dirVars, histVars, Sizing
  <1>12. CASE Update(p)
    BY <1>12 DEF Update, Change, Goes, rootVars, dirVars, histVars, Lists, Sizing
  <1>13. CASE Finish(p)
    BY <1>13 DEF Finish, Release, Ended, NoEntry, NoTally, Entry, Lists, histVars
  <1>14. CASE Leave(p)
    <2>1. DOMAIN files' \subseteq Names /\ files' \in [DOMAIN files' -> File]
      BY <1>14 DEF Leave, File
    <2>2. own' \in [Handles -> Entry] /\ phase' \in [Handles -> {"none", "open", "sized", "closed", "unlinking"}]
      BY <1>14 DEF Leave, NoEntry, Entry
    <2> QED
      BY <1>14, <2>1, <2>2 DEF Leave, Release, Ended, NoEntry, NoTally, Entry, Lists, rootVars, opVars
  <1>15. ASSUME NEW how \in {"limiting", "filtering"}, BeginPrune(p, how)
         PROVE  TypeInv'
    <2>1. intent' = current /\ current' = current /\ holder' = p
      BY <1>15, AcquireTakes DEF BeginPrune, Fetch
    <2> QED
      BY <1>15, <2>1 DEF BeginPrune, dirVars, histVars, Sweeping, Lists
  <1>16. ASSUME NEW how \in {"emptying", "razing"}, BeginUnlinkAll(p, how)
         PROVE  TypeInv'
    <2>1. intent' = current /\ current' = current /\ holder' = p
      BY <1>16, AcquireTakes DEF BeginUnlinkAll, Fetch
    <2> QED
      BY <1>16, <2>1 DEF BeginUnlinkAll, dirVars, histVars, Sweeping, Lists
  <1>17. ASSUME NEW e \in todo,
                PruneMissing(p, e) \/ PruneSkips(p, e) \/ UnlinkSkips(p, e)
         PROVE  TypeInv'
    BY <1>17 DEF PruneMissing, PruneSkips, UnlinkSkips, Empties, Looks, Change, rootVars, dirVars,
         histVars, Lists
  <1>18. ASSUME NEW e \in todo, PruneTakes(p, e) \/ UnlinkTakes(p, e)
         PROVE  TypeInv'
    <2>1. DOMAIN files' \subseteq Names /\ files' \in [DOMAIN files' -> File]
      BY <1>18 DEF PruneTakes, UnlinkTakes, TryUnlink, Restrict
    <2> QED
      BY <1>18, <2>1 DEF PruneTakes, UnlinkTakes, Empties, Looks, Change, histVars, Lists
  <1>19. ASSUME NEW e \in todo, PruneKeeps(p, e)
         PROVE  TypeInv'
    <2>1. Sanitized(e) \in Entry
      BY <1>19, SanitizedIsEntry DEF PruneKeeps
    <2>2. intent' \in Lists /\ current' = current /\ holder' = holder
      BY <1>19, <2>1 DEF PruneKeeps, Change, Lists
    <2> QED
      BY <1>19, <2>2 DEF PruneKeeps, Looks, dirVars, histVars
  <1>20. CASE RetireEmptied(p)
    BY <1>20 DEF RetireEmptied, Commit, Goes, rootVars, dirVars, histVars, Sweeping
  <1>21. CASE Unlock(p)
    BY <1>21 DEF Unlock, Release, Ended, NoEntry, NoTally, Entry, Lists, histVars
  <1>22. CASE RemoveRoot(p)
    BY <1>22 DEF RemoveRoot, rootVars, histVars, opVars
  <1> QED
    BY <1>1, <1>2, <1>3, <1>4, <1>5, <1>6, <1>7, <1>8, <1>9, <1>10, <1>11, <1>12, <1>13, <1>14,
       <1>15, <1>16, <1>17, <1>18, <1>19, <1>20, <1>21, <1>22

-----------------------------------------------------------------------------
(* What a step does to files and lists.                                     *)

SameIds(old, new) ==
    /\ DOMAIN new \subseteq DOMAIN old
    /\ \A n \in DOMAIN new : new[n].id = old[n].id

Replaces(list, g) == (list \ {f \in list : NameOf(f) = NameOf(g)}) \cup {g}

\* Unless a container is created, no file appears or becomes another, and the lists change
\* in one of four ways.
Begins == intent' = current /\ current' = current
Commits ==
    /\ intent' = intent
    /\ current' = current \/ (current' = intent /\ holder # Nobody)
Shrinks ==
    /\ intent' \subseteq intent /\ current' = current
    /\ \/ step' = "none"
       \/ \A e \in intent \ intent' :
             /\ ~Locked(NameOf(e))
             /\ NameOf(e) \in DOMAIN files' => files'[NameOf(e)].id \in strays'
Alters ==
    \E g \in Entry : /\ ListedIn(intent, NameOf(g))
                     /\ intent' = Replaces(intent, g) /\ current' = current
                     /\ \/ step = "sizing" /\ step' = "sized" /\ UNCHANGED holder /\ g = at
                        \/ \E f \in intent : /\ g = Sanitized(f)
                                             /\ Exists(NameOf(f)) /\ ~Locked(NameOf(f))

LEMMA Effect ==
    ASSUME TypeInv, ListInv, HolderInv, OwnInv, PruneInv, NextContainers,
           ~ \E p \in Handles : NameFree(p)
    PROVE  /\ SameIds(files, files') /\ (Begins \/ Commits \/ Shrinks \/ Alters)
           /\ step' # "none" => step # "none" \/ Begins
  <1> USE DEF TypeInv, SameIds
  <1> PICK p \in Handles : NextContainers!(p)
    BY DEF NextContainers
  <1>0. step' # "none" => step # "none" \/ Begins
    <2>1. ASSUME \/ \E s \in Sinks : BeginCreate(p, s)
                 \/ BeginUpdate(p)
                 \/ \E how \in {"limiting", "filtering"} : BeginPrune(p, how)
                 \/ \E how \in {"emptying", "razing"} : BeginUnlinkAll(p, how)
          PROVE  Begins
      BY <2>1 DEF BeginCreate, BeginUpdate, BeginPrune, BeginUnlinkAll, Fetch, Acquire, Begins
    <2> QED
      BY <2>1 DEF NameTaken, CannotCreate, Retire, RetireFails, UnlinkNew, FinishCreate,
         Write, Close, Update, Finish, Leave, PruneMissing, PruneSkips, PruneTakes, PruneKeeps, Looks,
         UnlinkSkips, UnlinkTakes, Empties, RetireEmptied, Unlock, RemoveRoot, Ended, opVars
  <1> SUFFICES SameIds(files, files') /\ (Begins \/ Commits \/ Shrinks \/ Alters)
    BY <1>0
  <1>1. ASSUME \/ \E s \in Sinks : BeginCreate(p, s)
               \/ BeginUpdate(p)
               \/ \E how \in {"limiting", "filtering"} : BeginPrune(p, how)
               \/ \E how \in {"emptying", "razing"} : BeginUnlinkAll(p, how)
        PROVE  files' = files /\ Begins
    BY <1>1 DEF BeginCreate, BeginUpdate, BeginPrune, BeginUnlinkAll, Fetch, Acquire, dirVars, Begins
  <1>2. ASSUME NameTaken(p) \/ CannotCreate(p) \/ RemoveRoot(p) \/ Retire(p) \/ RetireFails(p)
               \/ RetireEmptied(p)
        PROVE  files' = files /\ Commits
    BY <1>2, MarkerAssumption DEF NameTaken, CannotCreate, RemoveRoot, Retire, RetireFails,
         RetireEmptied, Commit, rootVars, dirVars, Commits
  <1>3. CASE Write(p)
    BY <1>3 DEF Write, File, rootVars, Commits
  <1>4. CASE Close(p)
    BY <1>4 DEF Close, File, rootVars, Commits
  <1>5. CASE UnlinkNew(p)
    BY <1>5 DEF UnlinkNew, File, Restrict, rootVars, Commits
  <1>6. ASSUME FinishCreate(p) \/ Finish(p) \/ Unlock(p)
        PROVE  files' = files /\ Shrinks
    BY <1>6 DEF FinishCreate, Finish, Unlock, Release, Ended, Shrinks
  <1>7. CASE Leave(p)
    <2>1. Shrinks
      BY <1>7 DEF Leave, Release, Ended, Shrinks, rootVars
    <2>2. SameIds(files, files')
      BY <1>7 DEF Leave, File
    <2> QED
      BY <2>1, <2>2
  <1>8. ASSUME NEW e \in todo, PruneSkips(p, e) \/ UnlinkSkips(p, e) \/ PruneMissing(p, e)
        PROVE  files' = files /\ Shrinks
    BY <1>8 DEF PruneSkips, UnlinkSkips, PruneMissing, Change, rootVars, dirVars, Shrinks, Locked,
         Exists
  <1>9. ASSUME NEW e \in todo, PruneTakes(p, e) \/ UnlinkTakes(p, e)
        PROVE  SameIds(files, files') /\ Shrinks
    <2>1. SameIds(files, files') /\ current' = current /\ intent' = intent \ {e}
      BY <1>9 DEF PruneTakes, UnlinkTakes, TryUnlink, Restrict, Change
    <2>2. ~Locked(NameOf(e)) /\ (NameOf(e) \in DOMAIN files' => files'[NameOf(e)].id \in strays')
      BY <1>9 DEF PruneTakes, UnlinkTakes, TryUnlink, Restrict, IdAt
    <2> QED
      BY <2>1, <2>2 DEF Shrinks
  <1>10. CASE Update(p)
    <2>1. files' = files
      BY <1>10 DEF Update, dirVars
    <2>2. \/ Commits
          \/ /\ ListedIn(intent, NameOf(at)) /\ intent' = Replaces(intent, at) /\ current' = current
             /\ step = "sizing" /\ step' = "sized" /\ UNCHANGED holder
      BY <1>10 DEF Update, Change, Goes, rootVars, Commits, Replaces, ListedIn
    <2> QED
      BY <2>1, <2>2 DEF Alters
  <1>11. ASSUME NEW e \in todo, PruneKeeps(p, e)
         PROVE  files' = files /\ Alters
    <2>1. e \in intent
      BY <1>11 DEF PruneKeeps, Looks, PruneInv
    <2>2. Sanitized(e) \in Entry /\ NameOf(Sanitized(e)) = NameOf(e)
      BY <1>11, SanitizedIsEntry DEF PruneKeeps
    <2>3. intent' = (intent \ {e}) \cup {Sanitized(e)} /\ current' = current /\ files' = files
      BY <1>11 DEF PruneKeeps, Change, dirVars
    <2>4. {f \in intent : NameOf(f) = NameOf(e)} = {e}
      BY <2>1 DEF ListInv, NamesDiffer
    <2>5. Exists(NameOf(e)) /\ ~Locked(NameOf(e))
      BY <1>11 DEF PruneKeeps
    <2> QED
      BY <2>1, <2>2, <2>3, <2>4, <2>5 DEF Alters, Replaces, ListedIn
  <1> QED
    BY <1>1, <1>2, <1>3, <1>4, <1>5, <1>6, <1>7, <1>8, <1>9, <1>10, <1>11

-----------------------------------------------------------------------------
(* Lists.                                                                   *)

LEMMA PartOfList ==
    ASSUME NEW list, NEW part \in SUBSET list, NEW old, NEW new, SameIds(old, new)
    PROVE  /\ Bounded(list) => Bounded(part)
           /\ NamesDiffer(list) => NamesDiffer(part)
           /\ InOrder(list, old) => InOrder(part, new)
  BY DEF Bounded, NamesDiffer, InOrder, SameIds

LEMMA ReplacedInList ==
    ASSUME NEW list \in Lists, NEW g \in Entry, ListedIn(list, NameOf(g)),
           NEW old, NEW new, SameIds(old, new)
    PROVE  /\ Bounded(list) => Bounded(Replaces(list, g))
           /\ NamesDiffer(list) => NamesDiffer(Replaces(list, g))
           /\ InOrder(list, old) => InOrder(Replaces(list, g), new)
  <1>1. \A e \in Replaces(list, g) : \E f \in list :
            NameOf(f) = NameOf(e) /\ f.sink = e.sink /\ f.rotation = e.rotation
    BY DEF Replaces, ListedIn, NameOf
  <1>2. Bounded(list) => Bounded(Replaces(list, g))
    BY <1>1 DEF Bounded
  <1>3. NamesDiffer(list) => NamesDiffer(Replaces(list, g))
    BY DEF NamesDiffer, Replaces
  <1>4. ASSUME InOrder(list, old) PROVE InOrder(Replaces(list, g), new)
    <2> SUFFICES ASSUME NEW e \in Replaces(list, g), NEW f \in Replaces(list, g),
                        NameOf(e) \in DOMAIN new, NameOf(f) \in DOMAIN new,
                        e.sink = f.sink, e.rotation < f.rotation
                 PROVE  new[NameOf(e)].id < new[NameOf(f)].id
      BY DEF InOrder
    <2>1. PICK e1 \in list : NameOf(e1) = NameOf(e) /\ e1.sink = e.sink /\ e1.rotation = e.rotation
      BY <1>1
    <2>2. PICK f1 \in list : NameOf(f1) = NameOf(f) /\ f1.sink = f.sink /\ f1.rotation = f.rotation
      BY <1>1
    <2>3. old[NameOf(e1)].id < old[NameOf(f1)].id
      BY <1>4, <2>1, <2>2 DEF InOrder, SameIds
    <2> QED
      BY <2>1, <2>2, <2>3 DEF SameIds
  <1> QED
    BY <1>2, <1>3, <1>4

\* A new container gets a name that no entry has, beyond those of its sink.
LEMMA NewIsNotListed ==
    ASSUME TypeInv, HolderInv, step = "naming"
    PROVE  ~ListedIn(current, NameOf(at)) /\ ~ListedIn(intent, NameOf(at))
  BY DEF HolderInv, ListedIn, NameOf, TypeInv, Lists, Entry

LEMMA ListStep ==
    ASSUME TypeInv, ListInv, HolderInv, OwnInv, PruneInv, AgeInv, NextContainers
    PROVE  ListInv'
  <1>1. ASSUME ~ \E p \in Handles : NameFree(p) PROVE ListInv'
    <2>1. SameIds(files, files') /\ (Begins \/ Commits \/ Shrinks \/ Alters)
      BY <1>1, Effect
    <2>2. CASE Begins
      BY <2>1, <2>2, PartOfList DEF Begins, ListInv
    <2>3. CASE Commits
      BY <2>1, <2>3, PartOfList DEF Commits, ListInv
    <2>4. CASE Shrinks
      BY <2>1, <2>4, PartOfList DEF Shrinks, ListInv
    <2>5. CASE Alters
      BY <2>1, <2>5, PartOfList, ReplacedInList DEF Alters, ListInv, TypeInv
    <2> QED
      BY <2>1, <2>2, <2>3, <2>4, <2>5
  <1>2. ASSUME NEW p \in Handles, NameFree(p) PROVE ListInv'
    <2>1. /\ step = "naming" /\ current' = current /\ intent' \in {intent, intent \cup {at}}
          /\ NameOf(at) \notin DOMAIN files /\ DOMAIN files' = DOMAIN files \cup {NameOf(at)}
          /\ files'[NameOf(at)].id = created + 1
          /\ \A n \in DOMAIN files : files'[n] = files[n]
      BY <1>2 DEF NameFree, Change, rootVars, Sets, Exists
    <2>2. /\ \A e \in current : NameOf(e) # NameOf(at)
          /\ \A e \in intent : /\ NameOf(e) # NameOf(at)
                               /\ e.sink = at.sink => e.rotation < at.rotation
      BY <2>1, NewIsNotListed DEF ListedIn, HolderInv
    <2>3. InOrder(current, files')
      BY <2>1, <2>2 DEF InOrder, ListInv
    <2>4. InOrder(intent, files')
      BY <2>1, <2>2 DEF InOrder, ListInv
    <2>5. InOrder(intent \cup {at}, files')
      <3> SUFFICES ASSUME NEW e \in intent \cup {at}, NEW f \in intent \cup {at},
                          NameOf(e) \in DOMAIN files', NameOf(f) \in DOMAIN files',
                          e.sink = f.sink, e.rotation < f.rotation
                   PROVE  files'[NameOf(e)].id < files'[NameOf(f)].id
        BY DEF InOrder
      <3>1. e \in intent
        <4>1. at.rotation \in Nat /\ \A l \in intent : l.rotation \in Nat
          BY DEF TypeInv, Lists, Entry
        <4> QED
          BY <2>2, <4>1
      <3>2. CASE f \in intent
        BY <2>1, <2>2, <3>1, <3>2 DEF InOrder, ListInv
      <3>3. CASE f = at
        BY <2>1, <2>2, <3>1, <3>3 DEF AgeInv, TypeInv, File
      <3> QED
        BY <3>2, <3>3
    <2>6. Bounded(intent \cup {at}) /\ NamesDiffer(intent \cup {at})
      <3>1. PICK b \in Nat : \A e \in intent : e.rotation <= b
        BY DEF ListInv, Bounded
      <3>2. \A e \in intent \cup {at} : e.rotation <= b + at.rotation
        BY <3>1 DEF TypeInv, Lists, Entry
      <3>3. b + at.rotation \in Nat
        BY DEF TypeInv, Entry
      <3>4. Bounded(intent \cup {at})
        BY <3>2, <3>3 DEF Bounded
      <3>5. NamesDiffer(intent \cup {at})
        BY <2>2 DEF NamesDiffer, ListInv
      <3> QED
        BY <3>4, <3>5
    <2> QED
      BY <2>1, <2>3, <2>4, <2>5, <2>6 DEF ListInv
  <1> QED
    BY <1>1, <1>2

-----------------------------------------------------------------------------
(* Files.                                                                   *)

LEMMA HistoryGrows ==
    ASSUME NextContainers
    PROVE  /\ strays \subseteq strays' /\ late \subseteq late' /\ reused \subseteq reused'
           /\ created' = created \/ \E p \in Handles : NameFree(p)
  <1> USE DEF dirVars, histVars
  <1> PICK p \in Handles : NextContainers!(p)
    BY DEF NextContainers
  <1>1. ASSUME \/ \E s \in Sinks : BeginCreate(p, s)
               \/ BeginUpdate(p)
               \/ \E how \in {"limiting", "filtering"} : BeginPrune(p, how)
               \/ \E how \in {"emptying", "razing"} : BeginUnlinkAll(p, how)
        PROVE  UNCHANGED histVars
    BY <1>1 DEF BeginCreate, BeginUpdate, BeginPrune, BeginUnlinkAll
  <1>2. ASSUME NameTaken(p) \/ CannotCreate(p) \/ Retire(p) \/ FinishCreate(p) \/ Write(p)
               \/ Close(p) \/ Update(p) \/ Finish(p) \/ RetireEmptied(p) \/ Unlock(p) \/ RemoveRoot(p)
        PROVE  UNCHANGED histVars
    BY <1>2 DEF NameTaken, CannotCreate, Retire, FinishCreate, Write, Close, Update, Finish,
         RetireEmptied, Unlock, RemoveRoot
  <1>3. ASSUME NEW e \in todo,
               PruneMissing(p, e) \/ PruneSkips(p, e) \/ PruneKeeps(p, e) \/ UnlinkSkips(p, e)
               \/ UnlinkTakes(p, e)
        PROVE  UNCHANGED histVars
    BY <1>3 DEF PruneMissing, PruneSkips, PruneKeeps, UnlinkSkips, UnlinkTakes
  <1>4. ASSUME RetireFails(p) \/ UnlinkNew(p) \/ Leave(p) \/ \E e \in todo : PruneTakes(p, e)
        PROVE  /\ strays \subseteq strays' /\ late' = late /\ reused' = reused /\ created' = created
    BY <1>4 DEF RetireFails, UnlinkNew, Leave, PruneTakes, TryUnlink
  <1>5. ASSUME NameFree(p)
        PROVE  strays \subseteq strays' /\ late \subseteq late' /\ reused \subseteq reused'
    BY <1>5 DEF NameFree
  <1> QED
    BY <1>1, <1>2, <1>3, <1>4, <1>5

LEMMA AgeStep ==
    ASSUME TypeInv, ListInv, HolderInv, OwnInv, PruneInv, AgeInv, NextContainers
    PROVE  AgeInv'
  <1>1. CASE ~ \E p \in Handles : NameFree(p)
    BY <1>1, Effect, HistoryGrows DEF AgeInv, SameIds
  <1>2. ASSUME NEW p \in Handles, NameFree(p) PROVE AgeInv'
    BY <1>2 DEF NameFree, Sets, AgeInv, TypeInv, File
  <1> QED
    BY <1>1, <1>2

LEMMA HolderStep ==
    ASSUME TypeInv, ListInv, HolderInv, OwnInv, PruneInv, NextContainers
    PROVE  HolderInv'
  <1> USE DEF TypeInv, HolderInv, Creating, Sizing, Sweeping
  <1> PICK p \in Handles : NextContainers!(p)
    BY DEF NextContainers
  <1>1. ASSUME NEW s \in Sinks, BeginCreate(p, s)
        PROVE  HolderInv'
    BY <1>1, NewRotationIsNat, AcquireTakes, MarkerAssumption
       DEF BeginCreate, Fetch, dirVars, ListInv, NoEntry, Lists, Entry
  <1>2. CASE NameFree(p)
    BY <1>2 DEF NameFree, Change, rootVars, Sets, Exists, Goes, ListedIn
  <1>3. CASE NameTaken(p)
    <2>1. intent \subseteq Entry /\ at \in Entry /\ [at EXCEPT !.rotation = @ + 2] \in Entry
      BY DEF Lists, Entry
    <2>2. ASSUME at' = [at EXCEPT !.rotation = @ + 2], step' = step
          PROVE  HolderInv'
      <3>1. at'.sink = at.sink /\ at'.size = at.size /\ at'.rotation = at.rotation + 2
        BY <2>1, <2>2 DEF Entry
      <3>2. \A e \in intent : e.sink = at'.sink => e.rotation < at'.rotation
        BY <1>3, <2>1, <3>1 DEF NameTaken, Entry
      <3> QED
        BY <1>3, <2>2, <3>1, <3>2 DEF NameTaken, rootVars, dirVars
    <2>3. ASSUME at' = at, step' = "failed"
          PROVE  HolderInv'
      BY <1>3, <2>3 DEF NameTaken, rootVars, dirVars
    <2> QED
      BY <1>3, <2>2, <2>3 DEF NameTaken
  <1>4. CASE CannotCreate(p)
    BY <1>4 DEF CannotCreate, Goes, rootVars, dirVars
  <1>5. CASE Retire(p)
    <2>1. /\ intent' = intent /\ holder' = holder /\ at' = at
          /\ UNCHANGED <<files, own, phase>> /\ current' = intent
      BY <1>5 DEF Retire, Commit, Goes, dirVars
    <2>2. \/ step = "named" /\ step' = "created"
          \/ step \in {"sized", "limiting", "filtering"} /\ step' = "done"
      BY <1>5 DEF Retire, Goes
    <2> QED
      BY <2>1, <2>2 DEF Exists, ListedIn
  <1>6. CASE RetireFails(p)
    <2>1. /\ intent' = intent /\ holder' = holder /\ at' = at
          /\ UNCHANGED <<files, own, phase>>
      BY <1>6 DEF RetireFails, Commit, Goes, rootVars
    <2>2. \/ step = "named" /\ step' = "unregistered"
          \/ step \in {"sized", "limiting", "filtering"} /\ step' = "failed"
      BY <1>6 DEF RetireFails, Goes
    <2> QED
      BY <2>1, <2>2 DEF Exists, ListedIn
  <1>7. CASE UnlinkNew(p)
    BY <1>7 DEF UnlinkNew, Goes, rootVars
  <1>8. CASE FinishCreate(p)
    BY <1>8, MarkerAssumption DEF FinishCreate, Release, Ended
  <1>9. CASE Write(p)
    <2>1. UNCHANGED <<current, holder, intent, at, step, own, phase>> /\ DOMAIN files' = DOMAIN files
      BY <1>9 DEF Write, rootVars, opVars
    <2>2. step \in Creating \ {"naming"} => files'[NameOf(at)] = files[NameOf(at)]
      BY <1>9 DEF Write, OwnInv, Living
    <2> QED
      BY <2>1, <2>2 DEF Exists, ListedIn
  <1>10. CASE Close(p)
    <2>1. UNCHANGED <<current, holder, intent, at, step>> /\ DOMAIN files' = DOMAIN files
      BY <1>10 DEF Close, rootVars, opVars
    <2>2. step \in Creating \ {"naming"} => files'[NameOf(at)] = files[NameOf(at)]
      BY <1>10 DEF Close, OwnInv, Living
    <2>3. holder # p /\ \A q \in Handles \ {p} : own'[q] = own[q] /\ phase'[q] = phase[q]
      BY <1>10 DEF Close
    <2>4. step # "none" => holder \in Handles \ {p}
      BY <2>3
    <2> QED
      BY <2>1, <2>2, <2>3, <2>4 DEF Exists, ListedIn
  <1>11. CASE BeginUpdate(p)
    <2>1. /\ holder' = p /\ step' = "sizing" /\ phase' = phase /\ own' = own
          /\ phase[p] \in {"open", "closed"}
      BY <1>11 DEF BeginUpdate, Fetch, Acquire, dirVars
    <2>2. NameOf(at') = NameOf(own[p])
      BY <1>11 DEF BeginUpdate, NameOf, Entry
    <2> QED
      BY <2>1, <2>2, MarkerAssumption
  <1>12. CASE Update(p)
    BY <1>12 DEF Update, Change, Goes, rootVars, dirVars
  <1>13. CASE Finish(p)
    BY <1>13 DEF Finish, Release, Ended
  <1>14. CASE Leave(p)
    <2>1. CASE holder = p
      BY <1>14, <2>1 DEF Leave, Release, Ended
    <2>2. CASE holder # p
      <3>1. UNCHANGED <<current, holder, intent, at, step>> /\ DOMAIN files' = DOMAIN files
        BY <1>14, <2>2 DEF Leave, rootVars, opVars
      <3>2. step \in Creating \ {"naming"} => files'[NameOf(at)] = files[NameOf(at)]
        BY <1>14, <2>2 DEF Leave, Exists
      <3>3. \A q \in Handles \ {p} : own'[q] = own[q] /\ phase'[q] = phase[q]
        BY <1>14 DEF Leave
      <3>4. step # "none" => holder \in Handles \ {p}
        BY <2>2
      <3> QED
        BY <3>1, <3>2, <3>3, <3>4 DEF Exists, ListedIn
    <2> QED
      BY <2>1, <2>2
  <1>15. ASSUME NEW how \in {"limiting", "filtering"}, BeginPrune(p, how)
         PROVE  HolderInv'
    BY <1>15, MarkerAssumption DEF BeginPrune, Fetch, Acquire, dirVars
  <1>16. ASSUME NEW how \in {"emptying", "razing"}, BeginUnlinkAll(p, how)
         PROVE  HolderInv'
    BY <1>16, MarkerAssumption DEF BeginUnlinkAll, Fetch, Acquire, dirVars
  <1>17. ASSUME NEW e \in todo,
                PruneMissing(p, e) \/ PruneSkips(p, e) \/ UnlinkSkips(p, e)
                \/ PruneTakes(p, e) \/ UnlinkTakes(p, e) \/ PruneKeeps(p, e)
         PROVE  HolderInv'
    BY <1>17 DEF PruneMissing, PruneSkips, UnlinkSkips, PruneTakes, UnlinkTakes, PruneKeeps,
         Empties, Looks, Change, rootVars, dirVars
  <1>20. CASE RetireEmptied(p)
    BY <1>20 DEF RetireEmptied, Commit, Goes, rootVars, dirVars
  <1>21. CASE Unlock(p)
    BY <1>21 DEF Unlock, Release, Ended
  <1>22. CASE RemoveRoot(p)
    <2>1. UNCHANGED <<current, holder, intent, at, step, own, files>>
      BY <1>22 DEF RemoveRoot, rootVars, opVars
    <2>2. phase[p] = "unlinking" /\ phase' = [phase EXCEPT ![p] = "none"]
      BY <1>22 DEF RemoveRoot
    <2>3. step # "none" => holder \in Handles
      OBVIOUS
    <2> QED
      BY <2>1, <2>2, <2>3 DEF Exists, ListedIn
  <1> QED
    BY <1>1, <1>2, <1>3, <1>4, <1>5, <1>6, <1>7, <1>8, <1>9, <1>10, <1>11, <1>12, <1>13, <1>14,
       <1>15, <1>16, <1>17, <1>20, <1>21, <1>22

-----------------------------------------------------------------------------
(* Sinks that have their containers open.                                   *)

\* Nobody takes the file of a sink, and none gets to it but by creating it.
LEMMA LivingStays ==
    ASSUME TypeInv, HolderInv, OwnInv, NextContainers, NEW q \in Handles, Living(q)', ~FinishCreate(q)
    PROVE  LET n == NameOf(own'[q])
           IN Living(q) /\ n = NameOf(own[q]) /\ n \in DOMAIN files' /\ files'[n].owner = q
  <1> DEFINE n == NameOf(own[q])
  <1> USE DEF TypeInv, Living
  <1>1. Living(q) => n \in DOMAIN files /\ files[n].owner = q
    BY DEF OwnInv, Exists
  <1> SUFFICES /\ Living(q) /\ NameOf(own'[q]) = n
               /\ n \in DOMAIN files' /\ files'[n].owner = q
    OBVIOUS
  <1> PICK p \in Handles : NextContainers!(p)
    BY DEF NextContainers
  <1>2. ASSUME \/ \E s \in Sinks : BeginCreate(p, s)
               \/ BeginUpdate(p)
               \/ \E how \in {"limiting", "filtering"} : BeginPrune(p, how)
               \/ \E how \in {"emptying", "razing"} : BeginUnlinkAll(p, how)
        PROVE  UNCHANGED <<files, own, phase>>
    BY <1>2 DEF BeginCreate, BeginUpdate, BeginPrune, BeginUnlinkAll, dirVars
  <1>3. ASSUME NameTaken(p) \/ CannotCreate(p) \/ Retire(p) \/ RetireFails(p) \/ Update(p)
               \/ RetireEmptied(p)
        PROVE  UNCHANGED <<files, own, phase>>
    BY <1>3 DEF NameTaken, CannotCreate, Retire, RetireFails, Update, RetireEmptied, dirVars
  <1>4. ASSUME NEW e \in todo,
               PruneMissing(p, e) \/ PruneSkips(p, e) \/ PruneKeeps(p, e) \/ UnlinkSkips(p, e)
        PROVE  UNCHANGED <<files, own, phase>>
    BY <1>4 DEF PruneMissing, PruneSkips, PruneKeeps, UnlinkSkips, dirVars
  <1>5. CASE UNCHANGED <<files, own, phase>>
    BY <1>1, <1>5
  <1>6. CASE Unlock(p) \/ RemoveRoot(p)
    BY <1>1, <1>6 DEF Unlock, RemoveRoot
  <1>7. CASE NameFree(p)
    BY <1>1, <1>7 DEF NameFree, Sets, Exists
  <1>8. CASE UnlinkNew(p)
    <2>1. own' = own /\ phase' = phase
      BY <1>8 DEF UnlinkNew
    <2>2. n # NameOf(at)
      BY <1>1, <1>8, <2>1 DEF UnlinkNew, HolderInv, Creating
    <2> QED
      BY <1>1, <1>8, <2>1, <2>2 DEF UnlinkNew, Restrict
  <1>9. CASE FinishCreate(p)
    <2>1. p # q
      BY <1>9
    <2> QED
      BY <1>1, <1>9, <2>1 DEF FinishCreate
  <1>10. CASE Write(p)
    <2>1. own' = own /\ phase' = phase /\ DOMAIN files' = DOMAIN files
      BY <1>10 DEF Write
    <2>2. \A m \in DOMAIN files : files'[m].owner = files[m].owner
      BY <1>10 DEF Write, File
    <2> QED
      BY <1>1, <2>1, <2>2
  <1>11. CASE Close(p)
    <2>1. p # q /\ own'[q] = own[q] /\ phase'[q] = phase[q] /\ DOMAIN files' = DOMAIN files
      BY <1>11 DEF Close
    <2>2. Living(q) => files'[n] = files[n]
      BY <1>1, <1>11, <2>1 DEF Close, OwnInv
    <2> QED
      BY <1>1, <2>1, <2>2
  <1>12. CASE Finish(p)
    BY <1>1, <1>12 DEF Finish
  <1>13. CASE Leave(p)
    <2>1. p # q /\ own'[q] = own[q] /\ phase'[q] = phase[q] /\ DOMAIN files' = DOMAIN files
      BY <1>13 DEF Leave
    <2>2. Living(q) => files'[n] = files[n]
      BY <1>1, <1>13, <2>1 DEF Leave
    <2> QED
      BY <1>1, <2>1, <2>2
  <1>14. ASSUME NEW e \in todo, PruneTakes(p, e) \/ UnlinkTakes(p, e)
         PROVE  /\ Living(q) /\ NameOf(own'[q]) = n
                /\ n \in DOMAIN files' /\ files'[n].owner = q
    <2>1. own' = own /\ phase' = phase /\ ~Locked(NameOf(e))
      BY <1>14 DEF PruneTakes, UnlinkTakes
    <2>2. n # NameOf(e)
      BY <1>1, <2>1, MarkerAssumption DEF Locked, Exists
    <2> QED
      BY <1>1, <1>14, <2>1, <2>2 DEF PruneTakes, UnlinkTakes, TryUnlink, Restrict
  <1> QED
    BY <1>2, <1>3, <1>4, <1>5, <1>6, <1>7, <1>8, <1>9, <1>10, <1>11, <1>12, <1>13, <1>14

\* An entry vanishes with its file, unless that stays behind for good.
LEMMA StillListed ==
    ASSUME TypeInv, ListInv, HolderInv, OwnInv, PruneInv, NextContainers,
           ~ \E p \in Handles : NameFree(p),
           NEW n, ListedIn(current, n), step # "none" => ListedIn(intent, n)
    PROVE  \/ ListedIn(current', n) /\ (step' # "none" => ListedIn(intent', n))
           \/ ~Locked(n) /\ (n \in DOMAIN files' => files'[n].id \in strays')
  <1>1. Begins \/ Commits \/ Shrinks \/ Alters
    BY Effect
  <1>2. step' # "none" => step # "none" \/ Begins
    BY Effect
  <1>3. CASE Begins
    BY <1>3 DEF Begins
  <1>4. CASE Commits
    BY <1>2, <1>4 DEF Commits, Begins, HolderInv
  <1>5. CASE Shrinks
    BY <1>2, <1>5 DEF Shrinks, Begins, ListedIn
  <1>6. CASE Alters
    <2>1. \A m : ListedIn(intent, m) => ListedIn(intent', m)
      BY <1>6 DEF Alters, Replaces, ListedIn
    <2> QED
      BY <1>2, <1>6, <2>1 DEF Alters, Begins
  <1> QED
    BY <1>1, <1>3, <1>4, <1>5, <1>6

LEMMA OwnStep ==
    ASSUME TypeInv, ListInv, HolderInv, OwnInv, PruneInv, NextContainers
    PROVE  OwnInv'
  <1> SUFFICES ASSUME NEW q \in Handles, Living(q)'
               PROVE  LET n == NameOf(own'[q])
                      IN /\ n \in DOMAIN files' /\ files'[n].owner = q
                         /\ ListedIn(current', n)
                         /\ step' # "none" => ListedIn(intent', n)
    BY DEF OwnInv, Exists, ListedIn, NameOf
  <1>1. CASE FinishCreate(q)
    BY <1>1 DEF FinishCreate, Release, Ended, HolderInv, Creating, Exists, TypeInv,
       ListedIn
  <1>2. CASE ~FinishCreate(q)
    <2> DEFINE n == NameOf(own[q])
    <2>1. /\ Living(q) /\ NameOf(own'[q]) = n
          /\ n \in DOMAIN files' /\ files'[n].owner = q
      BY <1>2, LivingStays
    <2>2. /\ Locked(n) /\ ListedIn(current, n)
          /\ step # "none" => ListedIn(intent, n)
      BY <2>1, MarkerAssumption DEF OwnInv, Locked
    <2> HIDE DEF n
    <2>3. CASE \E p \in Handles : NameFree(p)
      BY <2>1, <2>2, <2>3 DEF NameFree, Change, rootVars, ListedIn
    <2>4. CASE ~ \E p \in Handles : NameFree(p)
      BY <2>1, <2>2, <2>4, StillListed
    <2> QED
      BY <2>1, <2>3, <2>4
  <1> QED
    BY <1>1, <1>2

-----------------------------------------------------------------------------
(* Files and their entries.                                                 *)

LEMMA GivenStays ==
    ASSUME TypeInv, ListInv, HolderInv, OwnInv, PruneInv, AgeInv, NextContainers,
           NEW n \in DOMAIN files \cap DOMAIN files', Given(n)
    PROVE  files'[n].id \in strays' \cup late'
  <1>1. files'[n].id = files[n].id
    <2>1. CASE \E p \in Handles : NameFree(p)
      BY <2>1 DEF NameFree, Sets, Exists
    <2>2. CASE ~ \E p \in Handles : NameFree(p)
      BY <2>2, Effect DEF SameIds
    <2> QED
      BY <2>1, <2>2
  <1> QED
    BY <1>1, HistoryGrows DEF Given

\* Only who holds the lock of the root file has a container that is not listed yet.
LEMMA UnlistedStep ==
    ASSUME TypeInv, HolderInv, OwnInv, NextContainers, ~ \E p \in Handles : NameFree(p),
           step \in {"named", "unregistered"}, ~ListedIn(current, NameOf(at)),
           NameOf(at) \in DOMAIN files'
    PROVE  \/ ListedIn(current', NameOf(at)) /\ ListedIn(intent', NameOf(at))
           \/ /\ step' \in {"named", "unregistered"} /\ at' = at
              /\ ~ListedIn(current', NameOf(at))
           \/ files'[NameOf(at)].id \in strays'
  <1> DEFINE n == NameOf(at)
  <1>1. holder \in Handles /\ n \in DOMAIN files /\ files[n].owner = holder /\ ListedIn(intent, n)
    BY DEF TypeInv, HolderInv, Creating, Exists, ListedIn
  <1> PICK p \in Handles : NextContainers!(p)
    BY DEF NextContainers
  <1>2. CASE holder # p
    <2>1. \/ Write(p) \/ Close(p) \/ Leave(p) \/ RemoveRoot(p)
      BY <1>1, <1>2, MarkerAssumption
         DEF BeginCreate, NameTaken, CannotCreate, Retire, RetireFails, UnlinkNew, FinishCreate,
             BeginUpdate, Update, Finish, BeginPrune, BeginUnlinkAll, PruneMissing, PruneSkips,
             PruneTakes, PruneKeeps, Looks, UnlinkSkips, UnlinkTakes, Empties, RetireEmptied, Unlock,
             Fetch, Acquire
    <2> QED
      BY <1>2, <2>1 DEF Write, Close, Leave, RemoveRoot, rootVars, opVars
  <1>3. CASE holder = p
    <2>1. Retire(p) \/ RetireFails(p) \/ UnlinkNew(p) \/ Leave(p) \/ RemoveRoot(p)
      BY <1>1, <1>3, MarkerAssumption
         DEF BeginCreate, NameTaken, CannotCreate, FinishCreate, Write, Close,
             BeginUpdate, Update, Finish, BeginPrune, BeginUnlinkAll, PruneMissing, PruneSkips,
             PruneTakes, PruneKeeps, Looks, UnlinkSkips, UnlinkTakes, Empties, RetireEmptied, Unlock,
             Fetch, Acquire
    <2>2. CASE Retire(p)
      BY <1>1, <2>2 DEF Retire, Commit
    <2>3. CASE RetireFails(p)
      BY <1>1, <2>3 DEF RetireFails, Commit, Goes, rootVars
    <2>4. CASE UnlinkNew(p)
      BY <1>1, <2>4 DEF UnlinkNew, Restrict, IdAt, TypeInv, File
    <2>5. CASE Leave(p)
      <3>1. n \in {m \in DOMAIN files : files[m].owner = p} \ {NameOf(e) : e \in current}
        BY <1>1, <1>3 DEF ListedIn
      <3>2. files[n].id \in strays'
        BY <1>1, <2>5, <3>1 DEF Leave, IdAt
      <3>3. files'[n].id = files[n].id
        BY <1>1, <2>5 DEF Leave, TypeInv, File
      <3> QED
        BY <3>2, <3>3
    <2>6. CASE RemoveRoot(p)
      BY <2>6 DEF RemoveRoot, rootVars, opVars
    <2> QED
      BY <2>1, <2>2, <2>3, <2>4, <2>5, <2>6
  <1> QED
    BY <1>2, <1>3

LEMMA FileStep ==
    ASSUME TypeInv, ListInv, HolderInv, OwnInv, PruneInv, AgeInv, FileInv, NextContainers
    PROVE  FileInv'
  <1> SUFFICES ASSUME NEW n \in DOMAIN files', ~(files'[n].id \in strays' \cup late')
               PROVE  /\ \/ ListedIn(current', n)
                         \/ step' \in {"named", "unregistered"} /\ n = NameOf(at')
                      /\ ListedIn(current', n) /\ step' # "none" => ListedIn(intent', n)
    BY DEF FileInv, Given, ListedIn, NameOf
  <1>1. ASSUME NEW p \in Handles, NameFree(p)
        PROVE  /\ \/ ListedIn(current', n)
                  \/ step' \in {"named", "unregistered"} /\ n = NameOf(at')
               /\ ListedIn(current', n) /\ step' # "none" => ListedIn(intent', n)
    <2>1. step = "naming" /\ current' = current /\ (n \in DOMAIN files \/ n = NameOf(at))
      BY <1>1 DEF NameFree, Sets, Change, rootVars
    <2>2. CASE n \in DOMAIN files
      <3>1. ListedIn(current, n) /\ ListedIn(intent, n)
        BY <2>1, <2>2, GivenStays DEF FileInv
      <3> QED
        BY <1>1, <2>1, <3>1 DEF NameFree, Change, rootVars, ListedIn
    <2>3. CASE n = NameOf(at)
      <3>1. ~ListedIn(current, n)
        BY <2>1, <2>3, NewIsNotListed
      <3>2. step' = "named" /\ at' = at
        BY <1>1, <2>3 DEF NameFree, Goes, Sets
      <3> QED
        BY <2>1, <2>3, <3>1, <3>2
    <2> QED
      BY <2>1, <2>2, <2>3
  <1>2. ASSUME ~ \E p \in Handles : NameFree(p)
        PROVE  /\ \/ ListedIn(current', n)
                  \/ step' \in {"named", "unregistered"} /\ n = NameOf(at')
               /\ ListedIn(current', n) /\ step' # "none" => ListedIn(intent', n)
    <2>1. n \in DOMAIN files /\ ~Given(n)
      BY <1>2, Effect, GivenStays DEF SameIds
    <2>2. CASE ListedIn(current, n)
      BY <1>2, <2>1, <2>2, StillListed DEF FileInv
    <2>3. CASE ~ListedIn(current, n)
      <3>1. step \in {"named", "unregistered"} /\ n = NameOf(at)
        BY <2>1, <2>3 DEF FileInv
      <3> QED
        BY <1>2, <2>3, <3>1, UnlistedStep
    <2> QED
      BY <2>2, <2>3
  <1> QED
    BY <1>1, <1>2

LEMMA GoneStep ==
    ASSUME TypeInv, ListInv, HolderInv, OwnInv, PruneInv, AgeInv, FileInv, GoneInv, NextContainers
    PROVE  GoneInv'
  <1> DEFINE Gone == removed \/ \E p \in Handles : phase[p] = "unlinking"
  <1> SUFFICES ASSUME Gone', NEW n \in DOMAIN files'
               PROVE  files'[n].id \in strays' \cup late'
    BY DEF GoneInv, Given
  <1>1. CASE Gone /\ \E p \in Handles : NameFree(p)
    <2>1. CASE n \in DOMAIN files
      BY <1>1, <2>1, GivenStays DEF GoneInv
    <2>2. CASE n \notin DOMAIN files
      BY <1>1, <2>2 DEF NameFree, Sets
    <2> QED
      BY <2>1, <2>2
  <1>2. CASE Gone /\ ~ \E p \in Handles : NameFree(p)
    BY <1>2, Effect, GivenStays DEF GoneInv, SameIds
  <1>3. CASE ~Gone
    <2>1. PICK p \in Handles : Unlock(p) /\ intent = {}
      <3> PICK p \in Handles : NextContainers!(p)
        BY DEF NextContainers
      <3> USE DEF TypeInv
      <3>1. ASSUME \/ \E s \in Sinks : BeginCreate(p, s)
                   \/ BeginUpdate(p)
                   \/ \E how \in {"limiting", "filtering"} : BeginPrune(p, how)
                   \/ \E how \in {"emptying", "razing"} : BeginUnlinkAll(p, how)
            PROVE  FALSE
        BY <1>3, <3>1 DEF BeginCreate, BeginUpdate, BeginPrune, BeginUnlinkAll, dirVars
      <3>2. ASSUME NameTaken(p) \/ CannotCreate(p) \/ Retire(p) \/ RetireFails(p) \/ Update(p)
                   \/ RetireEmptied(p) \/ NameFree(p) \/ UnlinkNew(p) \/ Write(p)
            PROVE  FALSE
        BY <1>3, <3>2 DEF NameTaken, CannotCreate, Retire, RetireFails, Update, RetireEmptied,
           NameFree, UnlinkNew, Write, dirVars
      <3>3. ASSUME NEW e \in todo,
                   PruneMissing(p, e) \/ PruneSkips(p, e) \/ PruneKeeps(p, e) \/ UnlinkSkips(p, e)
                   \/ PruneTakes(p, e) \/ UnlinkTakes(p, e)
            PROVE  FALSE
        BY <1>3, <3>3 DEF PruneMissing, PruneSkips, PruneKeeps, UnlinkSkips, PruneTakes, UnlinkTakes,
           dirVars
      <3>4. ASSUME FinishCreate(p) \/ Close(p) \/ Finish(p) \/ Leave(p) \/ RemoveRoot(p)
            PROVE  FALSE
        BY <1>3, <3>4 DEF FinishCreate, Close, Finish, Leave, RemoveRoot
      <3>5. CASE Unlock(p)
        BY <1>3, <3>5 DEF Unlock
      <3> QED
        BY <3>1, <3>2, <3>3, <3>4, <3>5
    <2>2. files' = files /\ step = "razed"
      BY <2>1 DEF Unlock
    <2>3. Given(n)
      BY <2>1, <2>2 DEF FileInv, ListedIn
    <2> QED
      BY <2>2, <2>3, GivenStays
  <1> QED
    BY <1>1, <1>2, <1>3

-----------------------------------------------------------------------------
(* Prunes with limits.                                                      *)

\* Nothing but looking at an entry changes what a prune knows.
LEMMA PruneWaits ==
    ASSUME PruneInv, step' = step, UNCHANGED <<todo, tally, kept, pruned, intent>>,
           DOMAIN files' = DOMAIN files, \A n \in DOMAIN files : files'[n].id = files[n].id
    PROVE  PruneInv'
  <1>1. ASSUME KeptInv PROVE KeptInv'
    <2> SUFFICES ASSUME NEW k \in kept
                 PROVE  \E f \in intent :
                            /\ NameOf(f) \in DOMAIN files'
                            /\ k = [sink |-> f.sink, id |-> files'[NameOf(f)].id]
                            /\ \A g \in todo : g.rotation <= f.rotation /\ NameOf(g) # NameOf(f)
      BY DEF KeptInv, Exists, Counted, NameOf
    <2>1. PICK f \in intent : /\ Exists(NameOf(f)) /\ k = Counted(f)
                              /\ \A g \in todo : g.rotation <= f.rotation /\ NameOf(g) # NameOf(f)
      BY <1>1 DEF KeptInv
    <2>2. NameOf(f) \in DOMAIN files' /\ files'[NameOf(f)].id = files[NameOf(f)].id
      BY <2>1 DEF Exists
    <2> QED
      BY <2>1, <2>2 DEF Counted
  <1> QED
    BY <1>1 DEF PruneInv, Exceeded

LEMMA PrunePasses ==
    ASSUME PruneInv, step = "limiting", NEW e \in todo, step' = step, todo' = todo \ {e},
           intent' \in {intent, intent \ {e}}, UNCHANGED <<files, tally, kept, pruned>>
    PROVE  PruneInv'
  <1>1. todo' \subseteq intent'
    BY DEF PruneInv
  <1>2. KeptInv'
    BY DEF PruneInv, KeptInv, Exists, Counted, NameOf
  <1> QED
    BY <1>1, <1>2 DEF PruneInv, Exceeded

\* What is removed is older than all that was counted.
LEMMA PruneTakesOlder ==
    ASSUME TypeInv, ListInv, PruneInv, step = "limiting",
           NEW p \in Handles, NEW e \in todo, PruneTakes(p, e)
    PROVE  PruneInv'
  <1>1. /\ step' = "limiting" /\ todo' = todo \ {e} /\ intent' = intent \ {e}
        /\ UNCHANGED <<tally, kept>> /\ pruned' = pruned \cup {Counted(e)} /\ Exceeded
        /\ e \in intent /\ Exists(NameOf(e))
    BY DEF PruneTakes, Looks, Change, PruneInv
  <1>2. \A n \in DOMAIN files : n # NameOf(e) => n \in DOMAIN files' /\ files'[n] = files[n]
    BY DEF PruneTakes, TryUnlink, Restrict
  <1>3. todo' \subseteq intent'
    BY <1>1 DEF PruneInv
  <1>4. KeptInv'
    <2> SUFFICES ASSUME NEW k \in kept
                 PROVE  \E f \in intent' :
                            /\ NameOf(f) \in DOMAIN files'
                            /\ k = [sink |-> f.sink, id |-> files'[NameOf(f)].id]
                            /\ \A g \in todo' : g.rotation <= f.rotation /\ NameOf(g) # NameOf(f)
      BY <1>1 DEF KeptInv, Exists, Counted, NameOf
    <2>1. PICK f \in intent : /\ Exists(NameOf(f)) /\ k = Counted(f)
                              /\ \A g \in todo : g.rotation <= f.rotation /\ NameOf(g) # NameOf(f)
      BY <1>1 DEF PruneInv, KeptInv
    <2>2. f \in intent' /\ files'[NameOf(f)] = files[NameOf(f)] /\ NameOf(f) \in DOMAIN files'
      BY <1>1, <1>2, <2>1 DEF Exists
    <2> QED
      BY <1>1, <2>1, <2>2 DEF Counted
  <1>5. \A k \in kept : k.sink = e.sink => k.id > files[NameOf(e)].id
    <2> SUFFICES ASSUME NEW k \in kept, k.sink = e.sink
                 PROVE  k.id > files[NameOf(e)].id
      OBVIOUS
    <2>1. PICK f \in intent : /\ Exists(NameOf(f)) /\ k = Counted(f)
                              /\ \A g \in todo : g.rotation <= f.rotation /\ NameOf(g) # NameOf(f)
      BY <1>1 DEF PruneInv, KeptInv
    <2>2. f.sink = e.sink /\ k.id = files[NameOf(f)].id
      BY <2>1 DEF Counted
    <2>3. e.rotation < f.rotation
      <3>1. e.rotation \in Nat /\ f.rotation \in Nat /\ e.rotation <= f.rotation
        BY <1>1, <2>1 DEF TypeInv, Lists, Entry
      <3>2. e.rotation # f.rotation
        BY <2>1, <2>2 DEF NameOf
      <3> QED
        BY <3>1, <3>2
    <2>4. files[NameOf(e)].id < files[NameOf(f)].id
      BY <1>1, <2>1, <2>2, <2>3 DEF ListInv, InOrder, Exists
    <2>5. files[NameOf(e)].id \in Nat /\ files[NameOf(f)].id \in Nat
      BY <1>1, <2>1 DEF TypeInv, File, Exists
    <2> QED
      BY <2>2, <2>4, <2>5
  <1>6. \A k \in kept', x \in pruned' : k.sink = x.sink => k.id > x.id
    BY <1>1, <1>5 DEF PruneInv, Counted
  <1> QED
    BY <1>1, <1>3, <1>4, <1>6 DEF PruneInv, Exceeded

LEMMA PruneCounts ==
    ASSUME TypeInv, ListInv, PruneInv, step = "limiting",
           NEW p \in Handles, NEW e \in todo, PruneKeeps(p, e)
    PROVE  PruneInv'
  <1>1. /\ step' = "limiting" /\ todo' = todo \ {e}
        /\ intent' = (intent \ {e}) \cup {Sanitized(e)}
        /\ UNCHANGED <<files, pruned>> /\ kept' = kept \cup {Counted(e)} /\ ~Exceeded
        /\ tally'.files = tally.files + 1
        /\ e \in intent /\ Exists(NameOf(e)) /\ \A f \in todo : f.rotation <= e.rotation
    BY DEF PruneKeeps, Looks, Change, PruneInv, dirVars
  <1>2. /\ Sanitized(e) \in Entry /\ NameOf(Sanitized(e)) = NameOf(e)
        /\ Sanitized(e).sink = e.sink /\ Sanitized(e).rotation = e.rotation
    BY <1>1, SanitizedIsEntry DEF TypeInv, NameOf
  <1>3. todo' \subseteq intent'
    BY <1>1 DEF PruneInv
  <1>4. pruned = {}
    BY <1>1 DEF PruneInv
  <1>5. KeptInv'
    <2>1. ASSUME NEW k \in kept
          PROVE  \E f \in intent' :
                    /\ Exists(NameOf(f)) /\ k = Counted(f)
                    /\ \A g \in todo' : g.rotation <= f.rotation /\ NameOf(g) # NameOf(f)
      BY <1>1, <2>1 DEF PruneInv, KeptInv
    <2>2. \A g \in todo' : NameOf(g) # NameOf(e)
      BY <1>1 DEF ListInv, NamesDiffer, PruneInv
    <2>3. Counted(e) = Counted(Sanitized(e))
      BY <1>2 DEF Counted
    <2> QED
      <3>1. \A k \in kept' : \E f \in intent' :
                /\ Exists(NameOf(f)) /\ k = Counted(f)
                /\ \A g \in todo' : g.rotation <= f.rotation /\ NameOf(g) # NameOf(f)
        BY <1>1, <1>2, <2>1, <2>2, <2>3
      <3> QED
        BY <1>1, <3>1 DEF KeptInv, Exists, Counted, NameOf
  <1>6. /\ tally.files \in Nat /\ tally.files <= MaxFiles
    BY <1>1, LimitAssumption DEF Exceeded, TypeInv
  <1>7. /\ IsFiniteSet(kept') /\ Cardinality(kept') <= tally.files + 1
    <2>1. IsFiniteSet(kept) /\ Cardinality(kept) <= tally.files /\ Cardinality(kept) \in Nat
      BY FS_CardinalityType DEF PruneInv
    <2>2. /\ IsFiniteSet(kept \cup {Counted(e)})
          /\ Cardinality(kept \cup {Counted(e)}) \in {Cardinality(kept), Cardinality(kept) + 1}
      BY <2>1, FS_AddElement
    <2> QED
      BY <1>1, <1>6, <2>1, <2>2
  <1> QED
    BY <1>1, <1>3, <1>4, <1>5, <1>6, <1>7, LimitAssumption DEF PruneInv

LEMMA PruneStep ==
    ASSUME TypeInv, ListInv, HolderInv, OwnInv, PruneInv, NextContainers
    PROVE  PruneInv'
  <1> PICK p \in Handles : NextContainers!(p)
    BY DEF NextContainers
  <1>1. ASSUME (\E s \in Sinks : BeginCreate(p, s)) \/ BeginUpdate(p)
        PROVE  PruneInv'
    BY <1>1 DEF BeginCreate, BeginUpdate, PruneInv
  <1>2. CASE NameFree(p) \/ NameTaken(p) \/ CannotCreate(p) \/ Retire(p) \/ RetireFails(p)
             \/ UnlinkNew(p) \/ Update(p)
    BY <1>2 DEF NameFree, NameTaken, CannotCreate, Retire, RetireFails, UnlinkNew, Update, Goes,
       PruneInv
  <1>3. CASE FinishCreate(p) \/ Finish(p) \/ Unlock(p)
    BY <1>3 DEF FinishCreate, Finish, Unlock, Ended, PruneInv
  <1>4. CASE Write(p) \/ Close(p) \/ RemoveRoot(p)
    <2>1. UNCHANGED <<rootVars, opVars>> /\ DOMAIN files' = DOMAIN files
      BY <1>4 DEF Write, Close, RemoveRoot
    <2>2. \A n \in DOMAIN files : files'[n].id = files[n].id
      <3>1. CASE Write(p)
        BY <3>1 DEF Write, TypeInv, File
      <3>2. CASE Close(p)
        BY <3>2 DEF Close, TypeInv, File
      <3>3. CASE RemoveRoot(p)
        BY <3>3 DEF RemoveRoot
      <3> QED
        BY <1>4, <3>1, <3>2, <3>3
    <2> QED
      BY <2>1, <2>2, PruneWaits DEF rootVars, opVars
  <1>5. CASE Leave(p)
    <2>1. CASE holder = p
      BY <1>5, <2>1 DEF Leave, Ended, PruneInv
    <2>2. CASE holder # p
      <3>1. UNCHANGED <<rootVars, opVars>> /\ DOMAIN files' = DOMAIN files
        BY <1>5, <2>2 DEF Leave
      <3>2. \A n \in DOMAIN files : files'[n].id = files[n].id
        BY <1>5 DEF Leave, TypeInv, File
      <3> QED
        BY <3>1, <3>2, PruneWaits DEF rootVars, opVars
    <2> QED
      BY <2>1, <2>2
  <1>6. ASSUME NEW how \in {"limiting", "filtering"}, BeginPrune(p, how)
        PROVE  PruneInv'
    <2>1. step' = how /\ todo' = intent' /\ UNCHANGED <<tally, kept, pruned>>
      BY <1>6 DEF BeginPrune
    <2>2. kept = {} /\ pruned = {} /\ tally.files = 0
      BY <1>6 DEF BeginPrune, Fetch, Acquire, HolderInv, PruneInv, NoTally
    <2>3. KeptInv'
      BY <2>1, <2>2 DEF KeptInv
    <2> QED
      BY <2>1, <2>2, <2>3, FS_EmptySet, LimitAssumption DEF PruneInv
  <1>7. ASSUME NEW how \in {"emptying", "razing"}, BeginUnlinkAll(p, how)
        PROVE  PruneInv'
    BY <1>7 DEF BeginUnlinkAll, PruneInv
  <1>8. ASSUME NEW e \in todo,
               PruneMissing(p, e) \/ PruneSkips(p, e) \/ PruneTakes(p, e) \/ PruneKeeps(p, e)
        PROVE  PruneInv'
    <2>1. CASE step = "filtering"
      <3>1. step' = "filtering" /\ todo' = todo \ {e} /\ intent \ {e} \subseteq intent'
        BY <1>8, <2>1 DEF PruneMissing, PruneSkips, PruneTakes, PruneKeeps, Looks, Change, rootVars
      <3> QED
        BY <2>1, <3>1 DEF PruneInv
    <2>2. CASE step = "limiting"
      <3>1. CASE PruneMissing(p, e) \/ PruneSkips(p, e)
        <4>1. /\ step' = step /\ todo' = todo \ {e} /\ intent' \in {intent, intent \ {e}}
              /\ UNCHANGED <<files, tally, kept, pruned>>
          BY <3>1 DEF PruneMissing, PruneSkips, Looks, Change, rootVars, dirVars
        <4> QED
          BY <2>2, <4>1, PrunePasses
      <3>2. CASE PruneTakes(p, e)
        BY <2>2, <3>2, PruneTakesOlder
      <3>3. CASE PruneKeeps(p, e)
        BY <2>2, <3>3, PruneCounts
      <3> QED
        BY <1>8, <3>1, <3>2, <3>3
    <2> QED
      BY <1>8, <2>1, <2>2 DEF PruneMissing, PruneSkips, PruneTakes, PruneKeeps, Looks
  <1>9. ASSUME NEW e \in todo, UnlinkSkips(p, e) \/ UnlinkTakes(p, e)
        PROVE  PruneInv'
    <2>1. step \in {"emptying", "razing"} /\ step' = step /\ todo' = todo \ {e}
      BY <1>9 DEF UnlinkSkips, UnlinkTakes, Empties
    <2>2. intent \ {e} \subseteq intent'
      BY <1>9 DEF UnlinkSkips, UnlinkTakes, Change, rootVars
    <2> QED
      BY <2>1, <2>2 DEF PruneInv
  <1>10. CASE RetireEmptied(p)
    BY <1>10 DEF RetireEmptied, Goes, PruneInv
  <1> QED
    BY <1>1, <1>2, <1>3, <1>4, <1>5, <1>6, <1>7, <1>8, <1>9, <1>10

-----------------------------------------------------------------------------
(* Sizes.                                                                   *)

\* Only its sink changes the size of a file.
LEMMA SizesStay ==
    ASSUME TypeInv, HolderInv, OwnInv, NextContainers,
           ~ \E p \in Handles : NameFree(p) \/ Write(p)
    PROVE  \A n \in DOMAIN files' :
              /\ n \in DOMAIN files /\ files'[n].size = files[n].size
              /\ files'[n].owner \in {files[n].owner, Nobody}
  <1> USE DEF TypeInv
  <1> PICK p \in Handles : NextContainers!(p)
    BY DEF NextContainers
  <1>1. ASSUME \/ \E s \in Sinks : BeginCreate(p, s)
               \/ BeginUpdate(p)
               \/ \E how \in {"limiting", "filtering"} : BeginPrune(p, how)
               \/ \E how \in {"emptying", "razing"} : BeginUnlinkAll(p, how)
        PROVE  files' = files
    BY <1>1 DEF BeginCreate, BeginUpdate, BeginPrune, BeginUnlinkAll, dirVars
  <1>2. ASSUME NameTaken(p) \/ CannotCreate(p) \/ Retire(p) \/ RetireFails(p) \/ Update(p)
               \/ RetireEmptied(p) \/ FinishCreate(p) \/ Finish(p) \/ Unlock(p) \/ RemoveRoot(p)
        PROVE  files' = files
    BY <1>2 DEF NameTaken, CannotCreate, Retire, RetireFails, Update, RetireEmptied, FinishCreate,
       Finish, Unlock, RemoveRoot, dirVars
  <1>3. ASSUME NEW e \in todo,
               PruneMissing(p, e) \/ PruneSkips(p, e) \/ PruneKeeps(p, e) \/ UnlinkSkips(p, e)
        PROVE  files' = files
    BY <1>3 DEF PruneMissing, PruneSkips, PruneKeeps, UnlinkSkips, dirVars
  <1>4. ASSUME NEW e \in todo, PruneTakes(p, e) \/ UnlinkTakes(p, e)
        PROVE  \A n \in DOMAIN files' : n \in DOMAIN files /\ files'[n] = files[n]
    BY <1>4 DEF PruneTakes, UnlinkTakes, TryUnlink, Restrict
  <1>5. CASE Close(p)
    BY <1>5 DEF Close, File
  <1>6. CASE Leave(p)
    BY <1>6 DEF Leave, File
  <1>7. CASE UnlinkNew(p)
    BY <1>7 DEF UnlinkNew, Restrict, File
  <1> QED
    BY <1>1, <1>2, <1>3, <1>4, <1>5, <1>6, <1>7

LEMMA FreshStays ==
    ASSUME TypeInv, ListInv, HolderInv, OwnInv, PruneInv, NextContainers,
           ~ \E p \in Handles : NameFree(p),
           NEW n, n \in DOMAIN files', files'[n].id \notin reused'
    PROVE  Fresh(n)
  BY Effect, HistoryGrows DEF SameIds, Fresh, Exists

LEMMA EntrySizesStep ==
    ASSUME TypeInv, ListInv, HolderInv, OwnInv, PruneInv, SizeInv, NextContainers,
           ~ \E p \in Handles : NameFree(p)
    PROVE  EntrySizes'
  <1> SUFFICES ASSUME NEW e \in current' \cup intent',
                      NameOf(e) \in DOMAIN files', files'[NameOf(e)].id \notin reused'
               PROVE  e.size = 0 \/ Max({1, e.size}) = Max({1, files'[NameOf(e)].size})
    BY DEF EntrySizes, TrueSize, Fresh, Exists, NameOf
  <1> DEFINE n == NameOf(e)
  <1>1. Fresh(n) /\ n \in DOMAIN files
    BY FreshStays DEF Fresh, Exists
  <1>2. e.size = 0 \/ Max({1, e.size}) = Max({1, files[n].size})
    <2>1. CASE e \in current \cup intent
      BY <1>1, <2>1 DEF SizeInv, EntrySizes, TrueSize
    <2>2. CASE e \notin current \cup intent
      <3>1. e \in intent' \ intent /\ Alters
        BY <2>2, Effect DEF Begins, Commits, Shrinks, Alters
      <3>2. CASE step = "sizing" /\ e = at
        BY <1>1, <3>2 DEF SizeInv, ReportedSize
      <3>3. ASSUME NEW f \in intent, e = Sanitized(f), Exists(NameOf(f))
            PROVE  e.size = 0 \/ Max({1, e.size}) = Max({1, files[n].size})
        <4>1. f \in Entry
          BY DEF TypeInv, Lists
        <4>2. NameOf(f) = n /\ files[n].size \in Nat
          BY <3>3, <4>1, SanitizedIsEntry DEF TypeInv, File, Exists
        <4>3. CASE f.size # 0
          BY <1>1, <3>3, <4>2, <4>3 DEF Sanitized, SizeInv, EntrySizes, TrueSize
        <4>4. CASE f.size = 0
          <5>1. e.size = Max({1, files[n].size})
            BY <3>3, <4>1, <4>2, <4>4 DEF Sanitized, Entry
          <5> QED
            BY <4>2, <5>1, AtLeastOne
        <4> QED
          BY <4>3, <4>4
      <3> QED
        BY <3>1, <3>2, <3>3 DEF Alters, Replaces
    <2> QED
      BY <2>1, <2>2
  <1>3. CASE ~ \E p \in Handles : Write(p)
    <2>1. files'[n].size = files[n].size
      BY <1>3, SizesStay
    <2> QED
      BY <1>2, <2>1
  <1>4. ASSUME NEW p \in Handles, Write(p)
        PROVE  e.size = 0 \/ Max({1, e.size}) = Max({1, files'[n].size})
    <2>1. /\ e \in current \cup intent /\ phase[p] = "open" /\ holder # p
      BY <1>4 DEF Write, rootVars
    <2>2. CASE n = NameOf(own[p])
      BY <1>1, <2>1, <2>2 DEF SizeInv, OpenSizes, Reporting
    <2>3. CASE n # NameOf(own[p])
      <3>1. files'[n] = files[n]
        BY <1>1, <1>4, <2>3 DEF Write
      <3> QED
        BY <1>2, <3>1
    <2> QED
      BY <2>2, <2>3
  <1> QED
    BY <1>3, <1>4

\* Who has its file open had it open before, and goes on reporting.
LEMMA OpenStays ==
    ASSUME TypeInv, HolderInv, NextContainers, NEW q \in Handles, phase'[q] = "open",
           ~FinishCreate(q)
    PROVE  phase[q] = "open" /\ (Reporting(q) => Reporting(q)')
  <1> USE DEF TypeInv
  <1> PICK p \in Handles : NextContainers!(p)
    BY DEF NextContainers
  <1>1. ASSUME \/ \E s \in Sinks : BeginCreate(p, s)
               \/ BeginUpdate(p)
               \/ \E how \in {"limiting", "filtering"} : BeginPrune(p, how)
               \/ \E how \in {"emptying", "razing"} : BeginUnlinkAll(p, how)
        PROVE  phase' = phase /\ holder = Nobody
    BY <1>1 DEF BeginCreate, BeginUpdate, BeginPrune, BeginUnlinkAll, Fetch, Acquire, dirVars
  <1>2. ASSUME NameFree(p) \/ NameTaken(p) \/ CannotCreate(p) \/ RetireEmptied(p) \/ UnlinkNew(p)
        PROVE  phase' = phase /\ step \notin {"sizing", "sized", "done", "failed"}
    BY <1>2 DEF NameFree, NameTaken, CannotCreate, RetireEmptied, UnlinkNew, dirVars
  <1>3. ASSUME NEW e \in todo,
               PruneMissing(p, e) \/ PruneSkips(p, e) \/ PruneKeeps(p, e) \/ PruneTakes(p, e)
               \/ UnlinkSkips(p, e) \/ UnlinkTakes(p, e)
        PROVE  phase' = phase /\ step \notin {"sizing", "sized", "done", "failed"}
    BY <1>3 DEF PruneMissing, PruneSkips, PruneKeeps, PruneTakes, UnlinkSkips, UnlinkTakes, Looks,
       Empties, dirVars
  <1>4. CASE Retire(p) \/ RetireFails(p) \/ Update(p)
    BY <1>4 DEF Retire, RetireFails, Update, Commit, Change, Goes, rootVars, dirVars, Reporting
  <1>5. CASE FinishCreate(p) \/ Unlock(p)
    BY <1>5 DEF FinishCreate, Unlock, Reporting
  <1>6. CASE Write(p) \/ Close(p) \/ RemoveRoot(p)
    BY <1>6 DEF Write, Close, RemoveRoot, rootVars, opVars, Reporting
  <1>7. CASE Finish(p)
    BY <1>7 DEF Finish, Reporting
  <1>8. CASE Leave(p)
    BY <1>8 DEF Leave, rootVars, opVars, Reporting
  <1> QED
    BY <1>1, <1>2, <1>3, <1>4, <1>5, <1>6, <1>7, <1>8, MarkerAssumption DEF Reporting

\* Before a sink reports the size of its file, its entry has none.
LEMMA OpenSizesStep ==
    ASSUME TypeInv, ListInv, HolderInv, OwnInv, PruneInv, SizeInv, NextContainers,
           ~ \E p \in Handles : NameFree(p)
    PROVE  OpenSizes'
  <1> SUFFICES ASSUME NEW q \in Handles, phase'[q] = "open", ~Reporting(q)',
                      NEW n, n = NameOf(own'[q]), n \in DOMAIN files', files'[n].id \notin reused',
                      NEW e \in current' \cup intent', NameOf(e) = n
               PROVE  e.size = 0
    BY DEF OpenSizes, Fresh, Exists, NameOf
  <1>1. CASE FinishCreate(q)
    <2>1. own'[q] = at /\ current' = current /\ intent' = {} /\ step = "created"
      BY <1>1 DEF FinishCreate, Release, TypeInv
    <2>2. e \in intent /\ at \in intent /\ NameOf(e) = NameOf(at) /\ at.size = 0
      BY <2>1 DEF HolderInv, Creating
    <2> QED
      BY <2>2 DEF ListInv, NamesDiffer
  <1>2. CASE ~FinishCreate(q)
    <2>1. phase[q] = "open" /\ ~Reporting(q)
      BY <1>2, OpenStays
    <2>2. n = NameOf(own[q]) /\ files'[n].owner = q
      BY <1>2, <2>1, LivingStays DEF Living
    <2>3. Fresh(n)
      BY FreshStays
    <2>4. files[n].owner = q
      BY <2>1, <2>2 DEF OwnInv, Living
    <2>5. CASE e \in current \cup intent
      BY <2>1, <2>2, <2>3, <2>5 DEF SizeInv, OpenSizes
    <2>6. CASE e \notin current \cup intent
      <3>1. e \in intent' \ intent /\ Alters
        BY <2>6, Effect DEF Begins, Commits, Shrinks, Alters
      <3>2. ASSUME step = "sizing", step' = "sized", holder' = holder, e = at
            PROVE  e.size = 0
        <4>1. holder \in Handles /\ n = NameOf(own[holder]) /\ phase[holder] \in {"open", "closed"}
          BY <3>2 DEF HolderInv, Sizing, TypeInv
        <4>2. holder = q
          BY <2>3, <2>4, <4>1, MarkerAssumption DEF OwnInv, Living, SizeInv, ClosedSizes
        <4>3. at = NoEntry
          BY <2>1, <3>2, <4>2 DEF Reporting
        <4> QED
          BY <3>2, <4>3 DEF NoEntry
      <3>3. ASSUME NEW f \in intent, e = Sanitized(f), Exists(NameOf(f)), ~Locked(NameOf(f))
            PROVE  FALSE
        <4>1. NameOf(f) = n
          BY <3>3, SanitizedIsEntry DEF TypeInv, Lists
        <4> QED
          BY <2>4, <3>3, <4>1, MarkerAssumption DEF Locked
      <3> QED
        BY <3>1, <3>2, <3>3 DEF Alters, Replaces
    <2> QED
      BY <2>5, <2>6
  <1> QED
    BY <1>1, <1>2

LEMMA ClosedStays ==
    ASSUME TypeInv, NextContainers, NEW q \in Handles, phase'[q] = "closed",
           ~(Close(q) /\ phase[q] = "open")
    PROVE  phase[q] = "closed" /\ own'[q] = own[q]
  <1> USE DEF TypeInv
  <1> PICK p \in Handles : NextContainers!(p)
    BY DEF NextContainers
  <1>1. ASSUME \/ \E s \in Sinks : BeginCreate(p, s)
               \/ BeginUpdate(p)
               \/ \E how \in {"limiting", "filtering"} : BeginPrune(p, how)
               \/ \E how \in {"emptying", "razing"} : BeginUnlinkAll(p, how)
        PROVE  UNCHANGED <<phase, own>>
    BY <1>1 DEF BeginCreate, BeginUpdate, BeginPrune, BeginUnlinkAll, dirVars
  <1>2. ASSUME NameFree(p) \/ NameTaken(p) \/ CannotCreate(p) \/ Retire(p) \/ RetireFails(p)
               \/ Update(p) \/ RetireEmptied(p) \/ UnlinkNew(p) \/ Write(p)
        PROVE  UNCHANGED <<phase, own>>
    BY <1>2 DEF NameFree, NameTaken, CannotCreate, Retire, RetireFails, Update, RetireEmptied,
       UnlinkNew, Write, dirVars
  <1>3. ASSUME NEW e \in todo,
               PruneMissing(p, e) \/ PruneSkips(p, e) \/ PruneKeeps(p, e) \/ PruneTakes(p, e)
               \/ UnlinkSkips(p, e) \/ UnlinkTakes(p, e)
        PROVE  UNCHANGED <<phase, own>>
    BY <1>3 DEF PruneMissing, PruneSkips, PruneKeeps, PruneTakes, UnlinkSkips, UnlinkTakes, dirVars
  <1>4. CASE FinishCreate(p) \/ Finish(p) \/ Leave(p) \/ Unlock(p) \/ RemoveRoot(p)
    BY <1>4 DEF FinishCreate, Finish, Leave, Unlock, RemoveRoot
  <1>5. CASE Close(p)
    BY <1>5 DEF Close
  <1> QED
    BY <1>1, <1>2, <1>3, <1>4, <1>5

\* A file that its sink has closed keeps its size as long as it is there.
LEMMA ClosedSizesStep ==
    ASSUME TypeInv, ListInv, HolderInv, OwnInv, PruneInv, SizeInv, NextContainers,
           ~ \E p \in Handles : NameFree(p)
    PROVE  ClosedSizes'
  <1> SUFFICES ASSUME NEW q \in Handles, phase'[q] = "closed",
                      NEW n, n = NameOf(own'[q]), n \in DOMAIN files', files'[n].id \notin reused'
               PROVE  files'[n].owner = Nobody /\ files'[n].size = own'[q].size
    BY DEF ClosedSizes, Fresh, Exists, NameOf
  <1>1. CASE Close(q) /\ phase[q] = "open"
    <2> DEFINE m == NameOf(own[q])
    <2>1. files' = [files EXCEPT ![m].owner = Nobody] /\ own' = [own EXCEPT ![q].size = files[m].size]
      BY <1>1 DEF Close
    <2>2. own[q] \in Entry /\ own'[q] = [own[q] EXCEPT !.size = files[m].size]
      BY <2>1 DEF TypeInv
    <2>3. n = m /\ own'[q].size = files[m].size
      BY <2>2 DEF NameOf, Entry
    <2>4. m \in DOMAIN files /\ files[m] \in File
      BY <1>1 DEF OwnInv, Living, Exists, TypeInv
    <2> HIDE DEF m
    <2> QED
      BY <2>1, <2>3, <2>4 DEF File
  <1>2. CASE ~(Close(q) /\ phase[q] = "open")
    <2>1. phase[q] = "closed" /\ own'[q] = own[q]
      BY <1>2, ClosedStays
    <2>2. files[n].owner = Nobody /\ files[n].size = own[q].size /\ n \in DOMAIN files
      BY <2>1, FreshStays DEF SizeInv, ClosedSizes, Fresh, Exists
    <2>3. CASE ~ \E p \in Handles : Write(p)
      BY <2>1, <2>2, <2>3, SizesStay
    <2>4. ASSUME NEW p \in Handles, Write(p)
          PROVE  files'[n] = files[n]
      <3>1. n # NameOf(own[p])
        BY <2>2, <2>4, MarkerAssumption DEF Write, OwnInv, Living
      <3> QED
        BY <2>2, <2>4, <3>1 DEF Write
    <2> QED
      BY <2>1, <2>2, <2>3, <2>4
  <1> QED
    BY <1>1, <1>2

LEMMA ReportedSizeStep ==
    ASSUME TypeInv, ListInv, HolderInv, OwnInv, PruneInv, SizeInv, NextContainers,
           ~ \E p \in Handles : NameFree(p)
    PROVE  ReportedSize'
  <1> SUFFICES ASSUME step' = "sizing",
                      NEW n, n = NameOf(at'), n \in DOMAIN files', files'[n].id \notin reused'
               PROVE  at'.size = files'[n].size
    BY DEF ReportedSize, Fresh, Exists, NameOf
  <1>1. Fresh(n) /\ n \in DOMAIN files
    BY FreshStays DEF Fresh, Exists
  <1>2. ASSUME NEW p \in Handles, BeginUpdate(p)
        PROVE  at'.size = files'[n].size
    <2>1. files' = files /\ own[p] \in Entry
      BY <1>2 DEF BeginUpdate, dirVars, TypeInv
    <2>2. CASE phase[p] = "closed"
      BY <1>1, <1>2, <2>1, <2>2 DEF BeginUpdate, SizeInv, ClosedSizes
    <2>3. CASE phase[p] = "open"
      BY <1>2, <2>1, <2>3 DEF BeginUpdate, NameOf, Entry
    <2> QED
      BY <1>2, <2>2, <2>3 DEF BeginUpdate
  <1>3. ASSUME ~ \E p \in Handles : BeginUpdate(p)
        PROVE  at'.size = files'[n].size
    <2>1. step = "sizing" /\ at' = at
      <3> PICK p \in Handles : NextContainers!(p)
        BY DEF NextContainers
      <3>1. ASSUME NameTaken(p) \/ CannotCreate(p) \/ Retire(p) \/ RetireFails(p) \/ Update(p)
                   \/ RetireEmptied(p) \/ UnlinkNew(p)
            PROVE  FALSE
        BY <3>1 DEF NameTaken, CannotCreate, Retire, RetireFails, Update, RetireEmptied, UnlinkNew, Goes
      <3>2. ASSUME FinishCreate(p) \/ Finish(p) \/ Unlock(p)
            PROVE  FALSE
        BY <3>2 DEF FinishCreate, Finish, Unlock, Ended
      <3>3. ASSUME NEW e \in todo,
                   PruneMissing(p, e) \/ PruneSkips(p, e) \/ PruneKeeps(p, e) \/ PruneTakes(p, e)
                   \/ UnlinkSkips(p, e) \/ UnlinkTakes(p, e)
            PROVE  FALSE
        BY <3>3 DEF PruneMissing, PruneSkips, PruneKeeps, PruneTakes, UnlinkSkips, UnlinkTakes, Looks,
           Empties
      <3>4. CASE Write(p) \/ Close(p) \/ RemoveRoot(p) \/ Leave(p)
        BY <3>4 DEF Write, Close, RemoveRoot, Leave, Ended, opVars
      <3>5. ASSUME \/ \E s \in Sinks : BeginCreate(p, s)
                   \/ \E how \in {"limiting", "filtering"} : BeginPrune(p, how)
                   \/ \E how \in {"emptying", "razing"} : BeginUnlinkAll(p, how)
            PROVE  FALSE
        BY <3>5 DEF BeginCreate, BeginPrune, BeginUnlinkAll
      <3> QED
        BY <1>3, <3>1, <3>2, <3>3, <3>4, <3>5
    <2>2. at.size = files[n].size
      BY <1>1, <2>1 DEF SizeInv, ReportedSize
    <2>3. CASE ~ \E p \in Handles : Write(p)
      BY <2>1, <2>2, <2>3, SizesStay
    <2>4. ASSUME NEW p \in Handles, Write(p)
          PROVE  files'[n] = files[n]
      <3>1. holder \in Handles \ {p} /\ n = NameOf(own[holder]) /\ phase[holder] \in {"open", "closed"}
        BY <2>1, <2>4 DEF HolderInv, Sizing, TypeInv, Write
      <3>2. files[n].owner # p
        BY <1>1, <3>1, MarkerAssumption DEF OwnInv, Living, SizeInv, ClosedSizes
      <3>3. n # NameOf(own[p])
        BY <2>4, <3>2 DEF Write, OwnInv, Living
      <3> QED
        BY <1>1, <2>4, <3>3 DEF Write
    <2> QED
      BY <2>1, <2>2, <2>3, <2>4
  <1> QED
    BY <1>2, <1>3

\* A new container is empty, and nobody has its name but who has yet to report the size of
\* one before it.
LEMMA NewSizes ==
    ASSUME TypeInv, ListInv, HolderInv, OwnInv, AgeInv, SizeInv, NEW p \in Handles, NameFree(p)
    PROVE  SizeInv'
  <1>1. /\ step = "naming" /\ current' = current /\ intent' \in {intent, intent \cup {at}}
        /\ NameOf(at) \notin DOMAIN files /\ DOMAIN files' = DOMAIN files \cup {NameOf(at)}
        /\ \A n \in DOMAIN files : files'[n] = files[n]
        /\ files'[NameOf(at)].id = created + 1
        /\ UNCHANGED <<own, phase, at, holder>> /\ step' \in {"named", "failed"} /\ holder = p
    BY DEF NameFree, Change, rootVars, Sets, Exists, Goes
  <1>2. at.size = 0 /\ phase[p] = "none" /\ \A e \in current \cup intent : NameOf(e) # NameOf(at)
    BY <1>1, NewIsNotListed DEF HolderInv, Creating, ListedIn
  <1>3. \A n \in DOMAIN files : files'[n].id \notin reused' => Fresh(n)
    BY <1>1, HistoryGrows DEF NameFree, Fresh, Exists
  <1>4. EntrySizes'
    BY <1>1, <1>2, <1>3 DEF SizeInv, EntrySizes, TrueSize, Fresh, Exists, NameOf
  <1>5. OpenSizes'
    <2> SUFFICES ASSUME NEW q \in Handles, phase[q] = "open",
                        files'[NameOf(own[q])].id \notin reused',
                        NEW e \in current' \cup intent', NameOf(e) = NameOf(own[q])
                 PROVE  e.size = 0
      BY <1>1 DEF OpenSizes, Fresh, Exists, NameOf
    <2>1. Fresh(NameOf(own[q])) /\ ~Reporting(q)
      BY <1>1, <1>3 DEF OwnInv, Living, Exists, Reporting
    <2> QED
      BY <1>1, <1>2, <2>1 DEF SizeInv, OpenSizes
  <1>6. ClosedSizes'
    <2> SUFFICES ASSUME NEW q \in Handles, phase[q] = "closed",
                        NEW n, n = NameOf(own[q]), n \in DOMAIN files', files'[n].id \notin reused'
                 PROVE  files'[n].owner = Nobody /\ files'[n].size = own[q].size
      BY <1>1 DEF ClosedSizes, Fresh, Exists, NameOf
    <2>1. n # NameOf(at)
      BY <1>1 DEF NameFree
    <2> QED
      BY <1>1, <1>3, <2>1 DEF SizeInv, ClosedSizes
  <1>7. ReportedSize'
    BY <1>1 DEF ReportedSize
  <1> QED
    BY <1>4, <1>5, <1>6, <1>7 DEF SizeInv

LEMMA SizeStep ==
    ASSUME TypeInv, ListInv, HolderInv, OwnInv, AgeInv, PruneInv, SizeInv, NextContainers
    PROVE  SizeInv'
  <1>1. CASE \E p \in Handles : NameFree(p)
    BY <1>1, NewSizes
  <1>2. CASE ~ \E p \in Handles : NameFree(p)
    BY <1>2, EntrySizesStep, OpenSizesStep, ClosedSizesStep, ReportedSizeStep DEF SizeInv
  <1> QED
    BY <1>1, <1>2

-----------------------------------------------------------------------------
(* Theorems.                                                                *)

LEMMA ContainersInit == InitContainers => ContainersInv
  <1> SUFFICES ASSUME InitContainers PROVE ContainersInv
    OBVIOUS
  <1> DEFINE Old(n) == [sink |-> OldSink, rotation |-> n, size |-> 1]
  <1>1. /\ holder = Nobody /\ intent = {} /\ step = "none" /\ at = NoEntry /\ todo = {}
        /\ own = [p \in Handles |-> NoEntry] /\ phase = [p \in Handles |-> "none"]
        /\ tally = NoTally /\ removed = FALSE /\ created = 0 /\ kept = {} /\ pruned = {}
    BY DEF InitContainers
  <1>2. \/ current = {} /\ files = <<>>
        \/ \E n \in OldRotations :
              /\ current = {Old(n)}
              /\ files = [m \in {NameOf(Old(n))} |-> [id |-> 0, owner |-> Nobody, size |-> 1]]
    BY DEF InitContainers
  <1>3. /\ current \in Lists /\ Bounded(current) /\ NamesDiffer(current)
        /\ DOMAIN files \subseteq Names /\ files \in [DOMAIN files -> File]
        /\ \A n \in DOMAIN files : ListedIn(current, n) /\ files[n].id = 0 /\ files[n].size = 1
        /\ \A e, f \in current : e = f /\ e.rotation \in Nat /\ e.size = 1
    <2>1. CASE current = {} /\ files = <<>>
      BY <2>1 DEF Lists, Bounded, NamesDiffer
    <2>2. ASSUME NEW n \in OldRotations, current = {Old(n)},
                 files = [m \in {NameOf(Old(n))} |-> [id |-> 0, owner |-> Nobody, size |-> 1]]
          PROVE  <1>3!:
      <3>1. n \in Nat
        BY RotationAssumption
      <3>2. Old(n) \in Entry /\ NameOf(Old(n)) \in Names /\ Old(n).rotation = n /\ Old(n).size = 1
        BY <3>1 DEF Entry, NameOf, Names
      <3> HIDE DEF Old
      <3> QED
        BY <2>2, <3>1, <3>2 DEF Lists, Bounded, NamesDiffer, File, ListedIn
    <2> QED
      BY <1>2, <2>1, <2>2
  <1>4. TypeInv
    BY <1>1, <1>3 DEF TypeInv, NoEntry, Entry, Lists, NoTally
  <1>5. ListInv
    <2>1. InOrder(current, files)
      BY <1>3 DEF InOrder
    <2> QED
      BY <1>1, <1>3, <2>1 DEF ListInv, Bounded, NamesDiffer, InOrder
  <1>6. HolderInv
    BY <1>1 DEF HolderInv, Creating, Sizing, Sweeping
  <1>7. OwnInv /\ GoneInv
    BY <1>1 DEF OwnInv, Living, GoneInv
  <1>8. FileInv /\ AgeInv
    BY <1>1, <1>3 DEF FileInv, AgeInv
  <1>9. SizeInv
    BY <1>1, <1>3 DEF SizeInv, EntrySizes, OpenSizes, ClosedSizes, ReportedSize, TrueSize, Fresh, Exists
  <1>10. PruneInv
    BY <1>1 DEF PruneInv
  <1> QED
    BY <1>4, <1>5, <1>6, <1>7, <1>8, <1>9, <1>10 DEF ContainersInv

\* Whatever processes do, and wherever they fail or die, what holds of the root file's
\* lists and the container files keeps holding (file_database_handle's transactions,
\* core/file_database.cpp:248-462).
THEOREM ContainersInductive == SpecContainers => []ContainersInv
  <1>1. InitContainers => ContainersInv
    BY ContainersInit
  <1>2. ContainersInv /\ [NextContainers]_containerVars => ContainersInv'
    <2> SUFFICES ASSUME ContainersInv, [NextContainers]_containerVars
                 PROVE  ContainersInv'
      OBVIOUS
    <2> USE DEF ContainersInv
    <2>1. CASE NextContainers
      BY <2>1, TypeStep, ListStep, HolderStep, OwnStep, FileStep, GoneStep, AgeStep, SizeStep,
         PruneStep
    <2>2. CASE UNCHANGED containerVars
      <3> USE <2>2 DEF containerVars, rootVars, dirVars, histVars, opVars
      <3>1. TypeInv'
        BY DEF TypeInv
      <3>2. ListInv'
        BY DEF ListInv
      <3>3. HolderInv'
        BY DEF HolderInv, Exists
      <3>4. OwnInv'
        BY DEF OwnInv, Living, Exists
      <3>5. FileInv' /\ GoneInv' /\ AgeInv'
        BY DEF FileInv, GoneInv, AgeInv, Given
      <3>6. SizeInv'
        BY DEF SizeInv, EntrySizes, OpenSizes, ClosedSizes, ReportedSize, TrueSize, Fresh, Exists,
           Reporting
      <3>7. PruneInv'
        BY PruneWaits
      <3> QED
        BY <3>1, <3>2, <3>3, <3>4, <3>5, <3>6, <3>7
    <2> QED
      BY <2>1, <2>2
  <1> QED
    BY <1>1, <1>2, PTL DEF SpecContainers

\* A sink keeps its container, its lock on it and its entry, whatever other processes
\* create, prune and unlink (file_database.cpp:373-396, 817-832).
THEOREM ContainersStay == SpecContainers => []OwnersKeepContainers
  <1>1. ContainersInv => OwnersKeepContainers
    BY DEF ContainersInv, OwnInv, OwnersKeepContainers, Living, Listed, ListedIn, Exists
  <1> QED
    BY <1>1, ContainersInductive, PTL

\* A container file is listed from its creation to its removal (file_database.cpp:271-314,
\* 356-396, 817-832): the exceptions are failures, crashes and what comes after unlink_all()
\* unlocked the root file.
THEOREM NoFileForgotten == SpecContainers => []FilesListed
  <1>1. ASSUME ContainersInv PROVE FilesListed
    <2> SUFFICES ASSUME NEW n \in DOMAIN files, ~(IdAt(n) \subseteq strays \cup late)
                 PROVE  \/ Listed(n) /\ ~removed
                        \/ holder # Nobody /\ n = NameOf(at)
      BY DEF FilesListed
    <2>1. ~Given(n)
      BY DEF Given, IdAt
    <2>2. ~removed
      BY <1>1, <2>1 DEF ContainersInv, GoneInv
    <2>3. CASE ListedIn(current, n)
      BY <2>2, <2>3 DEF Listed, ListedIn
    <2>4. CASE step \in {"named", "unregistered"} /\ n = NameOf(at)
      BY <1>1, <2>4 DEF ContainersInv, HolderInv
    <2> QED
      BY <1>1, <2>1, <2>3, <2>4 DEF ContainersInv, FileInv
  <1> QED
    BY <1>1, ContainersInductive, PTL

\* A prune with limits keeps the newest containers of each sink, and one file more than
\* max_files_to_keep (file_database.cpp:411-462).
THEOREM PruneTakesTheOldest == SpecContainers => []PruneKeepsNewest
  <1>1. ASSUME ContainersInv PROVE PruneKeepsNewest
    <2>1. TypeInv /\ PruneInv
      BY <1>1 DEF ContainersInv
    <2> SUFFICES ASSUME step = "limiting" PROVE Cardinality(kept) <= MaxFiles + 1
      BY <2>1 DEF PruneKeepsNewest, PruneInv
    <2>2. /\ IsFiniteSet(kept) /\ Cardinality(kept) <= tally.files /\ tally.files <= MaxFiles + 1
          /\ tally.files \in Nat
      BY <2>1 DEF PruneInv, TypeInv
    <2> QED
      BY <2>2, FS_CardinalityType, LimitAssumption
  <1> QED
    BY <1>1, ContainersInductive, PTL

\* The size of an entry is that of its file, whoever found it out: a sink that reports it, or
\* a prune that looks (file_database.cpp:328-344, 888-904).
THEOREM EntriesTellSizes == SpecContainers => []SizesTrue
  <1>1. ASSUME ContainersInv PROVE SizesTrue
    <2> SUFFICES ASSUME NEW e \in current, Exists(NameOf(e)), IdAt(NameOf(e)) \cap reused = {}
                 PROVE  e.size = 0 \/ Max({1, e.size}) = Max({1, files[NameOf(e)].size})
      BY DEF SizesTrue
    <2>1. Fresh(NameOf(e))
      BY DEF Fresh, Exists, IdAt
    <2> QED
      BY <1>1, <2>1 DEF ContainersInv, SizeInv, EntrySizes, TrueSize
  <1> QED
    BY <1>1, ContainersInductive, PTL
=============================================================================
