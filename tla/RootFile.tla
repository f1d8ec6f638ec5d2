------------------------------ MODULE RootFile ------------------------------
(***************************************************************************)
(* The root file of a file database (file_database_handle): a magic and    *)
(* two slots, each of which holds one revision of the contents.  A         *)
(* transaction takes the exclusive file lock, fetches the newest contents  *)
(* and writes the next revision over the older slot.  Any number of        *)
(* handles, in one or several processes, share the file; any of them may   *)
(* disappear at any step, and with it its locks.                           *)
(*                                                                         *)
(* What the contents are is left open here (Data); BusRegistry says it.    *)
(* A slot is written block by block and has no checksum: one that was not  *)
(* written to its end does not decode (Torn), or it decodes to a mixture   *)
(* of its old and its new contents.                                        *)
(***************************************************************************)
EXTENDS Naturals

CONSTANTS
    Handles,      \* file_database_handle objects
    Data,         \* what contents_t lists besides its revision
    NoEntries,    \* a contents_t that lists nothing
    Mixes,        \* for entries: what a slot may list after only some of the
                  \* blocks that list them were written
    Tidied,       \* for entries: those without the bus entries marked as erased
    Torn,         \* a slot that does not decode
    Closed,       \* a handle that is not open
    Nobody,       \* no handle holds the exclusive lock
    MaxRevision   \* bound on the revisions

ASSUME DataAssumption == NoEntries \in Data
ASSUME MixesAssumption == Mixes \in [Data -> SUBSET Data] /\ Mixes[NoEntries] = {}
ASSUME TidiedAssumption ==
    /\ Tidied \in [Data -> Data] /\ Tidied[NoEntries] = NoEntries
    /\ \A d \in Data : Tidied[Tidied[d]] = Tidied[d]
ASSUME NobodyAssumption == Nobody \notin Handles
ASSUME RevisionAssumption == MaxRevision \in Nat

Contents == [revision : Nat, entries : Data]
Pristine == [revision |-> 0, entries |-> NoEntries]

\* Bus entries marked as erased are dropped: from whatever is fetched, and from
\* what prune_message_buses() remembers of the contents that it wrote.
Tidy(c) == [revision |-> c.revision, entries |-> Tidied[c.entries]]

ASSUME TornAssumption == Torn \notin Contents /\ Torn \notin Data
ASSUME ClosedAssumption == Closed \notin Contents

VARIABLES
    root,     \* "absent", "sized" without a magic, or "magic"
    slots,    \* the two revision slots
    cache,    \* mContents of each handle
    holder,   \* who holds the exclusive lock
    stage,    \* how far the holder is
    draft,    \* the contents the holder is about to write
    (* history *)
    ready,    \* the file was initialised to the end
    rewound   \* a revision was rewritten in place and lost, or seen by others before

rootVars == <<root, slots, cache, holder, stage, draft, ready, rewound>>

InitRoot ==
    /\ root = "absent"
    /\ slots = [i \in {0, 1} |-> Torn]
    /\ cache = [h \in Handles |-> Closed]
    /\ holder = Nobody /\ stage = "none" /\ draft = Pristine
    /\ ready = FALSE /\ rewound = FALSE

-----------------------------------------------------------------------------
Open(h) == cache[h] # Closed

Decodable == {i \in {0, 1} : slots[i] # Torn}

\* Contents of slot i replace c only if they are newer.
Newer(c, i) == i \in Decodable /\ c.revision < slots[i].revision
Adopt_AnyRevision(c, i) ==  \* mutant: the slot that decodes last wins
    IF i \in Decodable THEN slots[i] ELSE c
Adopt(c, i) == IF Newer(c, i) THEN slots[i] ELSE c

\* The slot that the contents a handle ends up with belong to.
Origin(c) == IF Newer(Adopt(c, 0), 1) THEN 1
             ELSE IF Newer(c, 0) THEN 0 ELSE c.revision % 2

\* fetch_content_impl() for a handle that remembers c.  A revision in the wrong
\* slot is corrected; see SlotParity.  What is left is sorted and tidied.
Fetched_FirstOnly(c) == Tidy(Adopt(c, 0))  \* mutant: the second slot is not looked at
Fetched(c) ==
    LET f == Adopt(Adopt(c, 0), 1)
    IN Tidy(IF f.revision % 2 = Origin(c)
            THEN f
            ELSE [revision |-> f.revision + 1, entries |-> f.entries])

\* The slot a revision is written to.
SlotOf(revision) == revision % 2

\* A slot after some of the draft's blocks were written.
PartlyWritten ==
    {Torn} \cup {[revision |-> draft.revision, entries |-> d] : d \in Mixes[draft.entries]}

\* The draft rewrites the revision its handle works on: unlink_all*.
InPlace == holder \in Handles /\ Open(holder) /\ draft.revision = cache[holder].revision

-----------------------------------------------------------------------------
(* Opening, fetching and leaving.                                           *)

\* file_database() on a file that exists.
OpenExisting(h) ==
    /\ ~Open(h) /\ holder = Nobody
    /\ root = "magic" /\ Decodable # {}
    /\ cache' = [cache EXCEPT ![h] = Fetched(Pristine)]
    /\ UNCHANGED <<root, slots, holder, stage, draft, ready, rewound>>

\* file_database() on a new file: it gets its size first, then its magic, then
\* revision 0.
OpenNew(h) ==
    /\ ~Open(h) /\ holder = Nobody /\ root = "absent"
    /\ root' = "sized"
    /\ holder' = h /\ stage' = "sized" /\ draft' = Pristine
    /\ UNCHANGED <<slots, cache, ready, rewound>>

WriteMagic(h) ==
    /\ holder = h /\ stage = "sized"
    /\ root' = "magic" /\ stage' = "ready"
    /\ UNCHANGED <<slots, cache, holder, draft, ready, rewound>>

\* clone() copies what the handle remembers.
Clone(h, g) ==
    /\ Open(h) /\ ~Open(g) /\ holder \notin {h, g}
    /\ cache' = [cache EXCEPT ![g] = cache[h]]
    /\ UNCHANGED <<root, slots, holder, stage, draft, ready, rewound>>

\* fetch_content() under the shared lock.
Refresh(h) ==
    /\ Open(h) /\ holder = Nobody /\ Decodable # {}
    /\ cache' = [cache EXCEPT ![h] = Fetched(cache[h])]
    /\ UNCHANGED <<root, slots, holder, stage, draft, ready, rewound>>

\* The handle is closed, or its process dies at whatever it was doing.
Leave(h) ==
    /\ Open(h) \/ holder = h
    /\ cache' = [cache EXCEPT ![h] = Closed]
    /\ IF holder = h
       THEN holder' = Nobody /\ stage' = "none" /\ draft' = Pristine
            /\ rewound' = (rewound \/ (stage = "torn" /\ InPlace))
       ELSE UNCHANGED <<holder, stage, draft, rewound>>
    /\ UNCHANGED <<root, slots, ready>>

-----------------------------------------------------------------------------
(* Transactions.                                                            *)

\* The exclusive lock is taken and the contents are fetched.
Begin(h) ==
    /\ Open(h) /\ holder = Nobody /\ Decodable # {}
    /\ holder' = h /\ stage' = "begun"
    /\ cache' = [cache EXCEPT ![h] = Fetched(cache[h])]
    /\ draft' = Fetched(cache[h])
    /\ UNCHANGED <<root, slots, ready, rewound>>

\* A copy of the contents is changed and gets the next revision.
Prepare_SameRevision(h, d) ==  \* mutant: the revision is not raised
    /\ holder = h /\ stage \in {"begun", "written"}
    /\ draft.revision < MaxRevision
    /\ draft' = [revision |-> draft.revision, entries |-> d]
    /\ stage' = "ready"
    /\ UNCHANGED <<root, slots, cache, holder, ready, rewound>>
Prepare(h, d) ==
    /\ holder = h /\ Open(h) /\ stage \in {"begun", "written"}
    /\ draft.revision < MaxRevision
    /\ draft' = [revision |-> draft.revision + 1, entries |-> d]
    /\ stage' = "ready"
    /\ UNCHANGED <<root, slots, cache, holder, ready, rewound>>

\* unlink_all*(): the remembered contents themselves are changed and written
\* back under the revision they have.  Entries are only removed, and nothing is
\* left to remove from no entries.
PrepareInPlace(h, d) ==
    /\ holder = h /\ Open(h) /\ stage = "begun"
    /\ draft.entries = NoEntries => d = NoEntries
    /\ draft' = [revision |-> draft.revision, entries |-> d]
    /\ cache' = [cache EXCEPT ![h] = draft']
    /\ stage' = "ready"
    /\ rewound' = (rewound \/ \E g \in Handles \ {h} :
                                 Open(g) /\ cache[g].revision >= draft.revision)
    /\ UNCHANGED <<root, slots, holder, ready>>

\* retire_to_storage(): the slot's first blocks are overwritten, ...
Tear(h) ==
    /\ holder = h /\ stage = "ready"
    /\ \E c \in PartlyWritten : slots' = [slots EXCEPT ![SlotOf(draft.revision)] = c]
    /\ stage' = "torn"
    /\ UNCHANGED <<root, cache, holder, draft, ready, rewound>>

\* ... and after its last block it holds the draft.
Complete(h) ==
    /\ holder = h /\ stage = "torn"
    /\ slots' = [slots EXCEPT ![SlotOf(draft.revision)] = draft]
    /\ stage' = "written" /\ ready' = TRUE
    /\ UNCHANGED <<root, cache, holder, draft, rewound>>

\* Writing fails.  The stream's destructor still writes what it holds, so the
\* slot may be untouched, partly written or complete.
FailToWrite(h) ==
    /\ holder = h /\ stage \in {"ready", "torn"}
    /\ stage' = "failed"
    /\ \/ /\ \E c \in PartlyWritten :
                slots' = [slots EXCEPT ![SlotOf(draft.revision)] = c]
          /\ UNCHANGED ready
       \/ slots' = [slots EXCEPT ![SlotOf(draft.revision)] = draft] /\ ready' = TRUE
       \/ stage = "ready" /\ UNCHANGED <<slots, ready>>
    /\ rewound' = (rewound \/ (InPlace /\ slots'[SlotOf(draft.revision)] # draft))
    /\ UNCHANGED <<root, cache, holder, draft>>

\* The lock is released.  Only some operations remember what they wrote.
Release(h, remembered) ==
    /\ holder = h /\ stage \in {"begun", "written", "failed"}
    /\ holder' = Nobody /\ stage' = "none" /\ draft' = Pristine
    /\ cache' = [cache EXCEPT ![h] = remembered]
    /\ UNCHANGED <<root, slots, ready, rewound>>
Remember(h) == stage = "written" /\ Release(h, draft)
Forget(h) == (stage = "written" => Open(h)) /\ Release(h, cache[h])
RememberTidied(h) ==
    stage \in {"begun", "written"} /\ Open(h) /\ Release(h, Tidy(draft))

NextCommit ==
    \E h \in Handles :
        \/ OpenExisting(h) \/ OpenNew(h) \/ WriteMagic(h) \/ Refresh(h) \/ Leave(h)
        \/ \E g \in Handles : Clone(h, g)
        \/ Begin(h) \/ Tear(h) \/ Complete(h) \/ FailToWrite(h)
        \/ \E d \in Data : Prepare(h, d)
        \/ Remember(h) \/ Forget(h) \/ RememberTidied(h)

NextRoot == NextCommit \/ \E h \in Handles, d \in Data : PrepareInPlace(h, d)

SpecRoot == InitRoot /\ [][NextRoot]_rootVars

\* Nobody calls unlink_all*().
SpecCommits == InitRoot /\ [][NextCommit]_rootVars

-----------------------------------------------------------------------------
(* Properties.                                                              *)

TypeOKRoot ==
    /\ root \in {"absent", "sized", "magic"}
    /\ slots \in [{0, 1} -> Contents \cup {Torn}]
    /\ cache \in [Handles -> Contents \cup {Closed}]
    /\ holder \in Handles \cup {Nobody}
    /\ stage \in {"none", "sized", "begun", "ready", "torn", "written", "failed"}
    /\ draft \in Contents
    /\ ready \in BOOLEAN /\ rewound \in BOOLEAN

\* Odd revisions are in the second slot, even ones in the first: the
\* correction at the end of fetch_content_impl() never applies.
SlotParity == \A i \in Decodable : slots[i].revision % 2 = i

\* The slot that is being rewritten in place: nobody else sees it before the
\* lock is released.
Rewriting == stage \in {"ready", "torn"} /\ InPlace

\* Once initialised, the database can be opened whatever crashed since.
Openable == ready /\ ~rewound /\ ~Rewriting => Decodable # {}

\* The newest revision that can be read.
Newest(i) == i \in Decodable /\ \A j \in Decodable : slots[j].revision <= slots[i].revision

\* c is s, but for erased entries.
Same(c, s) == c \in {s, Tidy(s)}

\* A transaction starts from the newest contents, however long ago its handle
\* last looked at the file.
BuildsOnNewest ==
    stage = "begun" /\ ~rewound => \A i \in {0, 1} : Newest(i) => Same(draft, slots[i])

\* What a handle remembers is the newest contents of the file or of an older
\* revision; but for erased entries a revision never means two contents.
NoStrayCache ==
    ~rewound /\ ~Rewriting => \A h \in Handles : Open(h) =>
        \E i \in Decodable : cache[h].revision < slots[i].revision \/ Same(cache[h], slots[i])

\* The slots that still decode if the holder disappears now, whatever it left.
Safe == {i \in Decodable : stage = "torn" => i # SlotOf(draft.revision)}

\* No step, crash or failure takes back the newest revision: as long as nothing
\* is rewritten in place some safe slot has it or a newer one.
NewestNeverLost ==
    [][~rewound' /\ ~Rewriting => \A i \in Safe :
         \E j \in Safe' : slots'[j].revision >= slots[i].revision]_rootVars

\* What the file lists: the entries of the newest safe slot.
Listed ==
    IF Safe = {} THEN Torn
    ELSE slots[CHOOSE i \in Safe : \A j \in Safe : slots[j].revision <= slots[i].revision].entries

Abstract == INSTANCE Registry
            WITH None <- Torn, current <- Listed, intent <- draft.entries

\* As long as contents fit one block and nothing is rewritten in place, the
\* root file is a Registry: commits are atomic, crashes and failures included.
ImplementsRegistry == Abstract!SpecRegistry

-----------------------------------------------------------------------------
(* Why they hold: an inductive invariant.                                   *)

\* Who holds the lock and what it is doing.
HolderInv ==
    /\ (holder = Nobody) <=> (stage = "none")
    /\ holder # Nobody /\ ~Open(holder) =>
          /\ stage # "begun" /\ draft = Pristine
          /\ stage \in {"sized", "ready", "torn"} => ~ready
    /\ holder # Nobody /\ Open(holder) =>
          /\ stage # "sized"
          /\ stage = "begun" => draft = cache[holder]

\* Nothing decodes and no handle is open before revision 0 is complete.
InitialisedInv ==
    /\ ~ready => Decodable = {} /\ \A h \in Handles : ~Open(h)
    /\ root = "absent" => ~ready /\ holder = Nobody
    /\ stage = "written" => ready

\* Revision 0 lists nothing.
OriginInv ==
    /\ \A i \in Decodable : slots[i].revision = 0 => slots[i] = Pristine
    /\ \A h \in Handles : Open(h) /\ cache[h].revision = 0 => cache[h] = Pristine
    /\ draft.revision = 0 => draft = Pristine

\* Only the holder remembers the revision that it rewrites in place; until it
\* touches the slot, the file has that revision.
RewriteInv ==
    /\ cache[holder] = draft
    /\ \A h \in Handles \ {holder} : Open(h) => cache[h].revision < draft.revision
    /\ stage = "ready" => \E i \in Decodable : slots[i].revision = draft.revision

\* The draft's revision is new; its predecessor is in the other slot, and nobody
\* remembers anything newer.
CommitInv ==
    /\ \E i \in Decodable :
          /\ slots[i].revision + 1 = draft.revision
          /\ \A h \in Handles : Open(h) =>
                cache[h].revision < slots[i].revision \/ Same(cache[h], slots[i])
    /\ stage = "ready" => \A i \in Decodable : slots[i].revision < draft.revision

\* The draft is the newest contents, or about to be.
DraftInv ==
    ~rewound /\ holder # Nobody /\ Open(holder) =>
        /\ \A i \in Decodable : slots[i].revision <= draft.revision
        /\ stage = "begun" => \E i \in Decodable : Same(draft, slots[i])
        /\ stage \in {"ready", "torn"} => RewriteInv \/ CommitInv

WrittenInv ==
    ~rewound /\ stage = "written" =>
        /\ slots[SlotOf(draft.revision)] = draft
        /\ \A i \in Decodable : slots[i].revision <= draft.revision

RootInv ==
    /\ TypeOKRoot /\ SlotParity /\ HolderInv /\ InitialisedInv /\ OriginInv
    /\ Openable /\ NoStrayCache /\ DraftInv /\ WrittenInv
=============================================================================
