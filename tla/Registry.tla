------------------------------ MODULE Registry ------------------------------
(***************************************************************************)
(* What the root file of a file database promises to those who work on it: *)
(* one current list of entries that only the holder of the lock replaces,  *)
(* at once and by what it made of the list it found.                       *)
(***************************************************************************)
CONSTANTS
    Handles,     \* who may take part
    Data,        \* lists of entries
    NoEntries,   \* the empty one
    Tidied,      \* for a list: it without the entries marked as erased
    None,        \* there is no list yet
    Nobody       \* the lock is free

VARIABLES
    current,     \* the list that everybody would read
    holder,      \* who holds the lock
    intent       \* the list the holder works on

registryVars == <<current, holder, intent>>

InitRegistry == current = None /\ holder = Nobody /\ intent = NoEntries

\* A transaction starts from the current list; its erased entries are gone.
Acquire(h) ==
    /\ holder = Nobody
    /\ holder' = h
    /\ intent' = IF current = None THEN NoEntries ELSE Tidied[current]
    /\ UNCHANGED current

Change(h, d) ==
    /\ holder = h
    /\ intent' = d
    /\ UNCHANGED <<current, holder>>

Commit(h) ==
    /\ holder = h
    /\ current' = intent
    /\ UNCHANGED <<holder, intent>>

\* The end of a transaction, orderly or not: what was not committed is void.
Release(h) ==
    /\ holder = h
    /\ holder' = Nobody /\ intent' = NoEntries
    /\ UNCHANGED current

NextRegistry ==
    \E h \in Handles :
        \/ Acquire(h) \/ Commit(h) \/ Release(h)
        \/ \E d \in Data : Change(h, d)

SpecRegistry == InitRegistry /\ [][NextRegistry]_registryVars
=============================================================================
