------------------------------ MODULE LogClock ------------------------------
(***************************************************************************)
(* The epoch of the log clock (log_clock), which relates its steady time   *)
(* to the system's, and its synchronisation after the system's clock was   *)
(* set.  Threads may call try_sync_epoch() at any time.                    *)
(*                                                                         *)
(* Times are in milliseconds, the smallest drift that is corrected.  The   *)
(* steady reference never changes, so an epoch is given by the difference  *)
(* of its references, and the system's clock by its lead over the steady   *)
(* one.  The two clocks are read by the arguments of one constructor call, *)
(* in an order that C++ leaves open, and time may pass in between.         *)
(***************************************************************************)
EXTENDS Integers

CONSTANTS
    Syncers,     \* threads that synchronise the epoch
    Leads,       \* leads that the system's clock may be set to
    MaxSets,     \* bound on how often it is set
    StartPauses  \* times that may pass between the readings that initialise the epoch

ASSUME LeadsAssumption == Leads \subseteq Int
ASSUME StartPausesAssumption == StartPauses \subseteq Nat

VARIABLES
    lead,      \* system time less steady time
    reference, \* epoch_.system_reference less epoch_.steady_reference
    sync,      \* each syncer's step (which clock it has read), oldSystemReference,
               \* the first of currentEpoch's references and when it was read
    (* history *)
    leads,     \* the leads there have been
    pause,     \* the longest time that passed between two readings of an epoch
    sets       \* how often the clock was set

clockVars == <<lead, reference, sync, leads, pause, sets>>

Idle == [step |-> "idle", old |-> 0, read |-> 0, at |-> 0]

\* The static initialisation reads both clocks too.
InitClock ==
    /\ lead = 0 /\ leads = {0} /\ sets = 0
    /\ pause \in StartPauses /\ reference \in {-pause, pause}
    /\ sync = [t \in Syncers |-> Idle]

SetClock ==
    /\ sets < MaxSets /\ sets' = sets + 1
    /\ \E l \in Leads \ {lead} : lead' = l /\ leads' = leads \cup {l}
    /\ UNCHANGED <<reference, sync, pause>>

BeginSync(t) ==
    /\ sync[t].step = "idle"
    /\ sync' = [sync EXCEPT ![t] = [step |-> "sample", old |-> reference, read |-> 0, at |-> 0]]
    /\ UNCHANGED <<lead, reference, leads, pause, sets>>

\* Either clock is read first.
SampleSystem(t, steady) ==
    /\ sync[t].step = "sample"
    /\ sync' = [sync EXCEPT ![t] =
                 [step |-> "system", old |-> @.old, read |-> steady + lead, at |-> steady]]
    /\ UNCHANGED <<lead, reference, leads, pause, sets>>

SampleSteady(t, steady) ==
    /\ sync[t].step = "sample"
    /\ sync' = [sync EXCEPT ![t] =
                 [step |-> "steady", old |-> @.old, read |-> steady, at |-> steady]]
    /\ UNCHANGED <<lead, reference, leads, pause, sets>>

\* Both readings, the other clock's taken now.
SystemRead(t, steady) == IF sync[t].step = "system" THEN sync[t].read ELSE steady + lead
SteadyRead(t, steady) == IF sync[t].step = "steady" THEN sync[t].read ELSE steady

Drift(t, steady) == SystemRead(t, steady) - SteadyRead(t, steady) - sync[t].old

\* compare_exchange_strong() of the reference that was loaded first.
Exchange_Adds(t, drift) == reference' = reference + drift  \* mutant: fetch_add
Exchange(t, drift) == reference' = IF reference = sync[t].old THEN sync[t].old + drift ELSE reference

\* The other clock is read, and a drift of a millisecond or more is corrected.
EndSync(t, steady) ==
    /\ sync[t].step \in {"system", "steady"}
    /\ sync' = [sync EXCEPT ![t] = Idle]
    /\ pause' = IF steady - sync[t].at > pause THEN steady - sync[t].at ELSE pause
    /\ IF Drift(t, steady) = 0 THEN UNCHANGED reference ELSE Exchange(t, Drift(t, steady))
    /\ UNCHANGED <<lead, leads, sets>>

-----------------------------------------------------------------------------
\* However many threads synchronise at once, a drift is corrected once: the epoch is one
\* the system's clock has given, early or late by no more than the time that passed
\* between two readings of the clocks.
EpochTrue == \E l \in leads : reference \in l - pause .. l + pause
=============================================================================
