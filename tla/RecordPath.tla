----------------------------- MODULE RecordPath -----------------------------
(***************************************************************************)
(* The path of a record from the call to its container: a process logs to  *)
(* a buffer bus, retires the messages to the file sink of its fabric, and  *)
(* ends and replaces the container.  How the sink buffers and what it does *)
(* on failures is in FileSink; here all it is given gets written.          *)
(***************************************************************************)
EXTENDS BufferBus, LogClock

CONSTANTS
    Threshold,      \* of the sink
    AttributeLists, \* attributes a sink may have
    MaxContainers   \* bound on the containers

VARIABLES
    attributes,  \* mContainerInfo of the sink
    containers,  \* the containers: epoch, messages and whether their list was ended
    running      \* the process runs

containerVars == <<attributes, containers, running>>

InitPath ==
    /\ InitBus /\ InitClock
    /\ attributes \in AttributeLists
    /\ containers = <<>> /\ running = TRUE

Current == Len(containers)
IsOpen == Current > 0 /\ ~containers[Current].ended

\* rotate() writes the header of a new container.
OpenContainer ==
    /\ ~IsOpen /\ Current < MaxContainers
    /\ containers' = Append(containers, [epoch |-> reference, messages |-> <<>>, ended |-> FALSE])
    /\ UNCHANGED <<busVars, attributes, running, steady>>

Passes(message) == message.kind # "record" \/ message.severity >= Threshold

\* retire_log_records(): the consumer takes the messages one by one.
Retire ==
    /\ IsOpen /\ blocks # <<>>
    /\ \E takesEffect \in BOOLEAN :
         LET handed == Handed(takesEffect)
             passing == InOrder({k \in DOMAIN handed : Passes(handed[k])}, LAMBDA i, j : i < j)
         IN containers' = [containers EXCEPT ![Current].messages =
                             @ \o [k \in DOMAIN passing |-> handed[passing[k]].raw]]
    /\ accepted' = [k \in DOMAIN accepted |->
                      IF accepted[k].into = 0 THEN [accepted[k] EXCEPT !.into = Current]
                      ELSE accepted[k]]
    /\ ClearContent
    /\ UNCHANGED <<attributes, running, steady>>

\* finalize(), or the rotation of a container that is too large.
EndContainer ==
    /\ IsOpen
    /\ containers' = [containers EXCEPT ![Current].ended = TRUE]
    /\ UNCHANGED <<busVars, attributes, running, steady>>

\* The process ends or is killed.
Leave ==
    /\ running' = FALSE
    /\ UNCHANGED <<busVars, steady, attributes, containers>>

ClockStep ==
    \/ SetClock
    \/ \E t \in Syncers :
          BeginSync(t) \/ SampleSystem(t, steady) \/ SampleSteady(t, steady) \/ EndSync(t, steady)

PathStep ==
    /\ running
    /\ \/ /\ (Tick \/ Call) /\ UNCHANGED <<containerVars, clockVars>>
       \/ /\ OpenContainer \/ Retire \/ EndContainer \/ Leave
          /\ UNCHANGED clockVars
       \/ /\ ClockStep /\ UNCHANGED <<busVars, steady, containerVars>>
=============================================================================
