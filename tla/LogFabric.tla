----------------------------- MODULE LogFabric -----------------------------
(***************************************************************************)
(* The log fabric: it takes batches of messages from the bus and hands     *)
(* them to its sinks, then has the sinks write what they buffered.  Each   *)
(* sink has a frontend, which drops records below its threshold and keeps  *)
(* the sink out after a failure, and a backend, which is a FileSink.       *)
(*                                                                         *)
(* All calls are made on one thread; only the clock's epoch may change at  *)
(* any time.                                                               *)
(***************************************************************************)
EXTENDS FileSink

CONSTANTS
    MessageSizes,  \* sizes of messages in units
    BatchSize,     \* most messages of a batch
    MaxMessages    \* bound on the messages

ASSUME BatchAssumption == MessageSizes \subseteq Nat \ {0} /\ BatchSize \in Nat

VARIABLES
    attached,    \* mSinks
    front,       \* the state of each sink's frontend
    task,        \* what the fabric is doing
    todo,        \* the sinks that are yet to be called
    served,      \* the sinks that took all batches of this retire_log_records()
    batch,       \* the batch being handed over
    (* history *)
    sent,        \* how many messages came from the bus
    offered,     \* for each sink: what came while it was active and reaches its threshold
    flawed       \* sinks that ever failed

fabricVars == <<attached, front, task, todo, served, batch, sent, offered, flawed>>
history == <<sent, offered, flawed>>

InitFabric ==
    /\ InitSinks
    /\ attached = {} /\ front = [s \in Sinks |-> "none"]
    /\ task = "none" /\ todo = {} /\ served = {} /\ batch = <<>>
    /\ sent = 0 /\ offered = [s \in Sinks |-> {}] /\ flawed = {}

-----------------------------------------------------------------------------
(* sink_frontend_base                                                       *)

Active(s) == front[s] = "active"

\* The units of those messages that reach the threshold of a sink.
Passing(s, messages) == UNION {Range(Units(m)) : m \in {m \in Range(messages) : Passes(s, m)}}

Returned ==
    /\ step \in {"done", "failed"}
    /\ step' = "idle" /\ op' = "none" /\ out' = <<>> /\ at' = NoSink
BackendUnchanged ==
    UNCHANGED <<buffer, containers, current, backing, fileEpoch, epoch, failures, late>>
Fails(s) ==
    /\ front' = [front EXCEPT ![s] = "failed"]
    /\ flawed' = flawed \cup {s}

ClearLastStatus(s) ==
    /\ task = "none" /\ s \in attached /\ front[s] = "failed"
    /\ front' = [front EXCEPT ![s] = "active"]
    /\ UNCHANGED <<sinkVars, attached, task, todo, served, batch, history>>

-----------------------------------------------------------------------------
(* retire_log_records()                                                     *)

Message(n) == [n : {n}, size : MessageSizes, loud : BOOLEAN]
Batches ==
    UNION {{b \in [1 .. k -> UNION {Message(sent + i) : i \in 1 .. k}] :
               \A i \in 1 .. k : b[i].n = sent + i} : k \in 1 .. BatchSize}

\* consume_record_fn: a batch goes to those who took the batches before it.
NextBatch(whom) ==
    /\ \E b \in Batches :
         /\ sent + Len(b) <= MaxMessages
         /\ batch' = b /\ sent' = sent + Len(b)
         /\ offered' = [s \in Sinks |-> IF Active(s) THEN offered[s] \cup Passing(s, b)
                                        ELSE offered[s]]
    /\ task' = "offer" /\ todo' = {s \in whom : Active(s)} /\ served' = {}
    /\ UNCHANGED <<sinkVars, attached, front, flawed>>

BeginRetire == task = "none" /\ NextBatch(attached)
AnotherBatch == task = "offer" /\ todo = {} /\ step = "idle" /\ NextBatch(served)

Offer(s) ==
    /\ task = "offer" /\ s \in todo
    /\ Call(s, "consume", "write", batch)
    /\ todo' = todo \ {s}
    /\ UNCHANGED <<buffer, containers, current, backing, fileEpoch, epoch, failures, late>>
    /\ UNCHANGED <<attached, front, task, served, batch, history>>

Offered ==
    /\ task = "offer" /\ Returned /\ BackendUnchanged
    /\ IF step = "done"
       THEN served' = served \cup {at} /\ UNCHANGED <<front, flawed>>
       ELSE Fails(at) /\ UNCHANGED served
    /\ UNCHANGED <<attached, task, todo, batch, sent, offered>>

\* The bus has no more batches, or it failed and the sinks are not synced.
EndConsume ==
    /\ task = "offer" /\ todo = {} /\ step = "idle"
    /\ \/ task' = "sync" /\ todo' = {s \in attached : Active(s)}
       \/ task' = "none" /\ UNCHANGED todo
    /\ served' = {} /\ batch' = <<>>
    /\ UNCHANGED <<sinkVars, attached, front, history>>

-----------------------------------------------------------------------------
(* sync_sinks()                                                             *)

NotifyEpochChanged ==
    /\ task = "none" /\ task' = "sync"
    /\ todo' = {s \in attached : Active(s)}
    /\ UNCHANGED <<sinkVars, attached, front, served, batch, history>>

Sync_RotatesFirst(s) ==  \* mutant: the file is replaced before the buffer is written
    /\ task = "sync" /\ s \in todo
    /\ Call(s, "sync", "rotate", <<>>)
    /\ todo' = todo \ {s}
    /\ UNCHANGED <<buffer, containers, current, backing, fileEpoch, epoch, failures, late>>
    /\ UNCHANGED <<attached, front, task, served, batch, history>>
Sync(s) ==
    /\ task = "sync" /\ s \in todo
    /\ Call(s, "sync", "flush", <<>>)
    /\ todo' = todo \ {s}
    /\ UNCHANGED <<buffer, containers, current, backing, fileEpoch, epoch, failures, late>>
    /\ UNCHANGED <<attached, front, task, served, batch, history>>

SinkSynced ==
    /\ task = "sync" /\ Returned /\ BackendUnchanged
    /\ IF step = "done" THEN UNCHANGED <<front, flawed>> ELSE Fails(at)
    /\ UNCHANGED <<attached, task, todo, served, batch, sent, offered>>

EndSync ==
    /\ task = "sync" /\ todo = {} /\ step = "idle"
    /\ task' = "none"
    /\ UNCHANGED <<sinkVars, attached, front, todo, served, batch, history>>

-----------------------------------------------------------------------------
(* Sinks come and go.                                                       *)

Start(s, which, what, first) ==
    /\ task = "none" /\ task' = which
    /\ Call(s, what, first, <<>>)
    /\ UNCHANGED <<buffer, containers, current, backing, fileEpoch, epoch, failures, late>>
    /\ UNCHANGED <<todo, served, batch, history>>

CreateSink(s) ==
    /\ front[s] = "none"
    /\ Start(s, "create", "make", "rotate")
    /\ UNCHANGED <<attached, front>>

SinkCreated ==
    /\ task = "create" /\ op = "make" /\ step = "done"
    /\ Returned /\ BackendUnchanged
    /\ attached' = attached \cup {at} /\ front' = [front EXCEPT ![at] = "active"]
    /\ task' = "none"
    /\ UNCHANGED <<todo, served, batch, history>>

\* make() fails and the backend is destroyed.
CreateSinkFails ==
    /\ task = "create" /\ op = "make" /\ step = "failed"
    /\ op' = "destroy" /\ step' = "finalize"
    /\ Fails(at)
    /\ BackendUnchanged
    /\ UNCHANGED <<at, out, attached, task, todo, served, batch, sent, offered>>

DestroySink(s) ==
    /\ s \in attached /\ Active(s)
    /\ Start(s, "destroy", "finalize", "finalize")
    /\ UNCHANGED <<attached, front>>

SinkDestroyed ==
    /\ task = "destroy" /\ Returned /\ BackendUnchanged
    /\ IF step = "done"
       THEN /\ attached' = attached \ {at} /\ front' = [front EXCEPT ![at] = "gone"]
            /\ UNCHANGED flawed
       ELSE Fails(at) /\ UNCHANGED attached
    /\ task' = "none"
    /\ UNCHANGED <<todo, served, batch, sent, offered>>

\* A call of try_finalize() by the application.
FinalizeSink(s) ==
    /\ s \in attached /\ Active(s)
    /\ Start(s, "finalize", "finalize", "finalize")
    /\ UNCHANGED <<attached, front>>

SinkFinalized ==
    /\ task = "finalize" /\ Returned /\ BackendUnchanged
    /\ IF step = "done"
       THEN front' = [front EXCEPT ![at] = "disabled"] /\ UNCHANGED flawed
       ELSE Fails(at)
    /\ task' = "none"
    /\ UNCHANGED <<attached, todo, served, batch, sent, offered>>

\* remove_sink(), each sink of clear_sinks(), a released sink that is deleted.
RemoveSink(s) ==
    /\ s \in attached
    /\ Start(s, "remove", "destroy", "finalize")
    /\ attached' = attached \ {s} /\ front' = [front EXCEPT ![s] = "gone"]

\* The destructor of the base class tries once more.
FinalizeAgain ==
    /\ op = "destroy" /\ step = "failed" /\ at \in Rotating
    /\ op' = "abandon" /\ step' = "finalize"
    /\ flawed' = flawed \cup {at}
    /\ BackendUnchanged
    /\ UNCHANGED <<at, out, attached, front, task, todo, served, batch, sent, offered>>

\* The file is closed at the latest when its handle is destroyed.
SinkGone ==
    /\ task \in {"create", "remove"} /\ Returned
    /\ op = "abandon" \/ (op = "destroy" /\ (step = "done" \/ at \notin Rotating))
    /\ front' = [front EXCEPT ![at] = "gone"]
    /\ flawed' = IF step = "failed" THEN flawed \cup {at} ELSE flawed
    /\ task' = "none"
    /\ buffer' = [buffer EXCEPT ![at] = <<>>] /\ backing' = [backing EXCEPT ![at] = 0]
    /\ current' = [current EXCEPT ![at] = 0] /\ fileEpoch' = [fileEpoch EXCEPT ![at] = 0]
    /\ UNCHANGED <<containers, epoch, failures, late>>
    /\ UNCHANGED <<attached, todo, served, batch, sent, offered>>

NextFabric ==
    \/ NextSink /\ UNCHANGED fabricVars
    \/ ChangeEpoch /\ UNCHANGED fabricVars
    \/ BeginRetire \/ AnotherBatch \/ Offered \/ EndConsume
    \/ NotifyEpochChanged \/ SinkSynced \/ EndSync
    \/ SinkCreated \/ CreateSinkFails \/ SinkDestroyed \/ SinkFinalized
    \/ FinalizeAgain \/ SinkGone
    \/ \E s \in Sinks :
        \/ ClearLastStatus(s) \/ Offer(s) \/ Sync(s)
        \/ CreateSink(s) \/ DestroySink(s) \/ FinalizeSink(s) \/ RemoveSink(s)

SpecFabric == InitFabric /\ [][NextFabric]_<<sinkVars, fabricVars>>

-----------------------------------------------------------------------------
(* Properties.                                                              *)

\* What is in the files of a sink, and what of it are messages.
Contents(s) == [r \in DOMAIN containers[s] |-> containers[s][r].content]
MessagesIn(units) == {u \in Range(units) : u.kind = "message"}
Filed(s) == UNION {MessagesIn(content) : content \in Range(Contents(s))}
Stored(s) == Filed(s) \cup MessagesIn(buffer[s])

\* A sink that never failed has exactly the messages meant for it, whole, whatever other
\* sinks did and however its file was rotated; when it is gone or finalised they are all
\* in files.
SinkComplete ==
    \A s \in Sinks \ flawed :
        /\ s \in attached /\ task \in {"none", "sync"} /\ front[s] = "active"
              => Stored(s) = offered[s]
        /\ task = "none" /\ front[s] \in {"gone", "disabled"} => Filed(s) = offered[s]

Before(u, v) == u.n < v.n \/ (u.n = v.n /\ u.part < v.part)
Precedes(units, others) ==
    \A u \in MessagesIn(units), v \in MessagesIn(others) : Before(u, v)
Ascending(units) ==
    \A i, j \in DOMAIN units :
        i < j /\ units[i].kind = "message" /\ units[j].kind = "message" => Before(units[i], units[j])

\* Failures, retries after clear_last_status() and rotations lose messages but never
\* repeat or reorder them: not in a file, from one to the next, or in the buffer behind
\* them.
InOrder(contents, rest) ==
    /\ \A r \in DOMAIN contents : Ascending(contents[r]) /\ Precedes(contents[r], rest)
    /\ \A q, r \in DOMAIN contents : q < r => Precedes(contents[q], contents[r])
    /\ Ascending(rest)
StoredInOrder == \A s \in Sinks : InOrder(Contents(s), buffer[s])

\* As long as a sink is attached nothing that it took is dropped, no reset of the buffer
\* comes before its content is written, and what it takes goes behind what it has.
NothingDropped ==
    [][\A s \in attached \cap attached' :
          /\ Stored(s) \subseteq Stored(s)'
          /\ \A u \in Stored(s), v \in Stored(s)' \ Stored(s) : Before(u, v)]_<<sinkVars, fabricVars>>

\* A header, messages without a gap, and for a file that is complete a break.
WellFormed(content, complete) ==
    LET last == Len(content)
    IN /\ last > 0 /\ content[1] = Header
       /\ complete => last > 1 /\ content[last] = Break
       /\ \A i \in 2 .. (IF complete THEN last - 1 ELSE last) :
            /\ content[i].kind = "message"
            /\ content[i].part > 1 => content[i - 1] = [content[i] EXCEPT !.part = @ - 1]

\* Files of sinks that never failed are well-formed, if they were not rotated
\* while they were finalised.
FilesWellFormed ==
    \A s \in Sinks \ (flawed \cup late) : task = "none" =>
        \A r \in DOMAIN containers[s] :
            WellFormed(containers[s][r].content, r # backing[s])
=============================================================================
