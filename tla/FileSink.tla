------------------------------ MODULE FileSink ------------------------------
(***************************************************************************)
(* The backends that write record containers (file_sink_backend and        *)
(* db_file_sink_backend): an output buffer in front of a file that is      *)
(* replaced by a new one when it is too large or the log clock's epoch     *)
(* changed.  The containers are registered in a file database with their   *)
(* size.  A plain file_sink_backend has one file and no database.          *)
(*                                                                         *)
(* Bytes are counted in units: a message takes several, a container's      *)
(* header and the break that ends its list of records take one.  A call    *)
(* of a backend is a sequence of steps that ends in "done" or "failed";    *)
(* LogFabric makes the calls, one at a time.  Any write and any operation  *)
(* of the database may fail; a write that fails wrote nothing.             *)
(***************************************************************************)
EXTENDS Naturals, Sequences, SequencesExt

CONSTANTS
    Sinks,         \* the sinks that may be created
    Rotating,      \* those with a db_file_sink_backend
    Lenient,       \* those whose threshold every record reaches
    NoSink,        \* none of them is called
    Capacity,      \* size of the output buffer
    MaxFileSize,   \* a larger file is rotated
    MaxFailures,   \* bound on the failures
    MaxEpoch       \* bound on the changes of the log clock's epoch

ASSUME CapacityAssumption == Capacity \in Nat \ {0}
ASSUME KindsAssumption == Rotating \subseteq Sinks /\ Lenient \subseteq Sinks

VARIABLES
    buffer,      \* what each sink has buffered
    containers,  \* the containers of each sink by their rotation: content and registered size
    current,     \* mCurrentRotation, 0 for none
    backing,     \* the container in mBackingFile, 0 if there is no open file
    fileEpoch,   \* mFileEpoch
    epoch,       \* the log clock's epoch
    at,          \* the sink that is called, ...
    op,          \* ... for what, ...
    step,        \* ... how far the call is ...
    out,         \* ... and the messages it has yet to look at
    (* history *)
    failures,    \* how many operations failed
    late         \* the sinks whose file was replaced while it was finalised

sinkVars == <<buffer, containers, current, backing, fileEpoch, epoch, at, op, step, out,
              failures, late>>

Break == [kind |-> "break", n |-> 0, part |-> 0]
Header == [kind |-> "header", n |-> 0, part |-> 0]
Units(m) == [j \in 1 .. m.size |-> [kind |-> "message", n |-> m.n, part |-> j]]

InitSinks ==
    /\ buffer = [s \in Sinks |-> <<>>] /\ containers = [s \in Sinks |-> <<>>]
    /\ current = [s \in Sinks |-> 0] /\ backing = [s \in Sinks |-> 0]
    /\ fileEpoch = [s \in Sinks |-> 0] /\ epoch = 0
    /\ at = NoSink /\ op = "none" /\ step = "idle" /\ out = <<>>
    /\ failures = 0 /\ late = {}

-----------------------------------------------------------------------------
Room == Capacity - Len(buffer[at])
File == containers[at][backing[at]]

Call(s, what, first, messages) ==
    /\ step = "idle"
    /\ at' = s /\ op' = what /\ step' = first /\ out' = messages

Finalising == op \in {"finalize", "destroy", "abandon"}

\* The calls that do_rotate() of file_sink_backend gets: "abandon" is the
\* destructor of the base, after that of a db_file_sink_backend.
Plain == at \notin Rotating \/ op = "abandon"

\* The step after what sync_output() has to do.
Synced == IF Finalising THEN "finish" ELSE "done"

Goes(next) == step' = next /\ UNCHANGED <<at, op, epoch>>
Buffers(units) == buffer' = [buffer EXCEPT ![at] = units]

\* The open file gets some units, the buffer keeps others.
Writes(units, rest) ==
    /\ backing[at] # 0
    /\ containers' = [containers EXCEPT ![at][backing[at]].content = @ \o units]
    /\ Buffers(rest)
    /\ UNCHANGED <<current, backing, fileEpoch, failures>>

\* A write fails, necessarily if there is no open file.
WriteFails ==
    /\ IF backing[at] = 0 THEN UNCHANGED failures
       ELSE failures < MaxFailures /\ failures' = failures + 1
    /\ Goes("failed")
    /\ out' = <<>>
    /\ UNCHANGED <<containers, fileEpoch, late>>

\* Creating a file, asking for its size and closing it may fail as well.
StepFails ==
    /\ step \in {"create", "rotate", "finish"}
    /\ failures < MaxFailures /\ failures' = failures + 1
    /\ Goes("failed")
    /\ UNCHANGED <<buffer, containers, current, backing, fileEpoch, out, late>>

-----------------------------------------------------------------------------
(* Messages: concate_messages(), output_buffer::bulk_write() and            *)
(* do_bulk_write().                                                         *)

\* Quiet records are below the threshold of all but the lenient sinks.  Messages
\* of other kinds, malformed ones too, are not filtered.
Passes(s, m) == m.loud \/ s \in Lenient

PassOver ==
    /\ step = "write" /\ out # <<>> /\ ~Passes(at, Head(out))
    /\ out' = Tail(out)
    /\ Goes("write")
    /\ UNCHANGED <<buffer, containers, current, backing, fileEpoch, failures, late>>

MayWrite == step = "write" /\ out # <<>> /\ Passes(at, Head(out))
Fits(m) == m.size <= Room

WriteBuffered ==
    /\ MayWrite /\ Fits(Head(out))
    /\ Buffers(buffer[at] \o Units(Head(out)))
    /\ out' = Tail(out)
    /\ Goes("write")
    /\ UNCHANGED <<containers, current, backing, fileEpoch, failures, late>>

\* How much of a message that does not fit is put into the buffer before
\* do_bulk_write() gets the rest is up to output_buffer.
SplitAt == {0, Room}

\* A short rest is buffered again, a long one is written behind the buffer.
Spilled_RestOnly(first, rest) ==  \* mutant: the buffer is not written before it is reset
    IF Len(rest) < Capacity \div 2 THEN Writes(<<>>, rest)
    ELSE Writes(buffer[at] \o first \o rest, <<>>)
Spilled(first, rest) ==
    IF Len(rest) < Capacity \div 2 THEN Writes(buffer[at] \o first, rest)
    ELSE Writes(buffer[at] \o first \o rest, <<>>)

WriteThrough ==
    /\ MayWrite /\ ~Fits(Head(out))
    /\ \E k \in SplitAt :
         Spilled(SubSeq(Units(Head(out)), 1, k),
                 SubSeq(Units(Head(out)), k + 1, Head(out).size))
    /\ out' = Tail(out)
    /\ Goes("write")
    /\ UNCHANGED late

WriteThroughFails ==
    /\ MayWrite /\ ~Fits(Head(out))
    /\ \E k \in SplitAt : Buffers(buffer[at] \o SubSeq(Units(Head(out)), 1, k))
    /\ WriteFails
    /\ UNCHANGED <<current, backing>>

AllWritten ==
    /\ step = "write" /\ out = <<>>
    /\ Goes("done")
    /\ UNCHANGED <<buffer, containers, current, backing, fileEpoch, out, failures, late>>

-----------------------------------------------------------------------------
(* do_sync_output(), rotate() and do_rotate().                              *)

Flush_Keeps ==  \* mutant: the buffer is not reset
    /\ step = "flush"
    /\ IF buffer[at] = <<>>
       THEN UNCHANGED <<buffer, containers, current, backing, fileEpoch, failures>>
       ELSE Writes(buffer[at], buffer[at])
    /\ Goes("rotate")
    /\ UNCHANGED <<out, late>>
Flush ==
    /\ step = "flush"
    /\ IF buffer[at] = <<>>
       THEN UNCHANGED <<buffer, containers, current, backing, fileEpoch, failures>>
       ELSE Writes(buffer[at], <<>>)
    /\ Goes("rotate")
    /\ UNCHANGED <<out, late>>

FlushFails ==
    /\ step \in {"flush", "header"} /\ buffer[at] # <<>>
    /\ WriteFails
    /\ UNCHANGED <<buffer, current, backing>>

Outgrown ==
    ~Plain /\ (Len(File.content) > MaxFileSize \/ epoch # fileEpoch[at])
NoHeader == Plain /\ File.content = <<>>

KeepFile ==
    /\ step = "rotate" /\ backing[at] # 0 /\ ~Outgrown
    /\ Goes(IF NoHeader THEN "resource" ELSE Synced)
    /\ UNCHANGED <<buffer, containers, current, backing, fileEpoch, out, failures, late>>

\* The old file gets its break; the rotation is forgotten so that the nested
\* sync_output() does not rotate.
EndFile ==
    /\ step = "rotate" /\ backing[at] # 0 /\ Outgrown
    /\ Buffers(<<Break>>)
    /\ Goes("break")
    /\ current' = [current EXCEPT ![at] = 0]
    /\ late' = IF Finalising THEN late \cup {at} ELSE late
    /\ UNCHANGED <<containers, backing, fileEpoch, out, failures>>

WriteBreak ==
    /\ step = "break"
    /\ Writes(buffer[at], <<>>)
    /\ Goes("release")
    /\ UNCHANGED <<out, late>>

\* The file is closed all the same.
WriteBreakFails ==
    /\ step \in {"break", "release"}
    /\ WriteFails
    /\ backing' = [backing EXCEPT ![at] = 0]
    /\ UNCHANGED <<buffer, current>>

\* update_record_container_size() may fail; nobody looks.
Registers(s, rotation) ==
    \/ /\ containers' = [containers EXCEPT ![s][rotation].size =
                             Len(containers[s][backing[s]].content)]
       /\ UNCHANGED failures
    \/ /\ failures < MaxFailures /\ failures' = failures + 1
       /\ UNCHANGED containers

ReleaseFile ==
    /\ step = "release"
    /\ Registers(at, backing[at])
    /\ backing' = [backing EXCEPT ![at] = 0]
    /\ Goes("create")
    /\ UNCHANGED <<buffer, current, fileEpoch, out, late>>

MayCreate == step = "create" \/ (step = "rotate" /\ backing[at] = 0)

CreateFile ==
    /\ MayCreate
    /\ containers' = [containers EXCEPT ![at] = Append(@, [content |-> <<>>, size |-> 0])]
    /\ backing' = [backing EXCEPT ![at] = Len(containers'[at])]
    /\ current' = [current EXCEPT ![at] = Len(containers'[at])]
    /\ fileEpoch' = [fileEpoch EXCEPT ![at] = epoch]
    /\ Goes("resource")
    /\ UNCHANGED <<buffer, out, failures, late>>

\* Whatever is in the buffer is replaced by the header.
EncodeHeader ==
    /\ step = "resource"
    /\ Buffers(<<Header>>)
    /\ Goes("header")
    /\ UNCHANGED <<containers, current, backing, fileEpoch, out, failures, late>>

WriteHeader_Keeps ==  \* mutant: the buffer is not reset
    /\ step = "header"
    /\ Writes(buffer[at], buffer[at])
    /\ Goes(Synced)
    /\ UNCHANGED <<out, late>>
WriteHeader ==
    /\ step = "header"
    /\ Writes(buffer[at], <<>>)
    /\ Goes(Synced)
    /\ UNCHANGED <<out, late>>

-----------------------------------------------------------------------------
(* finalize() and the destructor, "destroy".                                *)

NothingToFinalise ==
    /\ step = "finalize" /\ backing[at] = 0
    /\ Goes("done")
    /\ UNCHANGED <<buffer, containers, current, backing, fileEpoch, out, failures, late>>

\* emit_break() grows the buffer if it is full.
EmitBreak ==
    /\ step = "finalize" /\ backing[at] # 0
    /\ IF Room > 0
       THEN /\ Buffers(Append(buffer[at], Break))
            /\ UNCHANGED <<containers, current, backing, fileEpoch, failures>>
       ELSE Writes(buffer[at], <<Break>>)
    /\ Goes("flush")
    /\ UNCHANGED <<out, late>>

EmitBreakFails ==
    /\ step = "finalize" /\ backing[at] # 0 /\ Room = 0
    /\ WriteFails
    /\ UNCHANGED <<buffer, current, backing>>

\* Only the destructor registers the size, and only if it closes the file itself.
CloseFile ==
    /\ step = "finish"
    /\ IF op = "destroy" /\ current[at] # 0 /\ ~Plain THEN Registers(at, current[at])
       ELSE UNCHANGED <<containers, failures>>
    /\ backing' = [backing EXCEPT ![at] = 0] /\ Buffers(<<>>)
    /\ Goes("done")
    /\ UNCHANGED <<current, fileEpoch, out, late>>

NextSink ==
    \/ PassOver \/ WriteBuffered \/ WriteThrough \/ WriteThroughFails \/ AllWritten
    \/ Flush \/ FlushFails \/ KeepFile \/ EndFile \/ WriteBreak \/ WriteBreakFails
    \/ StepFails \/ ReleaseFile \/ CreateFile \/ EncodeHeader \/ WriteHeader
    \/ NothingToFinalise \/ EmitBreak \/ EmitBreakFails \/ CloseFile

\* try_sync_with_system() on any thread, at the latest right before a step that
\* looks at the epoch; earlier would make no difference.
ChangeEpoch ==
    /\ step \in {"rotate", "create"}
    /\ epoch < MaxEpoch /\ epoch' = epoch + 1
    /\ UNCHANGED <<buffer, containers, current, backing, fileEpoch, at, op, step, out,
                   failures, late>>
=============================================================================
