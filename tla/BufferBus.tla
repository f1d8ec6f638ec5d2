------------------------------ MODULE BufferBus ------------------------------
(***************************************************************************)
(* A bus in one buffer for one thread (bufferbus_handle), the messages     *)
(* that the logging functions write to it, and the log clock's steady      *)
(* time they carry.  A block is the head of a byte string and its body;    *)
(* unused bytes are null.                                                  *)
(*                                                                         *)
(* Calls are records: [fn |-> "log", sev, scope, span, text, args, line,   *)
(* file] with sizes for texts and None for what is absent, where a scope   *)
(* of size 0 is a name that is empty but not null; [fn |-> "span_start",   *)
(* span, text, attributes], whose span says whether it has a parent; and   *)
(* [fn |-> "span_end"].                                                    *)
(***************************************************************************)
EXTENDS RecordCodec

CONSTANTS
    Calls,        \* the calls that may be made
    BufferBytes,  \* mBuffer.size()
    MaxCalls,     \* bound on the calls that get a block
    MaxTime       \* bound on the steady time

VARIABLES
    blocks,    \* the blocks in the buffer: body size and items
    offset,    \* mWriteOffset
    steady,    \* internal_clock::now()
    (* history *)
    accepted   \* the calls that got a block, when, with what result, and the container they
               \* were handed to, 0 before

busVars == <<blocks, offset, accepted>>

InitBus == blocks = <<>> /\ offset = 0 /\ steady = 0 /\ accepted = <<>>

Tick ==
    /\ steady < MaxTime
    /\ steady' = steady + 1
    /\ UNCHANGED busVars

-----------------------------------------------------------------------------
BlockSize(size) == HeadSize(size) + size

\* allocate_record_buffer_inplace() and what the emission leaves in the block; the
\* record_output_guard publishes it whatever the result is.
Write(c, size, items, whole) ==
    /\ BlockSize(size) <= BufferBytes - offset
    /\ offset' = offset + BlockSize(size)
    /\ blocks' = Append(blocks, [size |-> size, items |-> Emitted(items, size)])
    /\ accepted' = Append(accepted, [id |-> Len(accepted) + 1, call |-> c, time |-> steady,
                                     into |-> 0, ok |-> whole /\ Bytes(items) <= size])

\* Calls that write nothing: the result is a success for no severity and an error for one
\* out of range (invalid_argument) or a full buffer (not_enough_space).
Log(c) ==
    /\ c.fn = "log" /\ c.sev \in 1 .. 24
    /\ Write(c, RecordSize(c), RecordItems(c, Len(accepted) + 1, steady),
             Encodable(c) > Len(c.args))

StartSpan(c) ==
    /\ c.fn = "span_start"
    /\ Write(c, SpanStartSize(c), SpanStartItems(c, steady), TRUE)

EndSpan(c) ==
    /\ c.fn = "span_end"
    /\ Write(c, SpanEndSize, SpanEndItems(steady), TRUE)

Call ==
    /\ Len(accepted) < MaxCalls
    /\ \E c \in Calls : Log(c) \/ StartSpan(c) \/ EndSpan(c)
    /\ UNCHANGED steady

-----------------------------------------------------------------------------
\* consume_messages() hands over the blocks up to one that is no byte string of the
\* remaining buffer, which a block never is, and clears the buffer.
Handed(takesEffect) == [k \in DOMAIN blocks |-> Preparsed(blocks[k].items, takesEffect)]

ClearContent == blocks' = <<>> /\ offset' = 0

-----------------------------------------------------------------------------
\* The two codes that size and write a message agree: unless a value cannot be encoded or
\* the scope's name is empty, a call that gets a block succeeds, and the fabric's parser
\* finds the whole message, short of the bytes that status codes have too many.
Sound(c) == c.fn # "log" \/ (c.scope # 0 /\ Encodable(c) > Len(c.args))

WholeMessages ==
    \A k \in DOMAIN blocks :
      LET a == accepted[Len(accepted) - Len(blocks) + k]
          message == Preparsed(blocks[k].items, TRUE)
      IN Sound(a.call) =>
           a.ok /\ message.kind \in {"record", "span_start", "span_end"}
           /\ \A j \in Len(message.raw) + 1 .. Len(blocks[k].items) : blocks[k].items[j] = Null
=============================================================================
