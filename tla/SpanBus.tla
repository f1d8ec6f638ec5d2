------------------------------ MODULE SpanBus ------------------------------
(***************************************************************************)
(* Threads that open and close spans and log within them, and the choice   *)
(* of the region of the message bus each message goes to.                  *)
(*                                                                         *)
(* A region is the queue of MpscRegion: places are reserved in order, a    *)
(* message can be read when its thread has published it, and what was read *)
(* makes room when the consumer leaves the region.  A region that is empty *)
(* takes a message (EmptyRegionTakesHalf), any other may refuse it.        *)
(***************************************************************************)
EXTENDS Integers, SequencesExt

CONSTANTS
    Threads,
    NumRegions,       \* mNumRegions
    SpanIds,          \* how many ids derive_span_id tells apart: 64
    ThreadHome,       \* for each thread, trace and span id the region that
    TraceHome,        \*   hash_to_index picks
    SpanHome,
    Severities,       \* severities messages are logged with
    Default,          \* the threshold of the port, one of them, and for each
    Configured,       \*   thread that of the scope name its context was made with
    MaxMessages,      \* bounds on the messages, the traces and the spans of a
    MaxSpans,         \*   counter, the scopes open at a time
    MaxScopes,
    MaxContexts,      \*   and the calls of set_thread_context()
    Leavers           \* the threads that call it or open scopes without a span

Regions == 1..NumRegions
Disabled == 1 + CHOOSE s \in Severities : \A u \in Severities : u <= s

ASSUME SpanBusAssumption ==
    /\ NumRegions \in Nat \ {0}
    /\ MaxSpans \in Nat /\ SpanIds \in Nat /\ MaxSpans <= SpanIds
    /\ ThreadHome \in [Threads -> Regions]
    /\ TraceHome \in [1..MaxSpans -> Regions]
    /\ SpanHome \in [0 .. SpanIds - 1 -> Regions]
    /\ Severities \subseteq Nat /\ Default \in Severities
    /\ \E s \in Severities : \A u \in Severities : u <= s
    /\ Leavers \subseteq Threads /\ Configured \in [Threads -> Severities]

VARIABLES
    counters,    \* span_prng_ctr of each region
    traces,      \* how many trace ids were drawn
    rings,       \* for each region the messages in it, as indices into log
    ctx,         \* the log_context of each thread
    scopes,      \* the span_scope objects of each thread, the innermost last
    call,        \* the message each thread is about to send
    reading,     \* the region consume_messages() is in
    taken,       \* how many of its messages have been handed over
    (* history *)
    log,         \* all messages, in the order their places were reserved
    out,         \* the messages handed over
    due,         \* messages that could be read when the round began and have yet to be
    empty,       \* for each thread the regions that were empty all through its call
    contexts,    \* how often set_thread_context() was called
    named,       \* spans passed to set_thread_context()
    tangled      \* threads that replaced their context inside a scope, or
                 \* opened a scope without a span in a context without a port

bus == <<counters, traces, rings, log>>
consumer == <<reading, taken, out, due>>
threads == <<ctx, scopes, contexts, named, tangled>>
vars == <<bus, threads, consumer, call, empty>>

NoSpan == [trace |-> 0, id |-> 0]
Idle == [at |-> "idle"]
NoContext == [port |-> FALSE, span |-> NoSpan, threshold |-> Disabled]

Top(t) == Last(scopes[t])

Context(span, threshold) == [port |-> TRUE, span |-> span, threshold |-> threshold]

Init ==
    /\ counters = [r \in Regions |-> 0] /\ traces = 0
    /\ rings = [r \in Regions |-> <<>>] /\ log = <<>>
    /\ ctx = [t \in Threads |-> Context(NoSpan, Configured[t])]
    /\ scopes = [t \in Threads |-> <<>>]
    /\ call = [t \in Threads |-> Idle] /\ empty = [t \in Threads |-> {}]
    /\ reading = 1 /\ taken = 0 /\ out = {} /\ due = {}
    /\ contexts = 0 /\ named = {} /\ tangled = {}

-----------------------------------------------------------------------------
(* Sending a message                                                        *)

\* The region a message is tried in first.
Home_Thread(t, span) == ThreadHome[t]  \* mutant: messages of a span stay with the thread
Home(t, span) == IF span = NoSpan THEN ThreadHome[t] ELSE SpanHome[span.id]

\* The thread enters allocate_record_buffer_inplace().
Send(t, message) ==
    /\ call' = [call EXCEPT ![t] =
                    [at |-> "place", msg |-> message, region |-> Home(t, message.span)]]
    /\ empty' = [empty EXCEPT ![t] = {r \in Regions : rings[r] = <<>>}]

\* The port of the thread's context is used without a look at whether there is one.
SendOn(t, message) ==
    IF ctx[t].port THEN Send(t, message)
    ELSE call' = [call EXCEPT ![t] = [at |-> "undefined"]] /\ UNCHANGED empty

\* The region has room and the message gets a place in it.
Place(t) ==
    /\ call[t].at = "place"
    /\ LET r == call[t].region
           i == Len(log) + 1
       IN /\ log' = Append(log, [call[t].msg EXCEPT !.region = r])
          /\ rings' = [rings EXCEPT ![r] = Append(@, i)]
          /\ call' = [call EXCEPT ![t] = [at |-> "write", i |-> i]]
          /\ empty' = [u \in Threads |-> IF u = t THEN {} ELSE empty[u] \ {r}]
    /\ UNCHANGED <<counters, traces, threads, consumer>>

After(r) == IF r = NumRegions THEN 1 ELSE r + 1
AllTried_Last(t) == call[t].region = NumRegions  \* mutant: regions before the first are not tried
AllTried(t) == After(call[t].region) = Home(t, call[t].msg.span)

\* The region is too full; the next one is tried, or all were.  A message that
\* finds no place is dropped.
Refuse(t) ==
    /\ call[t].at = "place" /\ rings[call[t].region] # <<>>
    /\ call' = IF AllTried(t) THEN [call EXCEPT ![t] = Idle]
               ELSE [call EXCEPT ![t].region = After(@)]
    /\ empty' = [empty EXCEPT ![t] = IF AllTried(t) THEN {} ELSE @]
    /\ UNCHANGED <<bus, threads, consumer>>

\* The scope becomes the innermost one and its span the thread's.
Enter(t, span, threshold) ==
    /\ scopes' = [scopes EXCEPT ![t] = Append(@,
            [span |-> span, previous |-> ctx[t].span,
             threshold |-> threshold, previousThreshold |-> ctx[t].threshold])]
    /\ ctx' = [ctx EXCEPT ![t].span = span, ![t].threshold = threshold]

Unentered_Entered(t, span) == Enter(t, span, ctx[t].threshold)  \* mutant: a scope in any case
Unentered(t, span) == UNCHANGED <<scopes, ctx>>

\* The message is encoded and published.  A scope whose first message is
\* published is entered; one whose message could not be encoded is not.
Publish(t) ==
    /\ call[t].at = "write"
    /\ LET m == log[call[t].i] IN
       \/ /\ log' = [log EXCEPT ![call[t].i].state = "whole"]
          /\ IF m.kind = "start" THEN Enter(t, m.span, ctx[t].threshold)
                                 ELSE UNCHANGED <<scopes, ctx>>
       \/ /\ m.kind = "start"
          /\ log' = [log EXCEPT ![call[t].i].state = "broken"]
          /\ Unentered(t, m.span)
    /\ call' = [call EXCEPT ![t] = Idle]
    /\ UNCHANGED <<counters, traces, rings, contexts, named, tangled, consumer, empty>>

-----------------------------------------------------------------------------
(* Scopes and contexts                                                      *)

Message(t, kind, span, parent) ==
    [kind |-> kind, span |-> span, parent |-> parent, by |-> t,
     home |-> Home(t, span), region |-> 0, state |-> "writing"]

\* The counter a span of this trace takes its id from.
CounterOf_Thread(t, trace) == ThreadHome[t]  \* mutant: the counter is picked by the thread
CounterOf(t, trace) == TraceHome[trace]

\* A thread is between two messages; nothing is begun that could exceed the bound.
Unplaced == {u \in Threads : call[u].at = "place"}
Free(t) == call[t] = Idle /\ Len(log) + Cardinality(Unplaced) < MaxMessages

\* The caller names any span that is active somewhere as the parent, or none.
Parents(t) == {NoSpan} \cup {ctx[u].span : u \in Threads}

OpenScopes == MapThenSumSet(LAMBDA t : Len(scopes[t]), Threads)

\* Without a port no span is opened.
MayOpen(t) == ctx[t].port

\* A span gets its id from the bus before its start is sent; the first span of a trace
\* draws the trace's id too.
OpenSpan(t) ==
    /\ Free(t) /\ MayOpen(t) /\ OpenScopes < MaxScopes
    /\ \E parent \in Parents(t) :
        LET trace == IF parent = NoSpan THEN traces + 1 ELSE parent.trace
            r == CounterOf(t, trace)
            span == [trace |-> trace, id |-> counters[r] % SpanIds]
        IN /\ trace <= MaxSpans /\ counters[r] < MaxSpans
           /\ traces' = IF parent = NoSpan THEN trace ELSE traces
           /\ counters' = [counters EXCEPT ![r] = @ + 1]
           /\ SendOn(t, Message(t, "start", span, parent))
    /\ UNCHANGED <<rings, log, threads, consumer>>

\* span_scope::none(): a scope in which messages belong to no span.
OpenNone(t) ==
    /\ t \in Leavers /\ Free(t) /\ OpenScopes < MaxScopes
    /\ Enter(t, NoSpan, IF ctx[t].port THEN Default ELSE Disabled)
    /\ tangled' = IF ctx[t].port THEN tangled ELSE tangled \cup {t}
    /\ UNCHANGED <<bus, contexts, named, consumer, call, empty>>

\* The destructor of a scope: the context gets back what it had, then the end
\* of the span is sent.  The port is not looked at.
Leave_KeepsThreshold(t) ==  \* mutant: the threshold is not restored
    /\ scopes' = [scopes EXCEPT ![t] = Front(@)]
    /\ ctx' = [ctx EXCEPT ![t].span = Top(t).previous]
Leave_KeepsSpan(t) ==  \* mutant: the span is not restored
    /\ scopes' = [scopes EXCEPT ![t] = Front(@)]
    /\ ctx' = [ctx EXCEPT ![t].threshold = Top(t).previousThreshold]
Leave(t) ==
    /\ scopes' = [scopes EXCEPT ![t] = Front(@)]
    /\ ctx' = [ctx EXCEPT ![t].span = Top(t).previous,
                          ![t].threshold = Top(t).previousThreshold]
CloseScope(t) ==
    /\ Free(t) /\ scopes[t] # <<>>
    /\ Leave(t)
    /\ SendOn(t, Message(t, "end", Top(t).span, NoSpan))
    /\ UNCHANGED <<bus, contexts, named, tangled, consumer>>

\* A message reaches the bus if its severity reaches the threshold.
Log(t) ==
    /\ Free(t)
    /\ \E severity \in Severities : severity >= ctx[t].threshold
    /\ SendOn(t, Message(t, "log", ctx[t].span, NoSpan))
    /\ UNCHANGED <<bus, threads, consumer>>

\* Any context may be set at any time: an empty one, or one with the span of another thread.
SetContext(t) ==
    /\ t \in Leavers /\ Free(t) /\ contexts < MaxContexts
    /\ \E next \in {NoContext} \cup {Context(ctx[u].span, Default) : u \in Threads \ {t}} :
        /\ ctx' = [ctx EXCEPT ![t] = next]
        /\ named' = named \cup ({next.span} \ {NoSpan})
    /\ contexts' = contexts + 1
    /\ tangled' = IF scopes[t] = <<>> THEN tangled ELSE tangled \cup {t}
    /\ UNCHANGED <<bus, scopes, consumer, call, empty>>

-----------------------------------------------------------------------------
(* The consumer, which visits the regions in turn, again and again          *)

Ready == /\ taken < Len(rings[reading])
         /\ log[rings[reading][taken + 1]].state # "writing"

Take ==
    /\ Ready
    /\ LET i == rings[reading][taken + 1] IN out' = out \cup {i} /\ due' = due \ {i}
    /\ taken' = taken + 1
    /\ UNCHANGED <<bus, threads, reading, call, empty>>

\* The next message is being written, or there is none: on to the next region.
NextRegion_Stops ==  \* mutant: a message being written ends the round
    IF taken < Len(rings[reading]) THEN 1 ELSE After(reading)
NextRegion == After(reading)
Unblocked(i) ==
    \A j \in 1..i : log[j].region = log[i].region => log[j].state # "writing"
LeaveRegion ==
    /\ ~Ready
    /\ rings' = [rings EXCEPT ![reading] = SubSeq(@, taken + 1, Len(@))]
    /\ reading' = NextRegion /\ taken' = 0
    /\ due' = IF NextRegion = 1 THEN {i \in DOMAIN log \ out : Unblocked(i)} ELSE due
    /\ UNCHANGED <<counters, traces, log, threads, out, call, empty>>

Consume == Take \/ LeaveRegion

Step(t) == \/ OpenSpan(t) \/ OpenNone(t) \/ CloseScope(t) \/ Log(t) \/ SetContext(t)
           \/ Place(t) \/ Refuse(t) \/ Publish(t)

Next == Consume \/ \E t \in Threads : Step(t)

Spec == Init /\ [][Next]_vars

-----------------------------------------------------------------------------
(* Properties                                                               *)

\* Two spans never have the same trace and id, whichever threads open them and whatever their
\* parents, as long as no counter goes round: the spans of a trace share a counter.
SpansDistinct ==
    \A i, j \in DOMAIN log :
        i # j /\ log[i].kind = "start" /\ log[j].kind = "start" => log[i].span # log[j].span

\* The messages of a span, or of a thread outside of all spans, come out of the
\* bus in the order their places were reserved, even if several threads log in
\* the span, unless one of them did not fit into its region and went to another.
SameSource(m, n) == m.span = n.span /\ (m.span = NoSpan => m.by = n.by)
OrderKept ==
    \A i, j \in DOMAIN log :
        i < j /\ SameSource(log[i], log[j]) /\ j \in out =>
            i \in out \/ \E k \in {i, j} : log[k].region # log[k].home

\* A record, and a span that names a parent, names a span whose start was published as
\* a whole before: one that was dropped or broke is never anybody's, as long as no counter
\* goes round.
OfStarted ==
    \A i \in DOMAIN log :
        LET s == IF log[i].kind = "start" THEN log[i].parent ELSE log[i].span IN
        s = NoSpan \/ \E j \in 1 .. i - 1 :
                          log[j].kind = "start" /\ log[j].span = s /\ log[j].state = "whole"

\* The end of a span is the last message a place is reserved for in it, so it ends at most
\* once, unless somebody passed the span to set_thread_context(), and as long as no counter
\* goes round (MaxSpans <= SpanIds): the 65th span of a counter logs under the id of one that
\* ended, which derive_span_id does not prevent.
EndsLast ==
    \A i, j \in DOMAIN log :
        i < j /\ log[i].kind = "end" /\ log[i].span = log[j].span =>
            log[i].span \in named \cup {NoSpan}

\* The context of a thread is that of its innermost scope, what a scope will put back
\* is what the scope around it set, and no port is used that is not there: unless the thread
\* replaced its context inside a scope or opened a scope without a span in a context without a port.
ContextFollowsScopes ==
    \A t \in Threads \ tangled :
        /\ scopes[t] # <<>> => /\ ctx[t].span = Top(t).span
                              /\ ctx[t].threshold = Top(t).threshold
        /\ \A k \in 2..Len(scopes[t]) :
              /\ scopes[t][k].previous = scopes[t][k - 1].span
              /\ scopes[t][k].previousThreshold = scopes[t][k - 1].threshold
        /\ call[t].at # "undefined"

\* A message is dropped only if every region had something in it at some time
\* since the thread began to look for room.
DropsOnlyWhenFull ==
    [][\A t \in Threads : call[t].at = "place" /\ call'[t].at = "idle" => empty[t] = {}]_vars

\* A call of consume_messages() hands over every message that was published when it began
\* and had no message being written before it in its region; other regions, and threads
\* that stopped in the middle of a message there, do not matter.
RoundServesAll == [][LeaveRegion /\ reading' = 1 => due = {}]_vars
=============================================================================
