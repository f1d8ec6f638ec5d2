---------------------------- MODULE SpanBus_proofs ----------------------------
(***************************************************************************)
(* Spans, scopes and the choice of the region, for every set of threads,   *)
(* any number of regions and every choice of homes: span_scope,            *)
(* log_context and the regions of mpsc_bus.                                *)
(***************************************************************************)
EXTENDS SpanBus, SequenceTheorems, TLAPS

Spans == {NoSpan} \cup [trace : Nat \ {0}, id : 0 .. SpanIds - 1]
Thresholds == Severities \cup {Disabled}
Contexts == [port : BOOLEAN, span : Spans, threshold : Thresholds]
Scopes == [span : Spans, previous : Spans, threshold : Thresholds,
          previousThreshold : Thresholds]
Messages == [kind : {"start", "end", "log"}, span : Spans, parent : Spans, by : Threads,
             home : Regions, region : Regions \cup {0}, state : {"writing", "whole", "broken"}]
Calls == [at : {"place"}, msg : Messages, region : Regions] \cup [at : {"write"}, i : Nat]
            \cup {Idle, [at |-> "undefined"]}

TypeInv ==
    /\ counters \in [Regions -> 0..MaxSpans] /\ traces \in 0..MaxSpans
    /\ rings \in [Regions -> Seq(Nat)] /\ log \in Seq(Messages)
    /\ ctx \in [Threads -> Contexts] /\ scopes \in [Threads -> Seq(Scopes)]
    /\ call \in [Threads -> Calls] /\ empty \in [Threads -> SUBSET Regions]
    /\ reading \in Regions /\ taken \in Nat

\* Messages and calls belong to a thread, and a region its span or thread picks.
Placing(t) == call[t].at = "place"
Writing(t) == call[t].at = "write"
CallInv ==
    /\ \A i \in 1 .. Len(log) :
          log[i].region \in Regions /\ log[i].home = Home(log[i].by, log[i].span)
    /\ \A t \in Threads : Placing(t) =>
          LET m == call[t].msg
          IN m.by = t /\ m.home = Home(t, m.span) /\ m.state = "writing"
    /\ \A t \in Threads : Writing(t) =>
          /\ call[t].i \in 1 .. Len(log)
          /\ log[call[t].i].by = t /\ log[call[t].i].state = "writing"

\* Every span there is took its id from the counter of its trace.
IssuedBy(s, n, c) ==
    s # NoSpan => s.trace \in 1..n /\ s.id \in Nat /\ s.id < c[TraceHome[s.trace]]
Issued(s) == IssuedBy(s, traces, counters)
Holds(t, s) ==
    ctx[t].span = s \/ \E k \in 1 .. Len(scopes[t]) : s \in {scopes[t][k].span, scopes[t][k].previous}
IssuedInv ==
    /\ \A i \in 1 .. Len(log) : Issued(log[i].span)
    /\ \A t \in Threads :
          /\ \A s : Holds(t, s) => Issued(s)
          /\ Placing(t) => Issued(call[t].msg.span)

\* No span is started twice.
Starting(t) == Placing(t) /\ call[t].msg.kind = "start"
StartsInv ==
    /\ SpansDistinct
    /\ \A t \in Threads : Starting(t) =>
          /\ call[t].msg.span # NoSpan
          /\ \A i \in 1 .. Len(log) : log[i].kind = "start" => log[i].span # call[t].msg.span
          /\ \A u \in Threads : Starting(u) /\ u # t => call[u].msg.span # call[t].msg.span

\* A region has the messages that were not handed over, and those it handed over
\* since the consumer came, in the order of their places.
RingInv ==
    /\ \A r \in Regions, k \in Nat \ {0} : k <= Len(rings[r]) =>
          /\ rings[r][k] \in 1 .. Len(log) /\ log[rings[r][k]].region = r
          /\ rings[r][k] \in out <=> r = reading /\ k <= taken
          /\ \A l \in Nat \ {0} : l < k => rings[r][l] < rings[r][k]
    /\ taken <= Len(rings[reading])
    /\ \A i \in 1 .. Len(log) : i \in out \/
          LET ring == rings[log[i].region] IN \E k \in 1 .. Len(ring) : ring[k] = i
    /\ out \subseteq 1 .. Len(log)

\* What comes out of a region comes out in the order of the places.
InTurn ==
    \A i, j \in 1 .. Len(log) :
        i < j /\ log[i].region = log[j].region /\ j \in out => i \in out

\* Whoever has a span has one whose start was published before.
Started(s, n, l) ==
    s = NoSpan \/ \E j \in 1 .. n :
                     l[j].kind = "start" /\ l[j].span = s /\ l[j].state = "whole"
Named(m) == IF m.kind = "start" THEN m.parent ELSE m.span
StartedInv ==
    /\ \A i \in 1 .. Len(log) : Started(Named(log[i]), i - 1, log)
    /\ \A t \in Threads :
          /\ \A s : Holds(t, s) => Started(s, Len(log), log)
          /\ Placing(t) => Started(Named(call[t].msg), Len(log), log)

\* The life of a span that nobody named in set_thread_context().
Opening(s) ==
    \/ \E t \in Threads : Starting(t) /\ call[t].msg.span = s
    \/ \E i \in 1 .. Len(log) :
          log[i].kind = "start" /\ log[i].state = "writing" /\ log[i].span = s
Has(t, s) == \E k \in 1 .. Len(scopes[t]) : scopes[t][k].span = s
Open(s) == \E t \in Threads : Has(t, s)
Ending(t, s) == Placing(t) /\ call[t].msg.kind = "end" /\ call[t].msg.span = s
Closing(s) == \E t \in Threads : Ending(t, s)
Ended(s) == \E i \in 1 .. Len(log) : log[i].kind = "end" /\ log[i].span = s

Logs(t, s) == Placing(t) /\ call[t].msg.kind = "log" /\ call[t].msg.span = s

\* It is being opened, then open, then closed, then over, in one thread at a time,
PhaseOf(s) ==
    /\ Opening(s) => ~Open(s)
    /\ Opening(s) \/ Open(s) => ~Closing(s)
    /\ Opening(s) \/ Open(s) \/ Closing(s) => ~Ended(s)
    /\ \A t, u \in Threads : Ending(t, s) /\ Ending(u, s) => t = u
\* and has one scope, in which all that name it are.
ScopeOf(s) ==
    /\ \A t, u \in Threads : Has(t, s) /\ Has(u, s) => t = u
    /\ \A t \in Threads :
          /\ \A k, l \in 1 .. Len(scopes[t]) :
                scopes[t][k].span = s /\ scopes[t][l].span = s => k = l
          /\ \A k \in 1 .. Len(scopes[t]) :
                scopes[t][k].previous = s => \E l \in 1 .. k - 1 : scopes[t][l].span = s
          /\ ctx[t].span = s => Has(t, s)
          /\ Logs(t, s) => Has(t, s)

Own(s) == s \in Spans \ {NoSpan} /\ s \notin named
LifeInv == \A s : Own(s) => PhaseOf(s) /\ ScopeOf(s)

\* A thread that is not tangled has a port where it needs one.
PortInv ==
    \A t \in Threads \ tangled :
        /\ scopes[t] # <<>> => ctx[t].port
        /\ ~ctx[t].port => ctx[t].threshold = Disabled
        /\ Starting(t) => ctx[t].port
        /\ Writing(t) /\ log[call[t].i].kind = "start" => ctx[t].port

\* A region that was tried had something in it.
Tried(home, now) ==
    {r \in Regions : IF home <= now THEN home <= r /\ r < now ELSE home <= r \/ r < now}
EmptyInv ==
    \A t \in Threads :
        /\ \A r \in empty[t] : rings[r] = <<>>
        /\ Placing(t) => Tried(Home(t, call[t].msg.span), call[t].region) \cap empty[t] = {}

\* What a round owes can be read where the consumer has yet to go.
DueInv ==
    \A i \in due : /\ i \in 1 .. Len(log) /\ i \notin out
                   /\ reading <= log[i].region /\ Unblocked(i)

SpansInv ==
    /\ TypeInv /\ CallInv /\ IssuedInv /\ StartsInv /\ RingInv /\ InTurn /\ StartedInv
    /\ LifeInv /\ EndsLast /\ PortInv /\ ContextFollowsScopes /\ EmptyInv /\ DueInv

-----------------------------------------------------------------------------
(* What the operators of the model give, and what the actions change.       *)

LEMMA Homes ==
    ASSUME NEW t \in Threads, NEW span \in Spans
    PROVE  Home(t, span) \in Regions
  <1>1. ThreadHome \in [Threads -> Regions] /\ SpanHome \in [0 .. SpanIds - 1 -> Regions]
    BY SpanBusAssumption
  <1>2. span # NoSpan => span.id \in 0 .. SpanIds - 1
    BY DEF Spans
  <1> QED
    BY <1>1, <1>2 DEF Home

LEMMA NoSpanIsNone == NoSpan \in Spans /\ NoSpan.trace = 0 /\ NoSpan.id = 0
  BY DEF Spans, NoSpan

LEMMA MessageType ==
    ASSUME NEW t \in Threads, NEW kind \in {"start", "end", "log"}, NEW span \in Spans,
           NEW parent \in Spans
    PROVE  /\ Message(t, kind, span, parent) \in Messages
           /\ LET m == Message(t, kind, span, parent)
              IN /\ m.kind = kind /\ m.span = span /\ m.parent = parent /\ m.by = t
                 /\ m.home = Home(t, span) /\ m.state = "writing"
  BY Homes DEF Message, Messages

\* What the calls are.
LEMMA CallFields ==
    ASSUME TypeInv, NEW t \in Threads
    PROVE  /\ call[t] = Idle \/ call[t] = [at |-> "undefined"] \/ Placing(t) \/ Writing(t)
           /\ call[t].at \in {"idle", "undefined", "place", "write"}
           /\ call[t] = Idle => call[t].at = "idle"
           /\ call[t].at = "idle" => call[t] = Idle
           /\ Placing(t) => /\ call[t].msg \in Messages /\ call[t].region \in Regions
                            /\ call[t] = [at |-> "place", msg |-> call[t].msg,
                                          region |-> call[t].region]
           /\ Writing(t) => call[t].i \in Nat
  <1>1. call[t] \in Calls
    BY DEF TypeInv
  <1> QED
    BY <1>1 DEF Calls, Idle, Placing, Writing

\* The thread begins to look for a place, or what happens is undefined.
Sent(t, m) ==
    /\ ctx[t].port
    /\ call'[t] = [at |-> "place", msg |-> m, region |-> Home(t, m.span)]
    /\ empty'[t] = {r \in Regions : rings[r] = <<>>}
Lost(t) == ~ctx[t].port /\ call'[t] = [at |-> "undefined"] /\ empty'[t] = empty[t]
Elsewhere(t) == \A u \in Threads : u # t => call'[u] = call[u] /\ empty'[u] = empty[u]

LEMMA SendFacts ==
    ASSUME TypeInv, NEW t \in Threads, NEW m \in Messages, SendOn(t, m)
    PROVE  /\ Sent(t, m) \/ Lost(t)
           /\ Elsewhere(t)
           /\ call' \in [Threads -> Calls] /\ empty' \in [Threads -> SUBSET Regions]
  <1>1. call \in [Threads -> Calls] /\ empty \in [Threads -> SUBSET Regions] /\ ctx[t].port \in BOOLEAN
    BY DEF TypeInv, Contexts
  <1>2. Home(t, m.span) \in Regions
    BY Homes DEF Messages
  <1>3. /\ [at |-> "place", msg |-> m, region |-> Home(t, m.span)] \in Calls
        /\ [at |-> "undefined"] \in Calls
    BY <1>2 DEF Calls
  <1>4. CASE ctx[t].port
    BY <1>1, <1>3, <1>4 DEF SendOn, Send, Sent, Elsewhere
  <1>5. CASE ~ctx[t].port
    BY <1>1, <1>3, <1>5 DEF SendOn, Lost, Elsewhere
  <1> QED
    BY <1>4, <1>5

\* A scope is entered or left, or nothing of the kind happens.
OthersRest(t) == \A u \in Threads : u # t => ctx'[u] = ctx[u] /\ scopes'[u] = scopes[u]
Entered(t, span, threshold) ==
    /\ Len(scopes'[t]) = Len(scopes[t]) + 1
    /\ \A k \in 1 .. Len(scopes[t]) : scopes'[t][k] = scopes[t][k]
    /\ scopes'[t][Len(scopes[t]) + 1] =
          [span |-> span, previous |-> ctx[t].span,
           threshold |-> threshold, previousThreshold |-> ctx[t].threshold]
    /\ ctx'[t] = [port |-> ctx[t].port, span |-> span, threshold |-> threshold]

LEMMA Refitted ==
    ASSUME NEW c \in Contexts, NEW span, NEW threshold
    PROVE  [c EXCEPT !.span = span, !.threshold = threshold]
                = [port |-> c.port, span |-> span, threshold |-> threshold]
  <1>1. PICK p, s, h : c = [port |-> p, span |-> s, threshold |-> h]
    BY DEF Contexts
  <1>2. PICK d : d = [c EXCEPT !.span = span]
    OBVIOUS
  <1>3. d = [port |-> p, span |-> span, threshold |-> h]
    BY <1>1, <1>2
  <1>4. [d EXCEPT !.threshold = threshold]
           = [port |-> p, span |-> span, threshold |-> threshold]
    BY <1>3
  <1> QED
    BY <1>1, <1>2, <1>4

LEMMA EnterFacts ==
    ASSUME TypeInv, NEW t \in Threads, NEW span \in Spans, NEW threshold \in Thresholds,
           Enter(t, span, threshold)
    PROVE  /\ Entered(t, span, threshold) /\ OthersRest(t)
           /\ scopes' \in [Threads -> Seq(Scopes)] /\ ctx' \in [Threads -> Contexts]
  <1>1. ctx[t] \in Contexts /\ scopes[t] \in Seq(Scopes) /\ Len(scopes[t]) \in Nat
    BY DEF TypeInv
  <1> DEFINE new == [span |-> span, previous |-> ctx[t].span,
                     threshold |-> threshold, previousThreshold |-> ctx[t].threshold]
  <1>2. new \in Scopes
    BY <1>1 DEF Scopes, Contexts
  <1>3. scopes'[t] = Append(scopes[t], new) /\ scopes' = [scopes EXCEPT ![t] = Append(@, new)]
    BY DEF Enter, TypeInv
  <1>4. ctx'[t] = [ctx[t] EXCEPT !.span = span, !.threshold = threshold]
        /\ ctx' = [ctx EXCEPT ![t] = [ctx[t] EXCEPT !.span = span, !.threshold = threshold]]
    BY DEF Enter, TypeInv
  <1> HIDE DEF new
  <1>5. /\ Append(scopes[t], new) \in Seq(Scopes) /\ Len(scopes'[t]) = Len(scopes[t]) + 1
        /\ \A k \in 1 .. Len(scopes[t]) : scopes'[t][k] = scopes[t][k]
        /\ scopes'[t][Len(scopes[t]) + 1] = new
    BY <1>1, <1>2, <1>3
  <1>6. ctx'[t] = [port |-> ctx[t].port, span |-> span, threshold |-> threshold]
        /\ ctx'[t] \in Contexts
    <2>1. ctx'[t] = [port |-> ctx[t].port, span |-> span, threshold |-> threshold]
      <3>1. [ctx[t] EXCEPT !.span = span, !.threshold = threshold]
               = [port |-> ctx[t].port, span |-> span, threshold |-> threshold]
        BY <1>1, Refitted
      <3> QED
        BY <1>4, <3>1
    <2>2. ctx[t].port \in BOOLEAN
      BY <1>1 DEF Contexts
    <2> QED
      BY <2>1, <2>2 DEF Contexts
  <1>7. OthersRest(t)
    BY <1>3, <1>4 DEF OthersRest, TypeInv
  <1>8. scopes' \in [Threads -> Seq(Scopes)] /\ ctx' \in [Threads -> Contexts]
    BY <1>3, <1>4, <1>5, <1>6 DEF TypeInv
  <1> QED
    BY <1>5, <1>6, <1>7, <1>8 DEF Entered, new

Left(t) ==
    /\ Len(scopes[t]) > 0 /\ Len(scopes'[t]) = Len(scopes[t]) - 1
    /\ \A k \in 1 .. Len(scopes[t]) - 1 : scopes'[t][k] = scopes[t][k]
    /\ ctx'[t] = [port |-> ctx[t].port, span |-> scopes[t][Len(scopes[t])].previous,
                  threshold |-> scopes[t][Len(scopes[t])].previousThreshold]

LEMMA LeaveFacts ==
    ASSUME TypeInv, NEW t \in Threads, scopes[t] # <<>>, Leave(t)
    PROVE  /\ Left(t) /\ OthersRest(t)
           /\ scopes' \in [Threads -> Seq(Scopes)] /\ ctx' \in [Threads -> Contexts]
           /\ Top(t) = scopes[t][Len(scopes[t])] /\ Top(t) \in Scopes
  <1>1. ctx[t] \in Contexts /\ scopes[t] \in Seq(Scopes) /\ Len(scopes[t]) \in Nat
    BY DEF TypeInv
  <1>2. Len(scopes[t]) > 0 /\ Top(t) = scopes[t][Len(scopes[t])] /\ Top(t) \in Scopes
    BY <1>1 DEF Top, Last
  <1>3. scopes'[t] = SubSeq(scopes[t], 1, Len(scopes[t]) - 1)
        /\ scopes' = [scopes EXCEPT ![t] = SubSeq(scopes[t], 1, Len(scopes[t]) - 1)]
    BY DEF Leave, TypeInv, Front
  <1>4. /\ SubSeq(scopes[t], 1, Len(scopes[t]) - 1) \in Seq(Scopes)
        /\ Len(scopes'[t]) = Len(scopes[t]) - 1
        /\ \A k \in 1 .. Len(scopes[t]) - 1 : scopes'[t][k] = scopes[t][k]
    BY <1>1, <1>2, <1>3
  <1> DEFINE new == [ctx[t] EXCEPT !.span = Top(t).previous,
                                   !.threshold = Top(t).previousThreshold]
  <1>5. ctx'[t] = new /\ ctx' = [ctx EXCEPT ![t] = new]
    BY DEF Leave, TypeInv
  <1>6. new = [port |-> ctx[t].port, span |-> Top(t).previous,
               threshold |-> Top(t).previousThreshold]
        /\ new \in Contexts
    <2>1. /\ Top(t).previous \in Spans /\ Top(t).previousThreshold \in Thresholds
      BY <1>2 DEF Scopes
    <2>2. ctx[t].port \in BOOLEAN
      BY <1>1 DEF Contexts
    <2>3. new = [port |-> ctx[t].port, span |-> Top(t).previous,
                 threshold |-> Top(t).previousThreshold]
      BY <1>1, Refitted
    <2> QED
      BY <2>1, <2>2, <2>3 DEF Contexts
  <1> HIDE DEF new
  <1>7. OthersRest(t)
    BY <1>3, <1>5 DEF OthersRest, TypeInv
  <1>8. scopes' \in [Threads -> Seq(Scopes)] /\ ctx' \in [Threads -> Contexts]
    BY <1>3, <1>4, <1>5, <1>6 DEF TypeInv
  <1> QED
    BY <1>2, <1>4, <1>5, <1>6, <1>7, <1>8 DEF Left

\* A thread sends a message: what is common to the three kinds.
LEMMA SentFacts ==
    ASSUME TypeInv, NEW t \in Threads, NEW kind \in {"start", "end", "log"},
           NEW span \in Spans, NEW parent \in Spans, SendOn(t, Message(t, kind, span, parent))
    PROVE  /\ call' \in [Threads -> Calls] /\ empty' \in [Threads -> SUBSET Regions]
           /\ Elsewhere(t)
           /\ Sent(t, Message(t, kind, span, parent)) \/ Lost(t)
           /\ Message(t, kind, span, parent) \in Messages
  <1>1. Message(t, kind, span, parent) \in Messages
    BY MessageType
  <1> QED
    BY <1>1, SendFacts

\* A new span takes the next id of its trace's counter.
Opens(t, parent, span) ==
    LET r == TraceHome[span.trace]
    IN /\ traces' \in 0..MaxSpans /\ traces <= traces' /\ span.trace \in 1..traces'
       /\ parent = NoSpan => span.trace > traces
       /\ r \in Regions /\ counters[r] < MaxSpans /\ span.id = counters[r]
       /\ counters' = [counters EXCEPT ![r] = counters[r] + 1]

LEMMA Remainder ==
    ASSUME NEW a \in Nat, NEW b \in Nat, a < b
    PROVE  a % b = a
  OBVIOUS

LEMMA OpenFacts ==
    ASSUME TypeInv, IssuedInv, NEW t \in Threads, OpenSpan(t)
    PROVE  \E parent \in Parents(t), span \in Spans \ {NoSpan} :
              /\ parent \in Spans /\ Opens(t, parent, span) /\ ctx[t].port /\ Free(t)
              /\ SendOn(t, Message(t, "start", span, parent))
              /\ UNCHANGED <<rings, log, threads, consumer>>
  <1>1. PICK parent \in Parents(t) :
          LET trace == IF parent = NoSpan THEN traces + 1 ELSE parent.trace
              r == CounterOf(t, trace)
              span == [trace |-> trace, id |-> counters[r] % SpanIds]
          IN /\ trace <= MaxSpans /\ counters[r] < MaxSpans
             /\ traces' = IF parent = NoSpan THEN trace ELSE traces
             /\ counters' = [counters EXCEPT ![r] = @ + 1]
             /\ SendOn(t, Message(t, "start", span, parent))
    BY DEF OpenSpan
  <1> DEFINE trace == IF parent = NoSpan THEN traces + 1 ELSE parent.trace
             r == TraceHome[trace]
             span == [trace |-> trace, id |-> counters[r]]
  <1>2. /\ MaxSpans \in Nat /\ SpanIds \in Nat /\ MaxSpans <= SpanIds
        /\ TraceHome \in [1..MaxSpans -> Regions]
    BY SpanBusAssumption
  <1>3. parent \in Spans /\ Issued(parent) /\ traces \in 0..MaxSpans
    <2>1. CASE parent = NoSpan
      BY <2>1, NoSpanIsNone DEF Issued, IssuedBy, TypeInv
    <2>2. CASE \E u \in Threads : parent = ctx[u].span
      BY <2>2 DEF TypeInv, Contexts, IssuedInv, Holds
    <2> QED
      BY <2>1, <2>2 DEF Parents
  <1>4. /\ trace \in Nat /\ trace >= 1 /\ trace <= MaxSpans
        /\ parent = NoSpan => trace = traces + 1
        /\ parent # NoSpan => trace \in 1..traces
    BY <1>1, <1>2, <1>3 DEF Issued, IssuedBy
  <1> HIDE DEF trace
  <1>5. r \in Regions /\ counters[r] \in 0..MaxSpans
    BY <1>2, <1>4 DEF TypeInv
  <1>6. counters[r] < MaxSpans /\ counters[r] % SpanIds = counters[r]
    <2>1. counters[r] < MaxSpans
      BY <1>1 DEF CounterOf, trace
    <2> QED
      BY <1>2, <1>5, <2>1, Remainder
  <1>7. span \in Spans \ {NoSpan}
    BY <1>2, <1>4, <1>5, <1>6 DEF Spans, NoSpan
  <1>8. /\ traces' = IF parent = NoSpan THEN trace ELSE traces
        /\ counters' = [counters EXCEPT ![r] = counters[r] + 1]
        /\ SendOn(t, Message(t, "start", span, parent))
    BY <1>1, <1>6 DEF CounterOf, trace
  <1>9. Opens(t, parent, span)
    BY <1>2, <1>3, <1>4, <1>5, <1>6, <1>8 DEF Opens
  <1>10. ctx[t].port /\ Free(t) /\ UNCHANGED <<rings, log, threads, consumer>>
    BY DEF OpenSpan, MayOpen
  <1> QED
    BY <1>3, <1>7, <1>8, <1>9, <1>10

\* A message gets the next place.
Placed(t) ==
    LET r == call[t].region
        n == Len(log) + 1
    IN /\ Len(log') = n /\ \A i \in 1 .. Len(log) : log'[i] = log[i]
       /\ log'[n] = [call[t].msg EXCEPT !.region = r]
       /\ rings' = [rings EXCEPT ![r] = Append(rings[r], n)]
       /\ call'[t] = [at |-> "write", i |-> n] /\ empty'[t] = {}
       /\ \A u \in Threads : u # t => call'[u] = call[u] /\ empty'[u] = empty[u] \ {r}

LEMMA PlaceFacts ==
    ASSUME TypeInv, NEW t \in Threads, Place(t)
    PROVE  /\ Placing(t) /\ Placed(t) /\ UNCHANGED <<counters, traces, threads, consumer>>
           /\ log' \in Seq(Messages) /\ call' \in [Threads -> Calls]
           /\ empty' \in [Threads -> SUBSET Regions]
           /\ LET m == call[t].msg
                  e == [m EXCEPT !.region = call[t].region]
              IN /\ e.kind = m.kind /\ e.span = m.span /\ e.parent = m.parent /\ e.by = m.by
                 /\ e.home = m.home /\ e.state = m.state /\ e.region = call[t].region
  <1>1. /\ Placing(t) /\ call[t].msg \in Messages /\ call[t].region \in Regions
        /\ log \in Seq(Messages) /\ Len(log) \in Nat
    BY CallFields DEF Place, Placing, TypeInv
  <1> DEFINE e == [call[t].msg EXCEPT !.region = call[t].region]
             n == Len(log) + 1
  <1>2. /\ e \in Messages
        /\ LET m == call[t].msg
           IN /\ e.kind = m.kind /\ e.span = m.span /\ e.parent = m.parent /\ e.by = m.by
              /\ e.home = m.home /\ e.state = m.state /\ e.region = call[t].region
    BY <1>1 DEF Messages
  <1>3. /\ log' = Append(log, e)
        /\ rings' = [rings EXCEPT ![call[t].region] = Append(rings[call[t].region], n)]
        /\ call' = [call EXCEPT ![t] = [at |-> "write", i |-> n]]
        /\ empty' = [u \in Threads |-> IF u = t THEN {} ELSE empty[u] \ {call[t].region}]
        /\ UNCHANGED <<counters, traces, threads, consumer>>
    BY DEF Place
  <1> HIDE DEF e
  <1>4. /\ log' \in Seq(Messages) /\ Len(log') = Len(log) + 1
        /\ \A i \in 1 .. Len(log) : log'[i] = log[i]
        /\ log'[Len(log) + 1] = e
    BY <1>1, <1>2, <1>3
  <1>5. /\ [at |-> "write", i |-> n] \in Calls /\ call \in [Threads -> Calls]
        /\ empty \in [Threads -> SUBSET Regions]
    BY <1>1 DEF Calls, TypeInv
  <1>6. call' \in [Threads -> Calls] /\ empty' \in [Threads -> SUBSET Regions]
    BY <1>3, <1>5
  <1>7. Placed(t)
    BY <1>3, <1>4, <1>5 DEF Placed, e
  <1> QED
    BY <1>1, <1>2, <1>3, <1>4, <1>6, <1>7 DEF e

\* A message is published, and a scope whose first one it is entered.
Published(t, state) ==
    LET i == call[t].i
    IN /\ Len(log') = Len(log) /\ \A j \in 1 .. Len(log) : j # i => log'[j] = log[j]
       /\ log'[i] = [log[i] EXCEPT !.state = state]
       /\ call'[t] = Idle /\ \A u \in Threads : u # t => call'[u] = call[u]

LEMMA PublishFacts ==
    ASSUME TypeInv, CallInv, NEW t \in Threads, Publish(t)
    PROVE  \E state \in {"whole", "broken"} :
              LET m == log[call[t].i]
                  e == [m EXCEPT !.state = state]
              IN /\ Writing(t) /\ Published(t, state)
                 /\ m.kind # "start" => state = "whole"
                 /\ IF m.kind = "start" /\ state = "whole"
                    THEN /\ Enter(t, m.span, ctx[t].threshold)
                         /\ m.span \in Spans /\ ctx[t].threshold \in Thresholds
                    ELSE UNCHANGED <<scopes, ctx>>
                 /\ e.kind = m.kind /\ e.span = m.span /\ e.parent = m.parent /\ e.by = m.by
                 /\ e.home = m.home /\ e.region = m.region /\ e.state = state
                 /\ UNCHANGED <<counters, traces, rings, contexts, named, tangled, consumer, empty>>
                 /\ log' \in Seq(Messages) /\ call' \in [Threads -> Calls]
  <1>1. /\ Writing(t) /\ call[t].i \in 1 .. Len(log) /\ log \in Seq(Messages)
        /\ Len(log) \in Nat /\ call \in [Threads -> Calls] /\ Idle \in Calls
    BY DEF Publish, Writing, CallInv, TypeInv, Calls
  <1>2. log[call[t].i] \in Messages /\ ctx[t].threshold \in Thresholds
    BY <1>1 DEF TypeInv, Contexts
  <1>3. PICK state \in {"whole", "broken"} :
          /\ log' = [log EXCEPT ![call[t].i].state = state]
          /\ log[call[t].i].kind # "start" => state = "whole"
          /\ IF log[call[t].i].kind = "start" /\ state = "whole"
             THEN Enter(t, log[call[t].i].span, ctx[t].threshold)
             ELSE UNCHANGED <<scopes, ctx>>
    BY DEF Publish, Unentered
  <1> DEFINE m == log[call[t].i]
             e == [m EXCEPT !.state = state]
  <1>4. /\ e \in Messages /\ m.span \in Spans
        /\ e.kind = m.kind /\ e.span = m.span /\ e.parent = m.parent /\ e.by = m.by
        /\ e.home = m.home /\ e.region = m.region /\ e.state = state
    <2>1. m \in Messages
      BY <1>2
    <2> HIDE DEF m
    <2> QED
      BY <2>1 DEF Messages
  <1>5. /\ log' = [log EXCEPT ![call[t].i] = e] /\ call' = [call EXCEPT ![t] = Idle]
        /\ UNCHANGED <<counters, traces, rings, contexts, named, tangled, consumer, empty>>
    BY <1>3 DEF Publish
  <1> HIDE DEF e
  <1>6. /\ log' \in Seq(Messages) /\ Len(log') = Len(log) /\ log'[call[t].i] = e
        /\ \A j \in 1 .. Len(log) : j # call[t].i => log'[j] = log[j]
    BY <1>1, <1>4, <1>5
  <1>7. call' \in [Threads -> Calls] /\ Published(t, state)
    BY <1>1, <1>5, <1>6 DEF Published, e
  <1> QED
    BY <1>1, <1>2, <1>3, <1>4, <1>5, <1>6, <1>7 DEF e

LEMMA CloseFacts ==
    ASSUME TypeInv, NEW t \in Threads, CloseScope(t)
    PROVE  /\ Left(t) /\ OthersRest(t) /\ call[t] = Idle
           /\ scopes' \in [Threads -> Seq(Scopes)] /\ ctx' \in [Threads -> Contexts]
           /\ scopes[t][Len(scopes[t])] \in Scopes
           /\ scopes[t][Len(scopes[t])].span \in Spans
           /\ SendOn(t, Message(t, "end", scopes[t][Len(scopes[t])].span, NoSpan))
           /\ UNCHANGED <<bus, contexts, named, tangled, consumer>>
  <1>1. scopes[t] # <<>> /\ Leave(t) /\ call[t] = Idle
    BY DEF CloseScope, Free
  <1>2. Top(t) = scopes[t][Len(scopes[t])] /\ Top(t) \in Scopes
    BY <1>1, LeaveFacts
  <1>3. Top(t).span \in Spans
    BY <1>2 DEF Scopes
  <1> QED
    BY <1>1, <1>2, <1>3, LeaveFacts DEF CloseScope

LEMMA LogFacts ==
    ASSUME TypeInv, NEW t \in Threads, Log(t)
    PROVE  /\ call[t] = Idle /\ ctx[t].span \in Spans
           /\ \E severity \in Severities : severity >= ctx[t].threshold
           /\ SendOn(t, Message(t, "log", ctx[t].span, NoSpan))
           /\ UNCHANGED <<bus, threads, consumer>>
  BY DEF Log, Free, TypeInv, Contexts

LEMMA NoneFacts ==
    ASSUME TypeInv, NEW t \in Threads, OpenNone(t)
    PROVE  LET threshold == IF ctx[t].port THEN Default ELSE Disabled
           IN /\ Entered(t, NoSpan, threshold) /\ OthersRest(t) /\ call[t] = Idle
              /\ scopes' \in [Threads -> Seq(Scopes)] /\ ctx' \in [Threads -> Contexts]
              /\ tangled' = IF ctx[t].port THEN tangled ELSE tangled \cup {t}
              /\ UNCHANGED <<bus, contexts, named, consumer, call, empty>>
  <1> DEFINE threshold == IF ctx[t].port THEN Default ELSE Disabled
  <1>1. threshold \in Thresholds
    BY SpanBusAssumption DEF Thresholds
  <1>2. /\ Enter(t, NoSpan, threshold) /\ call[t] = Idle
        /\ tangled' = IF ctx[t].port THEN tangled ELSE tangled \cup {t}
        /\ UNCHANGED <<bus, contexts, named, consumer, call, empty>>
    BY DEF OpenNone, Free
  <1> HIDE DEF threshold
  <1>3. /\ Entered(t, NoSpan, threshold) /\ OthersRest(t)
        /\ scopes' \in [Threads -> Seq(Scopes)] /\ ctx' \in [Threads -> Contexts]
    BY <1>1, <1>2, EnterFacts, NoSpanIsNone
  <1> QED
    BY <1>2, <1>3 DEF threshold

\* The context is an empty one, or has a port and the span of another thread.
LEMMA SetFacts ==
    ASSUME TypeInv, NEW t \in Threads, SetContext(t)
    PROVE  /\ call[t] = Idle /\ ctx' \in [Threads -> Contexts]
           /\ \A u \in Threads : u # t => ctx'[u] = ctx[u]
           /\ \/ ctx'[t] = NoContext /\ named' = named
              \/ \E u \in Threads : /\ ctx'[t] = Context(ctx[u].span, Default)
                                    /\ named' = named \cup ({ctx[u].span} \ {NoSpan})
           /\ tangled' = IF scopes[t] = <<>> THEN tangled ELSE tangled \cup {t}
           /\ UNCHANGED <<bus, scopes, consumer, call, empty>>
  <1>1. PICK next \in {NoContext} \cup {Context(ctx[u].span, Default) : u \in Threads \ {t}} :
          /\ ctx' = [ctx EXCEPT ![t] = next]
          /\ named' = named \cup ({next.span} \ {NoSpan})
    BY DEF SetContext
  <1>2. /\ call[t] = Idle /\ UNCHANGED <<bus, scopes, consumer, call, empty>>
        /\ tangled' = IF scopes[t] = <<>> THEN tangled ELSE tangled \cup {t}
    BY DEF SetContext, Free
  <1>3. \/ next = NoContext
        \/ \E u \in Threads : next = Context(ctx[u].span, Default)
    BY <1>1
  <1>4. \A u \in Threads : ctx[u].span \in Spans
    BY DEF TypeInv, Contexts
  <1>5. NoContext \in Contexts /\ NoContext.span = NoSpan
    BY NoSpanIsNone DEF NoContext, Contexts, Thresholds
  <1>6. \A span \in Spans : /\ Context(span, Default) \in Contexts
                            /\ Context(span, Default).span = span
    BY SpanBusAssumption DEF Context, Contexts, Thresholds
  <1>7. next \in Contexts
    BY <1>3, <1>4, <1>5, <1>6
  <1>8. /\ ctx' \in [Threads -> Contexts] /\ ctx'[t] = next
        /\ \A u \in Threads : u # t => ctx'[u] = ctx[u]
    BY <1>1, <1>7 DEF TypeInv
  <1>9. CASE next = NoContext
    BY <1>1, <1>2, <1>5, <1>8, <1>9
  <1>10. CASE \E u \in Threads : next = Context(ctx[u].span, Default)
    <2>1. PICK u \in Threads : next = Context(ctx[u].span, Default)
      BY <1>10
    <2>2. next.span = ctx[u].span
      BY <1>4, <1>6, <2>1
    <2> QED
      BY <1>1, <1>2, <1>8, <2>1, <2>2
  <1> QED
    BY <1>3, <1>9, <1>10

LEMMA NextOne ==
    ASSUME NEW r \in Regions
    PROVE  /\ After(r) \in Regions /\ NumRegions \in Nat \ {0} /\ 1 \in Regions
           /\ After(r) = 1 <=> (r = NumRegions \/ NumRegions = 0)
           /\ r # NumRegions => After(r) = r + 1
  BY SpanBusAssumption DEF After, Regions

\* The next region is tried, or all were.
LEMMA RefuseFacts ==
    ASSUME TypeInv, NEW t \in Threads, Refuse(t)
    PROVE  /\ Placing(t) /\ rings[call[t].region] # <<>> /\ Elsewhere(t)
           /\ \/ AllTried(t) /\ call'[t] = Idle /\ empty'[t] = {}
              \/ /\ ~AllTried(t) /\ empty'[t] = empty[t]
                 /\ call'[t] = [at |-> "place", msg |-> call[t].msg,
                                region |-> After(call[t].region)]
           /\ call' \in [Threads -> Calls] /\ empty' \in [Threads -> SUBSET Regions]
           /\ UNCHANGED <<bus, threads, consumer>>
  <1> DEFINE m == call[t].msg
             r == call[t].region
  <1>1. Placing(t) /\ m \in Messages /\ r \in Regions
        /\ call[t] = [at |-> "place", msg |-> m, region |-> r]
    BY CallFields DEF Refuse, Placing
  <1>2. call \in [Threads -> Calls] /\ empty \in [Threads -> SUBSET Regions]
    BY DEF TypeInv
  <1>3. /\ call' = IF AllTried(t) THEN [call EXCEPT ![t] = Idle]
                   ELSE [call EXCEPT ![t] = [call[t] EXCEPT !.region = After(call[t].region)]]
        /\ empty' = [empty EXCEPT ![t] = IF AllTried(t) THEN {} ELSE @]
        /\ rings[r] # <<>> /\ UNCHANGED <<bus, threads, consumer>>
    BY DEF Refuse
  <1>4. [call[t] EXCEPT !.region = After(call[t].region)]
           = [at |-> "place", msg |-> m, region |-> After(r)]
    <2> HIDE DEF m, r
    <2> QED
      BY <1>1
  <1>5. After(r) \in Regions
    BY <1>1, NextOne
  <1> HIDE DEF m, r
  <1>6. [at |-> "place", msg |-> m, region |-> After(r)] \in Calls /\ Idle \in Calls
    BY <1>1, <1>5 DEF Calls
  <1>7. CASE AllTried(t)
    BY <1>1, <1>2, <1>3, <1>6, <1>7 DEF Elsewhere, r, m
  <1>8. CASE ~AllTried(t)
    <2>1. call' = [call EXCEPT ![t] = [at |-> "place", msg |-> m, region |-> After(r)]]
      BY <1>3, <1>4, <1>8
    <2>2. empty' = empty
      BY <1>2, <1>3, <1>8
    <2> QED
      BY <1>1, <1>2, <1>3, <1>6, <1>8, <2>1, <2>2 DEF Elsewhere, r, m
  <1> QED
    BY <1>7, <1>8

LEMMA Rest ==
    ASSUME NEW s \in Seq(Nat), NEW n \in 0 .. Len(s)
    PROVE  /\ SubSeq(s, n + 1, Len(s)) \in Seq(Nat)
           /\ Len(SubSeq(s, n + 1, Len(s))) = Len(s) - n
           /\ \A k \in 1 .. Len(s) - n : SubSeq(s, n + 1, Len(s))[k] = s[k + n]
  <1>1. Len(s) \in Nat /\ n + 1 \in 1 .. Len(s) + 1
    OBVIOUS
  <1>2. \A i \in n + 1 .. Len(s) : s[i] \in Nat
    BY <1>1
  <1>3. SubSeq(s, n + 1, Len(s)) \in Seq(Nat)
    BY <1>1, <1>2
  <1>4. Len(SubSeq(s, n + 1, Len(s))) = Len(s) - n
    BY <1>1
  <1>5. \A k \in 1 .. Len(s) - n : SubSeq(s, n + 1, Len(s))[k] = s[k + n]
    BY <1>1
  <1> QED
    BY <1>3, <1>4, <1>5

\* The consumer leaves a region with what it has yet to read.
LEMMA LeaveRegionFacts ==
    ASSUME TypeInv, RingInv, LeaveRegion
    PROVE  LET ring == rings[reading]
           IN /\ rings' = [rings EXCEPT ![reading] = SubSeq(ring, taken + 1, Len(ring))]
              /\ SubSeq(ring, taken + 1, Len(ring)) \in Seq(Nat)
              /\ Len(SubSeq(ring, taken + 1, Len(ring))) = Len(ring) - taken
              /\ \A k \in 1 .. Len(ring) - taken :
                    SubSeq(ring, taken + 1, Len(ring))[k] = ring[k + taken]
              /\ reading' = After(reading) /\ reading' \in Regions /\ taken' = 0
              /\ due' = IF reading' = 1 THEN {i \in DOMAIN log \ out : Unblocked(i)} ELSE due
              /\ ~Ready /\ UNCHANGED <<counters, traces, log, threads, out, call, empty>>
              /\ taken \in 0 .. Len(ring) /\ ring \in Seq(Nat)
  <1>1. /\ rings[reading] \in Seq(Nat) /\ taken \in Nat /\ taken <= Len(rings[reading])
        /\ reading \in Regions /\ Len(rings[reading]) \in Nat
    BY DEF TypeInv, RingInv
  <1>2. After(reading) \in Regions
    BY <1>1, NextOne
  <1>3. /\ SubSeq(rings[reading], taken + 1, Len(rings[reading])) \in Seq(Nat)
        /\ Len(SubSeq(rings[reading], taken + 1, Len(rings[reading])))
              = Len(rings[reading]) - taken
        /\ \A k \in 1 .. Len(rings[reading]) - taken :
              SubSeq(rings[reading], taken + 1, Len(rings[reading]))[k]
                 = rings[reading][k + taken]
    <2>1. taken \in 0 .. Len(rings[reading])
      BY <1>1
    <2> QED
      BY <1>1, <2>1, Rest
  <1> QED
    BY <1>1, <1>2, <1>3 DEF LeaveRegion, NextRegion

-----------------------------------------------------------------------------
(* Types and calls.                                                         *)

LEMMA TypeStep ==
    ASSUME TypeInv, CallInv, IssuedInv, RingInv, Next
    PROVE  TypeInv'
  <1>1. CASE Take
    BY <1>1 DEF TypeInv, Take, bus, threads
  <1>2. CASE LeaveRegion
    <2>0. rings \in [Regions -> Seq(Nat)]
      BY DEF TypeInv
    <2>1. rings' \in [Regions -> Seq(Nat)]
      BY <1>2, <2>0, LeaveRegionFacts
    <2> QED
      BY <1>2, <2>1, LeaveRegionFacts DEF TypeInv, threads
  <1>3. ASSUME NEW t \in Threads, OpenSpan(t)
        PROVE  TypeInv'
    <2>1. PICK parent \in Parents(t), span \in Spans \ {NoSpan} :
              /\ parent \in Spans /\ Opens(t, parent, span)
              /\ SendOn(t, Message(t, "start", span, parent))
              /\ UNCHANGED <<rings, log, threads, consumer>>
      BY <1>3, OpenFacts
    <2>2. call' \in [Threads -> Calls] /\ empty' \in [Threads -> SUBSET Regions]
      BY <2>1, SentFacts
    <2>3. traces' \in 0..MaxSpans /\ counters' \in [Regions -> 0..MaxSpans]
      <3>1. counters \in [Regions -> 0..MaxSpans] /\ MaxSpans \in Nat
        BY SpanBusAssumption DEF TypeInv
      <3>2. LET r == TraceHome[span.trace]
            IN r \in Regions /\ counters[r] < MaxSpans
               /\ counters' = [counters EXCEPT ![r] = counters[r] + 1]
        BY <2>1 DEF Opens
      <3>3. traces' \in 0..MaxSpans
        BY <2>1 DEF Opens
      <3> QED
        BY <3>1, <3>2, <3>3
    <2> QED
      BY <2>1, <2>2, <2>3 DEF TypeInv, threads, consumer
  <1>4. ASSUME NEW t \in Threads, OpenNone(t)
        PROVE  TypeInv'
    BY <1>4, NoneFacts DEF TypeInv, bus, consumer
  <1>5. ASSUME NEW t \in Threads, CloseScope(t)
        PROVE  TypeInv'
    <2>1. call' \in [Threads -> Calls] /\ empty' \in [Threads -> SUBSET Regions]
      BY <1>5, CloseFacts, SentFacts, NoSpanIsNone
    <2> QED
      BY <1>5, <2>1, CloseFacts DEF TypeInv, bus, consumer
  <1>6. ASSUME NEW t \in Threads, Log(t)
        PROVE  TypeInv'
    <2>1. call' \in [Threads -> Calls] /\ empty' \in [Threads -> SUBSET Regions]
      BY <1>6, LogFacts, SentFacts, NoSpanIsNone
    <2> QED
      BY <1>6, <2>1, LogFacts DEF TypeInv, bus, threads, consumer
  <1>7. ASSUME NEW t \in Threads, SetContext(t)
        PROVE  TypeInv'
    BY <1>7, SetFacts DEF TypeInv, bus, consumer
  <1>8. ASSUME NEW t \in Threads, Place(t)
        PROVE  TypeInv'
    <2>1. call[t].region \in Regions
      BY <1>8, PlaceFacts, CallFields
    <2>2. rings' \in [Regions -> Seq(Nat)]
      <3>1. rings \in [Regions -> Seq(Nat)] /\ Len(log) + 1 \in Nat
        BY DEF TypeInv
      <3>2. Append(rings[call[t].region], Len(log) + 1) \in Seq(Nat)
        BY <2>1, <3>1
      <3>3. rings' = [rings EXCEPT ![call[t].region] = Append(rings[call[t].region], Len(log) + 1)]
        BY <1>8, PlaceFacts DEF Placed
      <3> QED
        BY <3>1, <3>2, <3>3
    <2> QED
      BY <1>8, <2>2, PlaceFacts DEF TypeInv, threads, consumer
  <1>9. ASSUME NEW t \in Threads, Refuse(t)
        PROVE  TypeInv'
    BY <1>9, RefuseFacts DEF TypeInv, bus, threads, consumer
  <1>10. ASSUME NEW t \in Threads, Publish(t)
         PROVE  TypeInv'
    <2>1. PICK state \in {"whole", "broken"} :
             /\ IF log[call[t].i].kind = "start" /\ state = "whole"
                THEN /\ Enter(t, log[call[t].i].span, ctx[t].threshold)
                     /\ log[call[t].i].span \in Spans /\ ctx[t].threshold \in Thresholds
                ELSE UNCHANGED <<scopes, ctx>>
             /\ UNCHANGED <<counters, traces, rings, consumer, empty>>
             /\ log' \in Seq(Messages) /\ call' \in [Threads -> Calls]
      BY <1>10, PublishFacts
    <2>2. scopes' \in [Threads -> Seq(Scopes)] /\ ctx' \in [Threads -> Contexts]
      <3>1. CASE log[call[t].i].kind = "start" /\ state = "whole"
        BY <2>1, <3>1, EnterFacts
      <3>2. CASE ~(log[call[t].i].kind = "start" /\ state = "whole")
        BY <2>1, <3>2 DEF TypeInv
      <3> QED
        BY <3>1, <3>2
    <2> QED
      BY <2>1, <2>2 DEF TypeInv, consumer
  <1> QED
    BY <1>1, <1>2, <1>3, <1>4, <1>5, <1>6, <1>7, <1>8, <1>9, <1>10 DEF Next, Step, Consume

\* What messages are does not change, but they are published.
Keeps(m, n) ==
    /\ n.kind = m.kind /\ n.span = m.span /\ n.parent = m.parent /\ n.by = m.by
    /\ n.home = m.home /\ n.region = m.region
    /\ n.state = m.state \/ (m.state = "writing" /\ n.state \in {"whole", "broken"})

LEMMA LogSteps ==
    ASSUME Next
    PROVE  UNCHANGED log \/ \E t \in Threads : Place(t) \/ Publish(t)
  <1>1. CASE Consume
    BY <1>1 DEF Consume, Take, LeaveRegion, bus
  <1>2. ASSUME NEW t \in Threads, OpenSpan(t) \/ OpenNone(t) \/ CloseScope(t) \/ Log(t)
                                   \/ SetContext(t) \/ Refuse(t)
        PROVE  UNCHANGED log
    BY <1>2 DEF OpenSpan, OpenNone, CloseScope, Log, SetContext, Refuse, bus
  <1> QED
    BY <1>1, <1>2 DEF Next, Step

LEMMA LogKeeps ==
    ASSUME TypeInv, CallInv, Next
    PROVE  /\ Len(log) \in Nat /\ Len(log') \in Nat /\ Len(log) <= Len(log')
           /\ \A i \in 1 .. Len(log) : Keeps(log[i], log'[i])
  <1>1. Len(log) \in Nat /\ log \in Seq(Messages)
    BY DEF TypeInv
  <1>2. CASE UNCHANGED log
    BY <1>1, <1>2 DEF Keeps
  <1>3. ASSUME NEW t \in Threads, Place(t)
        PROVE  /\ Len(log') = Len(log) + 1
               /\ \A i \in 1 .. Len(log) : Keeps(log[i], log'[i])
    BY <1>3, PlaceFacts DEF Placed, Keeps
  <1>4. ASSUME NEW t \in Threads, Publish(t)
        PROVE  /\ Len(log') = Len(log)
               /\ \A i \in 1 .. Len(log) : Keeps(log[i], log'[i])
    <2>1. PICK state \in {"whole", "broken"} :
             LET m == log[call[t].i]
                 e == [m EXCEPT !.state = state]
             IN /\ Writing(t) /\ Published(t, state)
                /\ e.kind = m.kind /\ e.span = m.span /\ e.parent = m.parent /\ e.by = m.by
                /\ e.home = m.home /\ e.region = m.region /\ e.state = state
      BY <1>4, PublishFacts
    <2>2. log[call[t].i].state = "writing"
      BY <2>1 DEF CallInv
    <2>3. Len(log') = Len(log) /\ \A j \in 1 .. Len(log) : j # call[t].i => log'[j] = log[j]
      BY <2>1 DEF Published
    <2>4. Keeps(log[call[t].i], log'[call[t].i])
      BY <2>1, <2>2 DEF Published, Keeps
    <2> QED
      BY <2>3, <2>4 DEF Keeps
  <1> QED
    BY <1>1, <1>2, <1>3, <1>4, LogSteps

\* Calls: what a thread does is its own affair.
LEMMA CallStep ==
    ASSUME TypeInv, CallInv, IssuedInv, RingInv, Next
    PROVE  CallInv'
  <1>1. \A i \in 1 .. Len(log) :
           log'[i].region \in Regions /\ log'[i].home = Home(log'[i].by, log'[i].span)
    BY LogKeeps DEF CallInv, Keeps
  <1>2. ASSUME Len(log') = Len(log), NEW t \in Threads,
               \A u \in Threads : u # t => call'[u] = call[u],
               \A u \in Threads : u # t /\ Writing(u) => log'[call[u].i].state = "writing",
               call'[t].at # "write",
               call'[t].at = "place" =>
                  LET m == call'[t].msg
                  IN m.by = t /\ m.home = Home(t, m.span) /\ m.state = "writing"
        PROVE  CallInv'
    <2>1. ASSUME NEW u \in Threads, call'[u].at = "place"
          PROVE  LET m == call'[u].msg
                 IN m.by = u /\ m.home = Home(u, m.span) /\ m.state = "writing"
      BY <1>2, <2>1 DEF CallInv, Placing
    <2>2. ASSUME NEW u \in Threads, call'[u].at = "write"
          PROVE  /\ call'[u].i \in 1 .. Len(log')
                 /\ log'[call'[u].i].by = u /\ log'[call'[u].i].state = "writing"
      <3>1. u # t /\ call'[u] = call[u] /\ Writing(u)
        BY <1>2, <2>2 DEF Writing
      <3>2. call[u].i \in 1 .. Len(log) /\ log[call[u].i].by = u
        BY <3>1 DEF CallInv
      <3> QED
        BY <1>2, <3>1, <3>2, LogKeeps DEF Keeps
    <2> QED
      BY <1>1, <1>2, <2>1, <2>2 DEF CallInv, Placing, Writing
  <1>3. ASSUME UNCHANGED log, NEW t \in Threads, NEW kind \in {"start", "end", "log"},
               NEW span \in Spans, NEW parent \in Spans, SendOn(t, Message(t, kind, span, parent))
        PROVE  CallInv'
    <2>1. /\ Elsewhere(t)
          /\ Sent(t, Message(t, kind, span, parent)) \/ Lost(t)
      BY <1>3, SentFacts
    <2>2. \A u \in Threads : u # t => call'[u] = call[u]
      BY <2>1 DEF Elsewhere
    <2>3. /\ call'[t].at # "write"
          /\ call'[t].at = "place" => call'[t].msg = Message(t, kind, span, parent)
      BY <2>1 DEF Sent, Lost
    <2>4. \A u \in Threads : Writing(u) => log'[call[u].i].state = "writing"
      BY <1>3 DEF CallInv
    <2>5. LET m == Message(t, kind, span, parent)
          IN m.by = t /\ m.home = Home(t, m.span) /\ m.state = "writing"
      BY MessageType
    <2> QED
      BY <1>2, <1>3, <2>2, <2>3, <2>4, <2>5
  <1>4. CASE UNCHANGED <<log, call>>
    BY <1>4 DEF CallInv, Placing, Writing, Home
  <1>5. ASSUME NEW t \in Threads, OpenSpan(t) \/ CloseScope(t) \/ Log(t)
        PROVE  CallInv'
    <2>1. CASE OpenSpan(t)
      BY <1>3, <2>1, OpenFacts
    <2>2. CASE CloseScope(t)
      BY <1>3, <2>2, CloseFacts, NoSpanIsNone DEF bus
    <2>3. CASE Log(t)
      BY <1>3, <2>3, LogFacts, NoSpanIsNone DEF bus
    <2> QED
      BY <1>5, <2>1, <2>2, <2>3
  <1>6. ASSUME NEW t \in Threads, Refuse(t)
        PROVE  CallInv'
    <2>1. /\ Placing(t) /\ Elsewhere(t) /\ UNCHANGED bus
          /\ \/ call'[t] = Idle
             \/ call'[t] = [at |-> "place", msg |-> call[t].msg,
                           region |-> After(call[t].region)]
      BY <1>6, RefuseFacts
    <2>2. \A u \in Threads : u # t => call'[u] = call[u]
      BY <2>1 DEF Elsewhere
    <2>3. /\ call'[t].at # "write"
          /\ call'[t].at = "place" => call'[t].msg = call[t].msg
      BY <2>1 DEF Idle
    <2>4. UNCHANGED log
      BY <2>1 DEF bus
    <2>5. LET m == call[t].msg
          IN m.by = t /\ m.home = Home(t, m.span) /\ m.state = "writing"
      BY <2>1 DEF CallInv
    <2>6. \A u \in Threads : Writing(u) => log'[call[u].i].state = "writing"
      BY <2>4 DEF CallInv
    <2> QED
      BY <1>2, <2>2, <2>3, <2>4, <2>5, <2>6
  <1>7. ASSUME NEW t \in Threads, Publish(t)
        PROVE  CallInv'
    <2>1. PICK state \in {"whole", "broken"} : Writing(t) /\ Published(t, state)
      BY <1>7, PublishFacts
    <2>2. /\ Len(log') = Len(log) /\ \A u \in Threads : u # t => call'[u] = call[u]
          /\ call'[t].at = "idle"
          /\ \A j \in 1 .. Len(log) : j # call[t].i => log'[j] = log[j]
      BY <2>1 DEF Published, Idle
    <2>3. ASSUME NEW u \in Threads, u # t, Writing(u)
          PROVE  log'[call[u].i].state = "writing"
      BY <2>1, <2>2, <2>3 DEF CallInv
    <2> QED
      BY <1>2, <2>2, <2>3
  <1>8. ASSUME NEW t \in Threads, Place(t)
        PROVE  CallInv'
    <2> DEFINE n == Len(log) + 1
    <2>1. /\ Placing(t) /\ call[t].region \in Regions /\ Len(log') = n /\ Len(log) \in Nat
          /\ \A i \in 1 .. Len(log) : log'[i] = log[i]
          /\ call'[t].at = "write" /\ call'[t].i = n
          /\ \A u \in Threads : u # t => call'[u] = call[u]
          /\ log'[n].by = call[t].msg.by /\ log'[n].span = call[t].msg.span
          /\ log'[n].home = call[t].msg.home /\ log'[n].state = call[t].msg.state
          /\ log'[n].region = call[t].region
      <3>1. Placing(t) /\ Placed(t)
        BY <1>8, PlaceFacts
      <3>2. call[t].region \in Regions /\ Len(log) \in Nat
        BY <3>1, CallFields, LogKeeps
      <3>3. /\ Len(log') = n /\ \A i \in 1 .. Len(log) : log'[i] = log[i]
            /\ call'[t].at = "write" /\ call'[t].i = n
            /\ \A u \in Threads : u # t => call'[u] = call[u]
            /\ log'[n] = [call[t].msg EXCEPT !.region = call[t].region]
        BY <3>1 DEF Placed
      <3> QED
        BY <1>8, <3>1, <3>2, <3>3, PlaceFacts
    <2>2. /\ log'[n].by = t /\ log'[n].home = Home(t, log'[n].span)
          /\ log'[n].state = "writing"
      BY <2>1 DEF CallInv
    <2>3. \A i \in 1 .. Len(log') :
             log'[i].region \in Regions /\ log'[i].home = Home(log'[i].by, log'[i].span)
      BY <1>1, <2>1, <2>2
    <2>4. ASSUME NEW u \in Threads, call'[u].at = "place"
          PROVE  LET m == call'[u].msg
                 IN m.by = u /\ m.home = Home(u, m.span) /\ m.state = "writing"
      BY <2>1, <2>4 DEF CallInv, Placing
    <2>5. ASSUME NEW u \in Threads, call'[u].at = "write"
          PROVE  /\ call'[u].i \in 1 .. Len(log')
                 /\ log'[call'[u].i].by = u /\ log'[call'[u].i].state = "writing"
      <3>1. CASE u = t
        BY <2>1, <2>2, <3>1
      <3>2. CASE u # t
        BY <2>1, <2>5, <3>2 DEF CallInv, Writing
      <3> QED
        BY <3>1, <3>2
    <2> QED
      BY <2>3, <2>4, <2>5 DEF CallInv, Placing, Writing
  <1>9. CASE Consume
    BY <1>4, <1>9 DEF Consume, Take, LeaveRegion, bus
  <1>10. ASSUME NEW t \in Threads, OpenNone(t) \/ SetContext(t)
         PROVE  CallInv'
    BY <1>4, <1>10 DEF OpenNone, SetContext, bus
  <1> QED
    BY <1>5, <1>6, <1>7, <1>8, <1>9, <1>10 DEF Next, Step

-----------------------------------------------------------------------------
(* Who has a span, and what is sent.                                        *)

LEMMA EnteredHolds ==
    ASSUME TypeInv, NEW u \in Threads, NEW span, NEW threshold, Entered(u, span, threshold),
           OthersRest(u), NEW t \in Threads, NEW s, Holds(t, s)'
    PROVE  s = span \/ Holds(t, s)
  <1>1. Len(scopes[t]) \in Nat
    BY DEF TypeInv
  <1>2. CASE t # u
    BY <1>2 DEF OthersRest, Holds
  <1>3. CASE t = u
    <2>1. CASE ctx'[t].span = s
      BY <1>3, <2>1 DEF Entered
    <2>2. ASSUME NEW k \in 1 .. Len(scopes'[t]),
                 s \in {scopes'[t][k].span, scopes'[t][k].previous}
          PROVE  s = span \/ Holds(t, s)
      <3>1. CASE k \in 1 .. Len(scopes[t])
        BY <1>3, <2>2, <3>1 DEF Entered, Holds
      <3>2. CASE k = Len(scopes[t]) + 1
        BY <1>3, <2>2, <3>2 DEF Entered, Holds
      <3> QED
        BY <1>1, <1>3, <2>2, <3>1, <3>2 DEF Entered
    <2> QED
      BY <2>1, <2>2 DEF Holds
  <1> QED
    BY <1>2, <1>3

LEMMA LeftHolds ==
    ASSUME TypeInv, NEW u \in Threads, Left(u), OthersRest(u), NEW t \in Threads, NEW s,
           Holds(t, s)'
    PROVE  Holds(t, s)
  <1>1. Len(scopes[t]) \in Nat
    BY DEF TypeInv
  <1>2. CASE t # u
    BY <1>2 DEF OthersRest, Holds
  <1>3. CASE t = u
    <2>1. CASE ctx'[t].span = s
      BY <1>1, <1>3, <2>1 DEF Left, Holds
    <2>2. CASE ctx'[t].span # s
      <3>1. PICK k \in 1 .. Len(scopes'[t]) : s \in {scopes'[t][k].span, scopes'[t][k].previous}
        BY <2>2 DEF Holds
      <3>2. k \in 1 .. Len(scopes[t]) - 1 /\ k \in 1 .. Len(scopes[t])
        BY <1>1, <1>3, <3>1 DEF Left
      <3>3. scopes'[t][k] = scopes[t][k]
        BY <1>3, <3>2 DEF Left
      <3> QED
        BY <3>1, <3>2, <3>3 DEF Holds
    <2> QED
      BY <2>1, <2>2
  <1> QED
    BY <1>2, <1>3

\* The steps that touch contexts or scopes.
LEMMA MoveSteps ==
    ASSUME Next
    PROVE  \/ UNCHANGED <<ctx, scopes>>
           \/ \E u \in Threads : Publish(u) \/ OpenNone(u) \/ CloseScope(u) \/ SetContext(u)
  <1>1. CASE Consume
    BY <1>1 DEF Consume, Take, LeaveRegion, threads
  <1>2. ASSUME NEW t \in Threads, OpenSpan(t) \/ Log(t) \/ Place(t) \/ Refuse(t)
        PROVE  UNCHANGED <<ctx, scopes>>
    BY <1>2 DEF OpenSpan, Log, Place, Refuse, threads
  <1> QED
    BY <1>1, <1>2 DEF Next, Step

\* A span that a thread has was had by a thread, or its start was just published.
LEMMA HeldStep ==
    ASSUME TypeInv, CallInv, Next, NEW t \in Threads, NEW s, Holds(t, s)'
    PROVE  \/ s = NoSpan
           \/ \E u \in Threads : Holds(u, s)
           \/ \E i \in 1 .. Len(log') :
                 log'[i].kind = "start" /\ log'[i].span = s /\ log'[i].state = "whole"
  <1>1. CASE UNCHANGED <<ctx, scopes>>
    BY <1>1 DEF Holds
  <1>2. ASSUME NEW u \in Threads, Publish(u)
        PROVE  \/ Holds(t, s)
               \/ \E i \in 1 .. Len(log') :
                     log'[i].kind = "start" /\ log'[i].span = s /\ log'[i].state = "whole"
    <2>1. PICK state \in {"whole", "broken"} :
             LET m == log[call[u].i]
                 e == [m EXCEPT !.state = state]
             IN /\ Writing(u) /\ Published(u, state)
                /\ IF m.kind = "start" /\ state = "whole"
                   THEN /\ Enter(u, m.span, ctx[u].threshold)
                        /\ m.span \in Spans /\ ctx[u].threshold \in Thresholds
                   ELSE UNCHANGED <<scopes, ctx>>
                /\ e.kind = m.kind /\ e.span = m.span /\ e.state = state
      BY <1>2, PublishFacts
    <2>2. CASE UNCHANGED <<scopes, ctx>>
      BY <2>2 DEF Holds
    <2>3. CASE log[call[u].i].kind = "start" /\ state = "whole"
      <3>1. /\ Entered(u, log[call[u].i].span, ctx[u].threshold) /\ OthersRest(u)
        BY <2>1, <2>3, EnterFacts
      <3>2. s = log[call[u].i].span \/ Holds(t, s)
        BY <3>1, EnteredHolds
      <3>3. /\ call[u].i \in 1 .. Len(log') /\ log'[call[u].i].kind = "start"
            /\ log'[call[u].i].span = log[call[u].i].span /\ log'[call[u].i].state = "whole"
        <4>1. call[u].i \in 1 .. Len(log)
          BY <2>1 DEF CallInv
        <4> QED
          BY <2>1, <2>3, <4>1 DEF Published
      <3> QED
        BY <3>2, <3>3
    <2> QED
      BY <2>1, <2>2, <2>3
  <1>3. ASSUME NEW u \in Threads, OpenNone(u)
        PROVE  s = NoSpan \/ Holds(t, s)
    <2>1. PICK threshold : Entered(u, NoSpan, threshold) /\ OthersRest(u)
      BY <1>3, NoneFacts
    <2> QED
      BY <2>1, EnteredHolds
  <1>4. ASSUME NEW u \in Threads, CloseScope(u)
        PROVE  Holds(t, s)
    BY <1>4, CloseFacts, LeftHolds
  <1>5. ASSUME NEW u \in Threads, SetContext(u)
        PROVE  s = NoSpan \/ \E v \in Threads : Holds(v, s)
    <2>1. UNCHANGED scopes /\ \A v \in Threads : v # u => ctx'[v] = ctx[v]
      BY <1>5, SetFacts
    <2>2. \/ ctx'[u] = NoContext
          \/ \E v \in Threads : ctx'[u] = Context(ctx[v].span, Default)
      BY <1>5, SetFacts
    <2>3. ctx'[u].span = NoSpan \/ \E v \in Threads : ctx'[u].span = ctx[v].span
      <3>1. CASE ctx'[u] = NoContext
        BY <3>1 DEF NoContext
      <3>2. ASSUME NEW v \in Threads, ctx'[u] = Context(ctx[v].span, Default)
            PROVE  ctx'[u].span = ctx[v].span
        BY <3>2 DEF Context
      <3> QED
        BY <2>2, <3>1, <3>2
    <2> QED
      BY <2>1, <2>3 DEF Holds
  <1> QED
    BY <1>1, <1>2, <1>3, <1>4, <1>5, MoveSteps

\* A message that looks for a place did so before, or was just sent.
Begun(t, kind, span, parent) ==
    /\ call[t] = Idle /\ ctx[t].port /\ call'[t].msg = Message(t, kind, span, parent)
    /\ call'[t].region = Home(t, span)
    /\ empty'[t] = {r \in Regions : rings[r] = <<>>}
    /\ kind = "start" => /\ OpenSpan(t) /\ Opens(t, parent, span) /\ span # NoSpan
                         /\ parent = NoSpan \/ \E u \in Threads : Holds(u, parent)
    /\ kind = "log" => Log(t) /\ span = ctx[t].span
    /\ kind = "end" => /\ CloseScope(t) /\ scopes[t] # <<>>
                       /\ span = scopes[t][Len(scopes[t])].span

LEMMA BeginFacts ==
    ASSUME TypeInv, IssuedInv, NEW t \in Threads, OpenSpan(t) \/ Log(t) \/ CloseScope(t)
    PROVE  /\ Elsewhere(t)
           /\ ctx[t].port <=> call'[t] # [at |-> "undefined"]
           /\ ~ctx[t].port => empty'[t] = empty[t] /\ ~Placing(t)'
           /\ ~Writing(t)' /\ UNCHANGED <<rings, log, consumer>>
           /\ ctx[t].port => /\ Placing(t)'
                             /\ \E kind \in {"start", "log", "end"}, span, parent \in Spans :
                                   Begun(t, kind, span, parent)
  <1>1. ASSUME NEW kind \in {"start", "end", "log"}, NEW span \in Spans, NEW parent \in Spans,
               SendOn(t, Message(t, kind, span, parent))
        PROVE  /\ Elsewhere(t)
               /\ ctx[t].port <=> call'[t] # [at |-> "undefined"]
               /\ ~ctx[t].port => empty'[t] = empty[t] /\ ~Placing(t)'
               /\ ~Writing(t)'
               /\ ctx[t].port => /\ Placing(t)' /\ call'[t].msg = Message(t, kind, span, parent)
                                 /\ call'[t].region = Home(t, span)
                                 /\ empty'[t] = {r \in Regions : rings[r] = <<>>}
    <2>1. Elsewhere(t) /\ (Sent(t, Message(t, kind, span, parent)) \/ Lost(t))
      BY <1>1, SentFacts
    <2>2. Message(t, kind, span, parent).span = span
      BY MessageType
    <2>3. CASE Sent(t, Message(t, kind, span, parent))
      BY <2>1, <2>2, <2>3 DEF Sent, Placing, Writing
    <2>4. CASE Lost(t)
      BY <2>1, <2>4 DEF Lost, Placing, Writing
    <2> QED
      BY <2>1, <2>3, <2>4
  <1>2. CASE OpenSpan(t)
    <2>1. PICK parent \in Parents(t), span \in Spans \ {NoSpan} :
              /\ parent \in Spans /\ Opens(t, parent, span) /\ ctx[t].port /\ Free(t)
              /\ SendOn(t, Message(t, "start", span, parent))
              /\ UNCHANGED <<rings, log, threads, consumer>>
      BY <1>2, OpenFacts
    <2>2. parent = NoSpan \/ \E u \in Threads : Holds(u, parent)
      BY DEF Parents, Holds
    <2> QED
      BY <1>1, <1>2, <2>1, <2>2 DEF Begun, Free
  <1>3. CASE Log(t)
    BY <1>1, <1>3, LogFacts, NoSpanIsNone DEF Begun, bus
  <1>4. CASE CloseScope(t)
    <2>1. scopes[t] # <<>>
      BY <1>4 DEF CloseScope
    <2> QED
      BY <1>1, <1>4, <2>1, CloseFacts, NoSpanIsNone DEF Begun, bus
  <1> QED
    BY <1>2, <1>3, <1>4

LEMMA CallSteps ==
    ASSUME TypeInv, CallInv, IssuedInv, Next, NEW t \in Threads, Placing(t)'
    PROVE  \/ Placing(t) /\ call'[t].msg = call[t].msg
           \/ \E kind \in {"start", "log", "end"}, span, parent \in Spans :
                 Begun(t, kind, span, parent)
  <1>1. CASE UNCHANGED call
    BY <1>1 DEF Placing
  <1>2. ASSUME NEW u \in Threads, OpenSpan(u) \/ Log(u) \/ CloseScope(u)
        PROVE  \/ Placing(t) /\ call'[t].msg = call[t].msg
               \/ \E kind \in {"start", "log", "end"}, span, parent \in Spans :
                     Begun(t, kind, span, parent)
    <2>1. CASE u = t
      BY <1>2, <2>1, BeginFacts
    <2>2. CASE u # t
      <3>1. Elsewhere(u)
        BY <1>2, BeginFacts
      <3>2. call'[t] = call[t]
        BY <2>2, <3>1 DEF Elsewhere
      <3> QED
        BY <3>2 DEF Placing
    <2> QED
      BY <2>1, <2>2
  <1>3. ASSUME NEW u \in Threads, Refuse(u)
        PROVE  Placing(t) /\ call'[t].msg = call[t].msg
    <2>1. /\ Placing(u) /\ \A v \in Threads : v # u => call'[v] = call[v]
          /\ \/ call'[u] = Idle
             \/ call'[u] = [at |-> "place", msg |-> call[u].msg,
                            region |-> After(call[u].region)]
      BY <1>3, RefuseFacts DEF Elsewhere
    <2>2. call'[t].at = "place"
      BY DEF Placing
    <2> QED
      BY <2>1, <2>2 DEF Placing, Idle
  <1>4. ASSUME NEW u \in Threads, Place(u)
        PROVE  Placing(t) /\ call'[t].msg = call[t].msg
    <2>1. call'[u].at = "write" /\ \A v \in Threads : v # u => call'[v] = call[v]
      <3>1. Placed(u)
        BY <1>4, PlaceFacts
      <3> QED
        BY <3>1 DEF Placed
    <2>2. call'[t].at = "place"
      BY DEF Placing
    <2> QED
      BY <2>1, <2>2 DEF Placing
  <1>5. ASSUME NEW u \in Threads, Publish(u)
        PROVE  Placing(t) /\ call'[t].msg = call[t].msg
    <2>1. call'[u].at = "idle" /\ \A v \in Threads : v # u => call'[v] = call[v]
      <3>1. PICK state : Published(u, state)
        BY <1>5, PublishFacts
      <3> QED
        BY <3>1 DEF Published, Idle
    <2>2. call'[t].at = "place"
      BY DEF Placing
    <2> QED
      BY <2>1, <2>2 DEF Placing
  <1>6. CASE Consume
    BY <1>1, <1>6 DEF Consume, Take, LeaveRegion
  <1>7. ASSUME NEW u \in Threads, OpenNone(u) \/ SetContext(u)
        PROVE  UNCHANGED call
    BY <1>7 DEF OpenNone, SetContext
  <1> QED
    BY <1>1, <1>2, <1>3, <1>4, <1>5, <1>6, <1>7 DEF Next, Step

\* A message of the log was there before, or its thread looked for a place.
LEMMA EntrySteps ==
    ASSUME TypeInv, CallInv, Next, NEW i \in 1 .. Len(log')
    PROVE  \/ i \in 1 .. Len(log) /\ Keeps(log[i], log'[i])
           \/ \E t \in Threads :
                 /\ Place(t) /\ Placing(t) /\ i = Len(log) + 1
                 /\ \A j \in 1 .. Len(log) : log'[j] = log[j]
                 /\ log'[i].kind = call[t].msg.kind /\ log'[i].span = call[t].msg.span
                 /\ log'[i].parent = call[t].msg.parent /\ log'[i].by = call[t].msg.by
                 /\ log'[i].home = call[t].msg.home /\ log'[i].state = call[t].msg.state
                 /\ log'[i].region = call[t].region
  <1>1. Len(log) \in Nat /\ Len(log') \in Nat
    BY LogKeeps
  <1>2. CASE i \in 1 .. Len(log)
    BY <1>2, LogKeeps
  <1>3. CASE i \notin 1 .. Len(log)
    <2>1. ASSUME NEW t \in Threads, Publish(t)
          PROVE  FALSE
      <3>1. PICK state : Published(t, state)
        BY <2>1, PublishFacts
      <3> QED
        BY <1>3, <3>1 DEF Published
    <2>2. PICK t \in Threads : Place(t)
      BY <1>3, <2>1, LogSteps
    <2>3. Placing(t) /\ Placed(t)
      BY <2>2, PlaceFacts
    <2>4. i = Len(log) + 1 /\ log'[i] = [call[t].msg EXCEPT !.region = call[t].region]
          /\ \A j \in 1 .. Len(log) : log'[j] = log[j]
      BY <1>1, <1>3, <2>3 DEF Placed
    <2> QED
      BY <2>2, <2>3, <2>4, PlaceFacts
  <1> QED
    BY <1>2, <1>3

-----------------------------------------------------------------------------
(* Ids.                                                                     *)

LEMMA CounterSteps ==
    ASSUME Next
    PROVE  UNCHANGED <<counters, traces>> \/ \E t \in Threads : OpenSpan(t)
  <1>1. CASE Consume
    BY <1>1 DEF Consume, Take, LeaveRegion, bus
  <1>2. ASSUME NEW t \in Threads, OpenNone(t) \/ CloseScope(t) \/ Log(t) \/ SetContext(t)
                                   \/ Place(t) \/ Refuse(t) \/ Publish(t)
        PROVE  UNCHANGED <<counters, traces>>
    BY <1>2 DEF OpenNone, CloseScope, Log, SetContext, Place, Refuse, Publish, bus
  <1> QED
    BY <1>1, <1>2 DEF Next, Step

LEMMA IssuedGrows ==
    ASSUME TypeInv, IssuedInv, Next, NEW s, Issued(s)
    PROVE  IssuedBy(s, traces', counters')
  <1>1. CASE UNCHANGED <<counters, traces>>
    BY <1>1 DEF Issued, IssuedBy
  <1>2. ASSUME NEW t \in Threads, OpenSpan(t)
        PROVE  IssuedBy(s, traces', counters')
    <2>1. PICK parent \in Parents(t), span \in Spans \ {NoSpan} : Opens(t, parent, span)
      BY <1>2, OpenFacts
    <2>2. CASE s = NoSpan
      BY <2>2 DEF Issued, IssuedBy
    <2>3. CASE s # NoSpan
      <3>1. s.trace \in 1..traces /\ s.id \in Nat /\ s.id < counters[TraceHome[s.trace]]
        BY <2>3 DEF Issued, IssuedBy
      <3>2. /\ traces \in 0..MaxSpans /\ MaxSpans \in Nat
            /\ TraceHome \in [1..MaxSpans -> Regions]
            /\ counters \in [Regions -> 0..MaxSpans]
        BY SpanBusAssumption DEF TypeInv
      <3>3. s.trace \in 1..MaxSpans
        BY <3>1, <3>2
      <3>4. TraceHome[s.trace] \in Regions /\ counters[TraceHome[s.trace]] \in 0..MaxSpans
        BY <3>2, <3>3
      <3>5. s.trace \in 1..traces' /\ TraceHome[span.trace] \in Regions
            /\ counters' = [counters EXCEPT ![TraceHome[span.trace]]
                                               = counters[TraceHome[span.trace]] + 1]
        BY <2>1, <3>1, <3>2 DEF Opens
      <3>6. \/ counters'[TraceHome[s.trace]] = counters[TraceHome[s.trace]]
            \/ counters'[TraceHome[s.trace]] = counters[TraceHome[s.trace]] + 1
        BY <3>2, <3>4, <3>5
      <3> QED
        BY <3>1, <3>4, <3>5, <3>6 DEF Issued, IssuedBy
    <2> QED
      BY <2>2, <2>3
  <1> QED
    BY <1>1, <1>2, CounterSteps

\* A new span has an id nobody has, and has it from then on.
LEMMA NewSpan ==
    ASSUME TypeInv, NEW t \in Threads, NEW parent, NEW span \in Spans \ {NoSpan},
           Opens(t, parent, span)
    PROVE  /\ IssuedBy(span, traces', counters')
           /\ \A s : Issued(s) => s # span
  <1>1. span.id \in Nat
    BY SpanBusAssumption DEF Spans
  <1>2. /\ TraceHome[span.trace] \in Regions /\ counters \in [Regions -> 0..MaxSpans]
        /\ span.id = counters[TraceHome[span.trace]] /\ span.trace \in 1..traces'
        /\ counters' = [counters EXCEPT ![TraceHome[span.trace]]
                                           = counters[TraceHome[span.trace]] + 1]
    BY DEF Opens, TypeInv
  <1>3. counters'[TraceHome[span.trace]] = span.id + 1
    BY <1>2
  <1>4. IssuedBy(span, traces', counters')
    BY <1>1, <1>2, <1>3 DEF Issued, IssuedBy
  <1>5. ~Issued(span)
    BY <1>1, <1>2 DEF Issued, IssuedBy
  <1> QED
    BY <1>4, <1>5

LEMMA IssuedStep ==
    ASSUME TypeInv, CallInv, IssuedInv, Next
    PROVE  IssuedInv'
  <1>1. ASSUME NEW i \in 1 .. Len(log')
        PROVE  IssuedBy(log'[i].span, traces', counters')
    <2>1. CASE i \in 1 .. Len(log) /\ Keeps(log[i], log'[i])
      BY <2>1, IssuedGrows DEF IssuedInv, Keeps
    <2>2. CASE \E t \in Threads : Placing(t) /\ log'[i].span = call[t].msg.span
      BY <2>2, IssuedGrows DEF IssuedInv
    <2> QED
      BY <2>1, <2>2, EntrySteps
  <1>2. ASSUME NEW t \in Threads, NEW s, Holds(t, s)'
        PROVE  IssuedBy(s, traces', counters')
    <2>1. CASE s = NoSpan
      BY <2>1 DEF Issued, IssuedBy
    <2>2. CASE \E u \in Threads : Holds(u, s)
      BY <2>2, IssuedGrows DEF IssuedInv
    <2>3. CASE \E i \in 1 .. Len(log') : log'[i].span = s
      BY <1>1, <2>3
    <2> QED
      BY <1>2, <2>1, <2>2, <2>3, HeldStep
  <1>3. ASSUME NEW t \in Threads, Placing(t)'
        PROVE  IssuedBy(call'[t].msg.span, traces', counters')
    <2>1. CASE Placing(t) /\ call'[t].msg = call[t].msg
      BY <2>1, IssuedGrows DEF IssuedInv
    <2>2. ASSUME NEW kind \in {"start", "log", "end"}, NEW span \in Spans, NEW parent \in Spans,
                 Begun(t, kind, span, parent)
          PROVE  IssuedBy(call'[t].msg.span, traces', counters')
      <3>1. call'[t].msg.span = span
        BY <2>2, MessageType DEF Begun
      <3>2. CASE kind = "start"
        BY <2>2, <3>1, <3>2, NewSpan DEF Begun
      <3>3. CASE kind = "log"
        <4>1. Holds(t, span)
          BY <2>2, <3>3 DEF Begun, Holds
        <4> QED
          BY <3>1, <4>1, IssuedGrows DEF IssuedInv
      <3>4. CASE kind = "end"
        <4>1. scopes[t] \in Seq(Scopes) /\ scopes[t] # <<>>
              /\ span = scopes[t][Len(scopes[t])].span
          BY <2>2, <3>4 DEF Begun, TypeInv
        <4>2. Holds(t, span)
          BY <4>1 DEF Holds
        <4> QED
          BY <3>1, <4>2, IssuedGrows DEF IssuedInv
      <3> QED
        BY <3>2, <3>3, <3>4
    <2> QED
      BY <1>3, <2>1, <2>2, CallSteps
  <1> QED
    BY <1>1, <1>2, <1>3 DEF IssuedInv, Issued

\* Spans are started once.
LEMMA StartsStep ==
    ASSUME TypeInv, CallInv, IssuedInv, RingInv, StartsInv, Next
    PROVE  StartsInv'
  <1>0. /\ Len(log) \in Nat /\ Len(log') \in Nat
        /\ DOMAIN log = 1 .. Len(log) /\ DOMAIN log' = 1 .. Len(log')
    <2>1. log \in Seq(Messages) /\ log' \in Seq(Messages)
      BY TypeStep DEF TypeInv
    <2> QED
      BY <2>1
  <1>1. ASSUME NEW i \in 1 .. Len(log'), NEW j \in 1 .. Len(log'), i # j,
               log'[i].kind = "start", log'[j].kind = "start", log'[i].span = log'[j].span,
               i \in 1 .. Len(log)
        PROVE  FALSE
    <2>1. log[i].kind = "start" /\ log[i].span = log'[i].span
      BY <1>1, LogKeeps DEF Keeps
    <2>2. CASE j \in 1 .. Len(log) /\ Keeps(log[j], log'[j])
      BY <1>0, <1>1, <2>1, <2>2 DEF StartsInv, SpansDistinct, Keeps
    <2>3. CASE \E t \in Threads : /\ Placing(t) /\ log'[j].kind = call[t].msg.kind
                                  /\ log'[j].span = call[t].msg.span
      BY <1>1, <2>1, <2>3 DEF StartsInv, Starting
    <2> QED
      BY <2>2, <2>3, EntrySteps
  <1>2. SpansDistinct'
    <2>1. ASSUME NEW i \in 1 .. Len(log'), NEW j \in 1 .. Len(log'), i # j,
                 log'[i].kind = "start", log'[j].kind = "start", log'[i].span = log'[j].span
          PROVE  FALSE
      <3>1. CASE i \in 1 .. Len(log)
        BY <1>1, <2>1, <3>1
      <3>2. CASE j \in 1 .. Len(log)
        BY <1>1, <2>1, <3>2
      <3>3. CASE i \notin 1 .. Len(log) /\ j \notin 1 .. Len(log)
        <4>1. i = Len(log) + 1 /\ j = Len(log) + 1
          BY <3>3, EntrySteps
        <4> QED
          BY <2>1, <4>1
      <3> QED
        BY <3>1, <3>2, <3>3
    <2> QED
      BY <1>0, <2>1 DEF SpansDistinct
  <1>3. ASSUME NEW t \in Threads, Starting(t)'
        PROVE  \/ Starting(t) /\ call'[t].msg = call[t].msg
               \/ \E parent \in Spans, span \in Spans \ {NoSpan} :
                     OpenSpan(t) /\ Opens(t, parent, span) /\ call'[t].msg.span = span
    <2>1. Placing(t)' /\ call'[t].msg.kind = "start"
      BY <1>3 DEF Starting
    <2>2. CASE Placing(t) /\ call'[t].msg = call[t].msg
      BY <2>1, <2>2 DEF Starting
    <2>3. ASSUME NEW kind \in {"start", "log", "end"}, NEW span \in Spans, NEW parent \in Spans,
                 Begun(t, kind, span, parent)
          PROVE  /\ OpenSpan(t) /\ Opens(t, parent, span) /\ call'[t].msg.span = span
                 /\ span # NoSpan
      BY <2>1, <2>3, MessageType DEF Begun
    <2> QED
      BY <2>1, <2>2, <2>3, CallSteps
  <1>4. ASSUME NEW t \in Threads, OpenSpan(t)
        PROVE  UNCHANGED log /\ \A u \in Threads : u # t => call'[u] = call[u]
    BY <1>4, BeginFacts DEF Elsewhere
  <1>5. ASSUME NEW t \in Threads, Starting(t)'
        PROVE  call'[t].msg.span # NoSpan
    BY <1>3, <1>5 DEF StartsInv
  <1>6. ASSUME NEW t \in Threads, Starting(t)', NEW i \in 1 .. Len(log'),
               log'[i].kind = "start", log'[i].span = call'[t].msg.span
        PROVE  FALSE
    <2>1. CASE Starting(t) /\ call'[t].msg = call[t].msg
      <3>1. CASE i \in 1 .. Len(log) /\ Keeps(log[i], log'[i])
        BY <1>6, <2>1, <3>1 DEF StartsInv, Keeps
      <3>2. ASSUME NEW u \in Threads, Place(u), Placing(u),
                   log'[i].kind = call[u].msg.kind, log'[i].span = call[u].msg.span
            PROVE  FALSE
        <4>1. call'[u].at = "write"
          <5>1. Placed(u)
            BY <3>2, PlaceFacts
          <5> QED
            BY <5>1 DEF Placed
        <4>2. u # t
          BY <1>6, <4>1 DEF Starting, Placing
        <4> QED
          BY <1>6, <2>1, <3>2, <4>2 DEF StartsInv, Starting
      <3> QED
        BY <3>1, <3>2, EntrySteps
    <2>2. ASSUME NEW parent \in Spans, NEW span \in Spans \ {NoSpan},
                 OpenSpan(t), Opens(t, parent, span), call'[t].msg.span = span
          PROVE  FALSE
      BY <1>4, <1>6, <2>2, NewSpan DEF IssuedInv
    <2> QED
      BY <1>3, <1>6, <2>1, <2>2
  <1>7. ASSUME NEW t \in Threads, NEW u \in Threads, u # t, Starting(t)', Starting(u)',
               call'[u].msg.span = call'[t].msg.span, NEW parent \in Spans,
               NEW span \in Spans \ {NoSpan},
               OpenSpan(t), Opens(t, parent, span), call'[t].msg.span = span
        PROVE  FALSE
    <2>1. call'[u] = call[u]
      BY <1>4, <1>7
    <2>2. Placing(u)
      BY <1>7, <2>1 DEF Starting, Placing
    <2> QED
      BY <1>7, <2>1, <2>2, NewSpan DEF IssuedInv
  <1>8. ASSUME NEW t \in Threads, NEW u \in Threads, u # t, Starting(t)', Starting(u)',
               call'[u].msg.span = call'[t].msg.span
        PROVE  FALSE
    <2>1. CASE /\ Starting(t) /\ call'[t].msg = call[t].msg
               /\ Starting(u) /\ call'[u].msg = call[u].msg
      BY <1>8, <2>1 DEF StartsInv
    <2> QED
      BY <1>3, <1>7, <1>8, <2>1
  <1> QED
    BY <1>2, <1>5, <1>6, <1>8 DEF StartsInv

-----------------------------------------------------------------------------
(* Regions.                                                                 *)

\* The steps that touch no region.
Aside == /\ UNCHANGED <<rings, reading, taken, out>> /\ Len(log') = Len(log)
         /\ UNCHANGED due

LEMMA RingSteps ==
    ASSUME TypeInv, CallInv, Next
    PROVE  Aside \/ Take \/ LeaveRegion \/ \E t \in Threads : Place(t)
  <1>1. ASSUME NEW t \in Threads, OpenSpan(t) \/ OpenNone(t) \/ CloseScope(t) \/ Log(t)
                                   \/ SetContext(t) \/ Refuse(t)
        PROVE  Aside
    BY <1>1 DEF OpenSpan, OpenNone, CloseScope, Log, SetContext, Refuse, bus, consumer, Aside
  <1>2. ASSUME NEW t \in Threads, Publish(t)
        PROVE  Aside
    <2>1. PICK state : Published(t, state)
      BY <1>2, PublishFacts
    <2> QED
      BY <1>2, <2>1 DEF Published, Publish, consumer, Aside
  <1> QED
    BY <1>1, <1>2 DEF Next, Step, Consume

\* Each message is in one place of its region.
LEMMA OnePlace ==
    ASSUME TypeInv, RingInv, NEW r \in Regions, NEW q \in Regions, NEW k \in Nat \ {0},
           NEW l \in Nat \ {0}, k <= Len(rings[r]), l <= Len(rings[q]), rings[r][k] = rings[q][l]
    PROVE  r = q /\ k = l
  <1>1. r = q
    BY DEF RingInv
  <1>2. rings[r][k] \in 1 .. Len(log)
    BY DEF RingInv
  <1>3. k < l => rings[r][k] < rings[r][l]
    BY <1>1 DEF RingInv
  <1>4. l < k => rings[r][l] < rings[r][k]
    BY DEF RingInv
  <1> QED
    BY <1>1, <1>2, <1>3, <1>4

LEMMA InRing ==
    ASSUME TypeInv, RingInv, NEW r \in Regions, NEW k \in Nat \ {0}, k <= Len(rings[r])
    PROVE  /\ rings[r][k] \in 1 .. Len(log) /\ log[rings[r][k]].region = r
           /\ rings[r][k] \in out <=> r = reading /\ k <= taken
           /\ \A l \in Nat \ {0} : l < k => rings[r][l] < rings[r][k]
  BY DEF RingInv

\* The consumer takes the next message of its region.
LEMMA TakeFacts ==
    ASSUME TypeInv, RingInv, Take
    PROVE  LET n == rings[reading][taken + 1]
           IN /\ taken + 1 \in Nat \ {0} /\ taken + 1 <= Len(rings[reading])
              /\ taken' = taken + 1 /\ out' = out \cup {n} /\ due' = due \ {n}
              /\ n \in 1 .. Len(log) /\ log[n].region = reading /\ n \notin out
              /\ log[n].state # "writing"
              /\ UNCHANGED <<bus, threads, reading, call, empty>>
  <1>1. taken \in Nat /\ reading \in Regions /\ Len(rings[reading]) \in Nat
    BY DEF TypeInv
  <1>2. taken < Len(rings[reading]) /\ log[rings[reading][taken + 1]].state # "writing"
    BY DEF Take, Ready
  <1>3. taken + 1 \in Nat \ {0} /\ taken + 1 <= Len(rings[reading]) /\ ~(taken + 1 <= taken)
    BY <1>1, <1>2
  <1>4. /\ taken' = taken + 1 /\ out' = out \cup {rings[reading][taken + 1]}
        /\ due' = due \ {rings[reading][taken + 1]}
        /\ UNCHANGED <<bus, threads, reading, call, empty>>
    BY DEF Take
  <1> QED
    BY <1>1, <1>2, <1>3, <1>4, InRing

LEMMA RingStep ==
    ASSUME TypeInv, CallInv, RingInv, Next
    PROVE  RingInv'
  <1>0. /\ Len(log) \in Nat /\ Len(log') \in Nat /\ Len(log) <= Len(log')
        /\ \A r \in Regions : rings[r] \in Seq(Nat) /\ Len(rings[r]) \in Nat
        /\ reading \in Regions /\ taken \in Nat
    BY LogKeeps DEF TypeInv
  <1>1. CASE Aside
    <2>1. /\ \A r \in Regions, k \in Nat \ {0} : k <= Len(rings'[r]) =>
              /\ rings'[r][k] \in 1 .. Len(log') /\ log'[rings'[r][k]].region = r
              /\ rings'[r][k] \in out' <=> r = reading' /\ k <= taken'
              /\ \A l \in Nat \ {0} : l < k => rings'[r][l] < rings'[r][k]
      BY <1>1, LogKeeps DEF RingInv, Aside, Keeps
    <2>2. \A i \in 1 .. Len(log') : i \in out' \/
             LET ring == rings'[log'[i].region] IN \E k \in 1 .. Len(ring) : ring[k] = i
      BY <1>1, LogKeeps DEF RingInv, Aside, Keeps
    <2>3. taken' <= Len(rings'[reading']) /\ out' \subseteq 1 .. Len(log')
      BY <1>1 DEF RingInv, Aside
    <2> QED
      BY <2>1, <2>2, <2>3 DEF RingInv
  <1>2. CASE Take
    <2> DEFINE i == rings[reading][taken + 1]
    <2>1. /\ taken + 1 \in Nat \ {0} /\ taken + 1 <= Len(rings[reading])
          /\ taken' = taken + 1 /\ out' = out \cup {i} /\ UNCHANGED <<rings, log, reading>>
      BY <1>2, TakeFacts DEF bus
    <2>2. i \in 1 .. Len(log)
      BY <1>2, TakeFacts
    <2>3. ASSUME NEW r \in Regions, NEW k \in Nat \ {0}, k <= Len(rings[r])
          PROVE  rings[r][k] \in out' <=> r = reading /\ k <= taken + 1
      <3>1. rings[r][k] = i <=> r = reading /\ k = taken + 1
        BY <1>0, <2>1, <2>3, OnePlace
      <3>2. rings[r][k] \in out <=> r = reading /\ k <= taken
        BY <2>3 DEF RingInv
      <3> QED
        BY <1>0, <2>1, <3>1, <3>2
    <2> HIDE DEF i
    <2>4. \A r \in Regions, k \in Nat \ {0} : k <= Len(rings'[r]) =>
              /\ rings'[r][k] \in 1 .. Len(log') /\ log'[rings'[r][k]].region = r
              /\ rings'[r][k] \in out' <=> r = reading' /\ k <= taken'
              /\ \A l \in Nat \ {0} : l < k => rings'[r][l] < rings'[r][k]
      BY <2>1, <2>3, InRing
    <2>5. \A j \in 1 .. Len(log') : j \in out' \/
             LET ring == rings'[log'[j].region] IN \E k \in 1 .. Len(ring) : ring[k] = j
      BY <2>1 DEF RingInv
    <2>6. taken' <= Len(rings'[reading']) /\ out' \subseteq 1 .. Len(log')
      BY <2>1, <2>2 DEF RingInv
    <2> QED
      BY <2>4, <2>5, <2>6 DEF RingInv
  <1>3. CASE LeaveRegion
    <2> DEFINE ring == rings[reading]
               rest == SubSeq(ring, taken + 1, Len(ring))
    <2>1. /\ rings' = [rings EXCEPT ![reading] = rest]
          /\ Len(rest) = Len(ring) - taken
          /\ \A k \in 1 .. Len(ring) - taken : rest[k] = ring[k + taken]
          /\ reading' \in Regions /\ taken' = 0 /\ UNCHANGED <<log, out>>
          /\ taken \in 0 .. Len(ring)
      BY <1>3, LeaveRegionFacts
    <2> HIDE DEF rest
    <2>2. rings'[reading] = rest /\ \A r \in Regions : r # reading => rings'[r] = rings[r]
      BY <2>1 DEF TypeInv
    <2>3. ASSUME NEW r \in Regions, NEW k \in Nat \ {0}, k <= Len(rings'[r])
          PROVE  /\ rings'[r][k] \in 1 .. Len(log) /\ log[rings'[r][k]].region = r
                 /\ rings'[r][k] \notin out
                 /\ \A l \in Nat \ {0} : l < k => rings'[r][l] < rings'[r][k]
      <3>1. CASE r = reading
        <4>1. k + taken \in Nat \ {0} /\ k + taken <= Len(ring) /\ k + taken > taken
              /\ rings'[r][k] = ring[k + taken]
          BY <1>0, <2>1, <2>2, <2>3, <3>1
        <4>2. ASSUME NEW l \in Nat \ {0}, l < k
              PROVE  rings'[r][l] < rings'[r][k]
          <5>1. rings'[r][l] = ring[l + taken] /\ l + taken \in Nat \ {0} /\ l + taken < k + taken
            <6>1. l <= Len(rest) /\ Len(ring) \in Nat /\ k <= Len(rest)
              BY <1>0, <2>1, <2>2, <2>3, <3>1, <4>2
            <6>2. l \in 1 .. Len(ring) - taken
              BY <1>0, <2>1, <6>1
            <6> QED
              BY <1>0, <2>1, <2>2, <3>1, <4>2, <6>2
          <5>2. ring[l + taken] < ring[k + taken]
            BY <1>0, <4>1, <5>1, InRing
          <5> QED
            BY <4>1, <5>1, <5>2
        <4>3. /\ ring[k + taken] \in 1 .. Len(log) /\ log[ring[k + taken]].region = r
              /\ ring[k + taken] \notin out
          <5>1. ~(k + taken <= taken)
            BY <1>0, <2>3, <4>1
          <5> QED
            BY <1>0, <3>1, <4>1, <5>1, InRing
        <4> QED
          BY <4>1, <4>2, <4>3
      <3>2. CASE r # reading
        BY <2>2, <2>3, <3>2 DEF RingInv
      <3> QED
        BY <3>1, <3>2
    <2>4. ASSUME NEW i \in 1 .. Len(log), i \notin out
          PROVE  \E k \in 1 .. Len(rings'[log[i].region]) : rings'[log[i].region][k] = i
      <3>1. PICK k \in 1 .. Len(rings[log[i].region]) : rings[log[i].region][k] = i
        BY <2>4 DEF RingInv
      <3>2. CASE log[i].region = reading
        <4>1. k > taken
          <5>1. Len(ring) \in Nat /\ k \in Nat \ {0} /\ k <= Len(ring) /\ ring[k] \notin out
            BY <1>0, <2>4, <3>1, <3>2
          <5>2. ~(k <= taken)
            BY <1>0, <5>1, InRing
          <5> QED
            BY <1>0, <5>1, <5>2
        <4>2. k - taken \in 1 .. Len(rest) /\ rest[k - taken] = i
          <5>1. Len(ring) \in Nat /\ k \in 1 .. Len(ring) /\ ring[k] = i
            BY <1>0, <3>1, <3>2
          <5>2. k - taken \in 1 .. Len(ring) - taken /\ (k - taken) + taken = k
            BY <1>0, <4>1, <5>1
          <5> QED
            BY <2>1, <5>1, <5>2
        <4> QED
          BY <2>2, <3>2, <4>2
      <3>3. CASE log[i].region # reading
        BY <2>2, <3>1, <3>3 DEF CallInv
      <3> QED
        BY <3>2, <3>3
    <2>5. out \subseteq 1 .. Len(log)
      BY DEF RingInv
    <2>6. 0 <= Len(rings'[reading']) /\ \A k \in Nat \ {0} : ~(k <= 0)
      <3>1. rings'[reading'] \in Seq(Nat)
        BY <1>3, <2>1, LeaveRegionFacts DEF TypeInv
      <3> QED
        BY <3>1
    <2>7. \A r \in Regions, k \in Nat \ {0} : k <= Len(rings'[r]) =>
              /\ rings'[r][k] \in 1 .. Len(log') /\ log'[rings'[r][k]].region = r
              /\ rings'[r][k] \in out' <=> r = reading' /\ k <= taken'
              /\ \A l \in Nat \ {0} : l < k => rings'[r][l] < rings'[r][k]
      BY <2>1, <2>3, <2>6
    <2>8. \A i \in 1 .. Len(log') : i \in out' \/
             LET q == rings'[log'[i].region] IN \E k \in 1 .. Len(q) : q[k] = i
      BY <2>1, <2>4
    <2> QED
      BY <2>1, <2>5, <2>6, <2>7, <2>8 DEF RingInv
  <1>4. ASSUME NEW t \in Threads, Place(t)
        PROVE  RingInv'
    <2> DEFINE n == Len(log) + 1
               q == call[t].region
    <2>1. /\ Placing(t) /\ Placed(t) /\ UNCHANGED <<reading, taken, out>>
          /\ log'[n].region = q
      <3>1. Placing(t) /\ Placed(t) /\ UNCHANGED consumer
        BY <1>4, PlaceFacts
      <3>2. log'[n] = [call[t].msg EXCEPT !.region = q]
        BY <3>1 DEF Placed
      <3> QED
        BY <1>4, <3>1, <3>2, PlaceFacts DEF consumer
    <2>2. q \in Regions
      BY <2>1, CallFields
    <2>3. /\ Len(log') = n /\ \A i \in 1 .. Len(log) : log'[i] = log[i]
          /\ rings' = [rings EXCEPT ![q] = Append(rings[q], n)]
      BY <2>1 DEF Placed
    <2>4. \A r \in Regions : r # q => rings'[r] = rings[r]
      BY <2>3 DEF TypeInv
    <2>5. /\ Len(rings'[q]) = Len(rings[q]) + 1 /\ rings'[q][Len(rings[q]) + 1] = n
          /\ \A k \in 1 .. Len(rings[q]) : rings'[q][k] = rings[q][k]
      <3>1. rings'[q] = Append(rings[q], n)
        BY <2>2, <2>3 DEF TypeInv
      <3> QED
        BY <1>0, <2>2, <3>1
    <2> HIDE DEF n, q
    <2>6. n = Len(log) + 1
      BY DEF n
    <2>7. ASSUME NEW r \in Regions, NEW k \in Nat \ {0}, k <= Len(rings[r])
          PROVE  /\ rings'[r][k] = rings[r][k] /\ rings'[r][k] \in 1 .. Len(log')
                 /\ log'[rings'[r][k]].region = r
                 /\ rings'[r][k] \in out' <=> r = reading' /\ k <= taken'
                 /\ \A l \in Nat \ {0} : l < k => rings'[r][l] < rings'[r][k]
      <3>1. ASSUME NEW l \in Nat \ {0}, l <= k
            PROVE  rings'[r][l] = rings[r][l]
        <4>1. l \in 1 .. Len(rings[r])
          <5>1. Len(rings[r]) \in Nat
            BY <1>0
          <5> QED
            BY <2>7, <3>1, <5>1
        <4> QED
          BY <2>4, <2>5, <4>1
      <3>2. /\ rings[r][k] \in 1 .. Len(log) /\ log[rings[r][k]].region = r
            /\ rings[r][k] \in out <=> r = reading /\ k <= taken
            /\ \A l \in Nat \ {0} : l < k => rings[r][l] < rings[r][k]
        BY <2>7 DEF RingInv
      <3>3. rings'[r][k] = rings[r][k] /\ rings[r][k] \in 1 .. Len(log')
            /\ log'[rings[r][k]] = log[rings[r][k]]
        <4>1. k <= k
          BY <2>7
        <4>2. rings'[r][k] = rings[r][k]
          BY <3>1, <4>1
        <4>3. rings[r][k] \in 1 .. Len(log')
          BY <1>0, <2>3, <2>6, <3>2
        <4> QED
          BY <2>3, <3>2, <4>2, <4>3
      <3>4. \A l \in Nat \ {0} : l < k => rings'[r][l] < rings'[r][k]
        BY <3>1, <3>2
      <3> QED
        BY <2>1, <3>2, <3>3, <3>4
    <2>8. ASSUME NEW k \in Nat \ {0}, k = Len(rings[q]) + 1
          PROVE  /\ rings'[q][k] \in 1 .. Len(log') /\ log'[rings'[q][k]].region = q
                 /\ rings'[q][k] \in out' <=> q = reading' /\ k <= taken'
                 /\ \A l \in Nat \ {0} : l < k => rings'[q][l] < rings'[q][k]
      <3>1. rings'[q][k] = n /\ n \in 1 .. Len(log') /\ log'[n].region = q
        BY <1>0, <2>1, <2>3, <2>5, <2>6, <2>8 DEF q, n
      <3>2. n \notin out' /\ ~(q = reading' /\ k <= taken')
        BY <1>0, <2>1, <2>2, <2>6, <2>8 DEF RingInv
      <3>3. ASSUME NEW l \in Nat \ {0}, l < k
            PROVE  rings'[q][l] < n
        <4>1. l <= Len(rings[q]) /\ rings'[q][l] = rings[q][l]
          <5>1. Len(rings[q]) \in Nat
            BY <1>0, <2>2
          <5>2. l \in 1 .. Len(rings[q])
            BY <2>8, <3>3, <5>1
          <5> QED
            BY <2>5, <5>1, <5>2
        <4>2. rings[q][l] \in 1 .. Len(log)
          BY <2>2, <4>1 DEF RingInv
        <4> QED
          BY <1>0, <2>6, <4>1, <4>2
      <3> QED
        BY <3>1, <3>2, <3>3
    <2>9. ASSUME NEW r \in Regions, NEW k \in Nat \ {0}, k <= Len(rings'[r])
          PROVE  /\ rings'[r][k] \in 1 .. Len(log') /\ log'[rings'[r][k]].region = r
                 /\ rings'[r][k] \in out' <=> r = reading' /\ k <= taken'
                 /\ \A l \in Nat \ {0} : l < k => rings'[r][l] < rings'[r][k]
      <3>1. CASE k <= Len(rings[r])
        BY <2>7, <3>1
      <3>2. CASE ~(k <= Len(rings[r]))
        <4>1. r = q /\ k = Len(rings[q]) + 1
          BY <1>0, <2>2, <2>4, <2>5, <2>9, <3>2
        <4> QED
          BY <2>8, <4>1
      <3> QED
        BY <3>1, <3>2
    <2>10. ASSUME NEW i \in 1 .. Len(log'), i \notin out'
           PROVE  \E k \in 1 .. Len(rings'[log'[i].region]) : rings'[log'[i].region][k] = i
      <3>1. CASE i \in 1 .. Len(log)
        <4>1. log'[i] = log[i] /\ log[i].region \in Regions
          BY <2>3, <3>1 DEF CallInv
        <4>2. PICK k \in 1 .. Len(rings[log[i].region]) : rings[log[i].region][k] = i
          BY <2>1, <2>10, <3>1 DEF RingInv
        <4>3. Len(rings[log[i].region]) \in Nat
          BY <1>0, <4>1
        <4>4. CASE log[i].region = q
          <5>1. k \in 1 .. Len(rings[q]) /\ k \in 1 .. Len(rings'[q])
            BY <2>5, <4>2, <4>3, <4>4
          <5>2. rings'[q][k] = i
            BY <2>5, <4>2, <4>4, <5>1
          <5> QED
            BY <4>1, <4>4, <5>1, <5>2
        <4>5. CASE log[i].region # q
          BY <2>4, <4>1, <4>2, <4>5
        <4> QED
          BY <4>4, <4>5
      <3>2. CASE i = n
        <4>1. log'[i].region = q /\ Len(rings[q]) + 1 \in 1 .. Len(rings'[q])
          BY <1>0, <2>1, <2>2, <2>5, <3>2 DEF q, n
        <4> QED
          BY <2>5, <3>2, <4>1
      <3> QED
        BY <1>0, <2>3, <2>6, <3>1, <3>2
    <2>11. taken' <= Len(rings'[reading']) /\ out' \subseteq 1 .. Len(log')
      <3>1. out' \subseteq 1 .. Len(log')
        BY <1>0, <2>1, <2>3, <2>6 DEF RingInv
      <3>2. Len(rings'[reading]) = Len(rings[reading])
            \/ Len(rings'[reading]) = Len(rings[reading]) + 1
        BY <1>0, <2>2, <2>4, <2>5
      <3>3. taken <= Len(rings[reading]) /\ Len(rings[reading]) \in Nat
        BY <1>0 DEF RingInv
      <3> QED
        BY <1>0, <2>1, <3>1, <3>2, <3>3
    <2> QED
      BY <2>9, <2>10, <2>11 DEF RingInv
  <1> QED
    BY <1>1, <1>2, <1>3, <1>4, RingSteps

LEMMA InTurnStep ==
    ASSUME TypeInv, CallInv, RingInv, InTurn, Next
    PROVE  InTurn'
  <1>0. Len(log) \in Nat /\ reading \in Regions /\ taken \in Nat
        /\ Len(rings[reading]) \in Nat
    BY LogKeeps DEF TypeInv
  <1>1. CASE Take
    <2> DEFINE n == rings[reading][taken + 1]
    <2>1. /\ taken + 1 <= Len(rings[reading]) /\ out' = out \cup {n} /\ UNCHANGED log
          /\ n \in 1 .. Len(log) /\ log[n].region = reading
      BY <1>1, TakeFacts DEF bus
    <2>2. ASSUME NEW i \in 1 .. Len(log), i < n, log[i].region = reading, i \notin out
          PROVE  FALSE
      <3>1. PICK k \in 1 .. Len(rings[reading]) : rings[reading][k] = i
        BY <2>2 DEF RingInv
      <3>2. k > taken /\ k # taken + 1
        BY <1>0, <2>2, <3>1 DEF RingInv
      <3>3. taken + 1 < k
        BY <1>0, <3>2
      <3>4. n < i
        BY <1>0, <3>1, <3>3 DEF RingInv
      <3> QED
        BY <2>1, <2>2, <3>4
    <2> HIDE DEF n
    <2> QED
      BY <2>1, <2>2 DEF InTurn
  <1>2. CASE UNCHANGED out
    <2>1. out \subseteq 1 .. Len(log)
      BY DEF RingInv
    <2>2. ASSUME NEW i \in 1 .. Len(log'), NEW j \in 1 .. Len(log'), i < j,
                 log'[i].region = log'[j].region, j \in out
          PROVE  i \in out
      <3>1. i \in 1 .. Len(log) /\ j \in 1 .. Len(log)
        BY <1>0, <2>1, <2>2
      <3>2. log'[i].region = log[i].region /\ log'[j].region = log[j].region
        BY <3>1, LogKeeps DEF Keeps
      <3> QED
        BY <2>2, <3>1, <3>2 DEF InTurn
    <2> QED
      BY <1>2, <2>2 DEF InTurn
  <1>3. Take \/ UNCHANGED out
    <2>1. ASSUME NEW t \in Threads, Place(t)
          PROVE  UNCHANGED out
      BY <2>1 DEF Place, consumer
    <2> QED
      BY <2>1, RingSteps DEF Aside, LeaveRegion
  <1> QED
    BY <1>1, <1>2, <1>3

-----------------------------------------------------------------------------
(* Spans are those of published starts.                                     *)

LEMMA StartedGrows ==
    ASSUME TypeInv, CallInv, Next, NEW n \in 0 .. Len(log), NEW m \in Nat, n <= m,
           NEW s, Started(s, n, log)
    PROVE  Started(s, m, log')
  <1>1. CASE s = NoSpan
    BY <1>1 DEF Started
  <1>2. CASE s # NoSpan
    <2>1. Len(log) \in Nat
      BY LogKeeps
    <2>2. PICK j \in 1 .. n :
              log[j].kind = "start" /\ log[j].span = s /\ log[j].state = "whole"
      BY <1>2 DEF Started
    <2>3. j \in 1 .. Len(log) /\ j \in 1 .. m
      BY <2>1
    <2>4. Keeps(log[j], log'[j])
      BY <2>3, LogKeeps
    <2> QED
      BY <2>2, <2>3, <2>4 DEF Keeps, Started
  <1> QED
    BY <1>1, <1>2

LEMMA BegunHolds ==
    ASSUME TypeInv, NEW t \in Threads, NEW kind \in {"log", "end"}, NEW span \in Spans,
           NEW parent \in Spans, Begun(t, kind, span, parent)
    PROVE  Holds(t, span)
  <1>1. CASE kind = "log"
    BY <1>1 DEF Begun, Holds
  <1>2. CASE kind = "end"
    <2>1. /\ scopes[t] \in Seq(Scopes) /\ scopes[t] # <<>>
          /\ span = scopes[t][Len(scopes[t])].span
      BY <1>2 DEF Begun, TypeInv
    <2> QED
      BY <2>1 DEF Holds
  <1> QED
    BY <1>1, <1>2

LEMMA StartedStep ==
    ASSUME TypeInv, CallInv, IssuedInv, StartedInv, Next
    PROVE  StartedInv'
  <1>0. Len(log) \in Nat /\ Len(log') \in Nat /\ Len(log) <= Len(log')
        /\ Len(log) \in 0 .. Len(log)
    BY LogKeeps
  <1>1. ASSUME NEW i \in 1 .. Len(log')
        PROVE  Started(Named(log'[i]), i - 1, log')
    <2>1. CASE i \in 1 .. Len(log) /\ Keeps(log[i], log'[i])
      <3>1. Named(log'[i]) = Named(log[i])
        BY <2>1 DEF Named, Keeps
      <3>2. Started(Named(log[i]), i - 1, log) /\ i - 1 \in 0 .. Len(log) /\ i - 1 \in Nat
        BY <1>0, <2>1 DEF StartedInv
      <3> QED
        BY <3>1, <3>2, StartedGrows
    <2>2. ASSUME NEW t \in Threads, Placing(t), i = Len(log) + 1,
                 log'[i].kind = call[t].msg.kind, log'[i].span = call[t].msg.span,
                 log'[i].parent = call[t].msg.parent
          PROVE  Started(Named(log'[i]), i - 1, log')
      <3>1. Named(log'[i]) = Named(call[t].msg) /\ i - 1 = Len(log)
        BY <1>0, <2>2 DEF Named
      <3>2. Started(Named(call[t].msg), Len(log), log)
        BY <2>2 DEF StartedInv
      <3> QED
        BY <1>0, <3>1, <3>2, StartedGrows
    <2> QED
      BY <2>1, <2>2, EntrySteps
  <1>2. ASSUME NEW t \in Threads, NEW s, Holds(t, s)'
        PROVE  Started(s, Len(log'), log')
    <2>1. CASE s = NoSpan
      BY <2>1 DEF Started
    <2>2. CASE \E u \in Threads : Holds(u, s)
      BY <1>0, <2>2, StartedGrows DEF StartedInv
    <2>3. CASE \E i \in 1 .. Len(log') :
                  log'[i].kind = "start" /\ log'[i].span = s /\ log'[i].state = "whole"
      BY <2>3 DEF Started
    <2> QED
      BY <1>2, <2>1, <2>2, <2>3, HeldStep
  <1>3. ASSUME NEW t \in Threads, Placing(t)'
        PROVE  Started(Named(call'[t].msg), Len(log'), log')
    <2>1. CASE Placing(t) /\ call'[t].msg = call[t].msg
      BY <1>0, <2>1, StartedGrows DEF StartedInv
    <2>2. ASSUME NEW kind \in {"start", "log", "end"}, NEW span \in Spans, NEW parent \in Spans,
                 Begun(t, kind, span, parent)
          PROVE  Started(Named(call'[t].msg), Len(log'), log')
      <3>1. Named(call'[t].msg) = IF kind = "start" THEN parent ELSE span
        BY <2>2, MessageType DEF Begun, Named
      <3>2. Started(NoSpan, Len(log'), log')
        BY DEF Started
      <3>3. ASSUME NEW u \in Threads, NEW s, Holds(u, s)
            PROVE  Started(s, Len(log'), log')
        BY <1>0, <3>3, StartedGrows DEF StartedInv
      <3>4. CASE kind = "start"
        BY <2>2, <3>1, <3>2, <3>3, <3>4 DEF Begun
      <3>5. CASE kind # "start"
        BY <2>2, <3>1, <3>3, <3>5, BegunHolds
      <3> QED
        BY <3>4, <3>5
    <2> QED
      BY <1>3, <2>1, <2>2, CallSteps
  <1> QED
    BY <1>1, <1>2, <1>3 DEF StartedInv

-----------------------------------------------------------------------------
(* The life of a span.                                                      *)

\* The scope of a span is entered when its start is published.
Entering(t, span) ==
    /\ Publish(t) /\ Writing(t) /\ call[t].i \in 1 .. Len(log) /\ Len(log') = Len(log)
    /\ log[call[t].i].kind = "start" /\ log[call[t].i].span = span
    /\ log[call[t].i].state = "writing" /\ log'[call[t].i].state = "whole"
    /\ \A i \in 1 .. Len(log) : i # call[t].i => log'[i] = log[i]
    /\ UNCHANGED <<contexts, named, tangled>>
    /\ call'[t] = Idle /\ \A u \in Threads : u # t => call'[u] = call[u]

LEMMA ScopeSteps ==
    ASSUME TypeInv, CallInv, Next, NEW t \in Threads
    PROVE  \/ scopes'[t] = scopes[t] /\ (ctx'[t] = ctx[t] \/ SetContext(t))
           \/ OpenNone(t) /\ \E threshold : Entered(t, NoSpan, threshold)
           \/ \E span : Entering(t, span) /\ Entered(t, span, ctx[t].threshold)
           \/ CloseScope(t) /\ Left(t)
  <1>1. CASE UNCHANGED <<ctx, scopes>>
    BY <1>1
  <1>2. ASSUME NEW u \in Threads, Publish(u)
        PROVE  \/ scopes'[t] = scopes[t] /\ ctx'[t] = ctx[t]
               \/ \E span : Entering(t, span) /\ Entered(t, span, ctx[t].threshold)
    <2>1. PICK state \in {"whole", "broken"} :
             LET m == log[call[u].i]
                 e == [m EXCEPT !.state = state]
             IN /\ Writing(u) /\ Published(u, state)
                /\ IF m.kind = "start" /\ state = "whole"
                   THEN /\ Enter(u, m.span, ctx[u].threshold)
                        /\ m.span \in Spans /\ ctx[u].threshold \in Thresholds
                   ELSE UNCHANGED <<scopes, ctx>>
                /\ e.state = state /\ UNCHANGED <<contexts, named, tangled>>
      BY <1>2, PublishFacts
    <2>2. CASE UNCHANGED <<scopes, ctx>>
      BY <2>2
    <2>3. CASE log[call[u].i].kind = "start" /\ state = "whole"
      <3>1. /\ Entered(u, log[call[u].i].span, ctx[u].threshold) /\ OthersRest(u)
        BY <2>1, <2>3, EnterFacts
      <3>2. call[u].i \in 1 .. Len(log) /\ log[call[u].i].state = "writing"
        BY <2>1 DEF CallInv
      <3>3. log'[call[u].i].state = "whole"
        BY <2>1, <2>3 DEF Published
      <3>4. Entering(u, log[call[u].i].span)
        BY <1>2, <2>1, <2>3, <3>2, <3>3 DEF Published, Entering
      <3>5. CASE t = u
        BY <3>1, <3>4, <3>5
      <3>6. CASE t # u
        BY <3>1, <3>6 DEF OthersRest
      <3> QED
        BY <3>5, <3>6
    <2> QED
      BY <2>1, <2>2, <2>3
  <1>3. ASSUME NEW u \in Threads, OpenNone(u)
        PROVE  \/ scopes'[t] = scopes[t] /\ ctx'[t] = ctx[t]
               \/ OpenNone(t) /\ \E threshold : Entered(t, NoSpan, threshold)
    <2>1. PICK threshold : Entered(u, NoSpan, threshold) /\ OthersRest(u)
      BY <1>3, NoneFacts
    <2>2. CASE t = u
      BY <1>3, <2>1, <2>2
    <2>3. CASE t # u
      BY <2>1, <2>3 DEF OthersRest
    <2> QED
      BY <2>2, <2>3
  <1>4. ASSUME NEW u \in Threads, CloseScope(u)
        PROVE  \/ scopes'[t] = scopes[t] /\ ctx'[t] = ctx[t]
               \/ CloseScope(t) /\ Left(t)
    <2>1. Left(u) /\ OthersRest(u)
      BY <1>4, CloseFacts
    <2>2. CASE t = u
      BY <1>4, <2>1, <2>2
    <2>3. CASE t # u
      BY <2>1, <2>3 DEF OthersRest
    <2> QED
      BY <2>2, <2>3
  <1>5. ASSUME NEW u \in Threads, SetContext(u)
        PROVE  scopes'[t] = scopes[t] /\ (ctx'[t] = ctx[t] \/ SetContext(t))
    <2>1. UNCHANGED scopes /\ \A v \in Threads : v # u => ctx'[v] = ctx[v]
      BY <1>5, SetFacts
    <2> QED
      BY <1>5, <2>1
  <1> QED
    BY <1>1, <1>2, <1>3, <1>4, <1>5, MoveSteps

LEMMA HasStep ==
    ASSUME TypeInv, CallInv, Next, NEW t \in Threads, NEW s, s # NoSpan, Has(t, s)'
    PROVE  Has(t, s) \/ Entering(t, s)
  <1>0. Len(scopes[t]) \in Nat
    BY DEF TypeInv
  <1>1. PICK k \in 1 .. Len(scopes'[t]) : scopes'[t][k].span = s
    BY DEF Has
  <1>2. CASE scopes'[t] = scopes[t]
    BY <1>1, <1>2 DEF Has
  <1>3. ASSUME NEW span, NEW threshold, Entered(t, span, threshold), k \notin 1 .. Len(scopes[t])
        PROVE  s = span
    <2>1. k = Len(scopes[t]) + 1
      BY <1>0, <1>1, <1>3 DEF Entered
    <2> QED
      BY <1>1, <1>3, <2>1 DEF Entered
  <1>4. ASSUME NEW span, NEW threshold, Entered(t, span, threshold), k \in 1 .. Len(scopes[t])
        PROVE  Has(t, s)
    BY <1>1, <1>4 DEF Entered, Has
  <1>5. CASE Left(t)
    <2>1. k \in 1 .. Len(scopes[t]) - 1 /\ k \in 1 .. Len(scopes[t])
      BY <1>0, <1>1, <1>5 DEF Left
    <2> QED
      BY <1>1, <1>5, <2>1 DEF Left, Has
  <1> QED
    BY <1>2, <1>3, <1>4, <1>5, ScopeSteps

\* A span that is being opened was so before, or is new.
LEMMA OpeningStep ==
    ASSUME TypeInv, CallInv, IssuedInv, Next, NEW s, Opening(s)'
    PROVE  Opening(s) \/ (~Issued(s) /\ \E t \in Threads : OpenSpan(t))
  <1>1. ASSUME NEW t \in Threads, Starting(t)', call'[t].msg.span = s
        PROVE  Opening(s) \/ (OpenSpan(t) /\ ~Issued(s))
    <2>1. Placing(t)' /\ call'[t].msg.kind = "start"
      BY <1>1 DEF Starting
    <2>2. CASE Placing(t) /\ call'[t].msg = call[t].msg
      BY <1>1, <2>1, <2>2 DEF Opening, Starting
    <2>3. ASSUME NEW kind \in {"start", "log", "end"}, NEW span \in Spans, NEW parent \in Spans,
                 Begun(t, kind, span, parent)
          PROVE  OpenSpan(t) /\ ~Issued(s)
      <3>1. OpenSpan(t) /\ Opens(t, parent, span) /\ span = s /\ span # NoSpan
        BY <1>1, <2>1, <2>3, MessageType DEF Begun
      <3> QED
        BY <3>1, NewSpan
    <2> QED
      BY <2>1, <2>2, <2>3, CallSteps
  <1>2. ASSUME NEW i \in 1 .. Len(log'), log'[i].kind = "start", log'[i].state = "writing",
               log'[i].span = s
        PROVE  Opening(s)
    <2>1. CASE i \in 1 .. Len(log) /\ Keeps(log[i], log'[i])
      BY <1>2, <2>1 DEF Keeps, Opening
    <2>2. CASE \E t \in Threads : /\ Placing(t) /\ log'[i].kind = call[t].msg.kind
                                  /\ log'[i].span = call[t].msg.span
      BY <1>2, <2>2 DEF Opening, Starting
    <2> QED
      BY <2>1, <2>2, EntrySteps
  <1> QED
    BY <1>1, <1>2 DEF Opening

LEMMA EndingStep ==
    ASSUME TypeInv, CallInv, IssuedInv, Next, NEW t \in Threads, NEW s, Ending(t, s)'
    PROVE  \/ Ending(t, s) /\ call'[t].at = "place"
           \/ /\ CloseScope(t) /\ scopes[t] # <<>> /\ scopes[t][Len(scopes[t])].span = s
              /\ Has(t, s)
  <1>1. Placing(t)' /\ call'[t].msg.kind = "end" /\ call'[t].msg.span = s /\ call'[t].at = "place"
    BY DEF Ending, Placing
  <1>2. CASE Placing(t) /\ call'[t].msg = call[t].msg
    BY <1>1, <1>2 DEF Ending
  <1>3. ASSUME NEW kind \in {"start", "log", "end"}, NEW span \in Spans, NEW parent \in Spans,
               Begun(t, kind, span, parent)
        PROVE  /\ CloseScope(t) /\ scopes[t] # <<>> /\ scopes[t][Len(scopes[t])].span = s
               /\ Has(t, s)
    <2>1. CloseScope(t) /\ scopes[t] # <<>> /\ scopes[t][Len(scopes[t])].span = s
      BY <1>1, <1>3, MessageType DEF Begun
    <2>2. scopes[t] \in Seq(Scopes)
      BY DEF TypeInv
    <2> QED
      BY <2>1, <2>2 DEF Has
  <1> QED
    BY <1>1, <1>2, <1>3, CallSteps

LEMMA EndedStep ==
    ASSUME TypeInv, CallInv, Next, NEW s, Ended(s)'
    PROVE  Ended(s) \/ \E t \in Threads : Ending(t, s) /\ call'[t].at = "write"
  <1>1. PICK i \in 1 .. Len(log') : log'[i].kind = "end" /\ log'[i].span = s
    BY DEF Ended
  <1>2. CASE i \in 1 .. Len(log) /\ Keeps(log[i], log'[i])
    BY <1>1, <1>2 DEF Ended, Keeps
  <1>3. ASSUME NEW t \in Threads, Place(t), Placing(t), log'[i].kind = call[t].msg.kind,
               log'[i].span = call[t].msg.span
        PROVE  Ending(t, s) /\ call'[t].at = "write"
    <2>1. Placed(t)
      BY <1>3, PlaceFacts
    <2> QED
      BY <1>1, <1>3, <2>1 DEF Ending, Placed
  <1> QED
    BY <1>2, <1>3, EntrySteps

\* What is there has an id.
LEMMA Known ==
    ASSUME TypeInv, IssuedInv, NEW s, Open(s) \/ Closing(s) \/ Ended(s)
    PROVE  Issued(s)
  <1>1. CASE Open(s)
    BY <1>1 DEF Open, Has, Holds, IssuedInv
  <1>2. CASE Closing(s)
    BY <1>2 DEF Closing, Ending, IssuedInv
  <1>3. CASE Ended(s)
    BY <1>3 DEF Ended, IssuedInv
  <1> QED
    BY <1>1, <1>2, <1>3

\* A span whose scope is entered was being opened, and is no more.
LEMMA EnteringFacts ==
    ASSUME TypeInv, CallInv, IssuedInv, StartsInv, Next, NEW t \in Threads, NEW s, Entering(t, s)
    PROVE  /\ Opening(s) /\ ~Opening(s)'
           /\ \A u \in Threads : Entering(u, s) => t = u
  <1>1. /\ call[t].i \in 1 .. Len(log) /\ Len(log') = Len(log) /\ Writing(t)
        /\ log[call[t].i].kind = "start" /\ log[call[t].i].span = s
        /\ log[call[t].i].state = "writing" /\ log'[call[t].i].state = "whole"
        /\ \A i \in 1 .. Len(log) : i # call[t].i => log'[i] = log[i]
        /\ call'[t] = Idle /\ \A u \in Threads : u # t => call'[u] = call[u]
    BY DEF Entering
  <1>2. Opening(s)
    BY <1>1 DEF Opening
  <1>3. DOMAIN log = 1 .. Len(log)
    BY DEF TypeInv
  <1>4. ASSUME NEW u \in Threads, Starting(u)', call'[u].msg.span = s
        PROVE  FALSE
    <2>1. u # t /\ call'[u] = call[u]
      BY <1>1, <1>4 DEF Starting, Placing, Idle
    <2>2. Starting(u) /\ call[u].msg.span = s
      BY <1>4, <2>1 DEF Starting, Placing
    <2> QED
      BY <1>1, <2>2 DEF StartsInv
  <1>5. ASSUME NEW i \in 1 .. Len(log'), log'[i].kind = "start", log'[i].state = "writing",
               log'[i].span = s
        PROVE  FALSE
    <2>1. i \in 1 .. Len(log) /\ i # call[t].i /\ log[i].kind = "start" /\ log[i].span = s
      BY <1>1, <1>5
    <2> QED
      BY <1>1, <1>3, <2>1 DEF StartsInv, SpansDistinct
  <1>6. ASSUME NEW u \in Threads, Entering(u, s)
        PROVE  t = u
    <2>1. /\ call[u].i \in 1 .. Len(log) /\ Writing(u)
          /\ log[call[u].i].kind = "start" /\ log[call[u].i].span = s
      BY <1>6 DEF Entering
    <2>2. call[u].i = call[t].i
      BY <1>1, <1>3, <2>1 DEF StartsInv, SpansDistinct
    <2> QED
      BY <1>1, <2>1, <2>2 DEF CallInv
  <1> QED
    BY <1>2, <1>4, <1>5, <1>6 DEF Opening

LEMMA PhaseStep ==
    ASSUME TypeInv, CallInv, IssuedInv, StartsInv, Next, NEW s, s # NoSpan,
           PhaseOf(s), ScopeOf(s)
    PROVE  PhaseOf(s)'
  <1>1. ASSUME Open(s)'
        PROVE  Open(s) \/ (Opening(s) /\ ~Opening(s)')
    BY <1>1, HasStep, EnteringFacts DEF Open
  <1>2. ASSUME Opening(s)'
        PROVE  Opening(s) \/ ~(Open(s) \/ Closing(s) \/ Ended(s))
    BY <1>2, OpeningStep, Known
  <1>3. ASSUME NEW t \in Threads, CloseScope(t), scopes[t] # <<>>,
               scopes[t][Len(scopes[t])].span = s, Has(t, s), Open(s)'
        PROVE  FALSE
    <2>1. Open(s) /\ ~Opening(s)
      BY <1>3 DEF Open, PhaseOf
    <2>2. PICK u \in Threads : Has(u, s)'
      BY <1>3 DEF Open
    <2>3. Has(u, s)
      BY <2>1, <2>2, HasStep, EnteringFacts
    <2>4. u = t
      BY <1>3, <2>3 DEF ScopeOf
    <2>5. Left(t) /\ Len(scopes[t]) \in Nat
      BY <1>3, CloseFacts DEF TypeInv
    <2>6. PICK k \in 1 .. Len(scopes'[t]) : scopes'[t][k].span = s
      BY <2>2, <2>4 DEF Has
    <2>7. k \in 1 .. Len(scopes[t]) /\ k # Len(scopes[t]) /\ scopes[t][k].span = s
      BY <2>5, <2>6 DEF Left
    <2>8. Len(scopes[t]) \in 1 .. Len(scopes[t])
      BY <2>5, <2>7
    <2> QED
      BY <1>3, <2>7, <2>8 DEF ScopeOf
  <1>4. (Opening(s) => ~Open(s))'
    BY <1>1, <1>2 DEF PhaseOf
  <1>5. ASSUME Opening(s)' \/ Open(s)', NEW t \in Threads, Ending(t, s)'
        PROVE  FALSE
    <2>1. CASE Ending(t, s)
      <3>1. Closing(s)
        BY <2>1 DEF Closing
      <3> QED
        BY <1>1, <1>2, <1>5, <3>1 DEF PhaseOf
    <2>2. CASE /\ CloseScope(t) /\ scopes[t] # <<>> /\ scopes[t][Len(scopes[t])].span = s
               /\ Has(t, s)
      <3>1. Open(s) /\ ~Opening(s)
        BY <2>2 DEF Open, PhaseOf
      <3> QED
        BY <1>2, <1>3, <1>5, <2>2, <3>1
    <2> QED
      BY <1>5, <2>1, <2>2, EndingStep
  <1>6. ASSUME NEW t \in Threads, Ending(t, s)', ~Ending(t, s)
        PROVE  Open(s)
    BY <1>6, EndingStep DEF Open
  <1>7. ASSUME Opening(s)' \/ Open(s)' \/ Closing(s)', Ended(s)'
        PROVE  FALSE
    <2>1. CASE Ended(s)
      <3>1. ~Opening(s) /\ ~Open(s) /\ ~Closing(s)
        BY <2>1 DEF PhaseOf
      <3>2. ~Opening(s)' /\ ~Open(s)'
        BY <1>1, <1>2, <2>1, <3>1
      <3>3. ~Closing(s)'
        BY <1>6, <3>1 DEF Closing
      <3> QED
        BY <1>7, <3>2, <3>3
    <2>2. ASSUME NEW t \in Threads, Ending(t, s), call'[t].at = "write"
          PROVE  FALSE
      <3>1. Closing(s) /\ ~Opening(s) /\ ~Open(s)
        BY <2>2 DEF Closing, PhaseOf
      <3>2. ~Opening(s)' /\ ~Open(s)'
        BY <1>1, <1>2, <3>1
      <3>3. ASSUME NEW u \in Threads, Ending(u, s)'
            PROVE  FALSE
        <4>1. Ending(u, s) /\ call'[u].at = "place"
          BY <3>1, <3>3, EndingStep DEF Open
        <4>2. u = t
          BY <2>2, <4>1 DEF PhaseOf
        <4> QED
          BY <2>2, <4>1, <4>2
      <3> QED
        BY <1>7, <3>2, <3>3 DEF Closing
    <2> QED
      BY <1>7, <2>1, <2>2, EndedStep
  <1>8. ASSUME NEW t \in Threads, NEW u \in Threads, Ending(t, s)', Ending(u, s)'
        PROVE  t = u
    <2>1. CASE Ending(t, s) /\ Ending(u, s)
      BY <2>1 DEF PhaseOf
    <2>2. CASE Open(s)
      <3>1. ~Ending(t, s) /\ ~Ending(u, s)
        BY <2>2 DEF PhaseOf, Closing
      <3>2. Has(t, s) /\ Has(u, s)
        BY <1>8, <3>1, EndingStep
      <3> QED
        BY <3>2 DEF ScopeOf
    <2> QED
      BY <1>6, <1>8, <2>1, <2>2
  <1>9. (Opening(s) \/ Open(s) => ~Closing(s))'
    BY <1>5 DEF Closing
  <1>10. (Opening(s) \/ Open(s) \/ Closing(s) => ~Ended(s))'
    BY <1>7
  <1> QED
    BY <1>4, <1>8, <1>9, <1>10 DEF PhaseOf

LEMMA ScopeStep ==
    ASSUME TypeInv, CallInv, IssuedInv, StartsInv, Next, NEW s, s # NoSpan, s \notin named',
           PhaseOf(s), ScopeOf(s)
    PROVE  ScopeOf(s)'
  <1>1. ASSUME NEW t \in Threads, NEW u \in Threads, Has(t, s)', Has(u, s)'
        PROVE  t = u
    <2>1. CASE Has(t, s) \/ Has(u, s)
      <3>1. ~Opening(s)
        BY <2>1 DEF Open, PhaseOf
      <3>2. Has(t, s) /\ Has(u, s)
        BY <1>1, <3>1, HasStep, EnteringFacts
      <3> QED
        BY <3>2 DEF ScopeOf
    <2>2. CASE ~Has(t, s) /\ ~Has(u, s)
      <3>1. Entering(t, s) /\ Entering(u, s)
        BY <1>1, <2>2, HasStep
      <3> QED
        BY <3>1, EnteringFacts
    <2> QED
      BY <2>1, <2>2
  <1> SUFFICES ASSUME NEW t \in Threads
               PROVE  /\ \A k, l \in 1 .. Len(scopes'[t]) :
                            scopes'[t][k].span = s /\ scopes'[t][l].span = s => k = l
                      /\ \A k \in 1 .. Len(scopes'[t]) : scopes'[t][k].previous = s =>
                            \E l \in 1 .. k - 1 : scopes'[t][l].span = s
                      /\ ctx'[t].span = s => Has(t, s)'
                      /\ Logs(t, s)' => Has(t, s)'
    BY <1>1 DEF ScopeOf
  <1>0. Len(scopes[t]) \in Nat
    BY DEF TypeInv
  <1>2. /\ \A k, l \in 1 .. Len(scopes[t]) :
              scopes[t][k].span = s /\ scopes[t][l].span = s => k = l
        /\ \A k \in 1 .. Len(scopes[t]) :
              scopes[t][k].previous = s => \E l \in 1 .. k - 1 : scopes[t][l].span = s
        /\ ctx[t].span = s => Has(t, s)
        /\ Logs(t, s) => Has(t, s)
    BY DEF ScopeOf
  <1>3. ASSUME Logs(t, s)'
        PROVE  Logs(t, s) \/ (Log(t) /\ ctx[t].span = s)
    <2>1. Placing(t)' /\ call'[t].msg.kind = "log" /\ call'[t].msg.span = s
      BY <1>3 DEF Logs
    <2>2. CASE Placing(t) /\ call'[t].msg = call[t].msg
      BY <2>1, <2>2 DEF Logs
    <2>3. ASSUME NEW kind \in {"start", "log", "end"}, NEW span \in Spans, NEW parent \in Spans,
                 Begun(t, kind, span, parent)
          PROVE  Log(t) /\ ctx[t].span = s
      BY <2>1, <2>3, MessageType DEF Begun
    <2> QED
      BY <2>1, <2>2, <2>3, CallSteps
  <1>4. CASE scopes'[t] = scopes[t] /\ (ctx'[t] = ctx[t] \/ SetContext(t))
    <2>1. Has(t, s)' <=> Has(t, s)
      BY <1>4 DEF Has
    <2>2. ASSUME ctx'[t].span = s, SetContext(t)
          PROVE  FALSE
      <3>1. CASE ctx'[t] = NoContext
        BY <2>2, <3>1 DEF NoContext
      <3>2. ASSUME NEW u \in Threads, ctx'[t] = Context(ctx[u].span, Default),
                   named' = named \cup ({ctx[u].span} \ {NoSpan})
            PROVE  FALSE
        <4>1. ctx[u].span = s
          BY <2>2, <3>2 DEF Context
        <4> QED
          BY <3>2, <4>1
      <3> QED
        BY <2>2, <3>1, <3>2, SetFacts
    <2>3. ctx'[t].span = s => Has(t, s)'
      BY <1>2, <1>4, <2>1, <2>2
    <2>4. Logs(t, s)' => Has(t, s)'
      BY <1>2, <1>3, <2>1
    <2> QED
      BY <1>2, <1>4, <2>3, <2>4
  <1>5. ASSUME NEW span, NEW threshold, Entered(t, span, threshold), s = span => ~Has(t, s),
               ~Logs(t, s)'
        PROVE  /\ \A k, l \in 1 .. Len(scopes'[t]) :
                     scopes'[t][k].span = s /\ scopes'[t][l].span = s => k = l
               /\ \A k \in 1 .. Len(scopes'[t]) : scopes'[t][k].previous = s =>
                     \E l \in 1 .. k - 1 : scopes'[t][l].span = s
               /\ ctx'[t].span = s => Has(t, s)'
    <2> DEFINE n == Len(scopes[t]) + 1
    <2>1. /\ Len(scopes'[t]) = n
          /\ \A k \in 1 .. Len(scopes[t]) : scopes'[t][k] = scopes[t][k]
          /\ scopes'[t][n].span = span /\ scopes'[t][n].previous = ctx[t].span
          /\ ctx'[t].span = span
      BY <1>5 DEF Entered
    <2> HIDE DEF n
    <2>2. n = Len(scopes[t]) + 1 /\ n \in 1 .. Len(scopes'[t])
      BY <1>0, <2>1 DEF n
    <2>3. ASSUME NEW k \in 1 .. Len(scopes'[t]), NEW l \in 1 .. Len(scopes'[t]),
                 scopes'[t][k].span = s, scopes'[t][l].span = s, k # l
          PROVE  FALSE
      <3>1. CASE k \in 1 .. Len(scopes[t]) /\ l \in 1 .. Len(scopes[t])
        BY <1>2, <2>1, <2>3, <3>1
      <3>2. CASE k = n
        <4>1. l \in 1 .. Len(scopes[t]) /\ s = span
          BY <1>0, <2>1, <2>2, <2>3, <3>2
        <4> QED
          BY <1>5, <2>1, <2>3, <4>1 DEF Has
      <3>3. CASE l = n
        <4>1. k \in 1 .. Len(scopes[t]) /\ s = span
          BY <1>0, <2>1, <2>2, <2>3, <3>3
        <4> QED
          BY <1>5, <2>1, <2>3, <4>1 DEF Has
      <3> QED
        BY <1>0, <2>1, <2>2, <3>1, <3>2, <3>3
    <2>4. ASSUME NEW k \in 1 .. Len(scopes'[t]), scopes'[t][k].previous = s
          PROVE  \E l \in 1 .. k - 1 : scopes'[t][l].span = s
      <3>1. CASE k \in 1 .. Len(scopes[t])
        <4>1. PICK l \in 1 .. k - 1 : scopes[t][l].span = s
          BY <1>2, <2>1, <2>4, <3>1
        <4>2. l \in 1 .. Len(scopes[t])
          BY <1>0, <3>1
        <4> QED
          BY <2>1, <4>1, <4>2
      <3>2. CASE k = n
        <4>1. PICK l \in 1 .. Len(scopes[t]) : scopes[t][l].span = s
          BY <1>2, <2>1, <2>4, <3>2 DEF Has
        <4>2. l \in 1 .. k - 1
          BY <1>0, <2>2, <3>2
        <4> QED
          BY <2>1, <4>1, <4>2
      <3> QED
        BY <1>0, <2>1, <2>2, <3>1, <3>2
    <2>5. ctx'[t].span = s => Has(t, s)'
      BY <2>1, <2>2 DEF Has
    <2> QED
      BY <2>3, <2>4, <2>5
  <1>6. ASSUME NEW threshold, Entered(t, NoSpan, threshold), OpenNone(t)
        PROVE  ~Logs(t, s)'
    <2>1. call[t] = Idle /\ call' = call
      BY <1>6, NoneFacts
    <2> QED
      BY <2>1 DEF Logs, Placing, Idle
  <1>7. ASSUME NEW span, Entering(t, span), Entered(t, span, ctx[t].threshold)
        PROVE  (s = span => ~Has(t, s)) /\ ~Logs(t, s)'
    <2>1. ~Logs(t, s)'
      BY <1>7 DEF Entering, Logs, Placing, Idle
    <2>2. CASE s = span
      <3>1. Opening(s)
        BY <1>7, <2>2, EnteringFacts
      <3> QED
        BY <2>1, <3>1 DEF PhaseOf, Open
    <2> QED
      BY <2>1, <2>2
  <1>8. CASE CloseScope(t) /\ Left(t)
    <2>1. /\ Len(scopes[t]) > 0 /\ Len(scopes'[t]) = Len(scopes[t]) - 1
          /\ \A k \in 1 .. Len(scopes[t]) - 1 : scopes'[t][k] = scopes[t][k]
          /\ ctx'[t].span = scopes[t][Len(scopes[t])].previous
      BY <1>8 DEF Left
    <2>2. /\ \A k, l \in 1 .. Len(scopes'[t]) :
               scopes'[t][k].span = s /\ scopes'[t][l].span = s => k = l
      <3>1. \A k \in 1 .. Len(scopes'[t]) : k \in 1 .. Len(scopes[t])
        BY <1>0, <2>1
      <3> QED
        BY <1>2, <2>1, <3>1
    <2>3. ASSUME NEW k \in 1 .. Len(scopes'[t]), scopes'[t][k].previous = s
          PROVE  \E l \in 1 .. k - 1 : scopes'[t][l].span = s
      <3>1. k \in 1 .. Len(scopes[t]) /\ k \in 1 .. Len(scopes[t]) - 1
        BY <1>0, <2>1
      <3>2. PICK l \in 1 .. k - 1 : scopes[t][l].span = s
        BY <1>2, <2>1, <2>3, <3>1
      <3>3. l \in 1 .. Len(scopes[t]) - 1
        BY <1>0, <3>1
      <3> QED
        BY <2>1, <3>2, <3>3
    <2>4. ASSUME ctx'[t].span = s
          PROVE  Has(t, s)'
      <3>1. Len(scopes[t]) \in 1 .. Len(scopes[t])
        BY <1>0, <2>1
      <3>2. PICK l \in 1 .. Len(scopes[t]) - 1 : scopes[t][l].span = s
        BY <1>2, <2>1, <2>4, <3>1
      <3> QED
        BY <2>1, <3>2 DEF Has
    <2>5. ASSUME Logs(t, s)'
          PROVE  Has(t, s)'
      <3>1. ~Logs(t, s)
        BY <1>8, CloseFacts DEF Logs, Placing, Idle
      <3>2. Log(t) /\ ctx[t].span = s
        BY <1>3, <2>5, <3>1
      <3>3. scopes' = scopes
        BY <3>2 DEF Log, threads
      <3> QED
        BY <1>2, <3>2, <3>3 DEF Has
    <2> QED
      BY <2>2, <2>3, <2>4, <2>5
  <1> QED
    BY <1>4, <1>5, <1>6, <1>7, <1>8, ScopeSteps

\* What threads did to their contexts is not forgotten.
LEMMA Grown ==
    ASSUME Next
    PROVE  named \subseteq named' /\ tangled \subseteq tangled'
  <1>1. ASSUME NEW t \in Threads, SetContext(t) \/ OpenNone(t)
        PROVE  named \subseteq named' /\ tangled \subseteq tangled'
    BY <1>1 DEF SetContext, OpenNone
  <1>2. ASSUME NEW t \in Threads, OpenSpan(t) \/ CloseScope(t) \/ Log(t)
                                   \/ Place(t) \/ Refuse(t) \/ Publish(t)
        PROVE  UNCHANGED <<named, tangled>>
    BY <1>2 DEF OpenSpan, CloseScope, Log, Place, Refuse, Publish, threads
  <1>3. CASE Consume
    BY <1>3 DEF Consume, Take, LeaveRegion, threads
  <1> QED
    BY <1>1, <1>2, <1>3 DEF Next, Step

LEMMA LifeStep ==
    ASSUME TypeInv, CallInv, IssuedInv, StartsInv, LifeInv, Next
    PROVE  LifeInv'
  <1>1. named \subseteq named'
    BY Grown
  <1>2. ASSUME NEW s, s \in Spans \ {NoSpan}, s \notin named'
        PROVE  PhaseOf(s)' /\ ScopeOf(s)'
    <2>1. PhaseOf(s) /\ ScopeOf(s)
      BY <1>1, <1>2 DEF LifeInv, Own
    <2> QED
      BY <1>2, <2>1, PhaseStep, ScopeStep
  <1> QED
    BY <1>2 DEF LifeInv, Own

\* Nothing is sent in a span after its end.
LEMMA EndsStep ==
    ASSUME TypeInv, CallInv, IssuedInv, RingInv, LifeInv, EndsLast, Next
    PROVE  EndsLast'
  <1>0. /\ Len(log) \in Nat /\ DOMAIN log = 1 .. Len(log) /\ DOMAIN log' = 1 .. Len(log')
        /\ log' \in Seq(Messages)
    BY TypeStep DEF TypeInv
  <1>1. named \subseteq named'
    BY Grown
  <1> SUFFICES ASSUME NEW i \in 1 .. Len(log'), NEW j \in 1 .. Len(log'), i < j,
                      log'[i].kind = "end", log'[i].span = log'[j].span,
                      log'[i].span \notin named', log'[i].span # NoSpan
               PROVE  FALSE
    BY <1>0 DEF EndsLast
  <1>2. i \in 1 .. Len(log) /\ Keeps(log[i], log'[i])
    <2>1. CASE i = Len(log) + 1
      <3>1. j \in 1 .. Len(log) \/ j = Len(log) + 1
        BY EntrySteps
      <3> QED
        BY <1>0, <2>1, <3>1
    <2> QED
      BY <2>1, EntrySteps
  <1>3. PICK s : s = log'[i].span
    OBVIOUS
  <1>4. log[i].kind = "end" /\ log[i].span = s /\ s \notin named /\ s # NoSpan /\ s \in Spans
    <2>1. log[i] \in Messages
      BY <1>2 DEF TypeInv
    <2>2. log[i].kind = "end" /\ log[i].span = s /\ s \notin named /\ s # NoSpan
      BY <1>1, <1>2, <1>3 DEF Keeps
    <2> QED
      BY <2>1, <2>2 DEF Messages
  <1>5. PhaseOf(s) /\ ScopeOf(s) /\ Ended(s)
    BY <1>2, <1>4 DEF LifeInv, Own, Ended
  <1>6. CASE j \in 1 .. Len(log) /\ Keeps(log[j], log'[j])
    BY <1>0, <1>2, <1>3, <1>4, <1>6 DEF EndsLast, Keeps
  <1>7. ASSUME NEW t \in Threads, Placing(t), call[t].msg.span = s
        PROVE  FALSE
    <2>1. call[t].msg.kind \in {"start", "end", "log"}
      BY <1>7, CallFields DEF Messages
    <2>2. CASE call[t].msg.kind = "start"
      BY <1>5, <1>7, <2>2 DEF PhaseOf, Opening, Starting
    <2>3. CASE call[t].msg.kind = "end"
      BY <1>5, <1>7, <2>3 DEF PhaseOf, Closing, Ending
    <2>4. CASE call[t].msg.kind = "log"
      BY <1>5, <1>7, <2>4 DEF PhaseOf, ScopeOf, Open, Logs
    <2> QED
      BY <2>1, <2>2, <2>3, <2>4
  <1> QED
    BY <1>3, <1>6, <1>7, EntrySteps

-----------------------------------------------------------------------------
(* Contexts.                                                                *)

LEMMA NoneReachDisabled ==
    ASSUME NEW severity \in Severities
    PROVE  ~(severity >= Disabled)
  <1>1. Severities \subseteq Nat /\ \E s \in Severities : \A u \in Severities : u <= s
    BY SpanBusAssumption
  <1> DEFINE most == CHOOSE s \in Severities : \A u \in Severities : u <= s
  <1>2. most \in Severities /\ \A u \in Severities : u <= most
    BY <1>1
  <1>3. Disabled = 1 + most
    BY DEF Disabled
  <1> HIDE DEF most
  <1> QED
    BY <1>1, <1>2, <1>3

\* What happens becomes undefined only where a port is used that is not there.
LEMMA UndefinedSteps ==
    ASSUME TypeInv, CallInv, IssuedInv, Next, NEW t \in Threads, call'[t].at = "undefined"
    PROVE  call[t].at = "undefined" \/ (~ctx[t].port /\ (Log(t) \/ CloseScope(t)))
  <1>1. CASE UNCHANGED call
    BY <1>1
  <1>2. ASSUME NEW u \in Threads, OpenSpan(u) \/ Log(u) \/ CloseScope(u)
        PROVE  call[t].at = "undefined" \/ (~ctx[t].port /\ (Log(t) \/ CloseScope(t)))
    <2>1. CASE u = t
      <3>1. ctx[t].port => Placing(t)'
        BY <1>2, <2>1, BeginFacts
      <3>2. ~ctx[t].port
        BY <3>1 DEF Placing
      <3> QED
        BY <1>2, <2>1, <3>2 DEF OpenSpan, MayOpen
    <2>2. CASE u # t
      BY <1>2, <2>2, BeginFacts DEF Elsewhere
    <2> QED
      BY <2>1, <2>2
  <1>3. ASSUME NEW u \in Threads, Refuse(u)
        PROVE  call[t].at = "undefined"
    <2>1. /\ \A v \in Threads : v # u => call'[v] = call[v]
          /\ \/ call'[u] = Idle
             \/ call'[u] = [at |-> "place", msg |-> call[u].msg,
                            region |-> After(call[u].region)]
      BY <1>3, RefuseFacts DEF Elsewhere
    <2> QED
      BY <2>1 DEF Idle
  <1>4. ASSUME NEW u \in Threads, Place(u)
        PROVE  call[t].at = "undefined"
    <2>1. Placed(u)
      BY <1>4, PlaceFacts
    <2> QED
      BY <2>1 DEF Placed
  <1>5. ASSUME NEW u \in Threads, Publish(u)
        PROVE  call[t].at = "undefined"
    <2>1. PICK state : Published(u, state)
      BY <1>5, PublishFacts
    <2> QED
      BY <2>1 DEF Published, Idle
  <1>6. CASE Consume
    BY <1>1, <1>6 DEF Consume, Take, LeaveRegion
  <1>7. ASSUME NEW u \in Threads, OpenNone(u) \/ SetContext(u)
        PROVE  UNCHANGED call
    BY <1>7 DEF OpenNone, SetContext
  <1> QED
    BY <1>1, <1>2, <1>3, <1>4, <1>5, <1>6, <1>7 DEF Next, Step

LEMMA WritingSteps ==
    ASSUME TypeInv, CallInv, IssuedInv, Next, NEW t \in Threads, Writing(t)'
    PROVE  \/ /\ Writing(t) /\ call'[t] = call[t]
              /\ log'[call'[t].i].kind = log[call[t].i].kind
           \/ Placing(t) /\ log'[call'[t].i].kind = call[t].msg.kind
  <1>1. call'[t].at = "write"
    BY DEF Writing
  <1>2. CASE call'[t] = call[t]
    <2>1. Writing(t) /\ call[t].i \in 1 .. Len(log)
      BY <1>1, <1>2 DEF Writing, CallInv
    <2>2. Keeps(log[call[t].i], log'[call[t].i])
      BY <2>1, LogKeeps
    <2> QED
      BY <1>2, <2>1, <2>2 DEF Keeps
  <1>3. ASSUME NEW u \in Threads, OpenSpan(u) \/ Log(u) \/ CloseScope(u)
        PROVE  call'[t] = call[t]
    <2>1. Elsewhere(u) /\ ~Writing(u)'
      BY <1>3, BeginFacts
    <2> QED
      BY <1>1, <2>1 DEF Elsewhere, Writing
  <1>4. ASSUME NEW u \in Threads, Refuse(u)
        PROVE  call'[t] = call[t]
    <2>1. /\ \A v \in Threads : v # u => call'[v] = call[v]
          /\ \/ call'[u] = Idle
             \/ call'[u] = [at |-> "place", msg |-> call[u].msg,
                            region |-> After(call[u].region)]
      BY <1>4, RefuseFacts DEF Elsewhere
    <2> QED
      BY <1>1, <2>1 DEF Idle
  <1>5. ASSUME NEW u \in Threads, Place(u)
        PROVE  \/ call'[t] = call[t]
               \/ Placing(t) /\ log'[call'[t].i].kind = call[t].msg.kind
    <2>1. Placing(u) /\ Placed(u)
      BY <1>5, PlaceFacts
    <2>2. /\ call'[u].i = Len(log) + 1 /\ \A v \in Threads : v # u => call'[v] = call[v]
          /\ log'[Len(log) + 1] = [call[u].msg EXCEPT !.region = call[u].region]
      BY <2>1 DEF Placed
    <2>3. log'[call'[u].i].kind = call[u].msg.kind
      BY <1>5, <2>2, PlaceFacts
    <2> QED
      BY <2>1, <2>2, <2>3
  <1>6. ASSUME NEW u \in Threads, Publish(u)
        PROVE  call'[t] = call[t]
    <2>1. PICK state : Published(u, state)
      BY <1>6, PublishFacts
    <2> QED
      BY <1>1, <2>1 DEF Published, Idle
  <1>7. ASSUME Consume
        PROVE  UNCHANGED call
    BY <1>7 DEF Consume, Take, LeaveRegion
  <1>8. ASSUME NEW u \in Threads, OpenNone(u) \/ SetContext(u)
        PROVE  UNCHANGED call
    BY <1>8 DEF OpenNone, SetContext
  <1> QED
    BY <1>2, <1>3, <1>4, <1>5, <1>6, <1>7, <1>8 DEF Next, Step

LEMMA PortStep ==
    ASSUME TypeInv, CallInv, IssuedInv, PortInv, Next
    PROVE  PortInv'
  <1>1. ASSUME NEW t \in Threads \ tangled'
        PROVE  /\ scopes'[t] # <<>> => ctx'[t].port
               /\ ~ctx'[t].port => ctx'[t].threshold = Disabled
               /\ Starting(t)' => ctx'[t].port
               /\ Writing(t)' /\ log'[call'[t].i].kind = "start" => ctx'[t].port
    <2>1. /\ scopes[t] # <<>> => ctx[t].port
          /\ ~ctx[t].port => ctx[t].threshold = Disabled
          /\ Starting(t) => ctx[t].port
          /\ Writing(t) /\ log[call[t].i].kind = "start" => ctx[t].port
      BY <1>1, Grown DEF PortInv
    <2>2. ASSUME Starting(t)'
          PROVE  ctx[t].port
      <3>1. Placing(t)' /\ call'[t].msg.kind = "start"
        BY <2>2 DEF Starting
      <3>2. CASE Placing(t) /\ call'[t].msg = call[t].msg
        BY <2>1, <3>1, <3>2 DEF Starting
      <3>3. CASE \E kind \in {"start", "log", "end"}, span, parent \in Spans :
                    Begun(t, kind, span, parent)
        BY <3>3 DEF Begun
      <3> QED
        BY <3>1, <3>2, <3>3, CallSteps
    <2>3. ASSUME Writing(t)', log'[call'[t].i].kind = "start"
          PROVE  ctx[t].port
      BY <2>1, <2>3, WritingSteps DEF Starting
    <2>4. CASE scopes'[t] = scopes[t] /\ ctx'[t] = ctx[t]
      BY <2>1, <2>2, <2>3, <2>4
    <2>5. CASE scopes'[t] = scopes[t] /\ SetContext(t)
      <3>1. call[t] = Idle /\ UNCHANGED <<call, log>> /\ scopes[t] = <<>>
        BY <1>1, <2>5, SetFacts DEF bus
      <3>2. ~Starting(t)' /\ ~Writing(t)'
        BY <3>1 DEF Starting, Placing, Writing, Idle
      <3>3. CASE ctx'[t] = NoContext
        BY <2>5, <3>1, <3>2, <3>3 DEF NoContext
      <3>4. CASE \E u \in Threads : ctx'[t] = Context(ctx[u].span, Default)
        BY <2>5, <3>1, <3>2, <3>4 DEF Context
      <3> QED
        BY <2>5, <3>3, <3>4, SetFacts
    <2>6. ASSUME ctx'[t].port = ctx[t].port, ctx[t].port
          PROVE  /\ scopes'[t] # <<>> => ctx'[t].port
                 /\ ~ctx'[t].port => ctx'[t].threshold = Disabled
                 /\ Starting(t)' => ctx'[t].port
                 /\ Writing(t)' /\ log'[call'[t].i].kind = "start" => ctx'[t].port
      BY <2>6
    <2>7. ASSUME OpenNone(t), NEW threshold, Entered(t, NoSpan, threshold)
          PROVE  ctx'[t].port = ctx[t].port /\ ctx[t].port
      <3>1. tangled' = IF ctx[t].port THEN tangled ELSE tangled \cup {t}
        BY <2>7, NoneFacts
      <3>2. ctx'[t].port = ctx[t].port
        BY <2>7 DEF Entered
      <3> QED
        BY <1>1, <3>1, <3>2
    <2>8. ASSUME NEW span, Entering(t, span), Entered(t, span, ctx[t].threshold)
          PROVE  ctx'[t].port = ctx[t].port /\ ctx[t].port
      BY <2>1, <2>8 DEF Entering, Entered
    <2>9. ASSUME CloseScope(t), Left(t)
          PROVE  ctx'[t].port = ctx[t].port /\ ctx[t].port
      BY <2>1, <2>9 DEF CloseScope, Left
    <2> QED
      BY <2>4, <2>5, <2>6, <2>7, <2>8, <2>9, ScopeSteps
  <1> QED
    BY <1>1 DEF PortInv

LEMMA FollowStep ==
    ASSUME TypeInv, CallInv, IssuedInv, RingInv, PortInv, ContextFollowsScopes, Next
    PROVE  ContextFollowsScopes'
  <1>1. ASSUME NEW t \in Threads \ tangled', call'[t].at = "undefined"
        PROVE  FALSE
    <2>1. t \in Threads \ tangled
      BY <1>1, Grown
    <2>2. ~ctx[t].port /\ (Log(t) \/ CloseScope(t))
      BY <1>1, <2>1, UndefinedSteps DEF ContextFollowsScopes
    <2>3. ctx[t].threshold = Disabled /\ scopes[t] = <<>>
      BY <2>1, <2>2 DEF PortInv
    <2>4. CASE Log(t)
      BY <2>3, <2>4, NoneReachDisabled DEF Log
    <2>5. CASE CloseScope(t)
      BY <2>3, <2>5 DEF CloseScope
    <2> QED
      BY <2>2, <2>4, <2>5
  <1>2. ASSUME NEW t \in Threads \ tangled'
        PROVE  /\ scopes'[t] # <<>> =>
                      /\ ctx'[t].span = scopes'[t][Len(scopes'[t])].span
                      /\ ctx'[t].threshold = scopes'[t][Len(scopes'[t])].threshold
               /\ \A k \in 2 .. Len(scopes'[t]) :
                     /\ scopes'[t][k].previous = scopes'[t][k - 1].span
                     /\ scopes'[t][k].previousThreshold = scopes'[t][k - 1].threshold
    <2>1. /\ scopes[t] # <<>> => /\ ctx[t].span = scopes[t][Len(scopes[t])].span
                                 /\ ctx[t].threshold = scopes[t][Len(scopes[t])].threshold
          /\ \A k \in 2 .. Len(scopes[t]) :
                /\ scopes[t][k].previous = scopes[t][k - 1].span
                /\ scopes[t][k].previousThreshold = scopes[t][k - 1].threshold
      BY <1>2, Grown DEF ContextFollowsScopes, Top, Last
    <2>2. Len(scopes[t]) \in Nat /\ (scopes[t] = <<>> <=> Len(scopes[t]) = 0)
          /\ (scopes'[t] = <<>> <=> Len(scopes'[t]) = 0)
      <3>1. scopes[t] \in Seq(Scopes) /\ scopes'[t] \in Seq(Scopes)
        BY TypeStep DEF TypeInv
      <3> QED
        BY <3>1
    <2>3. CASE scopes'[t] = scopes[t] /\ ctx'[t] = ctx[t]
      BY <2>1, <2>3
    <2>4. CASE scopes'[t] = scopes[t] /\ SetContext(t)
      <3>1. scopes[t] = <<>>
        BY <1>2, <2>4, SetFacts
      <3> QED
        BY <2>2, <2>4, <3>1
    <2>5. ASSUME NEW span, NEW threshold, Entered(t, span, threshold)
          PROVE  /\ ctx'[t].span = scopes'[t][Len(scopes'[t])].span
                 /\ ctx'[t].threshold = scopes'[t][Len(scopes'[t])].threshold
                 /\ \A k \in 2 .. Len(scopes'[t]) :
                       /\ scopes'[t][k].previous = scopes'[t][k - 1].span
                       /\ scopes'[t][k].previousThreshold = scopes'[t][k - 1].threshold
      <3> DEFINE n == Len(scopes[t]) + 1
      <3>1. /\ Len(scopes'[t]) = n
            /\ \A k \in 1 .. Len(scopes[t]) : scopes'[t][k] = scopes[t][k]
            /\ scopes'[t][n].span = span /\ scopes'[t][n].threshold = threshold
            /\ scopes'[t][n].previous = ctx[t].span
            /\ scopes'[t][n].previousThreshold = ctx[t].threshold
            /\ ctx'[t].span = span /\ ctx'[t].threshold = threshold
        BY <2>5 DEF Entered
      <3> HIDE DEF n
      <3>2. n = Len(scopes[t]) + 1
        BY DEF n
      <3>3. ASSUME NEW k \in 2 .. Len(scopes'[t])
            PROVE  /\ scopes'[t][k].previous = scopes'[t][k - 1].span
                   /\ scopes'[t][k].previousThreshold = scopes'[t][k - 1].threshold
        <4>1. CASE k = n
          <5>1. k - 1 = Len(scopes[t]) /\ Len(scopes[t]) \in 1 .. Len(scopes[t])
                /\ scopes[t] # <<>>
            BY <2>2, <3>2, <4>1
          <5> QED
            BY <2>1, <3>1, <4>1, <5>1
        <4>2. CASE k # n
          <5>1. k \in 2 .. Len(scopes[t]) /\ k \in 1 .. Len(scopes[t])
                /\ k - 1 \in 1 .. Len(scopes[t])
            BY <2>2, <3>1, <3>2, <4>2
          <5> QED
            BY <2>1, <3>1, <5>1
        <4> QED
          BY <4>1, <4>2
      <3> QED
        BY <3>1, <3>3
    <2>6. CASE Left(t)
      <3>1. /\ Len(scopes'[t]) = Len(scopes[t]) - 1
            /\ \A k \in 1 .. Len(scopes[t]) - 1 : scopes'[t][k] = scopes[t][k]
            /\ ctx'[t].span = scopes[t][Len(scopes[t])].previous
            /\ ctx'[t].threshold = scopes[t][Len(scopes[t])].previousThreshold
        BY <2>6 DEF Left
      <3>2. ASSUME NEW k \in 2 .. Len(scopes'[t])
            PROVE  /\ scopes'[t][k].previous = scopes'[t][k - 1].span
                   /\ scopes'[t][k].previousThreshold = scopes'[t][k - 1].threshold
        <4>1. k \in 2 .. Len(scopes[t]) /\ k \in 1 .. Len(scopes[t]) - 1
              /\ k - 1 \in 1 .. Len(scopes[t]) - 1
          BY <2>2, <3>1
        <4> QED
          BY <2>1, <3>1, <4>1
      <3>3. ASSUME scopes'[t] # <<>>
            PROVE  /\ ctx'[t].span = scopes'[t][Len(scopes'[t])].span
                   /\ ctx'[t].threshold = scopes'[t][Len(scopes'[t])].threshold
        <4>1. /\ Len(scopes[t]) \in 2 .. Len(scopes[t])
              /\ Len(scopes[t]) - 1 \in 1 .. Len(scopes[t]) - 1
          BY <2>2, <3>1, <3>3
        <4> QED
          BY <2>1, <3>1, <4>1
      <3> QED
        BY <3>2, <3>3
    <2> QED
      BY <2>3, <2>4, <2>5, <2>6, ScopeSteps
  <1>3. \A t \in Threads : (Top(t))' = scopes'[t][Len(scopes'[t])]
    BY DEF Top, Last
  <1> QED
    BY <1>1, <1>2, <1>3 DEF ContextFollowsScopes

-----------------------------------------------------------------------------
(* Regions that were tried, and what a round hands over.                    *)

LEMMA TriedFacts ==
    ASSUME NEW home \in Regions, NEW now \in Regions
    PROVE  /\ Tried(home, home) = {}
           /\ After(now) # home => Tried(home, After(now)) = Tried(home, now) \cup {now}
           /\ After(now) = home => Tried(home, now) \cup {now} = Regions
  <1>1. NumRegions \in Nat \ {0} /\ Regions = 1 .. NumRegions
    BY SpanBusAssumption DEF Regions
  <1>2. home \in 1 .. NumRegions /\ now \in 1 .. NumRegions
    BY <1>1
  <1>3. Tried(home, home) = {}
    BY <1>1, <1>2 DEF Tried
  <1>4. ASSUME After(now) # home
        PROVE  Tried(home, After(now)) = Tried(home, now) \cup {now}
    <2>1. CASE now = NumRegions
      BY <1>1, <1>2, <1>4, <2>1 DEF Tried, After
    <2>2. CASE now # NumRegions
      BY <1>1, <1>2, <1>4, <2>2 DEF Tried, After
    <2> QED
      BY <2>1, <2>2
  <1>5. ASSUME After(now) = home
        PROVE  Tried(home, now) \cup {now} = Regions
    <2>1. CASE now = NumRegions
      BY <1>1, <1>2, <1>5, <2>1 DEF Tried, After
    <2>2. CASE now # NumRegions
      BY <1>1, <1>2, <1>5, <2>2 DEF Tried, After
    <2> QED
      BY <2>1, <2>2
  <1> QED
    BY <1>3, <1>4, <1>5

\* A message that looks for a place stays where it is, or its region had something in it.
LEMMA EmptySteps ==
    ASSUME TypeInv, CallInv, IssuedInv, RingInv, Next, NEW t \in Threads
    PROVE  \/ /\ empty'[t] \subseteq empty[t]
              /\ Placing(t)' => Placing(t) /\ call'[t] = call[t]
           \/ /\ Refuse(t) /\ ~AllTried(t) /\ empty'[t] = empty[t] /\ Placing(t)
              /\ call'[t] = [at |-> "place", msg |-> call[t].msg, region |-> After(call[t].region)]
              /\ rings[call[t].region] # <<>>
           \/ \E kind \in {"start", "log", "end"}, span, parent \in Spans :
                 Begun(t, kind, span, parent)
  <1>1. CASE UNCHANGED <<call, empty>>
    BY <1>1 DEF Placing
  <1>2. ASSUME NEW u \in Threads, OpenSpan(u) \/ Log(u) \/ CloseScope(u)
        PROVE  \/ /\ empty'[t] \subseteq empty[t]
                  /\ Placing(t)' => Placing(t) /\ call'[t] = call[t]
               \/ \E kind \in {"start", "log", "end"}, span, parent \in Spans :
                     Begun(t, kind, span, parent)
    <2>1. CASE u # t
      BY <1>2, <2>1, BeginFacts DEF Elsewhere, Placing
    <2>2. CASE u = t /\ ctx[t].port
      BY <1>2, <2>2, BeginFacts
    <2>3. CASE u = t /\ ~ctx[t].port
      BY <1>2, <2>3, BeginFacts
    <2> QED
      BY <2>1, <2>2, <2>3
  <1>3. ASSUME NEW u \in Threads, Refuse(u)
        PROVE  \/ /\ empty'[t] \subseteq empty[t]
                  /\ Placing(t)' => Placing(t) /\ call'[t] = call[t]
               \/ /\ Refuse(t) /\ ~AllTried(t) /\ empty'[t] = empty[t] /\ Placing(t)
                  /\ call'[t] = [at |-> "place", msg |-> call[t].msg,
                                 region |-> After(call[t].region)]
                  /\ rings[call[t].region] # <<>>
    <2>1. CASE u # t
      BY <1>3, <2>1, RefuseFacts DEF Elsewhere, Placing
    <2>2. CASE u = t
      <3>1. CASE call'[t] = Idle /\ empty'[t] = {}
        BY <3>1 DEF Placing, Idle
      <3> QED
        BY <1>3, <2>2, <3>1, RefuseFacts
    <2> QED
      BY <2>1, <2>2
  <1>4. ASSUME NEW u \in Threads, Place(u)
        PROVE  /\ empty'[t] \subseteq empty[t]
               /\ Placing(t)' => Placing(t) /\ call'[t] = call[t]
    <2>1. Placed(u)
      BY <1>4, PlaceFacts
    <2>2. CASE u = t
      BY <2>1, <2>2 DEF Placed, Placing
    <2>3. CASE u # t
      BY <2>1, <2>3 DEF Placed, Placing
    <2> QED
      BY <2>2, <2>3
  <1>5. ASSUME NEW u \in Threads, Publish(u)
        PROVE  /\ empty'[t] \subseteq empty[t]
               /\ Placing(t)' => Placing(t) /\ call'[t] = call[t]
    <2>1. UNCHANGED empty /\ \E state : Published(u, state)
      BY <1>5, PublishFacts
    <2> QED
      BY <2>1 DEF Published, Placing, Idle
  <1>6. ASSUME Consume
        PROVE  UNCHANGED <<call, empty>>
    BY <1>6 DEF Consume, Take, LeaveRegion
  <1>7. ASSUME NEW u \in Threads, OpenNone(u) \/ SetContext(u)
        PROVE  UNCHANGED <<call, empty>>
    BY <1>7 DEF OpenNone, SetContext
  <1> QED
    BY <1>1, <1>2, <1>3, <1>4, <1>5, <1>6, <1>7 DEF Next, Step

\* A message that looked for a place and is no more in a call was dropped.
LEMMA DropSteps ==
    ASSUME TypeInv, CallInv, IssuedInv, Next, NEW t \in Threads,
           call[t].at = "place", call'[t].at = "idle"
    PROVE  Refuse(t) /\ AllTried(t)
  <1>1. ASSUME UNCHANGED call
        PROVE  FALSE
    BY <1>1
  <1>2. ASSUME NEW u \in Threads, OpenSpan(u) \/ Log(u) \/ CloseScope(u)
        PROVE  FALSE
    <2>1. Elsewhere(u) /\ call[u].at # "place"
      <3>1. call[u] = Idle
        BY <1>2, CloseFacts, LogFacts DEF OpenSpan, Free
      <3> QED
        BY <1>2, <3>1, BeginFacts DEF Idle
    <2>2. u # t
      BY <2>1
    <2> QED
      BY <2>1, <2>2 DEF Elsewhere
  <1>3. ASSUME NEW u \in Threads, Refuse(u)
        PROVE  Refuse(t) /\ AllTried(t)
    <2>1. u = t
      BY <1>3, RefuseFacts DEF Elsewhere
    <2>2. \/ AllTried(t)
          \/ call'[t] = [at |-> "place", msg |-> call[t].msg, region |-> After(call[t].region)]
      BY <1>3, <2>1, RefuseFacts
    <2> QED
      BY <1>3, <2>1, <2>2
  <1>4. ASSUME NEW u \in Threads, Place(u)
        PROVE  FALSE
    <2>1. Placed(u)
      BY <1>4, PlaceFacts
    <2> QED
      BY <2>1 DEF Placed
  <1>5. ASSUME NEW u \in Threads, Publish(u)
        PROVE  FALSE
    <2>1. PICK state : Published(u, state) /\ Writing(u)
      BY <1>5, PublishFacts
    <2> QED
      BY <2>1 DEF Published, Writing
  <1>6. ASSUME Consume
        PROVE  UNCHANGED call
    BY <1>6 DEF Consume, Take, LeaveRegion
  <1>7. ASSUME NEW u \in Threads, OpenNone(u) \/ SetContext(u)
        PROVE  UNCHANGED call
    BY <1>7 DEF OpenNone, SetContext
  <1> QED
    BY <1>1, <1>2, <1>3, <1>4, <1>5, <1>6, <1>7 DEF Next, Step

LEMMA EmptyStep ==
    ASSUME TypeInv, CallInv, IssuedInv, RingInv, EmptyInv, Next
    PROVE  EmptyInv'
  <1>0. rings \in [Regions -> Seq(Nat)] /\ \A t \in Threads : empty[t] \subseteq Regions
    BY DEF TypeInv
  <1>1. ASSUME NEW r \in Regions, rings[r] = <<>>,
               \A t \in Threads : Place(t) => call[t].region # r
        PROVE  rings'[r] = <<>>
    <2>1. ASSUME NEW t \in Threads, Place(t)
          PROVE  rings'[r] = rings[r]
      <3>1. Placed(t) /\ call[t].region # r
        BY <1>1, <2>1, PlaceFacts
      <3> QED
        BY <1>0, <3>1 DEF Placed
    <2>2. CASE LeaveRegion
      <3>1. CASE r = reading
        <4>1. /\ rings' = [rings EXCEPT ![reading] = SubSeq(rings[r], taken + 1, Len(rings[r]))]
              /\ SubSeq(rings[r], taken + 1, Len(rings[r])) \in Seq(Nat)
              /\ Len(SubSeq(rings[r], taken + 1, Len(rings[r]))) = Len(rings[r]) - taken
              /\ taken \in 0 .. Len(rings[r])
          BY <2>2, <3>1, LeaveRegionFacts
        <4>2. Len(rings[r]) = 0
          BY <1>1
        <4>3. Len(rings'[r]) = 0 /\ rings'[r] \in Seq(Nat)
          BY <1>0, <3>1, <4>1, <4>2
        <4> QED
          BY <4>3
      <3>2. CASE r # reading
        BY <1>0, <1>1, <2>2, <3>2, LeaveRegionFacts
      <3> QED
        BY <3>1, <3>2
    <2>3. CASE Take
      BY <1>1, <2>3, TakeFacts DEF bus
    <2> QED
      BY <1>1, <2>1, <2>2, <2>3, RingSteps DEF Aside
  <1>2. ASSUME NEW t \in Threads, NEW r \in empty'[t]
        PROVE  rings'[r] = <<>>
    <2>1. ASSUME \E u \in Threads : Place(u) /\ call[u].region = r
          PROVE  FALSE
      <3>1. PICK u \in Threads : Placed(u) /\ call[u].region = r
        BY <2>1, PlaceFacts
      <3> QED
        BY <1>2, <3>1 DEF Placed
    <2>2. r \in Regions /\ rings[r] = <<>>
      <3>1. CASE empty'[t] \subseteq empty[t]
        BY <1>0, <1>2, <3>1 DEF EmptyInv
      <3>2. CASE empty'[t] = {q \in Regions : rings[q] = <<>>}
        BY <1>2, <3>2
      <3> QED
        BY <3>1, <3>2, EmptySteps DEF Begun
    <2> QED
      BY <1>1, <2>1, <2>2
  <1>3. ASSUME NEW t \in Threads, Placing(t)'
        PROVE  Tried(Home(t, call'[t].msg.span), call'[t].region) \cap empty'[t] = {}
    <2>1. CASE empty'[t] \subseteq empty[t] /\ Placing(t) /\ call'[t] = call[t]
      BY <2>1 DEF EmptyInv
    <2>2. ASSUME ~AllTried(t), empty'[t] = empty[t], Placing(t), rings[call[t].region] # <<>>,
                 call'[t] = [at |-> "place", msg |-> call[t].msg,
                             region |-> After(call[t].region)]
          PROVE  Tried(Home(t, call'[t].msg.span), call'[t].region) \cap empty'[t] = {}
      <3>1. call[t].region \in Regions /\ Home(t, call[t].msg.span) \in Regions
        BY <2>2, CallFields, Homes DEF Messages
      <3>2. After(call[t].region) # Home(t, call[t].msg.span)
        BY <2>2 DEF AllTried
      <3>3. Tried(Home(t, call[t].msg.span), After(call[t].region))
               = Tried(Home(t, call[t].msg.span), call[t].region) \cup {call[t].region}
        BY <3>1, <3>2, TriedFacts
      <3>4. call[t].region \notin empty[t]
            /\ Tried(Home(t, call[t].msg.span), call[t].region) \cap empty[t] = {}
        BY <2>2 DEF EmptyInv
      <3> QED
        BY <2>2, <3>3, <3>4
    <2>3. ASSUME NEW kind \in {"start", "log", "end"}, NEW span \in Spans, NEW parent \in Spans,
                 Begun(t, kind, span, parent)
          PROVE  Tried(Home(t, call'[t].msg.span), call'[t].region) = {}
      <3>1. call'[t].msg.span = span /\ call'[t].region = Home(t, span)
        BY <2>3, MessageType DEF Begun
      <3> QED
        BY <3>1, Homes, TriedFacts
    <2> QED
      BY <1>3, <2>1, <2>2, <2>3, EmptySteps
  <1> QED
    BY <1>2, <1>3 DEF EmptyInv, Home

\* The consumer leaves nothing behind that the round owes.
LEMMA NoDueHere ==
    ASSUME TypeInv, CallInv, RingInv, DueInv, ~Ready, NEW i \in due
    PROVE  log[i].region # reading
  <1>1. i \in 1 .. Len(log) /\ i \notin out /\ Unblocked(i)
    BY DEF DueInv
  <1>2. SUFFICES ASSUME log[i].region = reading
                 PROVE  FALSE
    OBVIOUS
  <1>3. taken \in Nat /\ reading \in Regions /\ Len(rings[reading]) \in Nat /\ Len(log) \in Nat
    BY DEF TypeInv
  <1>4. PICK k \in 1 .. Len(rings[reading]) : rings[reading][k] = i
    BY <1>1, <1>2 DEF RingInv
  <1>5. k \in Nat \ {0} /\ k <= Len(rings[reading]) /\ k > taken
    <2>1. k \in Nat \ {0} /\ k <= Len(rings[reading])
      BY <1>3
    <2>2. ~(k <= taken)
      BY <1>1, <1>3, <1>4, <2>1, InRing
    <2> QED
      BY <1>3, <2>1, <2>2
  <1>6. taken + 1 \in Nat \ {0} /\ taken + 1 <= k /\ taken < Len(rings[reading])
        /\ taken + 1 <= Len(rings[reading])
    BY <1>3, <1>5
  <1> DEFINE j == rings[reading][taken + 1]
  <1>7. j \in 1 .. Len(log) /\ log[j].region = reading
    BY <1>3, <1>6, InRing
  <1>8. j = i \/ j < i
    BY <1>3, <1>4, <1>5, <1>6, InRing
  <1>9. log[j].state = "writing"
    BY <1>6 DEF Ready
  <1> HIDE DEF j
  <1>10. j \in 1 .. i
    BY <1>1, <1>3, <1>7, <1>8
  <1> QED
    BY <1>1, <1>2, <1>7, <1>9, <1>10 DEF Unblocked

LEMMA DueStep ==
    ASSUME TypeInv, CallInv, IssuedInv, RingInv, DueInv, Next
    PROVE  DueInv'
  <1>0. Len(log) \in Nat /\ Len(log') \in Nat /\ Len(log) <= Len(log')
        /\ NumRegions \in Nat \ {0} /\ reading \in 1 .. NumRegions
    BY LogKeeps, SpanBusAssumption DEF TypeInv, Regions
  <1>1. ASSUME NEW i \in 1 .. Len(log), Unblocked(i)
        PROVE  /\ i \in 1 .. Len(log') /\ Unblocked(i)' /\ log'[i].region = log[i].region
    <2>1. ASSUME NEW j \in 1 .. i, log'[j].region = log'[i].region
          PROVE  log'[j].state # "writing"
      <3>1. j \in 1 .. Len(log)
        BY <1>0
      <3>2. Keeps(log[j], log'[j]) /\ Keeps(log[i], log'[i])
        BY <3>1, LogKeeps
      <3> QED
        BY <1>1, <2>1, <3>2 DEF Unblocked, Keeps
    <2>2. log'[i].region = log[i].region
      BY LogKeeps DEF Keeps
    <2> QED
      BY <1>0, <2>1, <2>2 DEF Unblocked
  <1>2. CASE UNCHANGED <<due, out, reading>>
    BY <1>1, <1>2 DEF DueInv
  <1>3. CASE Take
    BY <1>1, <1>3, TakeFacts DEF DueInv
  <1>4. CASE LeaveRegion
    <2>1. /\ reading' = After(reading) /\ ~Ready /\ UNCHANGED out
          /\ due' = IF reading' = 1 THEN {i \in DOMAIN log \ out : Unblocked(i)} ELSE due
      BY <1>4, LeaveRegionFacts
    <2>2. \A i \in 1 .. Len(log) : log[i].region \in 1 .. NumRegions
      BY DEF CallInv, Regions
    <2>3. CASE reading' = 1
      <3>1. \A i \in due' : i \in 1 .. Len(log) /\ i \notin out /\ Unblocked(i)
        <4>1. DOMAIN log = 1 .. Len(log)
          BY DEF TypeInv
        <4> QED
          BY <2>1, <2>3, <4>1
      <3> QED
        BY <1>0, <1>1, <2>1, <2>2, <2>3, <3>1 DEF DueInv
    <2>4. CASE reading' # 1
      <3>1. reading' = reading + 1 /\ due' = due
        BY <1>0, <2>1, <2>4 DEF After
      <3>2. ASSUME NEW i \in due
            PROVE  reading + 1 <= log[i].region
        <4>1. i \in 1 .. Len(log) /\ reading <= log[i].region
          BY DEF DueInv
        <4>2. log[i].region # reading
          BY <2>1, NoDueHere
        <4> QED
          BY <1>0, <2>2, <4>1, <4>2
      <3> QED
        BY <1>1, <2>1, <3>1, <3>2 DEF DueInv
    <2> QED
      BY <2>3, <2>4
  <1>5. ASSUME NEW t \in Threads, Place(t)
        PROVE  UNCHANGED <<due, out, reading>>
    BY <1>5 DEF Place, consumer
  <1> QED
    BY <1>2, <1>3, <1>4, <1>5, RingSteps DEF Aside

-----------------------------------------------------------------------------
(* The theorems.                                                            *)

LEMMA SpansInit == Init => SpansInv
  <1> SUFFICES ASSUME Init
               PROVE  SpansInv
    OBVIOUS
  <1>1. /\ counters = [r \in Regions |-> 0] /\ traces = 0
        /\ rings = [r \in Regions |-> <<>>] /\ log = <<>>
        /\ ctx = [t \in Threads |-> Context(NoSpan, Configured[t])]
        /\ scopes = [t \in Threads |-> <<>>]
        /\ call = [t \in Threads |-> Idle] /\ empty = [t \in Threads |-> {}]
        /\ reading = 1 /\ taken = 0 /\ out = {} /\ due = {}
    BY DEF Init
  <1>2. Len(log) = 0 /\ DOMAIN log = {} /\ \A i \in 1 .. Len(log) : FALSE
    BY <1>1
  <1>3. \A t \in Threads : /\ call[t].at = "idle" /\ ~Placing(t) /\ ~Writing(t) /\ ~Starting(t)
                           /\ Len(scopes[t]) = 0 /\ scopes[t] = <<>>
                           /\ \A k \in 1 .. Len(scopes[t]) : FALSE
    BY <1>1 DEF Idle, Placing, Writing, Starting
  <1>4. \A t \in Threads :
            /\ ctx[t].span = NoSpan /\ ctx[t].port = TRUE /\ ctx[t] \in Contexts
    <2>1. \A t \in Threads : Configured[t] \in Thresholds
      BY SpanBusAssumption DEF Thresholds
    <2> QED
      BY <1>1, <2>1, NoSpanIsNone DEF Context, Contexts
  <1>5. TypeInv
    <2>1. MaxSpans \in Nat /\ NumRegions \in Nat \ {0} /\ 1 \in Regions
      BY SpanBusAssumption DEF Regions
    <2>2. Idle \in Calls
      BY DEF Calls
    <2>3. counters \in [Regions -> 0..MaxSpans] /\ traces \in 0..MaxSpans
      BY <1>1, <2>1
    <2>4. rings \in [Regions -> Seq(Nat)] /\ log \in Seq(Messages)
      BY <1>1
    <2>5. ctx \in [Threads -> Contexts] /\ scopes \in [Threads -> Seq(Scopes)]
      BY <1>1, <1>4
    <2>6. call \in [Threads -> Calls] /\ empty \in [Threads -> SUBSET Regions]
      BY <1>1, <2>2
    <2> QED
      BY <1>1, <2>1, <2>3, <2>4, <2>5, <2>6 DEF TypeInv
  <1>6. CallInv /\ InTurn /\ EndsLast
    BY <1>2, <1>3 DEF CallInv, InTurn, EndsLast
  <1>7. IssuedInv /\ StartedInv
    <2>1. \A t \in Threads : \A s : Holds(t, s) => s = NoSpan
      BY <1>3, <1>4 DEF Holds
    <2> QED
      BY <1>2, <1>3, <2>1 DEF IssuedInv, Issued, IssuedBy, StartedInv, Started
  <1>8. StartsInv
    BY <1>2, <1>3 DEF StartsInv, SpansDistinct
  <1>9. RingInv
    <2>1. \A r \in Regions : Len(rings[r]) = 0
      BY <1>1
    <2>2. 1 \in Regions
      BY SpanBusAssumption DEF Regions
    <2> QED
      BY <1>1, <1>2, <2>1, <2>2 DEF RingInv
  <1>10. LifeInv
    <2>1. ASSUME NEW s, s # NoSpan
          PROVE  PhaseOf(s) /\ ScopeOf(s)
      <3>1. ~Opening(s) /\ ~Closing(s) /\ ~Ended(s)
        BY <1>2, <1>3 DEF Opening, Closing, Ending, Ended
      <3>2. \A t \in Threads : ~Has(t, s) /\ ~Ending(t, s) /\ ~Logs(t, s)
        BY <1>3 DEF Has, Ending, Logs
      <3> QED
        BY <1>3, <1>4, <2>1, <3>1, <3>2 DEF PhaseOf, ScopeOf, Open
    <2> QED
      BY <2>1 DEF LifeInv, Own
  <1>11. PortInv
    BY <1>3, <1>4 DEF PortInv
  <1>12. ContextFollowsScopes
    BY <1>3 DEF ContextFollowsScopes
  <1>13. EmptyInv /\ DueInv
    BY <1>1, <1>3 DEF EmptyInv, DueInv
  <1> QED
    BY <1>5, <1>6, <1>7, <1>8, <1>9, <1>10, <1>11, <1>12, <1>13 DEF SpansInv

LEMMA SpansStutter ==
    ASSUME SpansInv, UNCHANGED vars
    PROVE  SpansInv'
  <1>1. UNCHANGED <<counters, traces, rings, log, ctx, scopes, contexts, named, tangled,
                    reading, taken, out, due, call, empty>>
    BY DEF vars, bus, threads, consumer
  <1>2. TypeInv' /\ RingInv' /\ InTurn' /\ EndsLast' /\ SpansDistinct'
    BY <1>1 DEF SpansInv, TypeInv, RingInv, InTurn, EndsLast, StartsInv, SpansDistinct
  <1>3. \A t \in Threads : /\ Placing(t)' = Placing(t) /\ Writing(t)' = Writing(t)
                           /\ Starting(t)' = Starting(t)
    BY <1>1 DEF Placing, Writing, Starting
  <1>4. CallInv' /\ StartsInv'
    BY <1>1, <1>2, <1>3 DEF SpansInv, CallInv, StartsInv, Home
  <1>5. \A t \in Threads : \A s : Holds(t, s)' <=> Holds(t, s)
    BY <1>1 DEF Holds
  <1>6. IssuedInv' /\ StartedInv'
    BY <1>1, <1>3, <1>5 DEF SpansInv, IssuedInv, Issued, StartedInv
  <1>7. \A s : (Own(s)' <=> Own(s)) /\ (PhaseOf(s)' <=> PhaseOf(s)) /\ (ScopeOf(s)' <=> ScopeOf(s))
    BY <1>1 DEF Own, PhaseOf, ScopeOf, Opening, Open, Closing, Ended, Ending, Has, Logs,
                Starting, Placing
  <1>8. LifeInv'
    BY <1>7 DEF SpansInv, LifeInv
  <1>9. PortInv'
    BY <1>1, <1>3 DEF SpansInv, PortInv
  <1>10. ContextFollowsScopes'
    BY <1>1 DEF SpansInv, ContextFollowsScopes, Top
  <1>11. EmptyInv' /\ DueInv'
    BY <1>1, <1>3 DEF SpansInv, EmptyInv, DueInv, Unblocked, Home
  <1> QED
    BY <1>2, <1>4, <1>6, <1>8, <1>9, <1>10, <1>11 DEF SpansInv

LEMMA SpansNext ==
    ASSUME SpansInv, Next
    PROVE  SpansInv'
  <1>1. /\ TypeInv /\ CallInv /\ IssuedInv /\ StartsInv /\ RingInv /\ InTurn /\ StartedInv
        /\ LifeInv /\ EndsLast /\ PortInv /\ ContextFollowsScopes /\ EmptyInv /\ DueInv
    BY DEF SpansInv
  <1>2. /\ TypeInv' /\ CallInv' /\ IssuedInv' /\ StartsInv' /\ RingInv' /\ InTurn'
        /\ StartedInv'
    BY <1>1, TypeStep, CallStep, IssuedStep, StartsStep, RingStep, InTurnStep, StartedStep
  <1>3. /\ LifeInv' /\ EndsLast' /\ PortInv' /\ ContextFollowsScopes' /\ EmptyInv' /\ DueInv'
    BY <1>1, LifeStep, EndsStep, PortStep, FollowStep, EmptyStep, DueStep
  <1> QED
    BY <1>2, <1>3 DEF SpansInv

\* The invariant of spans, scopes and regions: it holds of every run of span_scope,
\* log_context, create_span_context(), allocate_record_buffer_inplace() and
\* consume_messages(), whatever the threads, the homes and the number of regions, as
\* long as no counter goes round.
THEOREM SpansInductive == Spec => []SpansInv
  <1>1. SpansInv /\ [Next]_vars => SpansInv'
    BY SpansNext, SpansStutter
  <1> QED
    BY <1>1, SpansInit, PTL DEF Spec

\* No two spans have the same trace and id (derive_span_id), as long as no counter of
\* a region goes round.
THEOREM SpansAreDistinct == Spec => []SpansDistinct
  <1>1. SpansInv => SpansDistinct
    BY DEF SpansInv, StartsInv
  <1> QED
    BY <1>1, SpansInductive, PTL

\* The messages of a span that were placed in its region come out of the bus in the order
\* of their places, whichever threads sent them.
THEOREM MessagesInOrder == Spec => []OrderKept
  <1>1. ASSUME SpansInv
        PROVE  OrderKept
    <2>1. CallInv /\ InTurn /\ DOMAIN log = 1 .. Len(log)
      BY <1>1 DEF SpansInv, TypeInv
    <2>2. ASSUME NEW i \in 1 .. Len(log), NEW j \in 1 .. Len(log), i < j,
                 SameSource(log[i], log[j]), j \in out, i \notin out,
                 log[i].region = log[i].home, log[j].region = log[j].home
          PROVE  FALSE
      <3>1. log[i].home = log[j].home
        BY <2>1, <2>2 DEF CallInv, SameSource, Home
      <3> QED
        BY <2>1, <2>2, <3>1 DEF InTurn
    <2> QED
      BY <2>1, <2>2 DEF OrderKept
  <1> QED
    BY <1>1, SpansInductive, PTL

\* Whoever logs in a span, ends it or names it as the parent of another, does so after its
\* start was published as a whole, as long as no counter of a region goes round.
THEOREM SpansAreStarted == Spec => []OfStarted
  <1>1. ASSUME SpansInv
        PROVE  OfStarted
    <2>1. StartedInv /\ DOMAIN log = 1 .. Len(log)
      BY <1>1 DEF SpansInv, TypeInv
    <2> QED
      BY <2>1 DEF StartedInv, Started, Named, OfStarted
  <1> QED
    BY <1>1, SpansInductive, PTL

\* The end of a span is its last message, unless its span was passed to set_thread_context(), as
\* long as no counter of a region goes round: the assumption MaxSpans <= SpanIds, which the
\* code ensures for up to 64 spans of a counter and no longer.
THEOREM SpansEndOnce == Spec => []EndsLast
  <1>1. SpansInv => EndsLast
    BY DEF SpansInv
  <1> QED
    BY <1>1, SpansInductive, PTL

\* The context of a thread follows its scopes, and no message is sent to a port that is
\* not there, in a thread that does not exchange its context inside a scope.
THEOREM ContextsFollow == Spec => []ContextFollowsScopes
  <1>1. SpansInv => ContextFollowsScopes
    BY DEF SpansInv
  <1> QED
    BY <1>1, SpansInductive, PTL

\* allocate_record_buffer_inplace() gives a message up only after it saw something in every
\* region.
THEOREM DropsWhenFull == Spec => DropsOnlyWhenFull
  <1>1. ASSUME SpansInv, [Next]_vars
        PROVE  [\A t \in Threads : call[t].at = "place" /\ call'[t].at = "idle"
                                      => empty[t] = {}]_vars
    <2>1. /\ TypeInv /\ CallInv /\ IssuedInv /\ RingInv /\ EmptyInv
      BY <1>1 DEF SpansInv
    <2>2. ASSUME Next, NEW t \in Threads, call[t].at = "place", call'[t].at = "idle"
          PROVE  empty[t] = {}
      <3>1. Placing(t) /\ call[t].region \in Regions /\ Home(t, call[t].msg.span) \in Regions
        BY <2>1, <2>2, CallFields, Homes DEF Placing, Messages
      <3>2. Refuse(t) /\ AllTried(t)
        BY <2>1, <2>2, DropSteps
      <3>3. rings[call[t].region] # <<>> /\ After(call[t].region) = Home(t, call[t].msg.span)
        BY <3>2 DEF Refuse, AllTried
      <3>4. Tried(Home(t, call[t].msg.span), call[t].region) \cup {call[t].region} = Regions
        BY <3>1, <3>3, TriedFacts
      <3>5. /\ call[t].region \notin empty[t] /\ empty[t] \subseteq Regions
            /\ Tried(Home(t, call[t].msg.span), call[t].region) \cap empty[t] = {}
        BY <2>1, <3>1, <3>3 DEF EmptyInv, TypeInv
      <3> QED
        BY <3>4, <3>5
    <2> QED
      BY <1>1, <2>2
  <1> QED
    BY <1>1, SpansInductive, PTL DEF Spec, DropsOnlyWhenFull

\* A round of consume_messages() hands over every message that could be read when it began.
THEOREM RoundsServeAll == Spec => RoundServesAll
  <1>1. ASSUME SpansInv, [Next]_vars
        PROVE  [LeaveRegion /\ reading' = 1 => due = {}]_vars
    <2>1. /\ TypeInv /\ CallInv /\ RingInv /\ DueInv
      BY <1>1 DEF SpansInv
    <2>2. ASSUME LeaveRegion, reading' = 1, NEW i \in due
          PROVE  FALSE
      <3>1. After(reading) = 1 /\ ~Ready
        BY <2>1, <2>2, LeaveRegionFacts
      <3>2. reading \in 1 .. NumRegions /\ NumRegions \in Nat \ {0}
        BY <2>1, SpanBusAssumption DEF TypeInv, Regions
      <3>3. reading = NumRegions
        BY <3>1, <3>2 DEF After
      <3>4. log[i].region \in 1 .. NumRegions /\ reading <= log[i].region
        BY <2>1 DEF DueInv, CallInv, Regions
      <3>5. log[i].region = reading
        BY <3>2, <3>3, <3>4
      <3> QED
        BY <2>1, <3>1, <3>5, NoDueHere
    <2> QED
      BY <2>2
  <1> QED
    BY <1>1, SpansInductive, PTL DEF Spec, RoundServesAll
=============================================================================
