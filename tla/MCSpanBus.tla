----------------------------- MODULE MCSpanBus -----------------------------
(* An instance of SpanBus for TLC. *)
EXTENDS SpanBus, TLC

CONSTANTS t1, t2

MCThreads == {t1, t2}

\* The threads and the first two traces have different homes, and so have a span and the
\* next one of its trace; ids are assigned as derive_span_id does for two regions.
MCThreadHome == t1 :> 1 @@ t2 :> 2
MCConfigured == t1 :> 1 @@ t2 :> 2
MCLeavers == {t2}
MCTraceHome == [trace \in 1..MaxSpans |-> 1 + (trace % 2)]
MCSpanHome == [id \in 0 .. SpanIds - 1 |-> 1 + (id % 2)]
=============================================================================
