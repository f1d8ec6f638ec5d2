----------------------------- MODULE MCLogView -----------------------------
(* An instance of LogView for TLC. *)
EXTENDS LogView

CONSTANTS t1, t2

MCPlain == [fn |-> "log", sev |-> 9, scope |-> None, span |-> FALSE, text |-> 4,
            args |-> <<>>, line |-> 30, file |-> 5]
Value(cpp, n) == [cpp |-> cpp, n |-> n, fails |-> FALSE]
MCCalls ==
    {[MCPlain EXCEPT !.scope = 6, !.span = TRUE, !.args = <<Value("unsigned", 5)>>],
     [MCPlain EXCEPT !.scope = 0, !.file = None, !.sev = 24],
     [MCPlain EXCEPT !.sev = 5, !.line = None, !.file = None,
                     !.args = <<Value("status_code", 5), Value("signed", 3)>>],
     [MCPlain EXCEPT !.span = TRUE, !.file = None, !.args = <<Value("text", 3)>>],
     [MCPlain EXCEPT !.args = <<Value("unsigned", 1),
                                [Value("user", 300) EXCEPT !.fails = TRUE]>>],
     [fn |-> "span_start", span |-> TRUE, text |-> 4,
      attributes |-> <<[id |-> 4, value |-> Value("text", 5)]>>],
     [fn |-> "span_end"]}
MCAttributeLists == {<<>>, <<[id |-> 256, value |-> Value("unsigned", 7)]>>}

\* The third call and the ones after it are like the first.  The clock is at rest once there
\* is a container, and never was set once there are calls: they have nothing in common but
\* the steady time.  The screen changes its size only where all calls are alike.
MCSmall ==
    /\ \A k \in DOMAIN accepted : k > 2 => accepted[k].call = accepted[1].call
    /\ containers = <<>> \/ \A t \in Syncers : sync[t] = Idle
    /\ accepted = <<>> \/ (sets = 0 /\ reference = 0 /\ pause = 0 /\ \A t \in Syncers : sync[t] = Idle)
    /\ resizes = 0 \/ \A k \in DOMAIN accepted : accepted[k].call = accepted[1].call
    /\ running \/ accepted # <<>> \/ sets = 0
=============================================================================
