SPECIFICATION Spec
CONSTANTS
    t1 = t1
    t2 = t2
    Threads <- MCThreads
    NumRegions = 2
    SpanIds = 64
    ThreadHome <- MCThreadHome
    TraceHome <- MCTraceHome
    SpanHome <- MCSpanHome
    Severities = {1, 2}
    Default = 1
    Configured <- MCConfigured
    MaxMessages = 3
    MaxSpans = 2
    MaxScopes = 2
    MaxContexts = 1
    Leavers <- MCLeavers
INVARIANTS
    SpansDistinct
    OrderKept
    OfStarted
    EndsLast
    ContextFollowsScopes
PROPERTIES
    DropsOnlyWhenFull
    RoundServesAll
