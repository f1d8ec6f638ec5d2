SPECIFICATION SpecRoot
CONSTANTS
    h1 = h1
    h2 = h2
    h3 = h3
    d0 = d0
    d1 = d1
    d2 = d2
    Handles = {h1, h2}
    Data = {d0, d1, d2}
    NoEntries = d0
    Mixes <- MCMixes
    Tidied <- MCTidied
    Torn = Torn
    Closed = Closed
    Nobody = Nobody
    MaxRevision = 4
INVARIANTS
    RootInv
    BuildsOnNewest
PROPERTIES
    NewestNeverLost
CHECK_DEADLOCK FALSE
