SPECIFICATION Spec
CONSTANTS
    t1 = t1
    t2 = t2
    Calls <- MCCalls
    BufferBytes = 200
    MaxCalls = 4
    MaxTime = 1
    Syncers = {t1, t2}
    Leads = {0, 5}
    MaxSets = 1
    StartPauses = {0, 1}
    Threshold = 9
    AttributeLists <- MCAttributeLists
    MaxContainers = 2
    ChunkBytes = 100
    Huge = 20
    Screens = {1, 3}
    MaxResizes = 1
CONSTRAINT MCSmall
INVARIANTS
    WholeMessages
    EpochTrue
    SelectedVisible
PROPERTIES
    ShowsWhatWasLogged
    RenderSettles
CHECK_DEADLOCK FALSE
