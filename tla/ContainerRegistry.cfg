SPECIFICATION SpecContainers
CONSTANTS
    p1 = p1
    p2 = p2
    a = a
    b = b
    Handles = {p1, p2}
    Nobody = Nobody
    Sinks = {a, b}
    OldRotations = {0, 9}
    OldSink = a
    RetryReach = 10
    MaxFiles = 1
    SizeLimit = 4
    PageSize = 2
    FileSizes = {4}
    MaxContainers = 2
    MaxFaults = 1
SYMMETRY MCSymmetry
INVARIANTS
    OwnersKeepContainers
    FilesListed
    PruneKeepsNewest
    SizesTrue
CHECK_DEADLOCK FALSE
