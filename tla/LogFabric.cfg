SPECIFICATION SpecFabric
CONSTANTS
    s1 = s1
    s2 = s2
    Sinks = {s1, s2}
    Rotating = {s1}
    NoSink = NoSink
    Lenient = {s1}
    Capacity = 5
    MaxFileSize = 3
    MaxFailures = 1
    MaxEpoch = 1
    MessageSizes = {3}
    BatchSize = 2
    MaxMessages = 2
INVARIANTS
    SinkComplete
    StoredInOrder
    FilesWellFormed
PROPERTIES
    NothingDropped
CHECK_DEADLOCK FALSE
