SPECIFICATION SpecRecovery
CONSTANTS
    p1 = p1
    p2 = p2
    Producers <- MCProducers
    RegionBlocks = 7
    PayloadBlocks <- MCSizes
    BatchSize = 2
    MaxMessages = 5
SYMMETRY MCSymmetry
CONSTRAINT NotOvertaken
INVARIANTS
    RecoveryExact
    BeginsRight
    GivenBackStaysGone
CHECK_DEADLOCK FALSE
