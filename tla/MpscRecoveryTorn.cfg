SPECIFICATION SpecRecovery
CONSTANTS
    p1 = p1
    p2 = p2
    Producers <- MCProducers
    RegionBlocks = 6
    PayloadBlocks = {1}
    BatchSize = 2
    MaxMessages = 3
SYMMETRY MCSymmetry
CONSTRAINT NotOvertaken
INVARIANTS
    PoppedBeforeTorn
CHECK_DEADLOCK FALSE
