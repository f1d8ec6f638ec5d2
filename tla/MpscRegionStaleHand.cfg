SPECIFICATION Spec
CONSTANTS
    p1 = p1
    p2 = p2
    Producers <- MCProducers
    RegionBlocks = 6
    PayloadBlocks = {1}
    BatchSize = 2
    MaxMessages = 5
SYMMETRY MCSymmetry
INVARIANTS
    AllQueued
