SPECIFICATION Spec
CONSTANTS
    p1 = p1
    p2 = p2
    Producers <- MCProducers
    RegionBlocks = 7
    PayloadBlocks <- MCSizes
    BatchSize = 2
    MaxMessages = 5
SYMMETRY MCSymmetry
CONSTRAINT OvertakenNarrow
INVARIANTS
    InsideRegion
    HandsInOrder
    NoSharedBlock
    FreeBlocksLookLocked
    DeliveredInOrder
PROPERTIES
    EmptyRegionTakesHalf
    ConsumerKeepsOff
