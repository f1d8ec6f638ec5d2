SPECIFICATION FairSpec
CONSTANTS
    p1 = p1
    p2 = p2
    Producers <- MCProducers
    RegionBlocks = 5
    PayloadBlocks <- MCSizes
    BatchSize = 2
    MaxMessages = 4
PROPERTIES
    ImplementsQueue
    EventuallyDelivered
