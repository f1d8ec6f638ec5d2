SPECIFICATION SpecBuses
CONSTANTS
    p1 = p1
    p2 = p2
    p3 = p3
    Handles = {p1, p2}
    Nobody = Nobody
    OldRotations = {0}
    RetryReach = 10
    MaxBuses = 2
SYMMETRY MCSymmetry
PROPERTIES
    FiveRetries
CHECK_DEADLOCK FALSE
