CONSTANTS
    p1 = p1
    p2 = p2
    Providers <- ProvidersOfMarket
    MaxAttempts = 2
    MaxAssignments = 3

SPECIFICATION Spec

PROPERTIES
    CancellationIsAllOrNothing

CHECK_DEADLOCK FALSE
