CONSTANTS
    c1 = c1
    c2 = c2
    c3 = c3
    c4 = c4
    k1 = k1
    k2 = k2
    r1 = r1
    r2 = r2
    Calls <- AllCalls
    Keys <- AllKeys
    Requests <- AllRequests
    Key <- KeyOfCall
    Request <- RequestOfCall
    Predecessor <- PredecessorOfCall
    MaxStage = 1
    MaxFaults = 1
    MaxDeliveries = 2

SPECIFICATION Spec

INVARIANTS
    TypeOK
    HandlerIsolated
    EffectsMatchEvidence
    AnswersAreHonest
    WaitsEnd

PROPERTIES
    EveryCallIsAnswered
    KeepsPromise

CHECK_DEADLOCK FALSE
