CONSTANTS
    p1 = p1
    p2 = p2
    Providers <- ProvidersOfMarket
    MaxAttempts = 2
    MaxAssignments = 3

SYMMETRY Interchangeable

SPECIFICATION Spec

INVARIANTS
    TypeOK
    OfferMatchesRequest
    AuthorityChain
    ConfirmedUnderConsent
    ConclusionIsClean

PROPERTIES
    NothingComesBack
    EndingFreesCapacity
    EvidenceIsAppendOnly

CHECK_DEADLOCK FALSE
