CONSTANTS
    nails = nails
    spa = spa
    canggu = canggu
    ubud = ubud
    k1 = k1
    Services <- ServicesOfTenant
    Regions <- RegionsOfMarket
    Keys <- KeysStated
    MaxProfiles = 2
    MaxCards = 2
    MaxSchedules = 2

SYMMETRY Interchangeable

SPECIFICATION Spec

INVARIANTS
    TypeOK
    SupplyIsWhatWasConfirmed
    SellableIsApprovedSupply
    

PROPERTIES
    DecidedOnce

CHECK_DEADLOCK FALSE
