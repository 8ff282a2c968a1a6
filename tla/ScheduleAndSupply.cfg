CONSTANTS
    nails = nails
    spa = spa
    canggu = canggu
    ubud = ubud
    k1 = k1
    Services <- ServicesOfTenant
    Regions <- RegionsOfMarket
    Keys <- KeysStated
    MaxProfiles = 2
    MaxCards = 2
    MaxSchedules = 2

SPECIFICATION Spec

INVARIANT
    ScheduleAndSupplyAgree

CHECK_DEADLOCK FALSE
