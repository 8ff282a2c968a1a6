CONSTANTS
    p1 = p1
    monday = monday
    friday = friday
    Providers <- ProvidersOfMarket
    Windows <- WindowsOfBooking
    Prices = {100}
    MaxAmendments = 2

SPECIFICATION Spec

INVARIANTS
    ConsentIsNotInherited

CHECK_DEADLOCK FALSE
