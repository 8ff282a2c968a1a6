CONSTANTS
    h1 = h1
    h2 = h2
    k1 = k1
    near = near
    far = far
    MaxVersion = 4
    MaxPrices = 3
    Valid <- ValidVersions
    Hosts <- HostsOfTenant
    Keys <- KeysOfCustomers
    Intents <- IntentsOfCustomers
    Price <- PriceOf
    Admits <- AdmittedBy

SYMMETRY Interchangeable

SPECIFICATION Spec

INVARIANT
    OnlyApprovedGoverns

CHECK_DEADLOCK FALSE
