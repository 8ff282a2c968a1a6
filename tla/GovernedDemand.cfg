CONSTANTS
    h1 = h1
    h2 = h2
    k1 = k1
    near = near
    far = far
    MaxVersion = 4
    MaxPrices = 3
    Valid <- ValidVersions
    Hosts <- HostsOfTenant
    Keys <- KeysOfCustomers
    Intents <- IntentsOfCustomers
    Price <- PriceOf
    Admits <- AdmittedBy

SYMMETRY Interchangeable

SPECIFICATION Spec

INVARIANTS
    ForceIsOnRecord
    DemandIsGoverned

PROPERTIES
    AcceptedTermsAreFrozen

CHECK_DEADLOCK FALSE
