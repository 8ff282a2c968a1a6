CONSTANTS
    None = None
    o1 = o1
    o2 = o2
    o3 = o3
    provider = provider
    room = room
    Offers <- AllOffers
    Resources <- AllResources
    ResourceKeys <- KeysOfOffer
    Supersedes <- PriorOfOffer

SPECIFICATION Spec

INVARIANTS
    CommitmentIsWhole

CHECK_DEADLOCK FALSE
