CONSTANTS
    p1 = p1
    whatsapp = whatsapp
    telegram = telegram
    Providers <- ProvidersOfMarket
    MaxAttempts = 2
    MaxAssignments = 2
    Events <- EventsOfTransport
    MaxMessages = 2

SPECIFICATION ChannelSpec

INVARIANTS
    ChannelTypeOK
    DecisionHasItsEvent
    ServiceOnTheirWord
    OneDecisionPerQuestion

PROPERTIES
    EventsAreFinal

CHECK_DEADLOCK FALSE
