CONSTANTS
    StartUp = 5
    nMaxMessages = 2
    bwait = TRUE
    MaxMessages = 8
    MaxEntities = 2
SPECIFICATION StartSpec
INVARIANTS
    StartTypeOK
    PopSafe
    NoLostWakeup
    HandledInOrder
    NothingUndefined
    EntitiesAsSent
PROPERTIES
    AllHandled
    CountsTheWelcome
CHECK_DEADLOCK FALSE
