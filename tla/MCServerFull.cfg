CONSTANTS
    Clients = {c1, c2}
    NoClient = NoClient
    m_map_count = 1
    MAX_FOOD_PER_MAP = 1
SPECIFICATION FairSpec
INVARIANTS
    ThrowsOnlyAtStartUp
PROPERTIES
    AcceptLoop
    WelcomeComplete
CHECK_DEADLOCK FALSE
