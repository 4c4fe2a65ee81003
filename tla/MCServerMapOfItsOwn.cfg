CONSTANTS
    Clients = {c1, c2}
    NoClient = NoClient
    m_map_count = 2
    MAX_FOOD_PER_MAP = 1
SPECIFICATION Spec
INVARIANT MapOfItsOwn
CHECK_DEADLOCK FALSE
