CONSTANTS
    m_map_count = 2
    envWidth = 9
    envHeight = 4
    MapEntities = 2
    MaxVelo = 1
    MaxMoves = 2
    BuiltIn <- MCBuiltIn
    ServerLayout <- MCServerLayout
    Terminals <- MCTerminals
    Displays <- MCDisplays
SPECIFICATION Spec
INVARIANTS
    TypeOK
    NoStaleEntity
    LostOnlyToLater
    EntityOnScreen
    Enclosed
    MapInWindow
