CONSTANTS
    Clients = {c1}
    MaxConnects = 2
    MaxCalls = 2
    nullptr = nullptr
SPECIFICATION FairSpec
INVARIANTS
    TypeOK
    OpenOnlyIfOvertaken
    NoNullMet
PROPERTIES
    QuietAfterDisconnect
    ServerNotices
    OnlyClosedLeave
    EveryoneReached
CHECK_DEADLOCK FALSE
