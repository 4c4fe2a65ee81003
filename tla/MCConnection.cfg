CONSTANTS
    WithBody = {2}
    Words = {0, 1}
    Challenges = {0, 1}
    Scramble <- MCScramble
    Welcome = 1
    MaxTasks = 2
SPECIFICATION FairSpec
INVARIANTS
    FrontExists
    WriteLoopAlive
    ReadLoopAlive
    Framed
    BodyIntact
    IInv
PROPERTIES
    EachChannel
    Delivered
    CloseNoticed
CHECK_DEADLOCK FALSE
