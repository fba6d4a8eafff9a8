CONSTANTS
    Client = Client
    Server = Server
    State = {s0, s1}
    InitState = s0
    Corrupt = Corrupt
    ShutdownNum = 3
    SentLimit = 3
    CullBack = 3
    RecvLimit = 2
    ClientMaxNum = 2
    ServerMaxNum = 1
    ClientMaxAckNum = 0
    ServerMaxAckNum = 1
    MaxExtra = 0
    MaxNum <- MCMaxNum
    MaxAckNum <- MCMaxAckNum
SPECIFICATION FairSpec
INVARIANTS KnownStateIsHeld ReceivedIsPublished ReferenceSurvivesThrowaway AckedIsLatest SameNumsSameDiff CleanShutdownIsComplete
PROPERTIES ClientToServer EventuallyInSync
CHECK_DEADLOCK FALSE
