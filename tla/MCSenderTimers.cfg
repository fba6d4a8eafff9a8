CONSTANTS
    State = {s0, s1, s2}
    InitState = s0
    SEND_MINDELAY = 1
    ACK_INTERVAL = 5
    ACK_DELAY = 2
    ACTIVE_RETRY_TIMEOUT = 7
    SHUTDOWN_RETRIES = 4
    Rtt <- MCRtt
    SentLimit = 3
    CullBack = 3
    MaxTime = 12
    MaxChanges = 2
    MaxHeard = 1
    ErrorSleep = 3
    MaxErrors = 1
SPECIFICATION Spec
INVARIANTS AssumedIsFrontOrBack NeverSilent DataIsAckedSoon ChangeIsSentSoon NoSpin ShutdownEnds
SYMMETRY MCSymmetry
CHECK_DEADLOCK FALSE
