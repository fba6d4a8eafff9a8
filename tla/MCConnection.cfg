CONSTANTS
    Client = "client"
    Server = "server"
    PORT_HOP_INTERVAL = 1
    MAX_OLD_SOCKET_AGE = 2
    MAX_PORTS_OPEN = 2
    SERVER_ASSOCIATION_TIMEOUT = 3
    Epoch <- MCEpoch
    Modulus = 8
    HoldLimit = 2
    SampleLimit = 5
    MaxTime = 5
    MaxPackets = 4
    MaxBurst = 1
    MaxAnswers = 2
SPECIFICATION Spec
INVARIANTS
    ServerFollowsClient
    SampleIsRoundtrip
PROPERTIES
    SocketsClosedAreUnused
CHECK_DEADLOCK FALSE
