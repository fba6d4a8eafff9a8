CONSTANTS
    ConnectingPoll = 1
    ConnectingTimeout = 4
    MessageTime = 1
    NetworkErrorTime = 3
    ErrorSleep = 1
    ServerLate = 2
    ReplyLate = 3
    DisconnectedLong = 4
    CountupInterval = 1
    ACK_INTERVAL = 2
    ACTIVE_RETRY_TIMEOUT = 3
    SHUTDOWN_RETRIES = 2
    Key = {"escape", ".", "lf"}
    EscapeRequiresLf = TRUE
    MaxTyped = 3
    MaxRead = 2
    MaxFaults = 1
    MaxAge = 6
    MaxConnecting = 12
SPECIFICATION Spec
INVARIANTS MessageIsTrue BarIsCurrent GivesUpInTime KeysAreDelivered
CHECK_DEADLOCK FALSE
