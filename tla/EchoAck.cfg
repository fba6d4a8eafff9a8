CONSTANTS
    ECHO_TIMEOUT = 3
    MaxFrame = 5
    MaxTime = 9
SPECIFICATION EchoAckSpec
INVARIANTS AckedAreOld AckedInTime
PROPERTY NeverDecreases
CHECK_DEADLOCK FALSE
