CONSTANTS
    DisplayPreferences = {"Adaptive", "Experimental"}
    Overwrites = {FALSE}
    Sizes <- OneRow
    FirstSize <- Row
    Echoed = {"a"}
    Silent = {"s"}
    Blank = " "
    Text = "t"
    FirstCol = 0
    KeyKinds = {"print", "backspace", "right"}
    Intervals = {20}
    GLITCH_THRESHOLD = 1
    GLITCH_FLAG_THRESHOLD = 2
    GLITCH_REPAIR_COUNT = 2
    GLITCH_REPAIR_MININTERVAL = 1
    MaxKeys = 2
    MaxFrame = 2
    MaxTime = 4
SPECIFICATION FairSpec
INVARIANTS LatePredictionsShow
PROPERTIES TruthPrevails
CHECK_DEADLOCK FALSE
