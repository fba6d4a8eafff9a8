CONSTANTS
    DisplayPreferences = {"Adaptive"}
    Overwrites = {TRUE, FALSE}
    Sizes <- TwoSizes
    FirstSize <- Large
    Echoed = {"a"}
    Silent = {"s"}
    Blank = " "
    Text = "t"
    FirstCol = 0
    KeyKinds = {"print", "return", "left", "backspace", "control", "resize", "paste"}
    Intervals = {100}
    GLITCH_THRESHOLD = 3
    GLITCH_FLAG_THRESHOLD = 5
    GLITCH_REPAIR_COUNT = 2
    GLITCH_REPAIR_MININTERVAL = 1
    MaxKeys = 3
    MaxFrame = 2
    MaxTime = 1
SPECIFICATION Spec
INVARIANTS SilenceIsKept PredictionsFit JudgedAreGone
PROPERTY CreditIsTheHosts
CHECK_DEADLOCK FALSE
