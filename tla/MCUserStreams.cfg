CONSTANTS
    MaxTyped = 3
    MaxNum = 4
SPECIFICATION Spec
INVARIANTS OutputIsTyped
PROPERTIES ImplementsStateSync
CHECK_DEADLOCK FALSE
