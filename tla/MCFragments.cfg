CONSTANTS
    Instruction <- MCInstruction
    NoInstruction = "none"
    Length <- MCLength
    PathMTU = {1, 2}
    FragmentLimit = 3
    MaxId = 3
SPECIFICATION Spec
INVARIANTS NothingHeldBack
PROPERTIES ImplementsChannel

