CONSTANTS
  Bytes <- MCBytes
  ParamLimit = 2
  CharLimit = 2
  TextLimit = 2
  MaxBytes = 6
SPECIFICATION Spec
INVARIANTS
  CallsFollowGrammar
PROPERTIES
  Decoding
\* The bound on bytes ends every behaviour.
CHECK_DEADLOCK FALSE
