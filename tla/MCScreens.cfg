CONSTANTS
  TabEvery = 2
  TitleLimit = 4
  EraseMin = 1
  ShortMove = 3
  Sizes <- MCSizes
  HostWrites <- MCHostWrites
  Beginnings <- MCBeginnings
  MaxWrites = 3
  MaxFrames = 2
SPECIFICATION ScreensSpec
INVARIANTS
  ScreensTypeOK
  SameDisplay
  ClientStaysPlain
  SameModes
\* The bounds on writes and frames end every behaviour.
CHECK_DEADLOCK FALSE
