SPECIFICATION Spec
CONSTANTS
  BlockSize = 2
  ArraySize = 4
  Chains <- TwoXcf
  Contents <- Blank
  Polls = 2
  MaxFiles = 1
  Actions = {"w"}
  Offsets = {2}
  RLengths = {0}
  Files <- ShortFile
INVARIANT
  OffsetDocumented
CHECK_DEADLOCK FALSE
