SPECIFICATION Spec
CONSTANTS
  BlockSize = 2
  ArraySize = 4
  Chains <- OneXcf
  Contents <- Blank
  Polls = 2
  MaxFiles = 1
  Actions = {"r"}
  Offsets = {0}
  RLengths = {2}
  Files <- ShortFile
INVARIANT
  LengthDocumented
CHECK_DEADLOCK FALSE
