SPECIFICATION Spec
CONSTANTS
  BlockSize = 2
  ArraySize = 4
  Chains <- SomeChains
  Contents <- Mixed
  Polls = 2
  MaxFiles = 2
  Actions = {"w", "W", "v", "r"}
  Offsets = {0, 1, 2}
  RLengths = {0, 3}
  Files <- SomeFiles
INVARIANTS
  TypeOK
  JobHolds
  VerifyExact
  ReadExact
  IscClosed
  AbortExplained
PROPERTIES
  StaysInScope
  Terminates
CHECK_DEADLOCK FALSE
