SPECIFICATION Spec
CONSTANTS
  PageSize = 2
  Pages = 4
  SectorPages = 2
  BlockPages = 1
  AddrPages = 4
  Families <- Generic
  Polls = 3
  MaxBadPages = 2
  MaxFiles = 1
  Contents <- SomeContents
  Files <- CutShort
  Offsets = {0}
  RLengths = {0}
INVARIANT
  VerifyDocumented
CHECK_DEADLOCK FALSE
