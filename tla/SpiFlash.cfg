SPECIFICATION Spec
CONSTANTS
  PageSize = 2
  Pages = 4
  SectorPages = 2
  BlockPages = 1
  AddrPages = 4
  Families <- AllFamilies
  Polls = 3
  MaxBadPages = 2
  MaxFiles = 2
  Contents <- SomeContents
  Files <- WholeAndCut
  Offsets = {0, 3, 8, 10}
  RLengths = {0, 3, 9}
INVARIANTS
  TypeOK
  ProgramWrites
  VerifyExact
  ReadExact
  EraseErases
  BusyIsWaitedFor
PROPERTIES
  StaysInScope
  CallsReturn
CHECK_DEADLOCK FALSE
