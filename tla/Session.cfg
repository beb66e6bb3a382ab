SPECIFICATION Spec
CONSTANTS
  LineLen = 4
  RawLen = 4
  FuseMap <- MCFuseMap
  Requests <- MCRequests
  StartPolls = 2
  SectorWords = 2
  SectorPolls = 2
  Page = 2
  Sizes <- MCSizes
  PdiRetries = 3
  LengthRange = 6
INVARIANTS
  TypeOK
  SavedReadsBack
  ZeroMeansVerified
PROPERTIES
  ImplementsDevice
  Ends
