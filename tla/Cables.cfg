SPECIFICATION Spec
CONSTANTS
  TX_BUF = 4096
  CPLD_MAX_BYTES = 4096
  USRP_CMD_SIZE = 64
  Retries = 1
  MaxBehind = 2
  MaxCalls = 2
  Calls <- SomeCalls
  Requests <- SomeRequests
INVARIANTS
  TypeOK
  BuffersHold
  SleepsLongEnough
  CableRecognised
PROPERTIES
  ImplementsContract
  MisuseExplained
  CallsEnd
