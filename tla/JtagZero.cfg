SPECIFICATION Spec
CONSTANTS
  MaxNumDevices = 3
  TmsBufBits = 2
  QueueCap = 3
  MaxIrLength = 2
  Chains <- OneDevice
  Goals <- CallersGoals
  StaleIrLengths = {0}
  Lengths = {2}
  Aligns = {0, 3}
  MaxScan = 4
  PostDRStates <- Idle
  PostIRStates <- IdleOrExit1
  Misuse <- ZeroLength
INVARIANT
  InStep
VIEW View
