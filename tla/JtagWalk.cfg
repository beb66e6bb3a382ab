SPECIFICATION Spec
CONSTANTS
  MaxNumDevices = 1
  TmsBufBits = 2
  QueueCap = 3
  MaxIrLength = 2
  Chains <- OneDevice
  Goals <- TapStates
  StaleIrLengths = {0}
  Lengths = {1}
  Aligns = {0}
  MaxScan = 2
  PostDRStates <- Idle
  PostIRStates <- Idle
  Misuse <- NoMisuse
INVARIANTS
  InStep
  SleepsInStep
PROPERTY
  MethodsReturn
