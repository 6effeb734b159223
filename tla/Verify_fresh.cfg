SPECIFICATION Spec
CONSTANTS
  nP = 3
  EagerFlush = TRUE
  Procs <- MCProcs
  Dims <- MCDims
  MultLevels = 2
  NumOutputs = 1
  Providers = {1, 2}
  Compression = 2
  SSEC = 2
  PkingSemi = TRUE
  PkingVerify = 1
  MaxFaults = 0
INVARIANT ChallengeFresh
CHECK_DEADLOCK FALSE
