SPECIFICATION Spec
CONSTANTS
  nP = 3
  NumVals = 2
  Calls = 2
  EagerFlush = FALSE
  Procs <- MCProcs
INVARIANT Reconstructed
PROPERTY AllReturn
CHECK_DEADLOCK FALSE
