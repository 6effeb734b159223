SPECIFICATION Spec
CONSTANTS
  nP = 3
  NumVals = 4
  Calls = 2
  EagerFlush = FALSE
  Procs <- MCProcs
INVARIANTS Reconstructed OneCallAhead
PROPERTIES AllReturn AtomicOpening
CHECK_DEADLOCK FALSE
