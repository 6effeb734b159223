SPECIFICATION Spec
CONSTANTS
  nP = 3
  Repeat = 2
  EagerFlush = TRUE
  Procs <- MCProcs
  Sessions <- MCAll
INVARIANTS Framing NothingLeft SyncSeparates
PROPERTY AllFinish
CHECK_DEADLOCK FALSE
