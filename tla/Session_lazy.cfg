SPECIFICATION Spec
CONSTANTS
  nP = 3
  Repeat = 2
  EagerFlush = FALSE
  Procs <- MCProcs
  Sessions <- MCLazy
PROPERTY AllFinish
CHECK_DEADLOCK FALSE
