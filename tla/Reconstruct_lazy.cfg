SPECIFICATION Spec
CONSTANTS
  nP = 3
  EagerFlush = FALSE
  Procs <- MCProcs
  Plan <- MCLazyPlan
  MaxFaults = 0
PROPERTY AllReturn
CHECK_DEADLOCK FALSE
