SPECIFICATION Spec
CONSTANTS
  nP = 3
  EagerFlush = TRUE
  Procs <- MCProcs
  Plan <- MCPlan
  MaxFaults = 1
INVARIANT Framing
PROPERTIES AllReturn ChecksOpenings
CHECK_DEADLOCK FALSE
