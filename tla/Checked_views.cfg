SPECIFICATION Spec
CONSTANTS
  Parties = {1, 2, 3}
  Plan <- MCPlan
  Views = {0, 1}
  Right = 0
INVARIANTS SameFate Agreement AllClear
CHECK_DEADLOCK FALSE
