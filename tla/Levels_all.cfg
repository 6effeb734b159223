SPECIFICATION EvaluatorSpec
CONSTANTS
  MaxGates = 4
  NumThreads = 2
INVARIANTS StrictOrder Homogeneous RoundsAreDepth AsSequential
PROPERTY OrderingEnds
CHECK_DEADLOCK FALSE
