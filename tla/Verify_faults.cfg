SPECIFICATION Spec
CONSTANTS
  nP = 3
  EagerFlush = TRUE
  Procs <- MCProcs
  Dims <- MCDims
  MultLevels = 2
  NumOutputs = 1
  Providers = {1, 2}
  Compression = 2
  SSEC = 2
  PkingSemi = TRUE
  PkingVerify = 1
  MaxFaults = 2
INVARIANTS StreamsAligned MailInOrder CheckedBeforeOpening
  NothingUnchecked SameVerdict OutputsTrusted NoFalseAlarm RoundsAsDocumented
PROPERTY EveryoneEnds
CHECK_DEADLOCK FALSE
