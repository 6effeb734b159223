SPECIFICATION Spec
CONSTANTS
  nP = 3
  RingSize = 4
  LargeRingSize = 64
  SSEC = 2
  Circuits <- MCCircuits
  Compressions = {2, 3, 4}
  Seeds = {1, 2}
  Streams <- MCStreams
  Cheats <- MCCheats
  Bends <- MCBends
INVARIANTS DealerInStep DefectKept CommitsOpened VerdictDeserved
CHECK_DEADLOCK FALSE
