SPECIFICATION Spec
CONSTANTS
  nP = 3
  Modulus = 4
  EagerFlush = TRUE
  Procs <- MCProcs
  Gates <- MCGates
  Layers <- MCLayers
  Outputs <- MCOutputs
  Owner <- MCOwner
  InputChoices <- MCInputs
  Tapes <- MCTapes
INVARIANTS GammaMatch MaskedValues OutputsCorrect
PROPERTY AllFinish
CHECK_DEADLOCK FALSE
