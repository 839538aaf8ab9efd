CONSTANTS
  Base = 4
  Nibble = 2
  Width = 3
  Modulus <- Ring
  Inexact <- Inexacts
  N = 3
  MaxWait = 1
  MAX_DATA_PROVIDERS = 4
  Digits = 3
  Inputs <- SomeInputs
  Files <- SomeFiles
  None = None
  MaxFaults = 2
SPECIFICATION MpcSpec
CHECK_DEADLOCK FALSE
INVARIANT CommitmentsMatch
