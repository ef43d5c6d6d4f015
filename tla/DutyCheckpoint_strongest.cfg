SPECIFICATION Spec
CONSTANTS
  Configs <- MCModes
  Numerator = 7
  Rate = 3
  MaxStarts = 4
  MaxBlocks = 3
  MaxWrites = 6
  MaxEvidence = 0
  MaxFaults = 0
  MaxCrashes = 0
  None = None
INVARIANT NeverBehind
CHECK_DEADLOCK FALSE
