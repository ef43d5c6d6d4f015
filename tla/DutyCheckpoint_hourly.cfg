SPECIFICATION Spec
CONSTANTS
  Configs <- MCModes
  Numerator = 7
  Rate = 3
  MaxStarts = 3
  MaxBlocks = 4
  MaxWrites = 6
  MaxEvidence = 1
  MaxFaults = 0
  MaxCrashes = 0
  None = None
INVARIANT HourlyWritten
CHECK_DEADLOCK FALSE
