SPECIFICATION Spec
CONSTANTS
  Configs <- MCMigrations
  Numerator = 7
  Rate = 3
  MaxStarts = 3
  MaxBlocks = 2
  MaxWrites = 3
  MaxEvidence = 1
  MaxFaults = 1
  MaxCrashes = 1
  None = None
INVARIANT CrashSafe
PROPERTIES Immutable GatedFirst
CHECK_DEADLOCK FALSE
