SPECIFICATION Spec
CONSTANTS
  Collar = 4
  Warmup = 2
  MaxBlocks = 9
  Gated = TRUE
INVARIANTS TypeOK NoMissingRaw PublishedExactlyOnce EscapesReported
CHECK_DEADLOCK FALSE
