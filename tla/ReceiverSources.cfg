SPECIFICATION SourcesSpec
CONSTANTS
  N = 4
  Collar = 3
  BatchBlocks = 2
  MaxBatches = 6
  None = None
  KernelRing = TRUE
  SlotCounts = {3, 4}
  Attempts = 2
  DetachFails = TRUE
  BlockBytes = 3
  Blocks = 2
  SampleRate = 2
  Duration = 5
  Second = 4
  Half = 1024
  StreamBytes = 16
INVARIANTS CollarOwned NoReleaseRefused DeviceFed MappedWhileReading SetupClean RingSafe StreamExact
PROPERTIES RingContract SourcesLive
CHECK_DEADLOCK FALSE
