SPECIFICATION Spec
CONSTANTS
  N = 4
  MaxSubmit = 5
  IoThreads = {reader}
  StopThreads = {canceller}
  StopDuringStart = FALSE
  NoThread = NoThread
INVARIANT ClosedIsQuiet
CHECK_DEADLOCK FALSE
