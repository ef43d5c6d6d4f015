SPECIFICATION FairSpec
CONSTANTS
  N = 4
  MaxSubmit = 5
  IoThreads = {t1, t2}
  StopThreads = {t1}
  StopDuringStart = TRUE
  NoThread = NoThread
INVARIANTS DmaExclusive ClaimsHeld ReadyIsNext StreamOrder FreedIsQuiet
PROPERTIES ImplementsStream StopWakesReaders ShutdownReturns
CHECK_DEADLOCK FALSE
