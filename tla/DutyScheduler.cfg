SPECIFICATION Spec
CONSTANTS
  s1 = s1
  c1 = c1
  c2 = c2
  Candidates <- TwoCandidates
  Senders <- OneSender
  Seeded = {}
  None = None
  Warmup = 2
  WatchdogMin = 2
  CaptureNeed = 1
  PromotionNeed = 1
  MissCost = 2
  MaxScale = 1
  AuditPercent <- Audits
  RefreshInterval <- ShortIntervals
  RefreshDuration = 1
  RecoveryDuration = 2
  PromotionStability = 1
  MaxTime = 8
  MaxFaults = 1
SYMMETRY Symmetry
INVARIANTS TypeOK SleepJustified AlarmRecovers RefreshedInTime
PROPERTIES QualificationCurrent EnvelopeResetsEvidence RefreshAsPlanned
CHECK_DEADLOCK FALSE
