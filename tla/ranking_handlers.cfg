SPECIFICATION Spec
CONSTANTS
  r1 = r1
  r2 = r2
  rank1 = rank1
  rank2 = rank2
  roll1 = roll1
  roll2 = roll2
  None = None
  Requests <- TwoRequests
  Kinds = {"enter", "publish", "unlock", "recalculate"}
  RankWorkers <- OneRanker
  RollWorkers <- OneRoller
  AdmissionEnabled = TRUE
  EarlierPublished = FALSE
  MaxAttempts = 2
  MaxStarted = 3
  MaxRev = 2
  MaxFaults = 0
  Evictions = TRUE
SYMMETRY Symmetry
INVARIANTS UnlockIsAudited BasisMonotone NoMissedTrigger
CHECK_DEADLOCK FALSE
