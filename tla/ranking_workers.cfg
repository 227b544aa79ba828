SPECIFICATION FairSpec
CONSTANTS
  r1 = r1
  r2 = r2
  rank1 = rank1
  rank2 = rank2
  roll1 = roll1
  roll2 = roll2
  None = None
  Requests <- OneRequest
  Kinds = {"enter", "publish", "unpublish", "generate", "recalculate", "unlock", "read"}
  RankWorkers <- OneRanker
  RollWorkers <- TwoRollers
  AdmissionEnabled = FALSE
  EarlierPublished = FALSE
  MaxAttempts = 2
  MaxStarted = 2
  MaxRev = 1
  MaxFaults = 1
  Evictions = FALSE
INVARIANTS OneGeneration RollJobsCommit LedgerInv
PROPERTIES JobsSettle ImplementsLedger
CHECK_DEADLOCK FALSE
