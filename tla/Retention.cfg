SPECIFICATION FairSpec
CONSTANTS
  NumOrgs = 2
  Busy = {2}
  Poisonable = {1}
  Workers = {w1, w2}
  BatchSize = 1
  MaxBatches = 2
  RecoveryBatch = 1
  Retained = 1
  StuckAfter = 1
  MaxLines = 3
  MaxMails = 1
  MaxTime = 2
  MaxFaults = 1
CHECK_DEADLOCK FALSE
INVARIANTS
  AuditTellsAll
PROPERTIES
  TermsAreKept
  Reclaimed
