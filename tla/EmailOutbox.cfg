CONSTANTS
  Emails = {e1}
  Workers = {w1, w2}
  NoWorker = NoWorker
  MaxAttempts = 3
  BaseBackoff = 2
  MaxBackoff = 2
  StuckAfter = 1
  RecoveryBatch = 1
  MaxRecoveries = 2
  Faults <- AllFaults
SPECIFICATION FairSpec
CHECK_DEADLOCK FALSE
INVARIANTS
  EffortIsBounded
PROPERTIES
  LeaseIsSound
  FateIsJustified
  EmailSettles
  KeepsPromise
