CONSTANTS
  Recordings = {r1}
  Users = {u1, u2}
  Sweepers = {s1, s2}
  Providers <- TwoProviders
  Retention = 1
  RetryAfter = 1
  UrlTtl = 1
  BatchSize = 1
  MaxBatches = 1
  MaxTick = 1
  MaxFaults = 1
SPECIFICATION FairSpec
CHECK_DEADLOCK FALSE
PROPERTIES
  TombstonesAreTrue
  KeepsItsPromise
  DoomedSettle
