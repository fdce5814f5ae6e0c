SPECIFICATION FairSpec
CONSTANTS
  Depths = {0, 2}
  Pages <- MCPages
  TransientRetries = 1
  CallOverhead = 68
  Lens <- MCLens
  Files = {1, 2, 3, 4}
  Deferred = {2, 3, 4}
  QueueLength = 1
  MaxBatch = 2
INVARIANTS OkMeansDone ErrorIsTrue NotReplayed RequestIsExact UncheckedReadsAreSafe
PROPERTIES CallProgresses EveryCloseIsTried
