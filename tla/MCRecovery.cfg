CONSTANTS
  Ops = {o1, o2}
  MaxAttempts = 2
  MaxOps = 1
  MaxLosses = 1
  Addresses = 2
  MaxRestarts = 1
  MaxFaults = 1
SPECIFICATION RecFairSpec
INVARIANTS Coordinated RotatedExactlyOnce RetryErrorIsDeserved
PROPERTIES RetriesOnNewerSession KeepsParts OpEnds
