SPECIFICATION FairSpec
CONSTANTS
  o1 = o1
  o2 = o2
  Absent = Absent
  Ops <- MCOp
  Modes = {"overwrite", "create", "delete"}
  Sizes = {1, 2}
  TempRetries = 2
  TransientRetries = 1
  ReconnectRetries = 1
  MaxFaults = 2
  MaxLosses = 1
INVARIANTS PublishedIsCommitted SuccessIsDurable TempsRemoved
PROPERTIES KeepsPromise OpEnds
