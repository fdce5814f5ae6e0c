SPECIFICATION Spec
CONSTANTS
  o1 = o1
  o2 = o2
  Absent = Absent
  Ops <- MCOp
  Modes = {"overwrite", "create", "delete"}
  Sizes = {1}
  TempRetries = 1
  TransientRetries = 1
  ReconnectRetries = 1
  MaxFaults = 2
  MaxLosses = 0
INVARIANT TransientFallsBack
