SPECIFICATION Spec
CONSTANTS
  o1 = o1
  o2 = o2
  Absent = Absent
  Ops <- MCOp
  Modes = {"overwrite", "create", "delete"}
  Sizes = {2}
  TempRetries = 1
  TransientRetries = 1
  ReconnectRetries = 1
  MaxFaults = 0
  MaxLosses = 1
INVARIANT NeverTorn
