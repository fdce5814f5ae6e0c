SPECIFICATION Spec
CONSTANTS
  o1 = o1
  o2 = o2
  Absent = Absent
  Ops <- MCOps
  Modes = {"overwrite", "create", "delete"}
  Sizes = {1}
  TempRetries = 1
  TransientRetries = 1
  ReconnectRetries = 1
  MaxFaults = 1
  MaxLosses = 0
SYMMETRY Symmetry
PROPERTY KeepsPromise
