SPECIFICATION Spec
CONSTANTS
  Tasks = {t1, t2, t3}
  NoTask = NoTask
  SlotCount = 3
  SeqMod = 3
  MaxCalls = 2
  ServerReplies <- TargetZero
SYMMETRY TaskSymmetry
PROPERTY HighestCoversInFlight
