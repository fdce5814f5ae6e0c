SPECIFICATION FairSpec
CONSTANTS
  Tasks = {t1, t2}
  NoTask = NoTask
  SlotCount = 3
  SeqMod = 3
  MaxCalls = 2
  ServerReplies <- LowerTarget
PROPERTY AcquireReturns
