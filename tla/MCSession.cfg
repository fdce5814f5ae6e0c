SPECIFICATION FairSpec
CONSTANTS
  Tasks = {t1, t2}
  NoTask = NoTask
  SlotCount = 2
  SeqMod = 3
  MaxCalls = 2
  ServerReplies <- ShrinkGrowFatal
INVARIANTS TypeOK PermitAccounting SequenceAgreement OutcomeTruthful
PROPERTIES WaiterWoken HolderProceeds
