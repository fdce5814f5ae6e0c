CONSTANTS
  Callers = {c1, c2}
  XidMod = 3
  MaxBatch = 2
  MaxCalls = 2
SPECIFICATION FairSpec
INVARIANTS AwaitHasSender ReplyIsOwn
PROPERTIES KeepsPromise ReachesReply ClosedEndsCalls
