CONSTANTS
  Callers = {"p1", "p2"}
  Depth = 3
  MaxRmdirs = 1
  MaxFaults = 1
  Order <- MCOrder
  Dots = {"dot"}
  Stale = {"old1", "old2"}
  Sweepers = {"s1", "s2"}
  Lister = "lister"
  Casts <- MCCasts
  Servers = {"stable", "verified", "positional"}
  PageSize = 2
  MaxEntries = {0, 1, 3}
  PipelineDepth = 2
  ReconnectRetries = 1
  OlderThan = 1
  MaxTime = 2
SPECIFICATION FairSpec
INVARIANTS PathIsMade CountIsTrue SweepIsComplete YoungAreSpared ListIsComplete
PROPERTIES SweepEnds
