SPECIFICATION TransferFairSpec
CONSTANTS
  Versions = {v1, v2}
  Absent = Absent
  Lengths = {0, 5, 9}
  Requests <- MCRequests
  Limit = 8
  Granularity = 2
  ChunkSize = 3
  Depths = {1, 3}
  ReconnectRetries = 1
  MaxFaults = 1
  MaxChanges = 1
  MaxLen = 5
  MaxWrite = 2
  Pipes = {1, 2}
  MaxBoots = 1
INVARIANTS BytesAreKept ErrorIsDeserved WrittenOrDetected
PROPERTIES TransferReturns
