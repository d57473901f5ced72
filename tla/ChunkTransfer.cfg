CONSTANTS
  Chunks = 3
  ChunkSize = 2
  LastSize = 1
  PageSize = 4
  Window = 2
  MaxSends = 4
  MaxTalks = 1
  MaxUpdates = 1
  MaxBreaks = 1
  MaxFaults = 1
SPECIFICATION FairSpec
INVARIANTS TypeOK InOrder OnlyWhole
PROPERTIES DroppedAfterPing SilenceEnds UpdateEnds
