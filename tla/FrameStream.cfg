CONSTANTS
  Sizes <- FrameSizes
  MaxShort = 1
  Base = 2
  MaskLength = 2
  MaxTries = 1
  Cap = 3
  Bytes <- Tags
  None = None
SPECIFICATION FairSpec
INVARIANTS
  TypeOK
  ExactFrames
PROPERTIES
  ClosesWhenDrained
  ImplementsStream
  GetDataReturns
