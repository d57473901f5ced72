CONSTANTS
  Commands = {"SEND", "RECV", "ACCEPT", "CLOSE_SOCKET"}
  MaxCalls = 6
  MaxStarts = 2
  Buffers = 2
SPECIFICATION Spec
INVARIANTS TypeOK UnreadKept NeverOverrun OwnAnswer CloseNoticed
PROPERTY CallsReturn
CHECK_DEADLOCK FALSE
