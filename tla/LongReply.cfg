CONSTANTS
  Sizes = {2, 126}
  MaxShort = 125
  Base = 256
  MaxMessages = 2
SPECIFICATION Spec
INVARIANT PeerInStep
