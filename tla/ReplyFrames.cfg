CONSTANTS
  Sizes = {0, 2, 125, 257}
  MaxShort = 125
  Base = 256
  MaxMessages = 2
SPECIFICATION Spec
INVARIANT PeerInStep
