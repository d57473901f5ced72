CONSTANTS
  c1 = c1
  c2 = c2
  Conns <- TwoConns
  Sds = {s1, s2, s3}
  NoConn = NoConn
  NoSock = NoSock
  Free = Free
  Listener = Listener
  Key <- DistinctKeys
  Scripts <- MixedScripts
  MaxDrops = 1
  MaxClients = 2
SPECIFICATION Spec
SYMMETRY SdSymmetry
INVARIANTS
  TypeOK
  NoUseAfterFree
  SockOwner
  ExactlyOnce
PROPERTIES
  StaysUntilGone
CHECK_DEADLOCK FALSE
