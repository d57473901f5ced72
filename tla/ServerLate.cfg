CONSTANTS
  c1 = c1
  c2 = c2
  Conns <- TwoConns
  Sds = {s1, s2, s3}
  NoConn = NoConn
  NoSock = NoSock
  Free = Free
  Listener = Listener
  Key <- OneKey
  Scripts <- LateScripts
  MaxDrops = 0
  MaxClients = 2
SPECIFICATION Spec
SYMMETRY SdSymmetry
INVARIANTS
  SlotsDistinct
  ExactlyOnce
PROPERTIES
  ImplementsTable
