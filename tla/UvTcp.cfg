SPECIFICATION TcpFairSpec
CONSTANTS
  Tcps = {x, y}
  MaxWrites = 2
  MaxPeer = 1
  MaxTcpCalls = 3
  MaxPasses = 2
  MaxSpins = 2
  Capacity = 1
INVARIANTS
  WritesInOrder
PROPERTIES
  RegisteredIsServed
