SPECIFICATION TcpFairSpec
CONSTANTS
  Tcps = {x}
  MaxWrites = 1
  MaxPeer = 1
  MaxTcpCalls = 2
  MaxPasses = 2
  MaxSpins = 2
  Capacity = 1
PROPERTIES
  BlockedWritesRetried
