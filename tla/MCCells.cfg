SPECIFICATION CellsSpec
CONSTANTS
  Clients = {c1, c2, c3}
  Wakers = {w1, w2}
  MaxTicket = 5
  Futures = {f1, f2, f3}
  CancelTasks = {k1, k2}
  ArenaKinds = {"unique", "shared", "atomic"}
  ArenaCapacity = 2
  MaxObjects = 3
  MaxRefs = 1
  SpillKinds = {"shared", "atomic"}
  AskKinds = {"unique", "shared"}
  Readers = {r1, r2}
  RsBytes = 3
  RsHints <- SizeHints
  TinySize = 1
  StandardSize = 2
  MaxGrow = 2
  RsWriteLen = 2
INVARIANTS
  BorrowsExact
  AssertionsHold
  CancelSound
  ArenaSound
  TransfersComplete
PROPERTIES
  EventuallyServed
  FirstComeFirstServed
