SPECIFICATION ThreadsSpec
CONSTANTS
  Local = {l1}
  Remote = {r1, r2}
  Blocking = {r2}
  MaxTasks = 2
  Debuggers = {d1}
  InsWorkers = {w1}
  Commands = {"run", "resume", "attach", "plain", "to_worker", "discover"}
  InsMaxMsgs = 1
  InsMaxPauses = 1
INVARIANTS
  RunsOnceInOrder
  FlagCoversTasks
  BlockingBorrowSafe
  SessionsConsistent
PROPERTIES
  LocalTaskRuns
  FinishedMeansNoneQueued
