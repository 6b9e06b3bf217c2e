SPECIFICATION FairSpec
CONSTANTS
  Local = {}
  Remote = {r1}
  Blocking = {}
  MaxTasks = 1
PROPERTIES
  RemoteTaskRuns
