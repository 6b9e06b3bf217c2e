SPECIFICATION TimersSpec
CONSTANTS
  Timeouts = {0, 2}
  CompactionMinimum = 0
  LowResolution = 1
  MaxIds = 2
  MaxTime = 4
  WakerAtStart = {TRUE, FALSE}
  t1 = t1 t2 = t2 w1 = w1
  UvTimers = {t1, t2}
  Watchers = {w1}
  WatcherKind <- MCWatcherKind
  UvMaxTime = 1
  UvMaxCalls = 4
  StartsClosing = FALSE
INVARIANTS
  TimersConsistent
  UvHandlesConsistent
PROPERTIES
  PolledTimersFire
  FiresDueInOrder
  UvFiresDue
