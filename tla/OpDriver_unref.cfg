SPECIFICATION FairSpec
CONSTANTS
  MaxOps = 2
  MaxBatch = 2
  UnrefedResources = TRUE
PROPERTIES
  NeverAbandonsRefedOps
CHECK_DEADLOCK FALSE
