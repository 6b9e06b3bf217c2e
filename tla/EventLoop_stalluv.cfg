SPECIFICATION Spec
CONSTANTS
  Budget = 2
  MaxReject = 0
  FeatureSets = {{"uv"}}
INVARIANTS
  StalledMeansNeverResolved
