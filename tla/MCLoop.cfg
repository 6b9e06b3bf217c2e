SPECIFICATION LoopSpec
CONSTANTS
  Budget = 3
  MaxReject = 1
  FeatureSets = {{"uv", "cross_thread", "rejections", "throw"}, {"throw"}, {"inspector"}, {"cross_thread", "rejections"}}
  RjPromises = {p1, p2, p3}
  RjMaxPolls = 2
INVARIANTS
  NothingOverlooked
  StallIsTrue
PROPERTIES
  Returns
  RejectionsAccountedFor
