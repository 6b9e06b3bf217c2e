SPECIFICATION ModulesSpec
CONSTANTS
  a = a b = b c = c
  Modules = {a, b}
  AutoMicrotasks = TRUE
  MaxImports = 3
  Names <- MCNames
  Loads = {1, 2}
  Sites <- MCSites
  SuDecl <- MCDecl
  SuImports <- MCImports
  SuOpImports <- MCOpImports
  SuThrowing = {"broken.js"}
  SuPlans <- MCPlans
INVARIANTS
  ImportsConsistent
  DoneMeansWholeGraph
  MapConsistent
  StartupSound
  ReferencesLineUp
PROPERTIES
  ImportsSettle
