SPECIFICATION Spec
CONSTANTS
  Modules = {a, b}
  AutoMicrotasks = FALSE
  MaxImports = 3
INVARIANTS
  ResolvedAfterEvaluation
