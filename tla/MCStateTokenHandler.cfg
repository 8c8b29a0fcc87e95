\* error() is overridden and returns: the loop goes on after every error.
CONSTANTS
  MaxNest = 1
  MaxBranches = 2
  Names = {A}
  NoName = NoName
  KeepComments = TRUE
  LineDirectives = FALSE
  ErrorReturns = TRUE
  DefineMax = 0
  MaxStates = 2
  MaxRefs = 1
  MaxParen = 1
SPECIFICATION Spec
INVARIANTS
  EffectsOnlyWherePassing
  EndsClosedOrReported
PROPERTY
  DefsKeptWhereOff
CHECK_DEADLOCK FALSE
