\* error() croaks, the default: the first error ends the run.
CONSTANTS
  MaxNest = 2
  MaxBranches = 3
  Names = {A}
  NoName = NoName
  KeepComments = FALSE
  LineDirectives = TRUE
  ErrorReturns = FALSE
  DefineMax = 1
  MaxStates = 3
  MaxRefs = 2
  MaxParen = 2
SPECIFICATION Spec
INVARIANTS
  TypeOK
  OffCountsLevels
  EntriesTellHistory
  StacksInStep
  PendingMatchesStates
  FatalOnlyAfterError
PROPERTY
  RefinesCondCompile
CHECK_DEADLOCK FALSE
