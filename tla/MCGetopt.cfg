\* One kind of lookup, values that command lines can carry.
CONSTANTS
  SortedNames <- MCNames
  Values <- MCValues
  Params = {"", "(x)"}
  FileNames = {"f"}
  Disk <- MCDisk
  LookupTypes = {"all"}
  Commands <- MCCommands
  ParamFiles <- MCParamFiles
  GccStyle = TRUE
  VcsStyle = TRUE
  DefineWarnings = TRUE
  NoPath = NoPath
  MaxDirs = 3
SPECIFICATION Spec
INVARIANTS
  GetoptTypeOK
  CachedAnswersCurrent
  AnswersAreDependencies
  UndefineallKeepsWanted
  
CHECK_DEADLOCK FALSE
