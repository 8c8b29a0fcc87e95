\* Values that get_parameters does not carry over: 0, and one with a plus sign.
CONSTANTS
  SortedNames <- MCTwoNames
  Values <- MCLostValues
  Params = {""}
  FileNames = {"f"}
  Disk <- MCDisk
  LookupTypes = {"all"}
  Commands <- MCNoCommands
  ParamFiles <- MCParamFiles
  GccStyle = TRUE
  VcsStyle = TRUE
  DefineWarnings = TRUE
  NoPath = NoPath
  MaxDirs = 1
SPECIFICATION Spec
INVARIANT
  ParametersReproduce
CHECK_DEADLOCK FALSE
