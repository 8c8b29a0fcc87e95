\* Definitions of up to three pieces, except text before a single, final reference.
CONSTANTS
  Files = {"f.v"}
  NoFile = "no file"
  Letters = {"white"}
  Content <- MCContent
  Bodies <- MCBodies
  MaxRead = 8
  RecursionMax = 3
  IncludeMax = 2
  MaxText = 4
SPECIFICATION ExpandSpec
INVARIANTS
  ExpandTypeOK
  ErrorMeansRecursion
PROPERTIES
  EndReached
  SelfReferenceReported
CHECK_DEADLOCK FALSE
