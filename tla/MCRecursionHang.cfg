\* A definition of text and a reference to itself.
CONSTANTS
  Files = {"f.v"}
  NoFile = "no file"
  Letters = {"white"}
  Content <- MCContent
  Bodies <- MCTextThenRef
  MaxRead = 8
  RecursionMax = 3
  IncludeMax = 2
  MaxText = 4
SPECIFICATION ExpandSpec
PROPERTY
  EndReached
CHECK_DEADLOCK FALSE
