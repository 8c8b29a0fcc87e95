\* Two files, macro bodies of two characters, a stack of at most four streams.
CONSTANTS
  Files = {"f.v", "g.vh"}
  NoFile = "no file"
  Letters = {"a", "b", "x", "y"}
  Content <- MCContent
  Bodies <- MCBodies
  MaxRead = 2
  RecursionMax = 3
  IncludeMax = 2
  MaxText = 4
SPECIFICATION StreamSpec
INVARIANTS
  StreamTypeOK
  EofIsEntryZero
  DepthIsSize
  NothingLeftAtEof
PROPERTIES
  ImplementsPendingText
  Drains
CHECK_DEADLOCK FALSE
