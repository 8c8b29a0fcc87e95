\* Where the output says it is, with nothing set aside.
CONSTANTS
  Files = {"f.v", "g.v"}
  TopFile = "f.v"
  TickLine = 1
  KeepComments = FALSE
  KeepWhitespace = TRUE
  LineBound = 4
  StreamBound = 3
SPECIFICATION LinesSpec
CHECK_DEADLOCK FALSE
INVARIANTS
  InSync
