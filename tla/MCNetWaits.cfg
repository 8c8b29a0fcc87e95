CONSTANTS
  a = a
  b = b
  l = l
  Names = {a, b}
  Library = l
  Disks <- MCDisks
  CellBound = 2
  ObjectBound = 2
SPECIFICATION NetSpec
INVARIANTS
  NoneWaits
