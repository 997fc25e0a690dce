\* Two processes repair the same name with two editions.
SPECIFICATION Spec
CONSTANTS
  x = x
  y = y
  z = z
  Damaged = bad
  Absent = Absent
  Directory = Directory
  Clients = {c1, c2}
  Blocks = {x, y, z, bad}
  Books = {"dune", "dune2"}
  Folders = {"herron"}
  Names = {"dune.epub"}
  Staging = {s1, s2}
  Data <- MCData
  OwnContents <- MCOwnContents
  Requests <- MCRequests
  MaxSends = 1
  MaxOwnerMoves = 0
SYMMETRY MCStagingSymmetry
PROPERTIES OnlyIncompleteSetAside
CHECK_DEADLOCK FALSE
