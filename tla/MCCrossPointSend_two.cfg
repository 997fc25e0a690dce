\* Two processes send two editions to one name; nobody else is there.
SPECIFICATION Spec
CONSTANTS
  x = x
  y = y
  z = z
  Damaged = bad
  Absent = Absent
  Directory = Directory
  Clients = {c1, c2}
  Blocks = {x, y, z, bad}
  Books = {"dune", "dune2"}
  Folders = {"herron"}
  Names = {"dune.epub"}
  Staging = {s1, s2, s3}
  Data <- MCData
  OwnContents <- MCOwnContents
  Requests <- MCRequests
  MaxSends = 2
  MaxOwnerMoves = 0
SYMMETRY MCStagingSymmetry
INVARIANTS TypeOK OnlyWholeBooks
PROPERTIES ReportIsTrue UndisturbedSucceeds
CHECK_DEADLOCK FALSE
