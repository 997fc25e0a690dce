\* One process sends, retries and repairs while the owner changes the reader.
SPECIFICATION FairSpec
CONSTANTS
  x = x
  y = y
  z = z
  Damaged = bad
  Absent = Absent
  Directory = Directory
  Clients = {c1}
  Blocks = {x, y, z, bad}
  Books = {"dune"}
  Folders = {"herron"}
  Names = {"dune.epub", "other.epub"}
  Staging = {s1, s2}
  Data <- MCData
  OwnContents <- MCOwnContents
  Requests <- AllRequests
  MaxSends = 2
  MaxOwnerMoves = 2

PROPERTIES ImplementsShelf SendsEnd
CHECK_DEADLOCK FALSE
