\* Two books: sets, dialogs and questions, and two deletions in a row.
SPECIFICATION Spec
CONSTANTS
  None = None
  dune = dune
  scan = scan
  Books = {dune, scan}
  Places = {"Local", "CrossPoint"}
  Readers <- MCOneReader
  FirstDisks <- TwoPdfsOrCopies
  Unreliable = {"CrossPoint"}
  MaxIds = 4
INVARIANTS TypeOK JobAddsUp
PROPERTIES LastCopyStays
SYMMETRY Symmetry
CHECK_DEADLOCK FALSE
