\* Two PDFs that convert badly.
SPECIFICATION Spec
CONSTANTS
  None = None
  dune = dune
  scan = scan
  Books = {dune, scan}
  Places = {"Local", "CrossPoint"}
  Readers <- MCReaders
  FirstDisks <- TwoPdfs
  Unreliable = {}
  MaxIds = 3
PROPERTIES BadPdfIsAskedAbout
CHECK_DEADLOCK FALSE
