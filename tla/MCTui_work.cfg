\* Every kind of work on one book, with a scan, failures and quitting; what
\* is asked for happens.
SPECIFICATION FairSpec
CONSTANTS
  None = None
  dune = dune
  scan = scan
  Books = {dune}
  Places = {"Local", "CrossPoint"}
  Readers <- MCReaders
  FirstDisks <- OneBook
  Unreliable = {"CrossPoint", dune}
  MaxIds = 3
INVARIANTS WaitsForWhatRuns QuitIsClean ListIsCurrent
PROPERTIES ListedUntilReadAgain RefreshIsServed QuitIsServed ScanEnds
CHECK_DEADLOCK FALSE
