------------------------------- MODULE MCTui -------------------------------
(* Small instances of Tui: a book with an original and a device copy, and  *)
(* two PDFs that convert badly.                                            *)
EXTENDS Tui, TLC

CONSTANTS dune, scan

Copy(b, p, f) == [book |-> b, place |-> p, form |-> f]

MCReaders == [p \in Places |-> IF p = "Local" THEN 2 ELSE 1]

MCOneReader == [p \in Places |-> 1]

(* A book that is on the reader twice. *)
TwiceOnReader(b) == {Copy(b, "CrossPoint", "epub"), Copy(b, "CrossPoint", "device")}

(* One book, on the computer, on the reader, on both, or twice on the reader. *)
OneBook == {{Copy(dune, "Local", "epub")},
            {Copy(dune, "CrossPoint", "device")},
            {Copy(dune, "Local", "epub"), Copy(dune, "CrossPoint", "device")},
            TwiceOnReader(dune)}

(* Two PDFs. *)
TwoPdfs == {{Copy(scan, "Local", "poor"), Copy(dune, "Local", "poor")}}

(* Two PDFs to copy, or a book of which one copy may be deleted. *)
TwoPdfsOrCopies == TwoPdfs \union {TwiceOnReader(b) : b \in Books}

Symmetry == Permutations(Books)
=============================================================================
