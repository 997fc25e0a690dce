----------------------------- MODULE MCFolders -----------------------------
(* Folders on a small instance: two processes, and three names of which    *)
(* two differ only in case.                                                *)
EXTENDS Folders, TLC

CONSTANTS p1, p2, none

MCProcs == {p1, p2}
MCNames == {"a", "A", "b"}
MCFold == [n \in MCNames |-> IF n = "b" THEN "b" ELSE "a"]

(* A book's original, its device copy and the original corrected, which    *)
(* changes the case of its title, and a PDF of that title.                 *)
MCContents == {"o", "d", "e", "x"}
MCBookOf == [c \in MCContents |-> IF c = "x" THEN "X" ELSE "O"]
MCDeviceCopy == [c \in MCContents |-> IF c = "o" THEN "d" ELSE c]
MCCorrected == [c \in MCContents |-> IF c = "x" THEN none ELSE "e"]
MCNameOf == [c \in MCContents |-> IF c \in {"e", "x"} THEN "A" ELSE "a"]

(* The names a correction tries: two, after the file's own. *)
MCLater ==
    LET after(a, b, c) == (a :> b) @@ (b :> c) @@ (c :> none) IN
    ("a" :> after("a", "b", "A")) @@ ("A" :> after("A", "b", "a")) @@ ("b" :> after("b", "A", "a"))

Holding(a, b) == [n \in MCNames |-> CASE n = "a" -> a [] n = "b" -> b [] OTHER -> none]
Hold(local, card) == [place \in Places |-> IF place = "Local" THEN local ELSE card]

(* A book to copy to an empty card, or a card with two copies of one book  *)
(* and a PDF that would get a name that is there in another case.          *)
MCFirstFiles ==
    {Hold(Holding("o", none), Holding(none, none)),
     Hold(Holding(none, "x"), Holding("d", "d"))}

Symmetry == Permutations(MCProcs)
=============================================================================
