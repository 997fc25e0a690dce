----------------------------- MODULE ReaderShelf -----------------------------
(***************************************************************************)
(* What sending a book promises to the owner of a CrossPoint reader: the   *)
(* abstract specification that CrossPointSend implements.                  *)
(*                                                                         *)
(* The shelf is what the reader shows: one entry for every place a book    *)
(* can have (a folder and a file name).  crossload may do two things to    *)
(* it.  It may give a free place one whole book in a single step, and it   *)
(* may move the file of a place aside, where its contents are kept.  It    *)
(* never replaces a file, never shows a part of a book, and never deletes  *)
(* anything.  The owner may do as they like, which "moves" counts, so that *)
(* what the owner does cannot pass for what crossload does.                *)
(***************************************************************************)
EXTENDS Naturals

CONSTANTS
    Slots,      \* the places a book can have on the reader
    Whole,      \* the contents of the books crossload sends
    Contents,   \* the contents files can have
    Directory,  \* a directory with the name of a book
    Absent      \* nothing at that place

VARIABLES
    shelf,      \* what is at each place
    aside,      \* the contents that were moved aside
    moves       \* how often the owner changed the reader

vars == <<shelf, aside, moves>>

Entries == Contents \union {Directory, Absent}

Init ==
    /\ shelf \in [Slots -> Entries]
    /\ aside = {}
    /\ moves = 0

(* A whole book appears at a free place. *)
Publish(slot) ==
    /\ shelf[slot] = Absent
    /\ \E book \in Whole : shelf' = [shelf EXCEPT ![slot] = book]
    /\ UNCHANGED <<aside, moves>>

(* The file of a place is moved aside, with its contents. *)
MoveAside(slot) ==
    /\ shelf[slot] \in Contents
    /\ shelf' = [shelf EXCEPT ![slot] = Absent]
    /\ aside' = aside \union {shelf[slot]}
    /\ UNCHANGED moves

(* The owner adds and deletes books in the reader's own file manager. *)
Owner ==
    /\ shelf' \in [Slots -> Entries]
    /\ moves' = moves + 1
    /\ UNCHANGED aside

Next ==
    \/ \E slot \in Slots : Publish(slot) \/ MoveAside(slot)
    \/ Owner

Spec == Init /\ [][Next]_vars
=============================================================================
