----------------------------- MODULE ImportShelf -----------------------------
(***************************************************************************)
(* What importing promises to the owner of the import folder: the abstract *)
(* specification that Commands implements beside ReaderShelf.              *)
(*                                                                         *)
(* crossload gives a free name one whole book, in a single step, and does  *)
(* nothing else to the folder: no book is ever replaced or removed by it.  *)
(* A request is put away as spent only when its book has been given its    *)
(* name, and is never taken back.  The owner may do as they like with the  *)
(* folder, which "moves" counts.                                           *)
(***************************************************************************)
EXTENDS Naturals

CONSTANTS
    Names,      \* the names a book can have in the folder
    Whole,      \* the contents of whole books
    Contents,   \* the contents files can have
    Absent      \* nothing of that name

VARIABLES
    folder,     \* what is there under each name
    imported,   \* the names that crossload gave to a book
    spent,      \* the requests that are put away
    moves       \* how often the owner changed something

vars == <<folder, imported, spent, moves>>

States == [Names -> Contents \union {Absent}]

Init ==
    /\ folder \in States
    /\ imported = {}
    /\ spent = {}
    /\ moves = 0

(* A whole book gets a free name. *)
Publish(name) ==
    /\ folder[name] = Absent
    /\ \E book \in Whole : folder' = [folder EXCEPT ![name] = book]
    /\ imported' = imported \union {name}
    /\ UNCHANGED <<spent, moves>>

(* The request of an imported book is put away. *)
Spend(name) ==
    /\ name \in imported
    /\ spent' = spent \union {name}
    /\ UNCHANGED <<folder, imported, moves>>

(* The owner adds and deletes books. *)
Owner ==
    /\ folder' \in States
    /\ moves' = moves + 1
    /\ UNCHANGED <<imported, spent>>

Next ==
    \/ \E name \in Names : Publish(name) \/ Spend(name)
    \/ Owner

Spec == Init /\ [][Next]_vars
=============================================================================
