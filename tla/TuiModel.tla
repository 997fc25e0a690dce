------------------------------ MODULE TuiModel ------------------------------
(***************************************************************************)
(* The pure part of crossload's terminal interface:                        *)
(* apps/crossload/src/tui/model.rs, Model::update and what it calls.       *)
(*                                                                         *)
(* A model m is a record; every operator takes one and gives the next one, *)
(* as update does, and leaves what the app is to do in m.effect.  An id of *)
(* 0 stands for None.  The state of a dialog's own fields, the cursor, the *)
(* marks, the search, the filter, the help and the record of copies decide *)
(* only which books a key is about: the keys take any.                     *)
(***************************************************************************)
EXTENDS Naturals, FiniteSets

CONSTANTS
    Books,      \* the books of the library
    Places,     \* "Local", and "Kobo" and "CrossPoint" or one of them
    None        \* nothing, where the code has an Option

ASSUME BooksAssumption == IsFiniteSet(Books)
ASSUME PlacesAssumption == "Local" \in Places /\ Places \subseteq {"Local", "Kobo", "CrossPoint"}

Forms == {"epub", "corrected", "poor", "device"}
Copies == [book : Books, place : Places, form : Forms]

(* The library as far as it was read: the copies, those that could not be  *)
(* read, and each location's line.                                         *)
Snapshots == [copies : SUBSET Copies, unreadable : SUBSET Copies,
              status : [Places -> {"checking", "ready", "unavailable"}]]

ASSUME NoneAssumption == None \notin Snapshots

NoEffect == [kind |-> "none"]
Effects ==
    {NoEffect, [kind |-> "quit"], [kind |-> "load"]}
    \union [kind : {"work"}, target : Places, copies : SUBSET Copies]
    \union [kind : {"remove"}, copy : Copies]

Models ==
    [busy : Nat, loading : Nat, configuring : Nat, nextId : Nat,
     pendingRefresh : BOOLEAN, pendingQuit : BOOLEAN, retaining : BOOLEAN, restart : BOOLEAN,
     correcting : Books \union {None}, settings : {"closed", "first", "open"},
     action : SUBSET ((SUBSET Copies) \ {{}}),
     ask : [target : Places, about : SUBSET Copies] \union {None},
     copies : SUBSET Copies, confirm : Copies \union {None},
     catalog : Snapshots, pendingCatalog : Snapshots \union {None}, effect : Effects]

NewModel(firstRun) ==
    [busy |-> 0, loading |-> 0, configuring |-> 0, nextId |-> 0,
     pendingRefresh |-> FALSE, pendingQuit |-> FALSE, retaining |-> FALSE, restart |-> FALSE,
     correcting |-> None, settings |-> IF firstRun THEN "first" ELSE "closed",
     action |-> {}, ask |-> None, copies |-> {}, confirm |-> None,
     catalog |-> [copies |-> {}, unreadable |-> {}, status |-> [p \in Places |-> "checking"]],
     pendingCatalog |-> None, effect |-> NoEffect]

Working(m) == m.busy # 0 \/ m.loading # 0 \/ m.configuring # 0

(* The panel or dialog that the next key goes to. *)
Focus(m) ==
    IF m.correcting # None THEN "correcting"
    ELSE IF m.settings # "closed" THEN "settings"
    ELSE IF m.confirm # None THEN "confirm"
    ELSE IF m.copies # {} THEN "copies"
    ELSE IF m.ask # None /\ m.action # {} THEN "ask"
    ELSE IF m.action # {} THEN "action"
    ELSE "list"

Quit(m) ==
    IF Working(m) THEN [m EXCEPT !.pendingQuit = TRUE]
    ELSE [m EXCEPT !.effect = [kind |-> "quit"]]

(* Mutant: nothing looks whether a quit was waiting. *)
MutantSettled(m) == m

(* The end of update: a quit that was asked for while something ran. *)
Settled(m) == IF m.pendingQuit /\ ~Working(m) THEN Quit(m) ELSE m

(* Mutant: the list on screen is not kept while it is read again. *)
MutantRefreshShowsPartial(m) ==
    IF m.pendingQuit THEN Settled(m)
    ELSE IF m.loading # 0 \/ m.busy # 0 THEN [m EXCEPT !.pendingRefresh = TRUE]
    ELSE [m EXCEPT !.pendingRefresh = FALSE, !.action = {}, !.copies = {}, !.confirm = None,
                   !.nextId = @ + 1, !.loading = m.nextId + 1, !.effect = [kind |-> "load"]]

Refresh(m) ==
    IF m.pendingQuit THEN Settled(m)
    ELSE IF m.loading # 0 \/ m.busy # 0 THEN [m EXCEPT !.pendingRefresh = TRUE]
    ELSE [m EXCEPT !.pendingRefresh = FALSE, !.action = {}, !.copies = {}, !.confirm = None,
                   !.retaining = (m.catalog.copies \union m.catalog.unreadable # {}),
                   !.pendingCatalog = None,
                   !.nextId = @ + 1, !.loading = m.nextId + 1, !.effect = [kind |-> "load"]]

(* Mutant: a refresh that waited for a copy waits for the next key. *)
MutantDeferredRefresh(m) == Settled(m)

(* A refresh that waited for what was running, now that nothing is. *)
DeferredRefresh(m) ==
    IF m.pendingRefresh /\ m.busy = 0 /\ m.loading = 0 /\ ~m.pendingQuit
    THEN Refresh(m)
    ELSE Settled(m)

(* The library so far: shown, or kept back while the last one is shown. *)
Catalog(m, id, snapshot) ==
    IF m.loading # id THEN Settled(m)
    ELSE IF m.retaining THEN [m EXCEPT !.pendingCatalog = snapshot]
    ELSE [m EXCEPT !.catalog = snapshot]

(* Mutant: the library that was kept back is not shown. *)
MutantCatalogFinished(m, id) ==
    IF m.loading # id THEN Settled(m)
    ELSE DeferredRefresh([m EXCEPT !.retaining = FALSE, !.loading = 0, !.pendingCatalog = None])

CatalogFinished(m, id) ==
    IF m.loading # id THEN Settled(m)
    ELSE DeferredRefresh(
        [m EXCEPT !.retaining = FALSE, !.loading = 0, !.pendingCatalog = None,
                  !.catalog = IF m.pendingCatalog = None THEN @ ELSE m.pendingCatalog])

(* A copy job or a removal is over. *)
Finished(m, id, ok) ==
    IF m.busy # id THEN Settled(m)
    ELSE DeferredRefresh([m EXCEPT !.busy = 0, !.pendingRefresh = @ \/ ok])

Corrected(m, id, ok) ==
    IF m.configuring # id THEN Settled(m)
    ELSE IF ~ok THEN Settled([m EXCEPT !.configuring = 0])
    ELSE LET done == [m EXCEPT !.configuring = 0, !.correcting = None]
         IN  IF m.pendingQuit THEN Settled(done) ELSE Refresh(done)

(* Mutant: saved settings restart crossload at once, whatever runs. *)
MutantConfigured(m, id, saved) ==
    IF m.configuring # id THEN Settled(m)
    ELSE IF saved
         THEN [m EXCEPT !.configuring = 0, !.settings = "closed", !.restart = TRUE,
                        !.effect = [kind |-> "quit"]]
         ELSE Settled([m EXCEPT !.configuring = 0])

(* Saved settings mean starting again; the other answers only inform. *)
Configured(m, id, saved) ==
    IF m.configuring # id THEN Settled(m)
    ELSE IF saved
         THEN Quit([m EXCEPT !.configuring = 0, !.settings = "closed", !.restart = TRUE])
         ELSE Settled([m EXCEPT !.configuring = 0])

-----------------------------------------------------------------------------
(* A book is the set of its copies.  A dialog holds the books it was       *)
(* opened for; what it does is about the list's version of each, as long   *)
(* as the list has one of the copies it knew: a copy that could not be     *)
(* read is a book of its own, which here stands behind the others.  When   *)
(* the list has none of them, it is about the book as it was.  A PDF and   *)
(* the EPUB made of it, which the code lists as two rows, are one here.    *)
Listed(m) == {{c \in m.catalog.copies : c.book = b} : b \in {c.book : c \in m.catalog.copies}}

(* Mutant: the book as it was when its dialog opened. *)
MutantCurrent(m, book) == book

Current(m, book) ==
    IF book \intersect m.catalog.copies # {}
    THEN CHOOSE now \in Listed(m) : now \intersect book # {}
    ELSE IF book \intersect m.catalog.unreadable # {}
    THEN {CHOOSE c \in book : c \in m.catalog.unreadable}
    ELSE book

(* Originals before device copies, then Local, Kobo, CrossPoint.  Copies   *)
(* that tie stay in the order they were found in, which the forms stand    *)
(* for: what crossload adds to the computer comes after what was there.    *)
Rank(c) ==
    <<IF c.form = "device" THEN 1 ELSE 0,
      CASE c.place = "Local" -> 0 [] c.place = "Kobo" -> 1 [] OTHER -> 2,
      CASE c.form = "poor" -> 0 [] c.form = "epub" -> 1 [] OTHER -> 2>>
Before(c, d) ==
    LET x == Rank(c)  y == Rank(d) IN
    \/ x[1] < y[1]
    \/ x[1] = y[1] /\ x[2] < y[2]
    \/ x[1] = y[1] /\ x[2] = y[2] /\ x[3] <= y[3]

(* The copy that is read when a book is copied somewhere. *)
Preferred(copies) == CHOOSE c \in copies : \A d \in copies : Before(c, d)

(* Whether a copy of the book may start: yes, after a question, or no. *)
Destination(m, book, target) ==
    LET now == Current(m, book)
        copy == Preferred(now)
    IN  IF \/ m.busy # 0 \/ m.retaining
           \/ target # "Local" /\ m.catalog.status[target] # "ready"
           \/ \E c \in now : c.place = target
           \/ m.loading # 0 /\ (copy.form = "device" \/ copy.place = "CrossPoint")
        THEN "blocked"
        ELSE IF target = "CrossPoint" /\ copy.form = "poor" THEN "ask"
        ELSE "ready"

(* Whether this copy of a book may be deleted: the book has another, the   *)
(* reader's card is mounted, and nothing else goes on.                     *)
Removable(m, book, c) ==
    /\ m.busy = 0
    /\ m.loading = 0
    /\ book # {c}
    /\ c.place = "CrossPoint"

(* One question covers the set of books that were chosen. *)
Questions(m, target) == {book \in m.action : Destination(m, book, target) = "ask"}
Copyable(m, target) == {book \in m.action : Destination(m, book, target) # "blocked"}

(* Start copying what can be copied there; the rest is left behind. *)
StartCopying(m, target) ==
    IF Copyable(m, target) = {} THEN [m EXCEPT !.ask = None]
    ELSE [m EXCEPT !.ask = None, !.action = {}, !.nextId = @ + 1, !.busy = m.nextId + 1,
                   !.effect = [kind |-> "work", target |-> target,
                               copies |-> {Preferred(Current(m, book)) :
                                             book \in Copyable(m, target)}]]

(* 1, 2 or 3 in the copy dialog. *)
ChooseTarget(m, target) ==
    {[m EXCEPT !.ask = [target |-> target, about |-> book]] : book \in Questions(m, target)}
    \union (IF Questions(m, target) = {} THEN {StartCopying(m, target)} ELSE {})

(* y, while a copy's deletion is being asked about. *)
ConfirmRemoval(m) ==
    LET book == Current(m, m.copies) IN
    IF m.confirm \in book /\ Removable(m, book, m.confirm)
    THEN [m EXCEPT !.confirm = None, !.copies = {}, !.nextId = @ + 1, !.busy = m.nextId + 1,
                   !.effect = [kind |-> "remove", copy |-> m.confirm]]
    ELSE [m EXCEPT !.confirm = None]
=============================================================================
