------------------------------- MODULE Catalog -------------------------------
(***************************************************************************)
(* How readings of copies become books: matches, merge and Scan of         *)
(* apps/crossload/src/books.rs.                                            *)
(*                                                                         *)
(* A copy is known by its place and path.  What reading it gave is the     *)
(* variants it is recognized by: its own bytes, and those of the device    *)
(* copy made of it, each with a digest and, for an EPUB, a digest of its   *)
(* resources.  A copy that could not be read has none.  A book is the set  *)
(* of its readings; its title, its order in the list and the counts of the *)
(* status line are left out.                                               *)
(***************************************************************************)
CONSTANTS
    Names,      \* the copies a discovery can find
    Variants,   \* the identities a copy can have
    None        \* there is no digest of resources

VARIABLES
    inbox,      \* readings a message brought, still to be merged
    combined,   \* the book merge is putting together; empty between merges
    books,      \* the books of the catalog
    arrived     \* history: every reading that was ever brought

catalogVars == <<inbox, combined, books, arrived>>

Readings == [name : Names, variants : SUBSET Variants]

Unreadable(name) == [name |-> name, variants |-> {}]

(* Two copies are of one book when any of their variants are the same      *)
(* bytes, or hold the same resources.                                      *)
Matches(a, b) ==
    \E v \in a.variants, w \in b.variants :
        v.sha = w.sha \/ (v.resources # None /\ v.resources = w.resources)

(* Mutant: two files without resources have the same ones. *)
MutantMeets(old, new) ==
    \E a \in old, b \in new :
        \E v \in a.variants, w \in b.variants :
            v.sha = w.sha \/ v.resources = w.resources

Meets(old, new) == \E a \in old, b \in new : Matches(a, b)

CatalogInit ==
    /\ inbox = {}
    /\ combined = {}
    /\ books = {}
    /\ arrived = {}

Idle == inbox = {} /\ combined = {}

(* Readings come in, and one merge after the other adds them. *)
Bring(readings) ==
    /\ inbox' = readings
    /\ arrived' = arrived \union readings
    /\ UNCHANGED <<combined, books>>

Merge ==
    /\ combined = {}
    /\ \E r \in inbox :
        /\ combined' = {r}
        /\ inbox' = inbox \ {r}
    /\ UNCHANGED <<books, arrived>>

(* Mutant: a book that joins the new one leaves its copies behind. *)
MutantAbsorb ==
    /\ combined # {}
    /\ \E old \in books :
        /\ Meets(old, combined)
        /\ books' = books \ {old}
    /\ UNCHANGED <<inbox, combined, arrived>>

(* A book in the list has a copy in common with the new one: it joins it,  *)
(* and the list is gone through from the start again.                      *)
Absorb ==
    /\ combined # {}
    /\ \E old \in books :
        /\ Meets(old, combined)
        /\ books' = books \ {old}
        /\ combined' = combined \union old
    /\ UNCHANGED <<inbox, arrived>>

(* Mutant: the new book joins the first it meets, and that is that. *)
MutantPush ==
    /\ combined # {}
    /\ (\A old \in books : ~Meets(old, combined)) \/ \E r \in combined : combined # {r}
    /\ books' = books \union {combined}
    /\ combined' = {}
    /\ UNCHANGED <<inbox, arrived>>

Push ==
    /\ combined # {}
    /\ \A old \in books : ~Meets(old, combined)
    /\ books' = books \union {combined}
    /\ combined' = {}
    /\ UNCHANGED <<inbox, arrived>>

CatalogTypeOK ==
    /\ inbox \subseteq Readings
    /\ combined \subseteq Readings
    /\ books \subseteq SUBSET Readings
    /\ arrived \subseteq Readings

-----------------------------------------------------------------------------
(* What two readings share when they are of one book: a digest of bytes or *)
(* one of resources.                                                       *)
Digests(r) ==
    {<<"bytes", v.sha>> : v \in r.variants}
    \union {<<"resources", v.resources>> : v \in {w \in r.variants : w.resources # None}}

(* Whether a set of readings hangs together: no part of it shares nothing  *)
(* with the rest.                                                          *)
HangsTogether(book) ==
    \A part \in SUBSET book :
        part # {} /\ part # book =>
            \E a \in part, b \in book \ part : Digests(a) \intersect Digests(b) # {}

(* Two copies of one book are never listed as two books, in whatever order *)
(* the locations and their tasks answer (books.rs merge).                  *)
TwinsAreOneBook ==
    \A one, other \in books :
        one # other => \A a \in one, b \in other : Digests(a) \intersect Digests(b) = {}

(* Copies are one book only because a chain of copies links them, so what  *)
(* is not the same book is never offered as a copy of it (books.rs merge). *)
BooksHangTogether == \A book \in books : HangsTogether(book)

(* A copy is read once, and merging loses no reading and lists none of     *)
(* them twice (tui.rs Listed, Read, read_more; books.rs merge).            *)
NothingIsLost ==
    /\ \A r, s \in arrived : r.name = s.name => r = s
    /\ arrived = (UNION books) \union combined \union inbox
    /\ \A one, other \in books : one # other => one \intersect other = {}
=============================================================================
