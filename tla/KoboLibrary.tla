---------------------------- MODULE KoboLibrary ----------------------------
(***************************************************************************)
(* The books of a mounted Kobo, apps/crossload/src/kobo.rs, as functions   *)
(* of what its mount holds: which there are, whose keys open each of them, *)
(* and what importing one makes.                                           *)
(*                                                                         *)
(* Store books are files named after their ID; the Kobo's database, which  *)
(* only says what was bought, has keys for those that are encrypted.  Any  *)
(* other book is a file in an ordinary folder, and can be a copy of an     *)
(* encrypted store book.  Zip archives, XML, SQL and the cipher are data:  *)
(* a content is readable, or decrypts to another with one book's keys.     *)
(***************************************************************************)
EXTENDS Naturals

CONSTANTS
    Contents,   \* what a book's file can hold
    None,       \* nothing
    Ids,        \* the books a Kobo can hold, as crossload names them
    ByTitle,    \* the place of each in the order of the titles, then of the names
    Store,      \* those from the store
    Previews,   \* the store books that are only previews
    Keyed,      \* the store books the database has keys for
    Named,      \* the store book a content says it is
    Plain,      \* what an encrypted content decrypts to
    Readable,   \* the contents that pass validation
    HasSerial   \* the Kobo's serial is given, or in its device.xml

ASSUME KoboAssumption ==
    /\ None \notin Contents \union Ids
    /\ ByTitle \in [Ids -> Nat]
    /\ \A a, b \in Ids : ByTitle[a] = ByTitle[b] => a = b
    /\ Previews \subseteq Store /\ Keyed \subseteq Store /\ Store \subseteq Ids
    /\ Named \in [Contents -> Store \union {None}]
    /\ Plain \in [Contents -> Contents \union {None}]
    /\ Readable \subseteq Contents
    /\ HasSerial \in BOOLEAN

(* A Kobo keeps what was bought in files named after it, and encrypted     *)
(* when it has keys for it.                                                *)
Mounts ==
    {kobo \in [Ids -> Contents \union {None}] :
        \A id \in Store : kobo[id] # None =>
            Named[kobo[id]] = id /\ (id \in Keyed => kobo[id] \notin Readable)}

(* A store book is there when its file is: the database also knows books   *)
(* that were never downloaded.                                             *)
FromStore(kobo) == {id \in Store : kobo[id] # None}

(* Any file that is a book by its contents, outside hidden folders. *)
Sideloaded(kobo) == {id \in Ids \ Store : kobo[id] # None}

(* The books on the device; they are listed in the order of their titles.  *)
Books(kobo) == FromStore(kobo) \union Sideloaded(kobo)

First(ids) == CHOOSE id \in ids : \A other \in ids : ByTitle[id] <= ByTitle[other]

(* Mutant: a copy's identifier alone decides whose keys open it.           *)
MutantVolume(kobo, id) ==
    LET volume == IF id \in Store THEN id ELSE Named[kobo[id]] IN
    IF volume \in Keyed THEN volume ELSE None

(* The store book whose keys open a file.  A file outside the store needs  *)
(* to be the very file that was bought: one that was decrypted before has  *)
(* kept its identifier.                                                    *)
Volume(kobo, id) ==
    LET volume == IF id \in Store THEN id ELSE Named[kobo[id]] IN
    IF volume \in Keyed /\ kobo[volume] = kobo[id] THEN volume ELSE None

(* The keys of a book open its own file and no other. *)
Decrypt(volume, file) ==
    IF HasSerial /\ Named[file] = volume THEN Plain[file] ELSE None

(* What importing a book makes, or None when it is refused. *)
Import(kobo, id) ==
    LET file == kobo[id]
        made == IF Volume(kobo, id) = None THEN file ELSE Decrypt(Volume(kobo, id), file)
    IN  IF id \notin Previews /\ file # None /\ made \in Readable THEN made ELSE None

(* What a user expects to be able to import: a whole book that anybody can *)
(* read, or that the Kobo has what it takes to open.                       *)
Importable(kobo, id) ==
    /\ id \notin Previews
    /\ kobo[id] # None
    /\ \/ kobo[id] \in Readable
       \/ /\ HasSerial
          /\ Plain[kobo[id]] \in Readable
          /\ \E volume \in Keyed : kobo[volume] = kobo[id] /\ Named[kobo[id]] = volume
=============================================================================
