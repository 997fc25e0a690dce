------------------------------ MODULE Imports ------------------------------
(***************************************************************************)
(* The commands that bring one book into the import folder and may pass it *)
(* on: kobo import, import of an ACSM request (apps/crossload/src/acsm.rs),*)
(* catalog get (opds.rs), and send or copy of a book that is there.        *)
(*                                                                         *)
(* A request for a book is fulfilled by a bookshop, which may do so once   *)
(* only.  It stays where it is; a copy of it in the archive folder beside  *)
(* it says that it is spent.                                               *)
(***************************************************************************)
EXTENDS Delivery

CONSTANTS
    Requests,   \* the ACSM requests
    Ordered,    \* the book each request is for
    Downloads,  \* the books a catalogue offers
    Links,      \* the addresses of catalogues and of the books in them
    Offered,    \* the link of each download
    Answer,     \* what a server answers to a link: a book, another link, or None
    Reachable,  \* the links a capability for catalogues may ask for
    MaxRedirects

ASSUME ImportsAssumption ==
    /\ Requests \union Downloads \subseteq Origins
    /\ Ordered \in [Requests -> Contents]
    /\ Links \intersect (Contents \union {None}) = {}
    /\ Offered \in [Downloads -> Links]
    /\ Answer \in [Links -> Links \union Contents \union {None}]
    /\ Reachable \subseteq Links /\ MaxRedirects \in Nat

Start(p, command, at, data) ==
    Begin(p, [Idle EXCEPT !.command = command, !.at = at,
                          !.origin = command.origin, !.data = data])

(* A command is done with the import, and passes the book on if asked to. *)
PassOn(j) == IF j.command.pass THEN [j EXCEPT !.at = "read"] ELSE Proceed(Reported(j, "Saved"))

(* A Kobo's book is read, decrypted and validated, and never reused: the   *)
(* import is refused when its name is taken.                               *)
StartImport(p, command) ==
    /\ command.name = "import" /\ command.origin \in Ids
    /\ Import(kobo, command.origin) # None
    /\ Start(p, command, "save", Import(kobo, command.origin))

SaveImport(p) ==
    /\ job[p].at = "save" /\ job[p].origin \in Ids
    /\ \/ SaveAs(p, PassOn(job[p]))
       \/ SaveTaken(p, Failed(job[p]))

(* Every redirect is a request of its own and has to be reachable; one too *)
(* many, like an answer that is neither a book nor a link, is an error.    *)
Fetch[left \in 0..MaxRedirects, link \in Links] ==
    IF link \notin Reachable THEN None
    ELSE IF Answer[link] \notin Links THEN Answer[link]
    ELSE IF left = 0 THEN None
    ELSE Fetch[left - 1, Answer[link]]

Download(d) == Fetch[MaxRedirects, Offered[d]]

(* A download that is a book: the bytes say of which format. *)
StartGet(p, command) ==
    /\ command.name = "get" /\ command.origin \in Downloads
    /\ Download(command.origin) \in Readable
    /\ Start(p, command, "save", Download(command.origin))

(* The name of a download has the digest of its bytes: a file that has it  *)
(* is the book.                                                            *)
SaveDownload(p) ==
    /\ job[p].at = "save" /\ job[p].command.name = "get"
    /\ SaveAs(p, PassOn(job[p])) \/ SaveTaken(p, PassOn(job[p]))

(* The interface offers the requests that are not spent; the command line  *)
(* takes any.                                                              *)
Pending == Requests \ spent

StartRequest(p, command) ==
    /\ \/ command.name = "acsm" /\ command.origin \in Pending
       \/ command.name = "import" /\ command.origin \in Requests
    /\ Start(p, command, "fulfil", None)

(* Mutant: the request is archived as soon as it is fulfilled.             *)
MutantFulfil(p) ==
    /\ job[p].at = "fulfil"
    /\ spent' = spent \union {job[p].origin}
    /\ job' = [job EXCEPT ![p].at = "save", ![p].data = Ordered[job[p].origin]]
    /\ UNCHANGED <<kind, kobo, tree, aside, local, published, excused, bounds>>

(* The bookshop gives the book, or refuses (Fault).  A book that does not  *)
(* pass validation is not published.                                       *)
Fulfil(p) ==
    /\ job[p].at = "fulfil"
    /\ LET book == Ordered[job[p].origin] IN
       IF book \in Readable
       THEN job' = [job EXCEPT ![p].at = "save", ![p].data = book]
       ELSE Fail(p)
    /\ UNCHANGED <<kind, disk, excused, bounds>>

SaveFulfilled(p) ==
    /\ job[p].at = "save" /\ job[p].origin \in Requests
    /\ \/ SaveAs(p, [job[p] EXCEPT !.at = "archive"])
       \/ SaveTaken(p, Failed(job[p]))

(* The request is archived as a courtesy: a failure only leaves it pending. *)
Archive(p) ==
    /\ job[p].at = "archive"
    /\ spent' \in {spent, spent \union {job[p].origin}}
    /\ job' = [job EXCEPT ![p] = PassOn(@)]
    /\ UNCHANGED <<kind, kobo, tree, aside, local, published, excused, bounds>>

(* Mutant: what is passed on is what was imported, not what is there.      *)
MutantReadBack(p) ==
    /\ job[p].at = "read"
    /\ Goto(p, "folder")
    /\ UNCHANGED <<kind, disk, excused, bounds>>

(* What is passed on is read from the import folder. *)
ReadBack(p) ==
    /\ job[p].at = "read"
    /\ LET file == local[job[p].origin] IN
       IF file \in Readable
       THEN job' = [job EXCEPT ![p].at = "folder", ![p].data = file]
       ELSE Fail(p)
    /\ UNCHANGED <<kind, disk, excused, bounds>>

(* send and copy, of a book from the import folder. *)
StartSend(p, command) ==
    /\ command.name = "send"
    /\ local[command.origin] # None
    /\ Start(p, command, "read", None)

ImportStep(p) ==
    \/ SaveImport(p) \/ SaveDownload(p) \/ SaveFulfilled(p)
    \/ Fulfil(p) \/ Archive(p) \/ ReadBack(p)
=============================================================================
