------------------------------ MODULE Delivery ------------------------------
(***************************************************************************)
(* What the commands that bring a book to a reader have in common: the     *)
(* import folder every book is kept in, the destination (a reader over     *)
(* Wi-Fi, or its mounted card), and the steps from a book in hand to a     *)
(* file under its author and title.  apps/crossload/src/copy.rs,           *)
(* prepare.rs, inventory.rs and the last half of sync.rs.                  *)
(*                                                                         *)
(* The same files are looked at and changed by other crossload processes   *)
(* and by their owner, between any two steps.  A file of the destination   *)
(* is named by its folder and name ignoring case; a file of the import     *)
(* folder by where its book came from, whose digest is in its name.        *)
(* CrossPointSend has the requests of one transfer one by one; here it is  *)
(* looking, setting a partial file aside, and giving a whole file its name.*)
(***************************************************************************)
EXTENDS KoboLibrary

CONSTANTS
    Procs,      \* crossload processes
    Commands,   \* what they may be told to do
    Origins,    \* where books come from: the Kobo's books, requests, downloads
    Paths,      \* the places for books at the destination
    Folders,    \* the authors' folders
    FolderOf,   \* the folder of a place
    PathOf,     \* the place for a book with this content
    DeviceCopy, \* the copy for the device that is made of a content
    Resource,   \* the digest of what is inside an EPUB, None for others
    Begins,     \* pairs of a partial content and a whole one that it begins
    Shown,      \* the contents of the formats a reader lists
    Directory,  \* a folder
    FirstTrees, \* what the destination may hold at first
    FirstLocals,\* what the import folder may hold at first
    FirstKobos, \* what the Kobo may hold at first
    OwnerMoves, \* the changes the owner may make: where, and what is there then
    MaxRuns,    \* bound: commands that are run
    MaxMishaps  \* bound: failures, crashes, lost answers and the owner's changes

Places == Paths \union Folders
Entries == Contents \union {Directory, None}

(* A file lies in a folder that is there, and a folder is one or a file.   *)
Trees ==
    {t \in [Places -> Entries] :
        \A path \in Paths : t[path] # None => t[FolderOf[path]] = Directory}

Statuses == {"Present", "Duplicate", "Transfer", "Repair", "Sent", "Repaired",
             "Saved", "Failed"}

ASSUME DeliveryAssumption ==
    /\ Paths \intersect Folders = {}
    /\ Ids \subseteq Origins
    /\ None \notin Origins \union Commands
    /\ None \notin Statuses
    /\ Commands \subseteq [name : {"sync", "import", "get", "acsm", "send"},
                           apply : BOOLEAN, repair : BOOLEAN, exclude : SUBSET Ids,
                           pass : BOOLEAN, origin : Origins \union {None}]
    /\ \A command \in Commands : command.name = "send" => command.origin \in Origins
    /\ Directory \notin Contents \union {None}
    /\ FolderOf \in [Paths -> Folders]
    /\ PathOf \in [Contents -> Paths]
    /\ DeviceCopy \in [Contents -> Contents]
    /\ Begins \subseteq Contents \X Contents
    /\ Shown \subseteq Contents
    /\ FirstTrees \subseteq Trees
    /\ FirstLocals \subseteq [Origins -> Contents \union {None}]
    /\ FirstKobos \subseteq Mounts
    /\ OwnerMoves \subseteq ({"tree"} \X Places \X Entries)
            \union ({"local"} \X Origins \X (Contents \union {None}))
            \union ({"kobo"} \X Ids \X {None})
    /\ MaxRuns \in Nat /\ MaxMishaps \in Nat

VARIABLES
    kind,       \* the destination: "Reader" over Wi-Fi, or a mounted "Card"
    kobo,       \* the files on the Kobo
    tree,       \* the destination: what is at each place
    aside,      \* the destination: partial files that were set aside
    local,      \* the import folder: the book of each origin
    spent,      \* the requests in the archive folder
    job,        \* what each process is doing, and what it reported
    excused,    \* history: books of a job whose failing somebody else explains
    published,  \* history: the origins whose book was in the import folder
    runs,       \* bound: how many commands were run
    faults,     \* bound: how often something failed
    owner       \* bound: how often the owner changed something

disk == <<kobo, tree, aside, local, spent, published>>
bounds == <<runs, faults, owner>>
vars == <<kind, disk, job, excused, bounds>>

NoRows == [o \in Origins |-> None]

Idle == [command |-> None, at |-> "idle", origin |-> None, data |-> None, todo |-> {},
         seen |-> [place \in Places |-> None], unread |-> {}, planned |-> {}, repair |-> FALSE,
         rows |-> NoRows, foretold |-> NoRows]

Init ==
    /\ kind \in {"Reader", "Card"}
    /\ kobo \in FirstKobos
    /\ tree \in FirstTrees
    /\ aside = {}
    /\ local \in FirstLocals
    /\ spent = {}
    /\ job = [p \in Procs |-> Idle]
    /\ excused = [p \in Procs |-> {}]
    /\ published = {}
    /\ runs = 0
    /\ faults = 0
    /\ owner = 0

(* What a process is doing: its command and where it is at, the book it is *)
(* about and those still to come, what it saw at the destination, what it  *)
(* planned or sent, and the report.                                        *)
Steps ==
    {"idle", "scan", "read files", "plan", "dry", "import", "keep", "verify", "fulfil", "save",
     "archive", "read", "folder", "mkdir", "look", "backup", "create"}

Jobs ==
    [command : Commands \union {None}, at : Steps, origin : Origins \union {None},
     data : Contents \union {None}, todo : SUBSET Ids,
     seen : [Places -> Entries], unread : SUBSET Places,
     planned : SUBSET [data : Contents, path : Paths], repair : BOOLEAN,
     rows : [Origins -> Statuses \union {None}], foretold : [Origins -> Statuses \union {None}]]

-----------------------------------------------------------------------------
(* What a file is recognized by: its bytes, and what is inside an EPUB but *)
(* for its metadata and the mark of a device copy.                         *)
Identity(c) == [sha256 |-> c, resources |-> Resource[c]]

(* The same bytes, or the same resources inside. *)
Matches(c, d) ==
    LET a == Identity(c)
        b == Identity(d)
    IN  a.sha256 = b.sha256 \/ (a.resources # None /\ a.resources = b.resources)

(* A file is a copy of a book as it was imported, or as it was prepared. *)
IsCopy(file, data) == file \in Contents /\ (Matches(file, data) \/ Matches(file, DeviceCopy[data]))

(* Two contents have a common copy: they are the same book. *)
SameBook(c, d) == \E x \in {c, DeviceCopy[c]} : IsCopy(x, d)

-----------------------------------------------------------------------------
(* The steps of a job, as functions of its record. *)

(* The device copy of a content, and the author and title it goes under. *)
Prepared(c) == [data |-> DeviceCopy[c], path |-> PathOf[c]]

Target(j) == Prepared(j.data).path
Reported(j, status) == [j EXCEPT !.rows[j.origin] = status]

(* A job goes on with its next book, or is over. *)
Proceed(j) ==
    IF j.todo = {} THEN [j EXCEPT !.at = "idle"]
    ELSE [j EXCEPT !.at = "plan", !.origin = First(j.todo), !.todo = @ \ {First(j.todo)}]

Failed(j) == Proceed(Reported(j, "Failed"))

(* Mutant: what was transferred is not remembered.                         *)
MutantDelivered(j) == Proceed(Reported(j, IF j.repair THEN "Repaired" ELSE "Sent"))

(* Only what was transferred (or planned) is remembered as such. *)
Delivered(j) ==
    Proceed([Reported(j, IF j.repair THEN "Repaired" ELSE "Sent")
             EXCEPT !.planned = @ \union {[data |-> j.data, path |-> Target(j)]}])

(* A job does one thing to itself. *)
Goto(p, at) == job' = [job EXCEPT ![p].at = at]
Fail(p) == job' = [job EXCEPT ![p] = Failed(@)]

(* History: what one process changes excuses the others. *)
Disturb(p) == excused' = [q \in Procs |-> IF q = p THEN excused[q] ELSE Origins]

(* Bound: mishaps of either kind. *)
Mishap == faults + owner < MaxMishaps

(* A process begins with a command; what a dry run of its foretold is kept. *)
Begin(p, j) ==
    /\ job[p].at = "idle"
    /\ runs < MaxRuns
    /\ runs' = runs + 1
    /\ job' = [job EXCEPT ![p] = j]
    /\ excused' = [excused EXCEPT ![p] = {}]
    /\ UNCHANGED <<kind, disk, faults, owner>>

-----------------------------------------------------------------------------
(* The import folder gives a name to a whole file, unless it is taken. *)
SaveAs(p, next) ==
    /\ local[job[p].origin] = None
    /\ local' = [local EXCEPT ![job[p].origin] = job[p].data]
    /\ published' = published \union {job[p].origin}
    /\ job' = [job EXCEPT ![p] = next]
    /\ Disturb(p)
    /\ UNCHANGED <<kind, kobo, tree, aside, spent, bounds>>

(* The name is taken: it depends on the command what that means. *)
SaveTaken(p, next) ==
    /\ local[job[p].origin] # None
    /\ job' = [job EXCEPT ![p] = next]
    /\ UNCHANGED <<kind, disk, excused, bounds>>

-----------------------------------------------------------------------------
(* author_directory, for_author: look for the author's folder. *)
FindFolder(p) ==
    /\ job[p].at = "folder"
    /\ LET folder == tree[FolderOf[Target(job[p])]] IN
       \/ folder = Directory /\ Goto(p, "look")
       \/ folder = None /\ Goto(p, "mkdir")
       \/ folder \in Contents /\ Fail(p)
    /\ UNCHANGED <<kind, disk, excused, bounds>>

(* The folder was not there; it is made, unless a file has its name now. *)
MakeFolder(p) ==
    /\ job[p].at = "mkdir"
    /\ LET folder == FolderOf[Target(job[p])] IN
       \/ /\ tree[folder] = None
          /\ tree' = [tree EXCEPT ![folder] = Directory]
          /\ Goto(p, "look")
          /\ Disturb(p)
       \/ /\ tree[folder] # None
          /\ IF tree[folder] = Directory THEN Goto(p, "look") ELSE Fail(p)
          /\ UNCHANGED <<tree, excused>>
    /\ UNCHANGED <<kind, kobo, aside, local, spent, published, bounds>>

(* Look whether the name is taken: by this very copy, by a file that       *)
(* begins it, which may be set aside if that was asked for, or by another. *)
Look(p) ==
    /\ job[p].at = "look"
    /\ LET j == job[p]
           copy == Prepared(j.data).data
           file == tree[Target(j)] IN
       IF kind = "Reader" /\ copy \notin Shown THEN Fail(p)
       ELSE \/ file = None /\ Goto(p, "create")
            \/ file = copy /\ job' = [job EXCEPT ![p] = Delivered(j)]
            \/ /\ file \notin {None, copy}
               /\ IF kind = "Reader" /\ j.command.repair /\ <<file, copy>> \in Begins
                  THEN job' = [job EXCEPT ![p] = [j EXCEPT !.at = "backup", !.seen[Target(j)] = file]]
                  ELSE Fail(p)
    /\ UNCHANGED <<kind, disk, excused, bounds>>

(* The name of a backup: the place, the book's digest, the partial size. *)
Backup(j) == [path |-> Target(j), data |-> j.data, part |-> j.seen[Target(j)]]
BackupTaken(name) == \E x \in aside : x.name = name

(* Mutant: the partial file is deleted instead of renamed.                 *)
MutantSetAside(p) ==
    /\ job[p].at = "backup"
    /\ tree' = [tree EXCEPT ![Target(job[p])] = None]
    /\ Goto(p, "create")
    /\ Disturb(p)
    /\ UNCHANGED <<kind, kobo, aside, local, spent, published, bounds>>

(* The reader renames the partial file, unless the new name is taken. *)
SetAside(p) ==
    /\ job[p].at = "backup"
    /\ LET j == job[p]
           file == tree[Target(j)] IN
       \/ /\ file \in Contents /\ ~BackupTaken(Backup(j))
          /\ tree' = [tree EXCEPT ![Target(j)] = None]
          /\ aside' = aside \union {[name |-> Backup(j), file |-> file]}
          /\ Goto(p, "create")
          /\ Disturb(p)
       \/ /\ file \notin Contents \/ BackupTaken(Backup(j))
          /\ Fail(p)
          /\ UNCHANGED <<tree, aside, excused>>
    /\ UNCHANGED <<kind, kobo, local, spent, published, bounds>>

(* The whole, verified copy gets its name, unless the name is taken by now. *)
Create(p) ==
    /\ job[p].at = "create"
    /\ LET path == Target(job[p]) IN
       \/ /\ tree[path] = None /\ tree[FolderOf[path]] = Directory
          /\ tree' = [tree EXCEPT ![path] = Prepared(job[p].data).data]
          /\ job' = [job EXCEPT ![p] = Delivered(@)]
          /\ Disturb(p)
       \/ /\ tree[path] # None \/ tree[FolderOf[path]] # Directory
          /\ Fail(p)
          /\ UNCHANGED <<tree, excused>>
    /\ UNCHANGED <<kind, kobo, aside, local, spent, published, bounds>>

(* Over Wi-Fi: the copy got its name, and the answer that says so is lost. *)
AnswerLost(p) ==
    /\ kind = "Reader"
    /\ job[p].at = "create"
    /\ Mishap
    /\ faults' = faults + 1
    /\ LET path == Target(job[p]) IN
       /\ tree[path] = None /\ tree[FolderOf[path]] = Directory
       /\ tree' = [tree EXCEPT ![path] = DeviceCopy[job[p].data]]
    /\ Fail(p)
    /\ excused' = [q \in Procs |-> Origins]
    /\ UNCHANGED <<kind, kobo, aside, local, spent, published, runs, owner>>

-----------------------------------------------------------------------------
(* Reading or writing fails at any step: an unplugged card, a full disk.   *)
(* A transfer that fails late has changed what the inventory says.         *)
Fault(p) ==
    /\ job[p].at \notin {"idle", "scan", "read files", "archive"}
    /\ Mishap
    /\ faults' = faults + 1
    /\ Fail(p)
    /\ excused' = [excused EXCEPT ![p] =
                    IF job[p].at = "create" THEN Origins ELSE @ \union {job[p].origin}]
    /\ UNCHANGED <<kind, disk, runs, owner>>

(* The process is killed, or the computer stops. *)
Stop(p) ==
    /\ job[p].at # "idle"
    /\ Mishap
    /\ faults' = faults + 1
    /\ job' = [job EXCEPT ![p] = Idle]
    /\ UNCHANGED <<kind, disk, excused, runs, owner>>

(* The owner puts, changes and deletes files, in the import folder, at the *)
(* destination and on the Kobo.                                            *)
Owner ==
    /\ Mishap
    /\ owner' = owner + 1
    /\ \E move \in OwnerMoves :
        \/ /\ move[1] = "tree"
           /\ tree' = [tree EXCEPT ![move[2]] = move[3]]
           /\ tree' \in Trees
           /\ UNCHANGED <<local, kobo>>
        \/ /\ move[1] = "local"
           /\ local' = [local EXCEPT ![move[2]] = move[3]]
           /\ UNCHANGED <<tree, kobo>>
        \/ /\ move[1] = "kobo"
           /\ kobo' = [kobo EXCEPT ![move[2]] = move[3]]
           /\ UNCHANGED <<tree, local>>
    /\ excused' = [q \in Procs |-> Origins]
    /\ UNCHANGED <<kind, aside, spent, published, job, runs, faults>>
=============================================================================
