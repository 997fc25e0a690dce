------------------------------ MODULE Commands ------------------------------
(***************************************************************************)
(* crossload's commands, run by several processes at once over one Kobo,   *)
(* one import folder and one destination, with crashes, failures and an    *)
(* owner who changes things meanwhile: apps/crossload/src/cli.rs.          *)
(***************************************************************************)
EXTENDS KoboSync, Imports

Command(p) ==
    \E command \in Commands :
        \/ command \in SyncCommands /\ StartSync(p, command)
        \/ StartImport(p, command)
        \/ StartGet(p, command)
        \/ StartRequest(p, command)
        \/ StartSend(p, command)

Deliver(p) ==
    \/ FindFolder(p) \/ MakeFolder(p) \/ Look(p) \/ SetAside(p)
    \/ Create(p) \/ AnswerLost(p)

Next ==
    \/ \E p \in Procs :
        Command(p) \/ SyncStep(p) \/ ImportStep(p) \/ Deliver(p) \/ Fault(p) \/ Stop(p)
    \/ Owner

Spec == Init /\ [][Next]_vars

-----------------------------------------------------------------------------
(* What a job has where it is at. *)
Fits(j) ==
    /\ j.at \notin {"idle", "scan", "read files"} => j.origin \in Origins
    /\ j.at \in {"import", "keep", "save", "verify", "folder", "mkdir", "look", "backup", "create", "dry"}
        => j.data \in Contents
    /\ j.at \in {"fulfil", "archive"} => j.origin \in Requests
    /\ j.at = "backup" => j.seen[Target(j)] \in Contents

TypeOK ==
    /\ kind \in {"Reader", "Card"}
    /\ kobo \in Mounts
    /\ tree \in Trees
    /\ local \in [Origins -> Contents \union {None}]
    /\ spent \subseteq Requests
    /\ job \in [Procs -> Jobs]
    /\ excused \in [Procs -> SUBSET Origins]
    /\ runs \in 0..MaxRuns
    /\ faults \in Nat /\ owner \in Nat /\ faults + owner <= MaxMishaps
    /\ published \subseteq Origins
    /\ aside \subseteq [name : [path : Paths, data : Contents, part : Contents], file : Contents]
    /\ \A p \in Procs : Fits(job[p])

(* What the destination shows only changes as ReaderShelf allows: whole    *)
(* books at free places, and partial files set aside with their contents.  *)
Shelf == INSTANCE ReaderShelf WITH
    Slots <- Paths, Whole <- {DeviceCopy[c] : c \in Contents}, Absent <- None,
    shelf <- [path \in Paths |-> tree[path]],
    aside <- {x.file : x \in aside}, moves <- owner

ImplementsShelf == Shelf!Spec

(* The import folder changes only as ImportShelf allows, and requests are  *)
(* only put away for books that were published there.                      *)
Imported == INSTANCE ImportShelf WITH
    Names <- Origins, Whole <- Readable, Absent <- None,
    folder <- local, imported <- published, moves <- owner

ImplementsImports == Imported!Spec

IsSync(p) == job[p].command \in SyncCommands
Applies(p) == IsSync(p) /\ job[p].command.apply

(* When an apply run reports that a book is on the reader, it is: a copy   *)
(* of it is somewhere at the destination at that very moment, however old  *)
(* the inventory is.                                                       *)
PresentIsThere ==
    [][\A p \in Procs, o \in Ids :
        /\ Applies(p)
        /\ job[p].rows[o] = None
        /\ job'[p].rows[o] \in {"Present", "Sent", "Repaired"}
        => \E place \in Places : IsCopy(tree'[place], job'[p].data)]_vars

(* The inventory recognizes books in the formats a reader lists. *)
Recognized(file, data) == file \in Shown /\ IsCopy(file, data)

(* A sync never puts a second copy of a book on the reader: when it gives  *)
(* a book a place, no other place has a copy of it that the inventory      *)
(* recognizes, under whatever name and in whatever packing, be it from     *)
(* before or sent by this run - unless somebody came between.              *)
NoSecondCopy ==
    [][\A p \in Procs, path \in Paths :
        /\ IsSync(p) /\ job'[p] # job[p] /\ excused[p] # Origins
        /\ tree'[path] # tree[path] /\ tree'[path] \in Contents
        => \A place \in Places \ {path} : ~Recognized(tree[place], job[p].data)]_vars

(* What makes it impossible to bring a book to its place: the Kobo does    *)
(* not give it, a reader does not take its format, its name is another     *)
(* book's, the folder's a file's, or two books of the run are in each      *)
(* other's way: for one place, or because the copy of this one was moved   *)
(* aside as the beginning of another.                                      *)
Conflict(p, o) ==
    LET data == Import(kobo, o)
        path == PathOf[data] IN
    \/ ~Importable(kobo, o)
    \/ /\ data # None
       /\ \/ kind = "Reader" /\ DeviceCopy[data] \notin Shown
          \/ local[o] \notin {None, data}
          \/ tree[FolderOf[path]] \in Contents
          \/ tree[path] # None /\ ~Recognized(tree[path], data)
          \/ \E x \in job[p].planned :
                \/ x.path = path /\ ~SameBook(x.data, data)
                \/ IsCopy(job[p].seen[x.path], data)

(* Running sync again recovers from whatever happened before: a book that  *)
(* nobody came between fails for no other reason than such a conflict, and *)
(* never because of what earlier runs, crashes, lost answers, failures of  *)
(* other books and other processes left behind.                            *)
FailuresHaveReasons ==
    [][\A p \in Procs, o \in Ids :
        /\ IsSync(p) /\ o \notin excused'[p]
        /\ job[p].rows[o] # "Failed" /\ job'[p].rows[o] = "Failed"
        => Conflict(p, o)]_vars

(* What a row of a dry run foretells. *)
Foreseen(status) ==
    CASE status = "Transfer" -> "Sent" [] status = "Repair" -> "Repaired" [] OTHER -> status

(* What makes a book fail that a dry run does not look at: whether the     *)
(* reader takes its format, whether the same partial file was set aside    *)
(* before, and whether its copy is set aside as the beginning of another.  *)
Unforeseen(p, o) ==
    LET data == Import(kobo, o) IN
    /\ job[p].rows[o] = "Failed" /\ data # None
    /\ CASE job[p].foretold[o] = "Present" -> \E x \in job[p].planned : IsCopy(job[p].seen[x.path], data)
         [] job[p].foretold[o] = "Transfer" -> kind = "Reader" /\ DeviceCopy[data] \notin Shown
         [] job[p].foretold[o] = "Repair" -> DeviceCopy[data] \notin Shown \/ \E x \in aside : x.name.data = data
         [] OTHER -> FALSE

(* An apply run does what the dry run before it said, when nothing changed *)
(* since and no book of it failed for what a dry run does not look at.     *)
DryRunForetells ==
    \A p \in Procs :
        excused[p] = {} /\ (\A o \in Ids : ~Unforeseen(p, o)) =>
            \A o \in Ids :
                job[p].foretold[o] # None /\ job[p].rows[o] # None =>
                    job[p].rows[o] = Foreseen(job[p].foretold[o])

(* A request is spent only when its book was imported: one whose book was  *)
(* not, because the process was killed, the name was taken or writing it   *)
(* failed, stays pending and can be tried again.                           *)
SpentIsImported == spent \subseteq published

(* What a run sent is skipped by the next one: a book is never reported as *)
(* failed when its very copy is at its place and nothing disturbed the run.*)
VerifiedCopiesAreSkipped ==
    \A p \in Procs, o \in Ids :
        /\ IsSync(p) /\ job[p].rows[o] = "Failed" /\ o \notin excused[p]
        /\ Import(kobo, o) # None /\ local[o] \in {None, Import(kobo, o)}
        => tree[PathOf[Import(kobo, o)]] # DeviceCopy[Import(kobo, o)]
=============================================================================
