--------------------------- MODULE CrossPointSend ---------------------------
(***************************************************************************)
(* Sending books to a CrossPoint reader over Wi-Fi:                        *)
(* apps/crossload/src/crosspoint.rs, Reader::for_author and                *)
(* Reader::send_with_progress, for several crossload processes at once.    *)
(*                                                                         *)
(* The protocol has no transactions, no delete and no way to ask whether   *)
(* an earlier request was carried out.  Every request of a send is one     *)
(* action.  A request may get lost, or be carried out and its answer get   *)
(* lost; the reader may store a damaged block; its owner and other clients *)
(* change it between two requests; and a process can be killed anywhere.   *)
(*                                                                         *)
(* The contents of a file are a sequence of blocks, one for every window   *)
(* of 64 KiB that the reader acknowledges.  The three kinds of names a     *)
(* send uses never coincide (a book ends in .epub, a staging file in       *)
(* .uploading, a backup in .incomplete-<size>), so the files are three     *)
(* variables.  Names that differ in case only are one name: the listing is *)
(* searched that way, and the reader's volume compares them that way.      *)
(***************************************************************************)
EXTENDS Naturals, Sequences, SequencesExt

CONSTANTS
    Clients,        \* crossload processes (a command, or the interface)
    Blocks,         \* the blocks of files
    Damaged,        \* a block the reader did not store as it was sent
    Books,          \* the books being sent
    Data,           \* the contents of each book
    Folders,        \* author folders (or, without one, the chosen folder)
    Names,          \* file names
    Requests,       \* what a process may be asked to send, and how
    Staging,        \* the random staging names
    OwnContents,    \* contents of the files that were there or the owner adds
    Directory,      \* a directory with the name of a book
    Absent,         \* no file of that name
    MaxSends,       \* bound: how often each process sends
    MaxOwnerMoves   \* bound: how often the owner changes the reader

Contents == Seq(Blocks)
Slots == Folders \X Names

ASSUME DataAssumption ==
    /\ Damaged \in Blocks
    /\ Data \in [Books -> Contents]
    /\ OwnContents \subseteq Contents

ASSUME RequestsAssumption ==
    /\ Requests # {}
    /\ Requests \subseteq [book : Books, slot : Slots, flat : BOOLEAN, repair : BOOLEAN]

ASSUME AbsentAssumption ==
    /\ Absent \notin Contents
    /\ Directory \notin Contents
    /\ Directory # Absent

VARIABLES
    books,      \* the reader: the file at each place a book can have
    backups,    \* the reader: incomplete files that were set aside
    stages,     \* the reader: the file of each staging name
    dirs,       \* the reader: what each folder's name is taken by
    pc,         \* the request each process makes next
    job,        \* what each process is sending
    listed,     \* the size a process saw in the listing
    stage,      \* the staging name a process has drawn
    acked,      \* the blocks the reader acknowledged to a process
    result,     \* how the last send of a process ended
    sends,      \* how often a process has sent
    taken,      \* the staging names drawn so far
    ownerMoves, \* how often the owner changed the reader
    calm        \* the sends nothing went wrong for and nobody came between

reader == <<books, backups, stages, dirs>>
local == <<pc, job, listed, stage, acked, result, sends>>
vars == <<reader, local, taken, ownerMoves, calm>>

Places == {"idle", "author", "mkdir", "folder", "list", "compare", "prefix",
           "backup", "start", "window", "verify", "publish"}

FolderOf(r) == r.slot[1]
Size(r) == Len(Data[r.book])

(* Mutant: a backup's name that leaves out the size of the partial file.   *)
MutantBackupName(c) == <<FolderOf(job[c]), job[c].book>>

(* The backup's name: the folder, the digest of the book, the partial size. *)
BackupName(c) == <<FolderOf(job[c]), job[c].book, listed[c]>>
NameTaken(name) == \E x \in backups : x.name = name

(* A strictly shorter file whose bytes begin the book. *)
Incomplete(file, r) ==
    file \notin {Absent, Directory} /\ Len(file) < Size(r) /\ IsPrefix(file, Data[r.book])

(* What a send that nothing comes between has to be able to deal with. *)
Fit(r) ==
    LET file == books[r.slot] IN
    /\ dirs[FolderOf(r)] \in (IF r.flat THEN {"dir"} ELSE {"dir", "none"})
    /\ \/ file \in {Absent, Data[r.book]}
       \/ /\ r.repair
          /\ Incomplete(file, r)
          /\ ~NameTaken(<<FolderOf(r), r.book, Len(file)>>)

Init ==
    /\ dirs \in [Folders -> {"dir", "file", "none"}]
    /\ books \in [Slots -> OwnContents \union {Absent, Directory}]
    /\ \A slot \in Slots : books[slot] # Absent => dirs[slot[1]] = "dir"
    /\ backups = {}
    /\ stages = [s \in Staging |-> Absent]
    /\ pc = [c \in Clients |-> "idle"]
    /\ job = [c \in Clients |-> CHOOSE r \in Requests : TRUE]
    /\ listed = [c \in Clients |-> 0]
    /\ stage = [c \in Clients |-> Absent]
    /\ acked = [c \in Clients |-> 0]
    /\ result = [c \in Clients |-> "none"]
    /\ sends = [c \in Clients |-> 0]
    /\ taken = {}
    /\ ownerMoves = 0
    /\ calm = {}

(* The send goes on with the request p. *)
Goto(c, p) ==
    /\ pc' = [pc EXCEPT ![c] = p]
    /\ UNCHANGED result

(* The send is over, and says so. *)
End(c, outcome) ==
    /\ pc' = [pc EXCEPT ![c] = "idle"]
    /\ result' = [result EXCEPT ![c] = outcome]

(* The request was carried out; its answer reaches the process, or not. *)
Answered(c, p) == Goto(c, p) \/ End(c, "failed")

-----------------------------------------------------------------------------
(* A process is told to send a book it could read and validate. *)
Begin(c, r) ==
    /\ pc[c] = "idle"
    /\ sends[c] < MaxSends
    /\ pc' = [pc EXCEPT ![c] = IF r.flat THEN "folder" ELSE "author"]
    /\ job' = [job EXCEPT ![c] = r]
    /\ sends' = [sends EXCEPT ![c] = @ + 1]
    /\ result' = [result EXCEPT ![c] = "none"]
    /\ listed' = [listed EXCEPT ![c] = 0]
    /\ stage' = [stage EXCEPT ![c] = Absent]
    /\ acked' = [acked EXCEPT ![c] = 0]
    /\ calm' = IF Fit(r) THEN calm \union {c} ELSE calm \ {c}
    /\ UNCHANGED <<reader, taken, ownerMoves>>

(* for_author: look for the author's folder in the listing. *)
AuthorFolder(c) ==
    /\ pc[c] = "author"
    /\ \/ dirs[FolderOf(job[c])] = "dir" /\ Goto(c, "folder")
       \/ dirs[FolderOf(job[c])] = "file" /\ End(c, "refused")
       \/ dirs[FolderOf(job[c])] = "none" /\ Goto(c, "mkdir")
    /\ UNCHANGED <<reader, job, listed, stage, acked, sends, taken, ownerMoves, calm>>

(* for_author: the folder was not there; ask the reader to make it.  If it *)
(* is there by now, the reader may say so or may be content with it.       *)
MakeFolder(c) ==
    /\ pc[c] = "mkdir"
    /\ LET folder == FolderOf(job[c]) IN
       \/ /\ dirs[folder] = "none"
          /\ dirs' = [dirs EXCEPT ![folder] = "dir"]
          /\ Answered(c, "folder")
          /\ calm' = calm \intersect {c}
       \/ /\ dirs[folder] # "none"
          /\ Answered(c, "folder")
          /\ UNCHANGED <<dirs, calm>>
    /\ UNCHANGED <<books, backups, stages, job, listed, stage, acked, sends, taken,
                   ownerMoves>>

(* check_folder: a missing folder lists like an empty one. *)
CheckFolder(c) ==
    /\ pc[c] = "folder"
    /\ IF dirs[FolderOf(job[c])] = "dir" THEN Goto(c, "list") ELSE End(c, "refused")
    /\ UNCHANGED <<reader, job, listed, stage, acked, sends, taken, ownerMoves, calm>>

(* Mutant: a file of the same size is taken for the book, unread.          *)
MutantList(c) ==
    /\ pc[c] = "list"
    /\ LET file == books[job[c].slot] IN
       \/ file = Absent /\ Goto(c, "start")
       \/ /\ file \notin {Absent, Directory}
          /\ End(c, IF Len(file) = Size(job[c]) THEN "present" ELSE "refused")
    /\ UNCHANGED <<reader, job, listed, stage, acked, sends, taken, ownerMoves, calm>>

(* Look for the name in the folder's listing, which says sizes only. *)
List(c) ==
    /\ pc[c] = "list"
    /\ LET r == job[c]
           file == books[r.slot] IN
       \/ file = Absent /\ Goto(c, "start") /\ UNCHANGED listed
       \/ file = Directory /\ End(c, "refused") /\ UNCHANGED listed
       \/ /\ file \notin {Absent, Directory}
          /\ listed' = [listed EXCEPT ![c] = Len(file)]
          /\ IF Len(file) = Size(r) THEN Goto(c, "compare")
             ELSE IF r.repair /\ Len(file) < Size(r) THEN Goto(c, "prefix")
             ELSE End(c, "refused")
    /\ UNCHANGED <<reader, job, stage, acked, sends, taken, ownerMoves, calm>>

(* Mutant: any file of that name is a conflict.                            *)
MutantCompareRefuses(c) ==
    /\ pc[c] = "compare"
    /\ End(c, "refused")
    /\ UNCHANGED <<reader, job, listed, stage, acked, sends, taken, ownerMoves, calm>>

(* Mutant: a different file is waited for to go away.                      *)
MutantCompareRetries(c) ==
    /\ pc[c] = "compare"
    /\ IF books[job[c].slot] = Data[job[c].book] THEN End(c, "present") ELSE Goto(c, "list")
    /\ UNCHANGED <<reader, job, listed, stage, acked, sends, taken, ownerMoves, calm>>

(* A file of the book's size: it is the book already, or it stays. *)
Compare(c) ==
    /\ pc[c] = "compare"
    /\ End(c, IF books[job[c].slot] = Data[job[c].book] THEN "present" ELSE "refused")
    /\ UNCHANGED <<reader, job, listed, stage, acked, sends, taken, ownerMoves, calm>>

(* Read the shorter file, which has to begin the book being sent. *)
ReadPrefix(c) ==
    /\ pc[c] = "prefix"
    /\ LET file == books[job[c].slot] IN
       IF Incomplete(file, job[c]) /\ Len(file) = listed[c]
       THEN Goto(c, "backup")
       ELSE End(c, "refused")
    /\ UNCHANGED <<reader, job, listed, stage, acked, sends, taken, ownerMoves, calm>>

(* Mutant: the incomplete file is deleted instead of renamed.              *)
MutantSetAside(c) ==
    /\ pc[c] = "backup"
    /\ books' = [books EXCEPT ![job[c].slot] = Absent]
    /\ Answered(c, "start")
    /\ calm' = calm \intersect {c}
    /\ UNCHANGED <<backups, stages, dirs, job, listed, stage, acked, sends, taken, ownerMoves>>

(* The reader renames a file unless the new name is taken. *)
SetAside(c) ==
    /\ pc[c] = "backup"
    /\ LET slot == job[c].slot IN
       IF books[slot] \notin {Absent, Directory} /\ ~NameTaken(BackupName(c))
       THEN /\ books' = [books EXCEPT ![slot] = Absent]
            /\ backups' = backups \union {[name |-> BackupName(c), file |-> books[slot]]}
            /\ Answered(c, "start")
            /\ calm' = calm \intersect {c}
       ELSE End(c, "refused") /\ UNCHANGED <<books, backups, calm>>
    /\ UNCHANGED <<stages, dirs, job, listed, stage, acked, sends, taken, ownerMoves>>

(* START: the reader opens a file under a random name and says READY.  The *)
(* code looks nowhere whether the name is new: that 64 random bits do not  *)
(* come twice is assumed here, and not shown.                              *)
StartUpload(c) ==
    /\ pc[c] = "start"
    /\ \E s \in Staging \ taken :
        /\ taken' = taken \union {s}
        /\ stage' = [stage EXCEPT ![c] = s]
        /\ stages' = [stages EXCEPT ![s] = <<>>]
        /\ Answered(c, "window")
    /\ UNCHANGED <<books, backups, dirs, job, listed, acked, sends, ownerMoves, calm>>

(* One window of frames: stored as it was sent or not, acknowledged or not. *)
UploadWindow(c) ==
    /\ pc[c] = "window"
    /\ acked[c] < Size(job[c])
    /\ stages[stage[c]] # Absent
    /\ \E block \in {Data[job[c].book][acked[c] + 1], Damaged} :
        /\ stages' = [stages EXCEPT ![stage[c]] = Append(@, block)]
        /\ calm' = IF block = Damaged THEN calm \ {c} ELSE calm
    /\ acked' = [acked EXCEPT ![c] = @ + 1]
    /\ Answered(c, "window")
    /\ UNCHANGED <<books, backups, dirs, job, listed, stage, sends, taken, ownerMoves>>

(* Every window was acknowledged: the reader says DONE. *)
UploadDone(c) ==
    /\ pc[c] = "window"
    /\ acked[c] = Size(job[c])
    /\ Goto(c, "verify")
    /\ UNCHANGED <<reader, job, listed, stage, acked, sends, taken, ownerMoves, calm>>

(* Mutant: the reader's DONE is believed.                                  *)
MutantVerify(c) ==
    /\ pc[c] = "verify"
    /\ Goto(c, "publish")
    /\ UNCHANGED <<reader, job, listed, stage, acked, sends, taken, ownerMoves, calm>>

(* Download the staged file and compare it with the book. *)
Verify(c) ==
    /\ pc[c] = "verify"
    /\ IF stages[stage[c]] = Data[job[c].book] THEN Goto(c, "publish") ELSE End(c, "refused")
    /\ UNCHANGED <<reader, job, listed, stage, acked, sends, taken, ownerMoves, calm>>

(* Give the staged file its name, unless that is taken by now. *)
Publish(c) ==
    /\ pc[c] = "publish"
    /\ LET slot == job[c].slot
           file == stages[stage[c]] IN
       IF books[slot] = Absent /\ file # Absent
       THEN /\ books' = [books EXCEPT ![slot] = file]
            /\ stages' = [stages EXCEPT ![stage[c]] = Absent]
            /\ End(c, "sent") \/ End(c, "failed")
            /\ calm' = calm \intersect {c}
       ELSE End(c, "refused") /\ UNCHANGED <<books, stages, calm>>
    /\ UNCHANGED <<backups, dirs, job, listed, stage, acked, sends, taken, ownerMoves>>

(* A request that is not carried out: no connection, no answer in time, an *)
(* error from the reader, the upload's deadline, or the process is killed. *)
Fail(c) ==
    /\ pc[c] # "idle"
    /\ End(c, "failed")
    /\ UNCHANGED <<reader, job, listed, stage, acked, sends, taken, ownerMoves, calm>>

-----------------------------------------------------------------------------
(* The owner, or another program, in the reader's own file manager. *)
OwnerPuts(slot, file) ==
    /\ books[slot] = Absent
    /\ dirs[slot[1]] = "dir"
    /\ books' = [books EXCEPT ![slot] = file]
    /\ UNCHANGED stages

OwnerDeletes(slot) ==
    /\ books[slot] # Absent
    /\ books' = [books EXCEPT ![slot] = Absent]
    /\ UNCHANGED stages

OwnerDeletesStage(s) ==
    /\ stages[s] # Absent
    /\ stages' = [stages EXCEPT ![s] = Absent]
    /\ UNCHANGED books

Owner ==
    /\ ownerMoves < MaxOwnerMoves
    /\ ownerMoves' = ownerMoves + 1
    /\ calm' = {}
    /\ \/ \E slot \in Slots :
            OwnerDeletes(slot) \/ \E file \in OwnContents : OwnerPuts(slot, file)
       \/ \E s \in Staging : OwnerDeletesStage(s)
    /\ UNCHANGED <<backups, dirs, local, taken>>

(* What a process does of its own accord once it has begun. *)
Request(c) ==
    \/ AuthorFolder(c)
    \/ MakeFolder(c)
    \/ CheckFolder(c)
    \/ List(c)
    \/ Compare(c)
    \/ ReadPrefix(c)
    \/ SetAside(c)
    \/ StartUpload(c)
    \/ UploadWindow(c)
    \/ UploadDone(c)
    \/ Verify(c)
    \/ Publish(c)
    \/ Fail(c)

Next ==
    \/ \E c \in Clients :
        \/ \E r \in Requests : Begin(c, r)
        \/ Request(c)
    \/ Owner

Spec == Init /\ [][Next]_vars

(* Every request ends: it is answered, or its timeout or the upload's      *)
(* deadline runs out.  Nobody has to begin a send.                         *)
FairSpec == Spec /\ \A c \in Clients : WF_vars(Request(c))

-----------------------------------------------------------------------------
TypeOK ==
    /\ books \in [Slots -> Contents \union {Absent, Directory}]
    /\ backups \subseteq [name : Folders \X Books \X Nat, file : Contents]
    /\ stages \in [Staging -> Contents \union {Absent}]
    /\ dirs \in [Folders -> {"dir", "file", "none"}]
    /\ pc \in [Clients -> Places]
    /\ job \in [Clients -> Requests]
    /\ listed \in [Clients -> Nat]
    /\ stage \in [Clients -> Staging \union {Absent}]
    /\ acked \in [Clients -> Nat]
    /\ result \in [Clients -> {"none", "sent", "present", "refused", "failed"}]
    /\ sends \in [Clients -> Nat]
    /\ taken \subseteq Staging
    /\ ownerMoves \in Nat
    /\ calm \subseteq Clients

(* A book's place never shows anything but what was there, what the owner  *)
(* put there, and whole books: no failure, crash or second process makes   *)
(* the reader list a part of a book, or a damaged one.                     *)
OnlyWholeBooks ==
    \A slot \in Slots :
        books[slot] \in OwnContents \union {Absent, Directory} \union {Data[b] : b \in Books}

(* When a send reports a book as sent or as already there, the reader has  *)
(* exactly that book at that place at that moment.                         *)
ReportIsTrue ==
    [][\A c \in Clients :
         pc[c] # "idle" /\ result'[c] \in {"sent", "present"} =>
            books'[job[c].slot] = Data[job[c].book]]_vars

(* Whatever earlier sends left behind, a send with nothing coming between  *)
(* its requests is never refused when the name is free, holds the book, or *)
(* (with --repair) holds an incomplete copy whose backup's name is free:   *)
(* running a failed send again gets the book across.                       *)
UndisturbedSucceeds ==
    [][\A c \in Clients : c \in calm /\ pc[c] # "idle" => result'[c] # "refused"]_vars

(* Every send comes to an end. *)
SendsEnd == \A c \in Clients : pc[c] # "idle" ~> pc[c] = "idle"

(* "Unrelated same-name books are never renamed or overwritten"            *)
(* (crosspoint.rs, in send_with_progress): the only file a send moves      *)
(* aside is an incomplete copy of the book it is sending.                  *)
OnlyIncompleteSetAside ==
    [][\A c \in Clients :
         pc[c] = "backup" /\ backups' # backups /\ pc'[c] # "backup" =>
            Incomplete(books[job[c].slot], job[c])]_vars

(* What the owner of the reader can rely on. *)
Shelf == INSTANCE ReaderShelf WITH
    Whole <- {Data[b] : b \in Books},
    shelf <- books,
    aside <- {x.file : x \in backups},
    moves <- ownerMoves

(* Sending implements the shelf's promise: no step of crossload replaces a *)
(* file, shows a part of one, or loses contents.                           *)
ImplementsShelf == Shelf!Spec
=============================================================================
