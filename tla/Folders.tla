------------------------------- MODULE Folders -------------------------------
(***************************************************************************)
(* Copying into folders that only gain files, correcting a book in them,   *)
(* and deleting from the one that does not: transferred, correct and       *)
(* remove of apps/crossload/src/books.rs and apps/crossload/src/copy.rs,   *)
(* as the jobs of several crossload processes that share a computer and a  *)
(* mounted card.                                                           *)
(*                                                                         *)
(* Every look at a folder and every change of it is a step of its own, so  *)
(* others come between.  The directory capability (external) gives a file  *)
(* its name only when it is whole, and never replaces one; a card is FAT,  *)
(* where two names that differ in case are the same.  Authors' folders,    *)
(* kepubs and conversions of PDFs, which end in the same copy, are left    *)
(* out, and so is what a process shows (Tui).                              *)
(***************************************************************************)
EXTENDS Naturals, FiniteSets

CONSTANTS
    Procs,      \* the processes
    Names,      \* the names files can have
    Fold,       \* a name, ignoring case
    Contents,   \* what a book's file can hold
    BookOf,     \* the book a content is recognized as
    DeviceCopy, \* the device copy that is made of a content
    NameOf,     \* the name a copy of a content gets
    Corrected,  \* what correcting the metadata of a content makes of it
    Later,      \* by corrected file: the name that is tried after another
    None,       \* nothing
    FirstFiles, \* what the folders may hold at first
    MaxJobs,    \* bound: jobs of all processes
    MaxOwner    \* bound: changes the owner makes

Places == {"Local", "Card"}
Entries == [Places -> [Names -> Contents \union {None}]]

Copies == [place : Places, name : Names, content : Contents]

(* FAT, the card's file system: no two names differ in case only. *)
CardFolds(f) ==
    \A n, m \in Names :
        n # m /\ Fold[n] = Fold[m] => f["Card"][n] = None \/ f["Card"][m] = None

ASSUME FoldersAssumption ==
    /\ None \notin Contents
    /\ None \notin Names \union Places \union Copies
    /\ FirstFiles \subseteq {f \in Entries : CardFolds(f)}
    /\ MaxJobs \in Nat /\ MaxOwner \in Nat
    /\ DeviceCopy \in [Contents -> Contents]
    /\ NameOf \in [Contents -> Names]
    /\ Corrected \in [Contents -> Contents \union {None}]
    /\ Later \in [Names -> [Names -> Names \union {None}]]
    /\ \A n \in Names : Later[n][n] # None

VARIABLES
    files,      \* what the folders hold
    known,      \* what each process last read of a folder
    listed,     \* the folders it has read since its last job
    dialog,     \* the book whose dialog is open, as it was then: its copies
    job,        \* what its job is at
    jobs,       \* bound: how many jobs were started
    owner,      \* bound: how often the owner changed something
    disturbed   \* history: folders that lost a file to others since it read them

vars == <<files, known, listed, dialog, job, jobs, owner, disturbed>>

Copy(place, name, content) == [place |-> place, name |-> name, content |-> content]

Idle == [at |-> "idle", book |-> {}, copy |-> None, target |-> None, found |-> None]

(* The copies that what a process read of the folders amounts to. *)
Catalog(read) ==
    {c \in {Copy(place, name, read[place][name]) : place \in Places, name \in Names} :
        c.content # None}

CopiesOf(read, book) == {c \in Catalog(read) : BookOf[c.content] = book}

(* The books that what a process read of the folders amounts to. *)
BooksOf(read) == {CopiesOf(read, BookOf[c.content]) : c \in Catalog(read)}

(* What is on a card, and what was made for one, is a device copy. *)
Optimized(c) == c.place = "Card" \/ \E o \in Contents \ {c.content} : DeviceCopy[o] = c.content

(* Originals before device copies, the computer before the card. *)
Preferred(copies) ==
    {c \in copies : \A d \in copies :
        /\ Optimized(c) => Optimized(d)
        /\ Optimized(c) = Optimized(d) /\ d.place = "Local" => c.place = "Local"}

(* What a copy of a content is at a place: a device copy on the card. *)
Prepared(content, target) == IF target = "Card" THEN DeviceCopy[content] ELSE content

(* The files of a folder whose name is this one, ignoring case. *)
Folded(place, name) == {n \in Names : files[place][n] # None /\ Fold[n] = Fold[name]}

Init ==
    /\ files \in FirstFiles
    /\ known = [p \in Procs |-> [place \in Places |-> [n \in Names |-> None]]]
    /\ listed = [p \in Procs |-> {}]
    /\ dialog = [p \in Procs |-> {}]
    /\ job = [p \in Procs |-> Idle]
    /\ jobs = 0
    /\ owner = 0
    /\ disturbed = [p \in Procs |-> {}]

-----------------------------------------------------------------------------
(* Bound: when no job can follow, nothing is read or chosen any more. *)
MoreJobs == jobs < MaxJobs

(* A process reads a folder, or finds that it cannot.  It may correct a    *)
(* book meanwhile, but does nothing else.                                  *)
List(p, place) ==
    /\ MoreJobs
    /\ job[p].at \in {"idle", "edit", "save"}
    /\ place \notin listed[p]
    /\ \/ known' = [known EXCEPT ![p][place] = files[place]]
       \/ known' = [known EXCEPT ![p][place] = [n \in Names |-> None]]
    /\ listed' = [listed EXCEPT ![p] = @ \union {place}]
    /\ disturbed' = [disturbed EXCEPT ![p] = @ \ {place}]
    /\ UNCHANGED <<files, dialog, job, jobs, owner>>

(* The user opens the dialog of a book on the list.  While folders are     *)
(* read again the list is the old one, as long as none of them was read.   *)
OpenDialog(p) ==
    /\ job[p].at = "idle"
    /\ MoreJobs
    /\ dialog[p] = {}
    /\ listed[p] \in {{}, Places}
    /\ \E book \in BooksOf(known[p]) : dialog' = [dialog EXCEPT ![p] = book]
    /\ UNCHANGED <<files, known, listed, job, jobs, owner, disturbed>>

CloseDialog(p) ==
    /\ dialog[p] # {}
    /\ dialog' = [dialog EXCEPT ![p] = {}]
    /\ UNCHANGED <<files, known, listed, job, jobs, owner, disturbed>>

(* Mutant: the book as it was when its dialog opened. *)
MutantCurrent(p) == {dialog[p]}

(* The book a dialog is about: the list's, if one there has a copy of it,  *)
(* and otherwise still the one it was opened on.                           *)
Current(p) ==
    LET same == {book \in BooksOf(known[p]) : \E c \in book, d \in dialog[p] :
                    c.place = d.place /\ c.name = d.name}
    IN IF same = {} THEN {dialog[p]} ELSE same

(* Copying and deleting are chosen in a dialog, which closes, and wait for *)
(* both folders to be read.                                                *)
MayStart(p) ==
    /\ job[p].at = "idle"
    /\ dialog[p] # {}
    /\ dialog' = [dialog EXCEPT ![p] = {}]
    /\ listed[p] = Places
    /\ MoreJobs
    /\ jobs' = jobs + 1

Goto(p, at) == job' = [job EXCEPT ![p].at = at]

(* A job is over, and the process reads the folders again. *)
Done(p) ==
    /\ job' = [job EXCEPT ![p] = Idle]
    /\ listed' = [listed EXCEPT ![p] = {}]

(* A job stops with an error, at any of its checks. *)
Fail(p) ==
    /\ job[p].at # "idle"
    /\ job' = [job EXCEPT ![p] = Idle]
    /\ UNCHANGED <<files, known, listed, dialog, jobs, owner, disturbed>>

(* The user copies a book to a place where the preferred copy is not. *)
StartCopy(p) ==
    /\ MayStart(p)
    /\ \E book \in Current(p), target \in Places :
        \E c \in Preferred(book) :
            /\ c.place # target
            /\ job' = [job EXCEPT ![p] =
                [at |-> "read", book |-> book, copy |-> c, target |-> target, found |-> None]]
    /\ UNCHANGED <<files, known, listed, owner, disturbed>>

(* Mutant: whatever the file holds now is copied. *)
MutantReadSource(p) ==
    /\ job[p].at = "read"
    /\ LET c == job[p].copy IN
       /\ files[c.place][c.name] # None
       /\ job' = [job EXCEPT ![p].at = "look", ![p].copy.content = files[c.place][c.name]]
    /\ UNCHANGED <<files, known, listed, dialog, jobs, owner, disturbed>>

(* The source must still hold what was recorded of it. *)
ReadSource(p) ==
    /\ job[p].at = "read"
    /\ LET c == job[p].copy IN files[c.place][c.name] = c.content
    /\ Goto(p, "look")
    /\ UNCHANGED <<files, known, listed, dialog, jobs, owner, disturbed>>

(* Whether a file of this name is there already, ignoring case. *)
Look(p) ==
    /\ job[p].at = "look"
    /\ LET there == Folded(job[p].target, NameOf[job[p].copy.content]) IN
       \/ there = {} /\ Goto(p, "create")
       \/ \E n \in there : job' = [job EXCEPT ![p].at = "compare", ![p].found = n]
    /\ UNCHANGED <<files, known, listed, dialog, jobs, owner, disturbed>>

(* The file that is there is this copy: there is nothing to do. *)
Compare(p) ==
    /\ job[p].at = "compare"
    /\ files[job[p].target][job[p].found] = Prepared(job[p].copy.content, job[p].target)
    /\ Done(p)
    /\ UNCHANGED <<files, known, dialog, jobs, owner, disturbed>>

(* Whether the directory capability can give this name to a new file. *)
Free(place, name) == files[place][name] = None /\ (place = "Card" => Folded(place, name) = {})

(* Mutant: the name is taken for free, as it was a moment ago. *)
MutantCreate(p) ==
    /\ job[p].at = "create"
    /\ LET content == job[p].copy.content  target == job[p].target IN
       files' = [files EXCEPT ![target][NameOf[content]] = Prepared(content, target)]
    /\ Done(p)
    /\ UNCHANGED <<known, dialog, jobs, owner, disturbed>>

(* The copy is written and gets its name, if that is still free. *)
Create(p) ==
    /\ job[p].at = "create"
    /\ LET content == job[p].copy.content  target == job[p].target IN
       /\ Free(target, NameOf[content])
       /\ files' = [files EXCEPT ![target][NameOf[content]] = Prepared(content, target)]
    /\ Done(p)
    /\ UNCHANGED <<known, dialog, jobs, owner, disturbed>>

(* Mutant: one of several copies, wherever it is. *)
MutantStartRemove(p) ==
    /\ MayStart(p)
    /\ \E book \in Current(p) : \E c \in book :
        /\ book \ {c} # {}
        /\ job' = [job EXCEPT ![p] =
            [at |-> "check", book |-> book, copy |-> c, target |-> None, found |-> None]]
    /\ UNCHANGED <<files, known, listed, owner, disturbed>>

(* The user deletes a copy of a book on the card: one of several. *)
StartRemove(p) ==
    /\ MayStart(p)
    /\ \E book \in Current(p) : \E c \in book :
        /\ c.place = "Card"
        /\ book \ {c} # {}
        /\ job' = [job EXCEPT ![p] =
            [at |-> "check", book |-> book, copy |-> c, target |-> None, found |-> None]]
    /\ UNCHANGED <<files, known, listed, owner, disturbed>>

(* The file on the card must still hold what was recorded of it. *)
Check(p) ==
    /\ job[p].at = "check"
    /\ files["Card"][job[p].copy.name] = job[p].copy.content
    /\ Goto(p, "delete")
    /\ UNCHANGED <<files, known, listed, dialog, jobs, owner, disturbed>>

(* Folders that lost a file to someone: whoever had read them is disturbed. *)
Disturb(place, but) ==
    disturbed' = [q \in Procs |->
        IF q \notin but /\ place \in listed[q] THEN disturbed[q] \union {place} ELSE disturbed[q]]

Delete(p) ==
    /\ job[p].at = "delete"
    /\ files["Card"][job[p].copy.name] # None
    /\ files' = [files EXCEPT !["Card"][job[p].copy.name] = None]
    /\ Done(p)
    /\ Disturb("Card", {p})
    /\ UNCHANGED <<known, dialog, jobs, owner>>

(* The user corrects the metadata of a local EPUB. *)
StartCorrect(p) ==
    /\ job[p].at = "idle"
    /\ dialog[p] = {}
    /\ MoreJobs
    /\ jobs' = jobs + 1
    /\ \E c \in Catalog(known[p]) :
        /\ c.place = "Local"
        /\ Corrected[c.content] # None
        /\ job' = [job EXCEPT ![p] = [Idle EXCEPT !.at = "edit", !.copy = c]]
    /\ UNCHANGED <<files, known, listed, dialog, owner, disturbed>>

(* Whatever the file holds by now is corrected, if that can be. *)
Edit(p) ==
    /\ job[p].at = "edit"
    /\ LET name == job[p].copy.name IN
       /\ files["Local"][name] # None
       /\ Corrected[files["Local"][name]] # None
       /\ job' = [job EXCEPT ![p].at = "save",
                              ![p].copy = Copy("Local", name, Corrected[files["Local"][name]]),
                              ![p].found = Later[name][name]]
    /\ UNCHANGED <<files, known, listed, dialog, jobs, owner, disturbed>>

(* A name that is taken is left alone, and the next one tried.  After the  *)
(* last one the job fails.                                                 *)
TryNext(p) ==
    /\ job[p].at = "save"
    /\ files["Local"][job[p].found] # None
    /\ Later[job[p].copy.name][job[p].found] # None
    /\ job' = [job EXCEPT ![p].found = Later[job[p].copy.name][@]]
    /\ UNCHANGED <<files, known, listed, dialog, jobs, owner, disturbed>>

(* The corrected book is added; the original stays as it is. *)
Save(p) ==
    /\ job[p].at = "save"
    /\ Free("Local", job[p].found)
    /\ files' = [files EXCEPT !["Local"][job[p].found] = job[p].copy.content]
    /\ Done(p)
    /\ UNCHANGED <<known, dialog, jobs, owner, disturbed>>

(* The user asks for the folders to be read again, which closes a dialog. *)
Refresh(p) ==
    /\ MoreJobs
    /\ job[p].at = "idle"
    /\ listed[p] # {}
    /\ listed' = [listed EXCEPT ![p] = {}]
    /\ dialog' = [dialog EXCEPT ![p] = {}]
    /\ UNCHANGED <<files, known, job, jobs, owner, disturbed>>

(* The owner adds a file, deletes one or puts another in its place. *)
Owner(place, name, content) ==
    /\ owner < MaxOwner
    /\ files[place][name] # content
    /\ content # None /\ place = "Card" => Folded(place, name) \subseteq {name}
    /\ files' = [files EXCEPT ![place][name] = content]
    /\ owner' = owner + 1
    /\ IF files[place][name] = None THEN UNCHANGED disturbed ELSE Disturb(place, {})
    /\ UNCHANGED <<known, listed, dialog, job, jobs>>

Step(p) ==
    \/ \E place \in Places : List(p, place)
    \/ OpenDialog(p) \/ CloseDialog(p)
    \/ StartCopy(p) \/ ReadSource(p) \/ Look(p) \/ Compare(p) \/ Create(p)
    \/ StartRemove(p) \/ Check(p) \/ Delete(p)
    \/ StartCorrect(p) \/ Edit(p) \/ TryNext(p) \/ Save(p)
    \/ Refresh(p) \/ Fail(p)

Next ==
    \/ \E p \in Procs : Step(p)
    \/ \E place \in Places, name \in Names, content \in Contents \union {None} :
        Owner(place, name, content)

Spec == Init /\ [][Next]_vars

-----------------------------------------------------------------------------
Jobs == [at : {"idle", "read", "look", "compare", "create", "check", "delete", "edit", "save"},
         book : SUBSET Copies, copy : Copies \union {None},
         target : Places \union {None}, found : Names \union {None}]

(* A job has the copy it is about, and where it goes or what it found once *)
(* it got that far.                                                        *)
Fits(j) ==
    /\ (j.at = "idle") = (j.copy = None)
    /\ j.at \in {"read", "look", "compare", "create"} => j.target \in Places \ {j.copy.place}
    /\ j.at \in {"compare", "save"} => j.found \in Names
    /\ j.at \in {"check", "delete"} => j.copy.place = "Card"

(* Type correctness, and that a job is at a step that it has the data for: *)
(* only a copy on the card is ever deleted (books::remove), and a copy     *)
(* never goes to the place it is read from (books::transferred).           *)
TypeOK ==
    /\ files \in Entries
    /\ known \in [Procs -> Entries]
    /\ listed \in [Procs -> SUBSET Places]
    /\ dialog \in [Procs -> SUBSET Copies]
    /\ job \in [Procs -> Jobs]
    /\ \A p \in Procs : Fits(job[p])
    /\ jobs \in 0..MaxJobs
    /\ owner \in 0..MaxOwner
    /\ disturbed \in [Procs -> SUBSET Places]

(* What keeps a deletion safe: a process that nobody disturbed knows what  *)
(* is there, a job has the book as the list has it if the list names its   *)
(* copy, and a deletion has another copy of that book to leave.            *)
Remembered ==
    \A p \in Procs : \A place \in listed[p] \ disturbed[p], name \in Names :
        known[p][place][name] # None => files[place][name] = known[p][place][name]
HasItsBook(read, j) ==
    /\ j.copy \in Catalog(read) => j.book = CopiesOf(read, BookOf[j.copy.content])
    /\ j.target # None => j.copy \in Preferred(j.book)
    /\ j.at \in {"check", "delete"} => j.book \ {j.copy} # {}
JobsAreKnown ==
    \A p \in Procs : job[p].at \notin {"idle", "edit", "save"} =>
        listed[p] = Places /\ HasItsBook(known[p], job[p])
IInv == TypeOK /\ CardFolds(files) /\ Remembered /\ JobsAreKnown

OwnersStep == owner' # owner

(* Crossload's folders only gain files, whatever comes between its look at *)
(* a folder and its change of it: the computer's file never goes away nor  *)
(* changes, the card's never changes, and two names on a card never differ *)
(* in case only (copy::copy and the directory capability's create_new).    *)
(* MANUAL.md:841 says otherwise of a correction, "The book is rewritten in *)
(* place ... and then moved over itself"; books::correct adds a file, as   *)
(* its own comment says, and the original stays (README, Disagreements).   *)
OnlyGain ==
    /\ \A name \in Names :
        /\ files["Local"][name] # None => files'["Local"][name] = files["Local"][name]
        /\ files["Card"][name] # None => files'["Card"][name] \in {files["Card"][name], None}
    /\ CardFolds(files')
FoldersOnlyGain == [][OwnersStep \/ OnlyGain]_vars

(* Whatever happens to the source meanwhile, a new file is a copy of what  *)
(* was recorded of a preferred copy of the book the user chose             *)
(* (books::transferred).                                                   *)
AsRecorded ==
    \A p \in Procs, place \in Places, name \in Names :
        job[p].at = "create" /\ job'[p].at = "idle" /\ files'[place][name] # files[place][name] =>
            \E c \in Preferred(job[p].book) : files'[place][name] = Prepared(c.content, place)
CopiedAsRecorded == [][OwnersStep \/ AsRecorded]_vars

(* Some file, anywhere, is this book. *)
Exists(f, book) ==
    \E place \in Places, name \in Names : f[place][name] \in {c \in Contents : BookOf[c] = book}

(* A process that deletes a copy leaves one of the same book, if no folder *)
(* has lost a file to someone else since the process read it, and the copy *)
(* is one that it last read there.  A dialog opened on an older list and a *)
(* folder that could not be read since is the other case (NeverLastCopy).  *)
(* See books::remove, Model::current and the refresh after each job.       *)
LeavesACopy ==
    \A p \in Procs :
        /\ job[p].at = "delete" /\ job'[p].at = "idle" /\ files' # files
        /\ disturbed[p] = {}
        /\ job[p].copy \in Catalog(known[p])
        => Exists(files', BookOf[job[p].copy.content])
UndisturbedKeepsACopy == [][OwnersStep \/ LeavesACopy]_vars

(* books::remove's comment, "never the last copy anywhere": only the owner *)
(* can make a book disappear.                                              *)
NeverLastCopy ==
    [][OwnersStep \/ \A c \in Contents : Exists(files, BookOf[c]) => Exists(files', BookOf[c])]_vars
=============================================================================
