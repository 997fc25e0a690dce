--------------------------------- MODULE Tui ---------------------------------
(***************************************************************************)
(* crossload's terminal interface at work: apps/crossload/src/tui.rs, with *)
(* the model of TuiModel, the tasks it starts and what they do to the      *)
(* places books are kept.                                                  *)
(*                                                                         *)
(* Each key and each message of a task is one action, which is one call of *)
(* App::update: the model's step and everything the app does about the     *)
(* effect it returns.  Tasks run on threads of their own; what one does to *)
(* the disk and the arrival of its message are two steps, and messages of  *)
(* different tasks arrive in any order.                                    *)
(***************************************************************************)
EXTENDS TuiModel, FiniteSets, FiniteSetsExt

CONSTANTS
    Readers,    \* how many books of a place are read at once
    FirstDisks, \* what the places may hold when crossload starts
    Unreliable, \* places that may fail to list, and books that may fail to read
    MaxIds      \* bound: how many jobs, scans and tasks the user asks for

ASSUME ReadersAssumption == Readers \in [Places -> Nat \ {0}]
ASSUME DisksAssumption == FirstDisks \subseteq SUBSET Copies
ASSUME UnreliableAssumption == Unreliable \subseteq Places \union Books

VARIABLES
    ui,         \* the model
    scanning,   \* the discovery in progress; id 0 when there is none
    job,        \* the copy job in progress; id 0 when there is none
    tasks,      \* the tasks in flight
    disk,       \* the copies the places hold
    left,       \* history: what failed books left there, until it is listed
    ended       \* crossload has quit

vars == <<ui, scanning, job, tasks, disk, left, ended>>

Scans ==
    [id : Nat, indexed : BOOLEAN, shown : BOOLEAN,
     found : SUBSET Copies, unreadable : SUBSET Copies,
     queue : [Places -> SUBSET Copies], running : [Places -> Nat],
     done : [Places -> BOOLEAN], status : [Places -> {"checking", "ready", "unavailable"}]]

NewScan(id) ==
    [id |-> id, indexed |-> FALSE, shown |-> FALSE, found |-> {}, unreadable |-> {},
     queue |-> [p \in Places |-> {}],
     running |-> [p \in Places |-> 0],
     done |-> [p \in Places |-> FALSE],
     status |-> [p \in Places |-> "checking"]]
NoScan == NewScan(0)

Jobs ==
    [id : Nat, target : Places \union {None}, pending : SUBSET Copies, cancel : BOOLEAN,
     total : Nat, copied : Nat, failures : Nat]

NewJob(id, target, copies) ==
    [id |-> id, target |-> target, pending |-> copies, cancel |-> FALSE,
     total |-> Cardinality(copies), copied |-> 0, failures |-> 0]
NoJob == NewJob(0, None, {})

Tasks ==
    [kind : {"index", "list", "read", "save", "copy", "remove", "correct", "settings", "test"},
     id : Nat, about : Copies \union {None}, place : Places \union {None},
     found : [known : SUBSET Copies, todo : SUBSET Copies] \union {None},
     result : {"running", "ok", "failed"}]

(* A task, and the copy it is about; a listing is about a place, and what  *)
(* it found is part of its result.                                         *)
Task(kind, id, about) ==
    [kind |-> kind, id |-> id, about |-> about, place |-> None, found |-> None,
     result |-> "running"]
Listing(id, p) == [Task("list", id, None) EXCEPT !.place = p]
Ended(task, result) == [task EXCEPT !.result = result]

Snapshot(s) == [copies |-> s.found, unreadable |-> s.unreadable, status |-> s.status]

(* A job that has begun its next book, which is copied from a copy c. *)
Begun(j, c) == [j EXCEPT !.pending = @ \ {c}]

-----------------------------------------------------------------------------
(* What the app does about the model's effect: m is the model's next       *)
(* state, and s, j and t are what the message itself made of the discovery, *)
(* the job and the tasks.                                                  *)
Perform(m, s, j, t) ==
    /\ ui' = [m EXCEPT !.effect = NoEffect]
    /\ LET e == m.effect IN
       \/ /\ e.kind = "none"
          /\ scanning' = s /\ job' = j /\ tasks' = t
          /\ UNCHANGED ended
       \/ /\ e.kind = "quit"
          /\ ended' = TRUE
          /\ scanning' = s /\ job' = j /\ tasks' = t
       \/ /\ e.kind = "load"
          /\ scanning' = NewScan(m.loading)
          /\ job' = j
          /\ tasks' = t \union {Task("index", m.loading, None)}
          /\ UNCHANGED ended
       \/ /\ e.kind = "work"
          /\ \E c \in e.copies :
              /\ job' = Begun(NewJob(m.busy, e.target, e.copies), c)
              /\ tasks' = t \union {Task("copy", m.busy, c)}
          /\ scanning' = s
          /\ UNCHANGED ended
       \/ /\ e.kind = "remove"
          /\ tasks' = t \union {Task("remove", m.busy, e.copy)}
          /\ scanning' = s /\ job' = j
          /\ UNCHANGED ended

Key(m) == Perform(m, scanning, job, tasks) /\ UNCHANGED <<disk, left>>

(* The app waits for keys, and this panel or dialog is the one they go to. *)
Listens(focus) == ~ended /\ ~ui.pendingQuit /\ Focus(ui) = focus

(* Bound: how many jobs, scans and tasks the user asks for. *)
MayStart == ui.nextId < MaxIds

Init ==
    /\ disk \in FirstDisks
    /\ left = {}
    /\ ended = FALSE
    /\ job = NoJob
    /\ \E firstRun \in BOOLEAN :
        IF firstRun
        THEN /\ ui = NewModel(TRUE)
             /\ scanning = NoScan
             /\ tasks = {}
        ELSE /\ ui = [Refresh(NewModel(FALSE)) EXCEPT !.effect = NoEffect]
             /\ scanning = NewScan(1)
             /\ tasks = {Task("index", 1, None)}

-----------------------------------------------------------------------------
(* Keys. *)

(* Ctrl+C, whatever is on screen. *)
Interrupt == ~ended /\ Key(Quit(ui))

(* q, or Esc while nothing is being copied or deleted. *)
AskToQuit == Listens("list") /\ Key(Quit(ui))

(* Esc during a copy job: stop after the book in progress. *)
StopCopying ==
    /\ Listens("list")
    /\ ui.busy # 0 /\ job.id = ui.busy
    /\ job' = [job EXCEPT !.cancel = TRUE]
    /\ UNCHANGED <<ui, scanning, tasks, disk, left, ended>>

(* r *)
AskRefresh == Listens("list") /\ MayStart /\ Key(Refresh(ui))

(* Enter: the dialog for the marked books, or the highlighted one. *)
OpenCopyDialog ==
    /\ Listens("list") /\ ui.busy = 0
    /\ \E books \in (SUBSET Listed(ui)) \ {{}} : Key([ui EXCEPT !.action = books])

(* d: the dialog that lists a book's copies. *)
OpenCopies ==
    /\ Listens("list") /\ ui.busy = 0
    /\ \E book \in Listed(ui) : Key([ui EXCEPT !.copies = book])

(* e: correct the metadata of a book with a local EPUB. *)
OpenCorrection ==
    /\ Listens("list") /\ ui.busy = 0
    /\ \E c \in ui.catalog.copies :
        /\ c.place = "Local" /\ c.form \in {"epub", "corrected"}
        /\ Key([ui EXCEPT !.correcting = c.book])

OpenSettings == Listens("list") /\ Key([ui EXCEPT !.settings = "open"])

PressTarget ==
    /\ Listens("action") /\ MayStart
    /\ \E target \in Places : \E m \in ChooseTarget(ui, target) : Key(m)

PressYes == Listens("ask") /\ MayStart /\ Key(StartCopying(ui, ui.ask.target))

(* Esc and q close what is open, one thing at a time. *)
CloseAsk == Listens("ask") /\ Key([ui EXCEPT !.ask = None])
CloseAction == Listens("action") /\ Key([ui EXCEPT !.action = {}])
CloseCopies == Listens("copies") /\ Key([ui EXCEPT !.copies = {}])
CloseCorrection ==
    Listens("correcting") /\ ui.configuring = 0 /\ Key([ui EXCEPT !.correcting = None])
CloseSettings ==
    /\ Listens("settings") /\ ui.configuring = 0
    /\ LET closed == [ui EXCEPT !.settings = "closed"]
       IN  Key(IF ui.settings = "first" THEN Refresh(closed) ELSE closed)

(* A digit in the dialog of copies, then y, or anything else. *)
AskRemoval ==
    /\ Listens("copies")
    /\ LET book == Current(ui, ui.copies)
       IN  \E c \in book : Removable(ui, book, c) /\ Key([ui EXCEPT !.confirm = c])
PressConfirm == Listens("confirm") /\ MayStart /\ Key(ConfirmRemoval(ui))
RefuseRemoval == Listens("confirm") /\ Key([ui EXCEPT !.confirm = None])

CorrectedCopy(b) == [book |-> b, place |-> "Local", form |-> "corrected"]

(* Saving a correction, and the settings' save, detection and reader test. *)
RunCorrection ==
    /\ Listens("correcting") /\ MayStart /\ ui.configuring = 0
    /\ ui' = [ui EXCEPT !.nextId = @ + 1, !.configuring = ui.nextId + 1]
    /\ tasks' = tasks \union {Task("correct", ui.nextId + 1, CorrectedCopy(ui.correcting))}
    /\ UNCHANGED <<scanning, job, disk, left, ended>>
RunSettings ==
    /\ Listens("settings") /\ MayStart /\ ui.configuring = 0
    /\ ui' = [ui EXCEPT !.nextId = @ + 1, !.configuring = ui.nextId + 1]
    /\ \E kind \in {"settings", "test"} :
        tasks' = tasks \union {Task(kind, ui.nextId + 1, None)}
    /\ UNCHANGED <<scanning, job, disk, left, ended>>

Keys ==
    \/ Interrupt \/ AskToQuit \/ StopCopying \/ AskRefresh
    \/ OpenCopyDialog \/ OpenCopies \/ OpenCorrection \/ OpenSettings
    \/ PressTarget \/ PressYes \/ AskRemoval \/ PressConfirm \/ RefuseRemoval
    \/ CloseAsk \/ CloseAction \/ CloseCopies \/ CloseCorrection \/ CloseSettings
    \/ RunCorrection \/ RunSettings

-----------------------------------------------------------------------------
(* What tasks do, each on its own thread. *)

(* A location is listed: what the cache knows, and what is to be read. *)
ListPlace(task) ==
    /\ task.kind = "list"
    /\ LET here == {c \in disk : c.place = task.place} IN
       \/ /\ \E known \in SUBSET here :
                tasks' = (tasks \ {task}) \union
                         {[Ended(task, "ok") EXCEPT !.found = [known |-> known, todo |-> here \ known]]}
          /\ left' = left \ here
       \/ /\ task.place \in Unreliable
          /\ tasks' = (tasks \ {task}) \union {Ended(task, "failed")}
          /\ UNCHANGED left
    /\ UNCHANGED disk

(* The EPUB made of a PDF, which is kept on the computer. *)
Made(c) == IF c.form = "poor" THEN {[c EXCEPT !.place = "Local", !.form = "epub"]} ELSE {}

(* What a copy adds: a device copy on a reader, and the EPUB made of a PDF. *)
Added(c, target) ==
    IF target # "CrossPoint" THEN {[c EXCEPT !.place = target]}
    ELSE {[c EXCEPT !.place = target, !.form = "device"]} \union Made(c)

(* What a copy that fails can leave: nothing; the EPUB, which is published *)
(* before it is sent; or all of it, when the reader's last answer is lost. *)
LeftBehind(c, target) == {{}} \union (IF target = "CrossPoint" THEN {Made(c), Added(c, target)} ELSE {})

(* A book goes from where it is to another place. *)
CopyBook(task) ==
    /\ task.kind = "copy"
    /\ LET copies == task.about \in disk /\ task.about.place # job.target IN
       \/ /\ copies
          /\ disk' = disk \union Added(task.about, job.target)
          /\ tasks' = (tasks \ {task}) \union {Ended(task, "ok")}
          /\ UNCHANGED left
       \/ /\ tasks' = (tasks \ {task}) \union {Ended(task, "failed")}
          /\ \E some \in (IF copies THEN LeftBehind(task.about, job.target) ELSE {{}}) :
                disk' = disk \union some /\ left' = left \union (some \ disk)

RemoveCopy(task) ==
    /\ task.kind = "remove"
    /\ \/ /\ task.about \in disk /\ task.about.place = "CrossPoint"
          /\ disk' = disk \ {task.about}
          /\ left' = left \ {task.about}
          /\ tasks' = (tasks \ {task}) \union {Ended(task, "ok")}
       \/ /\ tasks' = (tasks \ {task}) \union {Ended(task, "failed")}
          /\ UNCHANGED <<disk, left>>

(* The corrected book is added; the original stays as it is. *)
CorrectBook(task) ==
    /\ task.kind = "correct"
    /\ \/ /\ disk' = disk \union {task.about}
          /\ tasks' = (tasks \ {task}) \union {Ended(task, "ok")}
       \/ /\ tasks' = (tasks \ {task}) \union {Ended(task, "failed")}
          /\ UNCHANGED disk
    /\ UNCHANGED left

Threads ==
    /\ ~ended
    /\ \E task \in tasks :
        /\ task.result = "running"
        /\ ListPlace(task) \/ CopyBook(task) \/ RemoveCopy(task) \/ CorrectBook(task)
    /\ UNCHANGED <<ui, scanning, job, ended>>

-----------------------------------------------------------------------------
(* Messages. *)

Indexed(task) ==
    /\ task.kind = "index"
    /\ scanning.id = task.id
    /\ scanning' = [scanning EXCEPT !.indexed = TRUE]
    /\ tasks' = (tasks \ {task}) \union {Listing(task.id, p) : p \in Places}
    /\ UNCHANGED <<ui, job, disk, left, ended>>

(* Mutant: all books of a location are read at once.                       *)
MutantBatches(s, p) == {s.queue[p]}

(* The books of a place that are read next, as many as it allows.  At the  *)
(* other places nothing has changed: they read as many as they may.        *)
Batches(s, p) ==
    LET room == Min({Readers[p] - s.running[p], Cardinality(s.queue[p])})
    IN  {batch \in SUBSET s.queue[p] : Cardinality(batch) = room}

(* Mutant: a location is done when nothing of it waits to be read. *)
MutantSettle(s, p) ==
    IF s.done[p] \/ s.queue[p] # {} THEN s
    ELSE [s EXCEPT !.done[p] = TRUE, !.status[p] = "ready"]

(* A location is done when it is listed and every book of it was read. *)
Settle(s, p) ==
    IF s.done[p] \/ s.running[p] > 0 \/ s.queue[p] # {} THEN s
    ELSE [s EXCEPT !.done[p] = TRUE, !.status[p] = "ready"]

(* Show the library when it is time to, or when a location is done; when   *)
(* all of them are, save the cache and forget the discovery.  s is the     *)
(* discovery so far, before is what it was, t the tasks.                   *)
Report(s, before, t) ==
    \E due \in BOOLEAN :
        /\ due => s.shown \/ s.found # {}
        /\ ~s.shown /\ s.found # {} => due
        /\ LET shows == due \/ s.done # before.done
               over == s.done # before.done /\ \A p \in Places : s.done[p]
               next == [s EXCEPT !.shown = @ \/ shows]
           IN  Perform(IF shows THEN Catalog(ui, s.id, Snapshot(s)) ELSE ui,
                       IF over THEN NoScan ELSE next,
                       job,
                       IF over THEN t \union {Task("save", s.id, None)} ELSE t)

(* Read more of a place, after a message about it, and report. *)
Continue(s, p, t) ==
    \E batch \in Batches(s, p) :
        LET more == [s EXCEPT !.queue[p] = @ \ batch, !.running[p] = @ + Cardinality(batch)]
        IN  Report(Settle(more, p), s, t \union {Task("read", s.id, c) : c \in batch})

(* Mutant: nobody asks whether a listing was the last thing to wait for. *)
MutantListingIn(task) ==
    /\ task.kind = "list" /\ task.result # "running"
    /\ scanning.id = task.id
    /\ LET p == task.place
           t == tasks \ {task}
       IN  IF task.result = "failed"
           THEN Report([scanning EXCEPT !.done[p] = TRUE, !.status[p] = "unavailable"], scanning, t)
           ELSE LET s == [scanning EXCEPT !.found = @ \union task.found.known,
                                          !.queue[p] = @ \union task.found.todo]
                IN  \E batch \in Batches(s, p) :
                    LET more == [s EXCEPT !.queue[p] = @ \ batch, !.running[p] = @ + Cardinality(batch)]
                    IN  Report(more, more, t \union {Task("read", s.id, c) : c \in batch})
    /\ UNCHANGED <<disk, left>>

ListingIn(task) ==
    /\ task.kind = "list" /\ task.result # "running"
    /\ scanning.id = task.id
    /\ LET p == task.place
           t == tasks \ {task}
       IN  IF task.result = "failed"
           THEN Report([scanning EXCEPT !.done[p] = TRUE, !.status[p] = "unavailable"], scanning, t)
           ELSE Continue([scanning EXCEPT !.found = @ \union task.found.known,
                                          !.queue[p] = @ \union task.found.todo], p, t)
    /\ UNCHANGED <<disk, left>>

(* A book was read, or reading it went wrong and it is left out. *)
Read(task) ==
    /\ task.kind = "read"
    /\ scanning.id = task.id
    /\ LET c == task.about
           s == [scanning EXCEPT !.running[c.place] = @ - 1]
           t == tasks \ {task}
       IN  \/ Continue([s EXCEPT !.found = @ \union {c}], c.place, t)
           \/ /\ c.book \in Unreliable
              /\ Continue([s EXCEPT !.unreadable = @ \union {c}], c.place, t)
    /\ UNCHANGED <<disk, left>>

Saved(task) ==
    /\ task.kind = "save"
    /\ Perform(CatalogFinished(ui, task.id), scanning, job, tasks \ {task})
    /\ UNCHANGED <<disk, left>>

(* How a job went: one book's failure is the job's, of several only some. *)
Succeeded(j) == ~(j.total = 1 /\ j.failures = 1)

(* Mutant: a failed book of a set is not counted.                          *)
MutantCopied(task) ==
    /\ task.kind = "copy" /\ task.result # "running"
    /\ job.id = task.id
    /\ LET t == tasks \ {task}
           j == IF task.result = "ok" THEN [job EXCEPT !.copied = @ + 1] ELSE job
       IN  IF j.cancel \/ j.pending = {}
           THEN Perform(Finished(ui, j.id, Succeeded(j)), scanning, NoJob, t)
           ELSE \E c \in j.pending :
                   /\ job' = Begun(j, c)
                   /\ tasks' = t \union {Task("copy", j.id, c)}
                   /\ UNCHANGED <<ui, scanning, ended>>
    /\ UNCHANGED <<disk, left>>

(* One book of the job is done: the next one, unless the job was stopped. *)
Copied(task) ==
    /\ task.kind = "copy" /\ task.result # "running"
    /\ job.id = task.id
    /\ LET t == tasks \ {task}
           j == IF task.result = "ok" THEN [job EXCEPT !.copied = @ + 1]
                ELSE [job EXCEPT !.failures = @ + 1]
       IN  IF j.cancel \/ j.pending = {}
           THEN Perform(Finished(ui, j.id, Succeeded(j)), scanning, NoJob, t)
           ELSE \E c \in j.pending :
                   /\ job' = Begun(j, c)
                   /\ tasks' = t \union {Task("copy", j.id, c)}
                   /\ UNCHANGED <<ui, scanning, ended>>
    /\ UNCHANGED <<disk, left>>

Removed(task) ==
    /\ task.kind = "remove" /\ task.result # "running"
    /\ Perform(Finished(ui, task.id, task.result = "ok"), scanning, job, tasks \ {task})
    /\ UNCHANGED <<disk, left>>

CorrectionDone(task) ==
    /\ task.kind = "correct" /\ task.result # "running"
    /\ Perform(Corrected(ui, task.id, task.result = "ok"), scanning, job, tasks \ {task})
    /\ UNCHANGED <<disk, left>>

(* Settings were saved or not, or a test or a search for Kobos is over. *)
SettingsDone(task) ==
    /\ task.kind \in {"settings", "test"}
    /\ \E saved \in (IF task.kind = "settings" THEN BOOLEAN ELSE {FALSE}) :
        Perform(Configured(ui, task.id, saved), scanning, job, tasks \ {task})
    /\ UNCHANGED <<disk, left>>

Messages ==
    /\ ~ended
    /\ \E task \in tasks :
        \/ Indexed(task) \/ ListingIn(task) \/ Read(task) \/ Saved(task)
        \/ Copied(task) \/ Removed(task) \/ CorrectionDone(task) \/ SettingsDone(task)

Next == Keys \/ Threads \/ Messages

Spec == Init /\ [][Next]_vars

(* Every task ends and its message arrives; nobody has to press a key. *)
FairSpec == Spec /\ WF_vars(Threads \/ Messages)

-----------------------------------------------------------------------------
ScanKinds == {"index", "list", "read", "save"}
Flying(kinds) == {task \in tasks : task.kind \in kinds}

TypeOK ==
    /\ ui \in Models /\ ui.effect = NoEffect
    /\ scanning \in Scans /\ \A p \in Places : scanning.running[p] <= Readers[p]
    /\ job \in Jobs
    /\ tasks \subseteq Tasks
    /\ disk \subseteq Copies /\ left \subseteq disk
    /\ ended \in BOOLEAN

(* Nothing is forgotten and nothing comes late: what the interface waits   *)
(* for is exactly what is in flight, so no message of an earlier scan or   *)
(* job can arrive, and one thing at a time changes the places.             *)
WaitsForWhatRuns ==
    /\ {task.id : task \in Flying({"copy", "remove"})} = {ui.busy} \ {0}
    /\ Cardinality(Flying({"copy", "remove"})) <= 1
    /\ {task.id : task \in Flying({"correct", "settings", "test"})} = {ui.configuring} \ {0}
    /\ {task.id : task \in Flying(ScanKinds)} = {ui.loading} \ {0}
    /\ Flying({"save"}) # {} <=> ui.loading # 0 /\ scanning.id = 0
    /\ scanning.id \in {0, ui.loading}
    /\ \A p \in Places :
        /\ scanning.running[p] = Cardinality({t \in Flying({"read"}) : t.about.place = p})
        /\ scanning.queue[p] # {} => scanning.running[p] = Readers[p]
    /\ Flying({"correct"}) # {} => ui.busy = 0

(* "q quits, waiting for active work": crossload never ends with a copy, a *)
(* deletion, a correction, saved settings or the cache half done.          *)
QuitIsClean == ended => tasks = {}

(* Every book of a job is copied, failed, being copied or still to come. *)
JobAddsUp ==
    job.id # 0 => job.copied + job.failures + Cardinality(job.pending) + 1 = job.total

(* What the places hold that somebody was told of, or that was listed. *)
Noted == disk \ left

(* When nothing runs, the list says what the places hold, whatever was     *)
(* copied, deleted or corrected while they were being read.  Only what a   *)
(* book that was reported as failed has left there is missing, until its   *)
(* place is listed again: nobody asks for that when a job of one fails.    *)
ListIsCurrent ==
    tasks = {} /\ ~ended /\ ui.settings # "first" =>
        \A p \in Places : ui.catalog.status[p] = "ready" =>
            {c \in ui.catalog.copies \union ui.catalog.unreadable : c.place = p}
                = {c \in Noted : c.place = p}

(* Nobody else deletes here: crossload never deletes the last copy of a    *)
(* book, however old the list is that a dialog was opened on.  It may when *)
(* the place could not be read again: then the dialog's copies count.      *)
LastCopyStays ==
    [][\A c \in disk : ui.catalog.status[c.place] = "ready"
                         => \E d \in disk' : d.book = c.book]_vars

(* A copy leaves the list only when all locations were read again: the     *)
(* list on screen is never replaced by a part of the next one.             *)
ListedUntilReadAgain ==
    [][\A c \in ui.catalog.copies \ ui'.catalog.copies :
         scanning.id = 0 /\ Flying({"save"}) # {}]_vars

(* "A refresh asked for while something is already running is remembered   *)
(* rather than refused, and happens as soon as that work finishes."        *)
RefreshIsServed == ui.pendingRefresh ~> ~ui.pendingRefresh \/ ended

(* A quit that had to wait happens. *)
QuitIsServed == ui.pendingQuit ~> ended

(* Every discovery comes to an end, whatever fails to list or to read. *)
ScanEnds == ui.loading # 0 ~> ui.loading = 0

(* "One that will convert badly [...] asks for a y first, naming what is   *)
(* wrong with it" (MANUAL.md): such a PDF is only copied to a reader after *)
(* a question about a book of the dialog it was chosen in.                 *)
BadPdfIsAskedAbout ==
    [][job.id = 0 /\ job'.id # 0 /\ job'.target = "CrossPoint"
         /\ (\E task \in tasks' \ tasks : task.kind = "copy" /\ task.about.form = "poor")
       => ui.ask # None /\ ui.ask.about \in ui.action]_vars
=============================================================================
