# crossload in TLA+

crossload finds the e-books on a computer, a Kobo and a CrossPoint reader, shows
which of them are the same book, and copies them from one place to another. It
promises never to overwrite a book, never to list half of one, and never to
delete the last copy. This directory models the parts of crossload on which those
promises depend, checks them with TLC on small instances and proves the most
important ones with TLAPS for all instances.

`PROJECT.json` lists the runs, the theorems, the source lines of every definition,
and the hazards of the code with the properties that watch them.

    tlc -workers 2 -config MCFolders.cfg MCFolders.tla
    tlapm Folders_proofs.tla

## 1. The system

Paths are below `apps/crossload/src` unless they start with `run-crossload` or `caps`.

| Component | State | Operations | What must hold |
|---|---|---|---|
| CrossPoint sending (`crosspoint.rs`) | on the reader: books, staging files, files set aside, folders; in a process: the request it is at, what it saw listed | `for_author`, `send_with_progress`, `upload`, `verify`, `rename` | a book's name shows a whole book or nothing of ours; two uploads never share a file; a report of success is true; a retry is not stuck |
| Discovery: budget (`books.rs` `Budget`, `Claim`) | free memory, claims, sleepers on a condition variable | `claim`, drop of a claim | memory is bounded; nobody sleeps who could go on |
| Discovery: catalog (`books.rs` `Scan`, `merge`) | the books so far | `listed`, `book`, `merge` | the books do not depend on the order of answers; no copy is lost |
| Discovery: app (`tui.rs` `read_more`, `settle`) | queues, running readers, what is done | listing, reading, finishing | every copy is read; the discovery ends |
| Terminal interface (`tui/model.rs`, `tui.rs`) | the model, its dialogs, ids of what runs, a copy job, tasks in flight | one key or one message at a time | it waits for what runs and nothing else; the list gets current; a waiting quit or refresh happens |
| Copying and deleting (`books.rs` `transferred`, `remove`; `copy.rs`) | the folders, and what each process remembers of them | copy a book, delete a copy on the card | nothing is replaced; the copy is of what was chosen; a copy of a book stays |
| Kobo library (`kobo.rs`, `caps/kobo*`) | what a Kobo's mount holds | which books there are, whose keys open a file, import, publish | a book is decrypted with its own keys and validated before it gets a name |
| Kobo sync (`sync.rs`, `inventory.rs`) | inventory, plan, local imports | dry run or apply | a dry run foretells; a second run recovers from a first one that failed; no book is sent twice |
| ACSM (`acsm.rs`), catalogues (`opds.rs`) | pending requests, archive, import folder | fulfil, publish, archive; download, save, pass on | a paid book is published; a request is spent only with its book |
| Record and cache (`history.rs`, `cache.rs`) | one file each | read, change, replace | the record is bounded and in order; an identity taken from the cache is that of the book that is there |
| Settings (`config.rs`, `tui/settings.rs`) | one file, the panel's draft | read, merge, unset, save | a save changes what it is about and nothing else |
| Native program (`run-crossload/src/main.rs`, `lock.rs`) | the lock held since the start | make folders, lock, run, restart | nothing is used outside the lock; a restart is a fresh start |
| Formats, preparation, drawing, arguments | none that lasts | parsing, conversion, text | pure functions and I/O |

The interface runs one thread that handles keys and messages, and starts tasks on
other threads: listings, readings, one copy or deletion, one correction, one
saving of settings. Tasks answer with messages that carry the id of what they
belong to. The processes of several crossloads share folders, the card and the
reader, and nothing keeps them apart but the rules of the file operations: a file
gets its name when it is whole, and only when the name is free. They also share
three small files of crossload's own, the settings, the record of copies and the
cache of identities, each of which is read as a whole and replaced as a whole.

What is hard in it: several processes and the owner between any two file
operations; a reader on Wi-Fi that loses answers and stores damaged blocks; a
process that is killed; answers of parallel tasks in any order; a list on screen
that is older than the folders; work that waits for other work. The list of
`hazards` in `PROJECT.json` puts each at its line.

## 2. The modules

    ReaderShelf   <- refined by -  CrossPointSend      (proofs: CrossPointSend_proofs)
    ReaderShelf, ImportShelf  <- refined by -  Commands  (proofs: Commands_proofs)
    ReadBudget, Catalog  <- composed by -  Discovery   (proofs: ReadBudget_, Catalog_, Discovery_proofs)
    TuiModel      <- used by -     Tui                 (proofs: Tui_proofs)
    Folders                                            (proofs: Folders_proofs)
    KoboLibrary <- Delivery <- KoboSync, Imports <- composed by - Commands
    Settings <- Lock, SharedFiles  <- composed by -  Sessions  (proofs: Sessions_proofs)

Each `MC...` module instantiates the one it is named after for TLC. Operators whose
name starts with `Mutant` are bugs somebody might plausibly write; no specification
uses them. Putting one in place of the operator it is named after must break the
property that `PROJECT.json` pairs it with, and so shows that the property can fail.

**ReaderShelf** is the promise to the owner of a reader: crossload may give a free
place one whole book in one step, may move a file aside and keep it, and nothing
else. The owner may do anything.

**ImportShelf** is the promise to the owner of the import folder: crossload gives a free
name one whole book in one step and does nothing else to the folder, and a request is put
away only for a book that was given its name. `Commands` implements both promises at once.

**CrossPointSend** is `crosspoint.rs`. One action per HTTP request or upload window
of a process: the author's folder, the listing, the comparison of a file of the
same size, the repair of an incomplete one, the upload, the readback, the rename.
`books`, `stages`, `backups` and `dirs` are what the reader holds; `pc`, `job`,
`listed`, `stage` and `acked` are the local variables of `send_with_progress`. Every
request can be carried out and its answer lost, or fail (`Fail`), blocks can be
stored damaged, a process can stop anywhere and the user can try again. The reader
itself is external: what its endpoints do is taken from how the code uses them and
from the simulated reader in `spec/src/reader.rs`. Random staging names are drawn
from a set and never again: that they do not collide is assumed, no property is about it,
and `OnlyWholeBooks` rests on it.

**ReadBudget** is `Budget::claim` and the drop of `Claim`: a claim of three times the
size of a book, cut off at the whole budget, with the multiplication saturating at the
machine's word (`MaxWord`). A critical section under the mutex is one step; sleeping
and waking are steps, and a wake-up can be spurious.

**Catalog** is `merge`, called with one read copy after the other: books that share a
digest with it, of itself or of the device copy that would be made of it, become one.
Taking a book out of the list, merging it and pushing the result are separate steps,
as the loop takes them.

**Discovery** composes the two with the queues and readers of `tui.rs`: three places
list or fail to, up to `Readers[place]` tasks read at a time, each claims memory first,
and what it read is merged when its message is handled.

**TuiModel** and **Tui** are the interface. `TuiModel` is `Model::update` without its
screen: a record and functions from one to the next, whose field `effect` says what
the app is to do. `Tui` is the app (`tui.rs`): it performs effects, keeps the tasks in
flight, and turns their results into messages. `Tui`'s keys offer every book where the
code offers the one under the cursor or the marked ones, so cursor, marks, search,
filter and sort are left out without excluding a behaviour. Copies that could not be
read are kept as `unreadable`, and still count when a copy is deleted. A PDF and the EPUB
made of it are one book of the model, where the code has a row for each. The result of a
discovery (`CatalogFinished`) is only ever a success in this app, so its error is not
modelled. A copy that fails (`LeftBehind`) may leave nothing, the EPUB made of a PDF, which
is published before the send (`books.rs:1084`), or all of it, when the reader carries out
the last rename and its answer is lost. A job of one book that fails causes no refresh, so
what it left is listed only when somebody asks: the history variable `left` keeps it until
its place is listed again.

**Folders** is `transferred`, `copy`, `correct` and `remove` for the computer's folder
and a mounted card, as jobs of several processes: start on the catalog, read the source
and compare its digest, look for the name ignoring case, compare or create, or check and
delete. A correction reads the book that the panel was opened on, edits it, and tries
one name after the other until one is free (`TryNext`; in the code a hundred, here
the names of the instance in the order that `Later` gives). Each is a step, and other
processes and the owner come between. `known` is what a process read of a folder at its
last discovery, which is one step here (`Discovery` has its order), and a folder may be read
again while a correction runs, as in the interface. A copy or deletion is chosen in a
dialog, which may be opened on the old list while the folders are read again, and starts
when that is over. A dialog is about the list's book if that still has one of the dialog's
copies, and otherwise about the book it was opened on, however old that is (`Current`,
`tui/model.rs:336`); the job keeps that book. `Fail` stands for each error return.
The creation of a file that must not exist is external: it fails if the name is taken,
on a card (FAT) also in another case. `disturbed` is a history variable for the
statement of what a deletion can rely on.

**KoboLibrary** is `kobo.rs` as functions of what a mount holds: the books from the
store and outside it, whose keys open a file (`Volume`: a file outside the store only
when it is byte for byte the one that was bought), and what an import makes of it.

**Delivery** has what all commands that bring a book to a device share: the import folder,
the destination (over Wi-Fi or a card), the author's folder, the look at the name, a
partial file set aside, and the whole file getting its name. What a run has left to do is a
set, of which it takes the first by title. A transfer's requests one by
one are `CrossPointSend`; here a transfer is looking, setting aside and naming, each a step,
with a failure, a lost answer, a kill or the owner between any two. `excused` is a history
variable: the books of a run whose failing somebody else explains.

**KoboSync** is one run of `sync.rs`: list the destination, read it file by file, and for
each book of the Kobo by title decide (`Decide`), and then either foretell (`DryRun`) or
import, read back and deliver. **Imports** is the other ways a book comes in: `kobo
import`, an ACSM request (fulfil and validate, save, archive, each a step that can fail or
be the last), and a catalogue's download (`Fetch` follows redirects within what may be asked
for). **Commands** runs all of them at once in several processes.

**Settings** is the saved settings, what a command line adds to them, and the panel's
draft. **Lock** is what a process asks for, what its lock holds of that, and when a
grant is covered: paths are sequences of names with links and folders that may not
exist, a lock skips what is not there, and folders a command writes to are made first. Links
may lead to what is not there, or to devices: then no folder is made behind them, and
a program that cannot make its own ends.
A connection is a port, as it is to the lock. **SharedFiles** is the record and the
cache as values: trimmed, aged, unreadable or replaced. **Sessions** composes the three:
processes are interfaces (open, edit, save, restart in the process, or by the supervisor
when the lock does not cover what is new) and commands (save settings, list and read books
through the cache, copy and record, import), while devices are plugged in and out and
books change. An interface makes its own folders whenever it opens. What led to nothing at
that moment is kept in the history field `absent`. A computer either can lock a process or,
like macOS, cannot.

In **Sessions**, only commands list and copy: an interface uses the same operators on the
same files (`Tui` and `Discovery` have its order), and both at once would multiply the
instance without a new pair of conflicting steps. The index of device copies
(`variants`) is kept like that of sources and is not repeated.

## 3. The runs

| Run | Instance | Shows |
|---|---|---|
| `send_two` | two processes, two editions that begin alike, one name, two sends each, three staging names | only whole books are ever listed, reports are true, an undisturbed send is never refused |
| `send_owner` | one process, two names, every request, two moves of the owner; fair | sending implements `ReaderShelf`; every send ends |
| `send_aside` (finding) | two repairs of one name | a whole book can be set aside as incomplete |
| `discovery` | five copies at three places: an original, an exact copy and a device copy of it that have nothing in common but the original, a book that needs the whole budget, a book of size 0; fair | memory is bounded, nobody oversleeps, books are groups in any order, nothing is lost, every copy is read |
| `tui_work` | one book at two places, four disks (one with both copies on the reader), every kind of work, a place and a book that can fail, three ids; fair | the interface waits for what runs, quits clean, ends up current but for what failed books left, never lists half of a refresh; a waiting refresh or quit happens; every discovery ends |
| `tui_set` | two PDFs that convert badly, or a book of which both copies are on the reader; sets, questions and two deletions in a row; a reader that may fail to list; four ids | every book of a job is counted once; no last copy is deleted while its place could be listed, also from a dialog opened on the list of before a deletion |
| `tui_pdf` (finding) | two PDFs that convert badly | a question left behind by a refresh is answered in another dialog |
| `folders` | two processes, three names of which two differ in case; at first a book to copy to an empty card, or a card with two copies of a book and a PDF of its title on the computer; dialogs on older lists, two jobs, one change of the owner | nothing is replaced, copies are of what was chosen, a deletion of a copy that the list names leaves another, unless somebody else took that one |
| `last_copy` (finding) | the same, without the owner | two deletions take the last two copies: by two processes, or by one with a dialog on an old list |
| `commands` | two processes; an encrypted store book, the same book again (encrypted, decrypted or repacked) outside the store, another book of its title and author, or a PDF; a request, a download behind one redirect; a destination that is empty, holds a part of a book, or the whole book under another name; two commands, one mishap | the commands implement `ReaderShelf` and `ImportShelf`, so that a spent request has its book; dry runs foretell; what is reported as present is there; no second copy; a run fails only for a reason |
| `commands_pdf` (finding) | a PDF on the Kobo and a card | sync fails on the copy it made itself |
| `sessions` | two processes of seven programs, with no settings, full ones or unusable ones; a link to another folder and one onto a Kobo that comes and goes, a card, a reader by name and by address; one edit, one changed book | nothing is used outside the lock but where a link or a request's folder led to nothing; a restart is a fresh start; a save loses nothing; a known identity is true; the record is in order |

Why the bounds are enough. The conflicts in `crosspoint.rs` and in the folders are between
two parties about one name: two processes, or a process and the owner, with one retry each,
reach every ordering of two operations. In `commands` two commands are a run and its
recovery, a dry run and its apply run, or two at once, and one mishap is one fault to
recover from. In `sessions` two starts are a command beside an interface that restarts as
often as it likes, a listing beside a sync, or two of each kind; two lines of record and two
of cache make trimming happen. Two blocks to a book make a beginning, a whole and a damaged
whole. Three names make a pair that differs in case and one that does not. In discovery,
three copies of which the third links the first two is the smallest case where order
matters; the other two bring the sizes that fill and ignore the budget. In the interface an
id is an operation (load, job, settings or correction): three let a refresh wait for a job,
and a quit for a refresh. Four let two deletions follow each other, which are a discovery, a
deletion, the discovery after it with a dialog opened meanwhile, and the second deletion.
All bounds are constants named `Max...`, and only guards of starting something new mention
them, so no operation is cut off half-way (in `Folders` nothing is read or opened when no
job can follow; an unedited save in `Sessions` counts as an edit). Symmetry is used for
staging names and for the processes of `Folders`, `Commands` and `Sessions`, which no
property tells apart, and in no run with a liveness property.

Deadlock checking is off where the system really stops: no more sends, an interface that
quit, no more jobs, commands or starts. `Discovery` ends in a step of its own (`Done`), so
there it is checked.

### Fairness

* `CrossPointSend`: weak fairness of each process's requests. Each has a timeout, and
  the upload a deadline (`crosspoint.rs`), so a request ends. Beginning a send is not
  fair: no one has to.
* `Discovery`: weak fairness of the app's message loop and of each reading thread.
  Threads of a pool run; a spurious wake-up is not fair.
* `Tui`: weak fairness of tasks and messages together, not of keys. A task ends
  because everything it does has a timeout or is local file work, and its message
  is then handled.

## 4. Findings

1. `tui/model.rs:567`: a refresh closes the copy dialog and forgets to clear the question
   that is open in it. The next dialog inherits it, and **y** there converts a PDF
   that the user was not asked about (`tui_pdf`).
2. `crosspoint.rs:376`: a repair verifies that a file is an incomplete copy and then
   renames what has the name by then; another repair may have put the whole
   book there (`send_aside`). Nothing is lost, but the book is no longer listed.
3. `books.rs:899`: whether a copy is the last is decided on the catalog, and only the
   file that is deleted is looked at again. Two crossload windows that delete
   one of two copies each leave none (`last_copy`), although the comment says "never
   the last copy anywhere". One window alone can do it too, in the same run: it deletes one
   of a book's two copies, a dialog of that book is opened during the discovery that
   follows, on the list from before, and if the card then cannot be read, the dialog goes
   on with the book of two copies (`tui/model.rs:336`), of which the other is deleted. What does
   hold is `UndisturbedKeepsACopy`, about copies that were there when their folder was
   last read, and `LastCopyStays`, about places that could be listed.
4. `inventory.rs:231`: a file of a format the reader does not list gets no identity, but
   `kobo sync` puts PDFs and comics on a mounted card. The next run does not know its
   own copy, finds the name occupied, and fails, every time (`commands_pdf`), although
   the manual promises that verified copies are skipped.

Disagreements. The manual says of a correction: "The book is rewritten in place, beside
itself and then moved over itself, so it is never half written" (MANUAL.md:841). The code
does not replace the file: `correct` writes the corrected book as a new file into the import
folder and leaves the original as it is (`books.rs:1187`), as its own comment says. The
model follows the code, and `FoldersOnlyGain`, which holds, is what the code promises and
the contrary of the manual's sentence, which is out of date.

Observed, and no contradiction of anything the repository says:

* A folder that was asked for and absent when the lock was applied stays out of reach of
  that run (`main.rs:375`), which the manual says (MANUAL.md:447);
  `NothingOutsideTheLock` excepts it.
* A held path goes on holding whatever is mounted there later.
* A link to what is not there counts as a folder still to be made, and so is judged by the
  folder the link is in and not by where it leads (`lock.rs:69`). When the device that it
  leads to is plugged in later, the lock refuses it. `NothingOutsideTheLock` excepts such
  places, and the folder beside a request if it was not there, and no others: a link
  onto a device that is there when the process opens is covered.
* After a job of one book that failed nothing is refreshed (`tui/model.rs:657`), so what
  the failed copy left is not on the list until **r** is pressed, which the manual advises after
  copying (MANUAL.md:734). `ListIsCurrent` is about everything else (`Noted`).
* The panel does not look whether the import folder lies inside the Kobo: such settings
  are saved, and refused at the next opening (`Refuse`).
* A record that cannot be read counts as empty, so the next copy replaces it
  (`history.rs:86`, `ReadLines`). Lost lines are lines of text, never books.
* Two processes that save settings, or record copies, at the same time lose one's change.
  `UpdatesPreserve` and `RecordInOrder` say what such a race leaves.
* `RunsAsItWouldStart` does not cover settings that another process saved since: a running
  interface keeps what it read.

## 5. What is proved

All theorems hold for every value of the constants that satisfies the named
assumptions below, which TLC evaluates on every instance. Each proof follows the same
path: an inductive invariant, one lemma for each action or group of like actions, and a
last temporal step. All safety properties of the passing runs are proved. The last
row has three more properties, which no run checks: two were proved without one, and
`SpentIsImported` is a part of `ImplementsImports`.

| Module | Theorem | States |
|---|---|---|
| `CrossPointSend_proofs` | `TypeCorrect`, `WholeBooksOnly`, `SendImplementsShelf`, `ReportsAreTrue`, `TryingAgainHelps` | `TypeOK`, `OnlyWholeBooks`, `ImplementsShelf`, `ReportIsTrue`, `UndisturbedSucceeds` |
| `Discovery_proofs` | `TypeCorrect`, `MemoryIsBounded`, `NobodyOversleeps`, `TwinsAreTogether`, `BooksAreGroups`, `NoReadingIsLost` | `TypeOK`, `InBudget`, `SleepersAreShort`, `TwinsAreOneBook`, `BooksHangTogether`, `NothingIsLost` |
| `Tui_proofs` | `TypeCorrect`, `NothingComesLate`, `CleanEnd`, `NoBookForgotten`, `ListTellsThePlaces`, `NoLastCopyIsDeleted`, `NothingVanishesMeanwhile` | `TypeOK`, `WaitsForWhatRuns`, `QuitIsClean`, `JobAddsUp`, `ListIsCurrent`, `LastCopyStays`, `ListedUntilReadAgain` |
| `Folders_proofs` | `TypeCorrect`, `NothingIsReplaced`, `CopiesAreOfTheChoice`, `DeletionsLeaveACopy` | `TypeOK`, `FoldersOnlyGain`, `CopiedAsRecorded`, `UndisturbedKeepsACopy` |
| `Commands_proofs` | `TypeCorrect`, `CommandsImplementShelf`, `CommandsImplementImports`, `ReportedIsThere`, `NeverTwice`, `NoOtherFailures`, `ForetoldIsDone` | `TypeOK`, `ImplementsShelf`, `ImplementsImports`, `PresentIsThere`, `NoSecondCopy`, `FailuresHaveReasons`, `DryRunForetells` |
| `Sessions_proofs` | `RecordStaysInOrder`, `RunsAsStarted`, `SavesPreserve`, `KnownIsWhatIsThere`, `NothingIsRefused` | `RecordInOrder`, `RunsAsItWouldStart`, `UpdatesPreserve`, `KnownIsTrue`, `NothingOutsideTheLock` |
| `Commands_proofs`, stated only there | `SentIsImported`, `DryRunsOnlyLookOn`, `SpentHasItsBook` | `SendsWhatWasImported`, `DryRunsTouchNothing`, `SpentIsImported` |

**Sending.** That a listed book is whole is not inductive: it depends on a process at the
final rename having read back the staging file that it renames, and so on nobody else
writing there. That `StagingIsPrivate` is no more than the assumption on random names, seen
through the steps of an upload. `IInv` is `TypeOK /\ StagingIsPrivate /\ Verified`; the
refinement then maps each step to `Publish`, `MoveAside`, `Owner` or a stutter.
`ReportsAreTrue` adds `Unreported`: a send that goes on has reported nothing yet.
`TryingAgainHelps` needs `CalmInv`, which says for each request what it will find if nobody
came between: the folder, the free name or the repairable file, and in the staging file the
beginning of the book as far as it was acknowledged.

**Discovery**, on `ReadBudget_proofs` and `Catalog_proofs`. `BudgetInv` is the account: the
free memory and all claims add up to the budget, which bounds what is read at
once. The claims are summed by counting: the cardinality of the set of claimed units,
whose changes are proved as lemmas. `CatalogInv` says what holds between the steps of a
merge. That books hang together is stated by their parts and not by paths (no part of a
book shares nothing with the rest), so joining two groups needs no induction
(`JoinedHangTogether`). `HandedOn` says that a copy is in one place at a time on its way
from a queue to the catalog.

**The interface.** `IInv` ties each id of the model to its task: `WorkInv` for a job or a
deletion, `PanelInv` for settings and corrections, `ScanInv` for a discovery with, at each
location, `PlaceInv` (listing, reading with all its readers while anything waits, or done).
With it, each message that arrives is of what the model waits for, and `Model::update` has
no stale message to guard against. `ListInv` adds what a list is worth. A place that changed
is `Dirty` until it is asked for again. Otherwise a discovery has `Seen` what is there, in
whatever hands it is (a listing's result, a queue, readers, the catalog), and the list that
is or will be shown is `Accurate`, of `Noted`. `LeftInv` says that of a book that failed
there is more than what it left: its source, where nothing is deleted. `RemoveInv` says that
a deletion under way leaves a copy. Counting what is left of a job is what `Books` must be
finite for.

**Folders**, with corrections and dialogs on older lists. The last theorem needs `Remembered`,
that a process whom nobody disturbed is right about what is there, and `JobsAreKnown`: a
deletion whose copy the catalog names began with a book of the catalog (`HasItsBook`), so
with a second copy that it knows of, which nothing the process does before the deletion
changes.

**Commands.** `TypeCorrect` carries with `Fits` that a job at a step has what the step reads.
`SyncInv` is the invariant of a run that nobody came between: each place is as it was
seen or is explained by what the run itself did (`SeenAs`), the book at hand was chosen
because no copy of it and nothing of its name was seen (`DecidedOn`), and what the
next step relies on is so (`ReadyFor`). From it follow `NeverTwice` and `NoOtherFailures`; that
a run recovers after any crash is in it, as nothing is assumed of where it starts.

`ForetoldIsDone` compares two runs. `ForesightInv` says of a run that nobody came between
that its rows follow from its inventory (`Reasoned`): the `Verdict` on each book is
reached from what the inventory listed and from the rows of the books that come earlier by
title, which also say what was planned (`Advances`). For a dry run that is in progress or
over this holds of the disk as it is (`Rehearses`), and for an apply run after it of the
foretold rows and the inventory with which it began (`Foretells`). So the two runs,
which agree on the earlier books, agree on the next one (`AsForetold`), unless it fails for
what a dry run does not look at, and then the theorem says nothing of that run. What is
set aside for one book may change the verdict on a later one, which is why
`Unforeseen` names the ways it can, and why rows, once unforeseen, stay so
(`UnforeseenStays`).

`SpentInv` says that a job about to archive its request has published the book, and
`SavesWhole` that what is about to be saved passed validation; from both, every step maps to
`Publish`, `Spend`, `Owner` or a stutter of `ImportShelf`. `PassingInv` says that what a job
passes on is what the import folder has for it. All three rest on the same lemmas about
what is in hand after a step (`PassesOn`). `DryInv` says that a dry run is at none of the
steps that change a file.

**Sessions.** `RecordInv`: each line of the record, and of what any process has read
of it, is older than the process's count of copies, so a lost race loses lines and never
mixes them. `SessionInv`: a session is what its arguments and the settings it read come to,
through every save and restart. `IndexInv`: what any entry in any process's hands says of a
book is of a time after its key, so an identity found by an unchanged key is the book's. `LockInv`
says that whatever a process may do next, its lock lets it. It rests on `ResolvedIs`: where
no link above a path dangles, the path resolves to the same place with folders missing
as when they exist, so what is covered when the lock is checked is covered when it is used,
whatever was plugged in or out between. An output that is refused because it lies on a device
is held too, with the device.

The assumptions: `DataAssumption`, `RequestsAssumption` and `AbsentAssumption` (what
books, requests and no file at all look like to a reader), `BudgetAssumption` (sizes are
numbers up to the machine's word), `DiscoveryAssumption`, `FoldersAssumption`,
`DeliveryAssumption`, `KoboAssumption`, `ImportsAssumption`, `SettingsAssumption`,
`SharedAssumption` and `SessionsAssumption` (the types of the parameters, that what is
named differently is different, that a folder is no book, that the order by title is
strict, as the sort puts books of one title in the order of their ids, `kobo.rs:116`),
`LockAssumption` and `NamesAssumption` (paths are sequences of names),
`ValuesAssumption` (settings are paths),
`ProgramsAssumption` (the commands `Sessions` models, in which only `--send-to` and
`--copy-to` can stand for a saved value),
`BooksAssumption` (finite), `PlacesAssumption`, `ReadersAssumption` (each place has a
reader), `DisksAssumption`, `UnreliableAssumption` and `NoneAssumption` (nothing is not a
list). None bounds the number of processes, books, operations or mishaps.

Only model-checked:

* liveness under fairness (`SendsEnd`, `EveryCopyIsRead`, `RefreshIsServed`, `QuitIsServed`,
  `ScanEnds`), which is out of the prover's reach;
* the four findings, which are counterexamples.

## 6. What is not modelled

* Bytes: contents are model values; optimizing, kepub, PDF conversion, validation,
  decryption and metadata are functions or outcomes. What is inside `pdf.rs`, `pdf/`,
  `epub.rs`, `kepub.rs` and the image work of `prepare.rs` is computed by one thread on
  bytes nobody else has, and is better tested on files. The conversion of a PDF and kepubs
  are left out of `Folders`; they end in the same `copy`. Authors' folders (with `--flat`
  left out) are in `Delivery` and not in `Folders`.
* What changes nothing: listings of shelves, notes and history, catalogue feeds and
  search, status of a reader, the connection test, help, and the wording of everything.
* The interface's cursor, marks, search, filter, sort, hints, text fields and drawing
  (`tui/view.rs`, most of `tui/edit.rs`), status lines, counts, titles and the order of
  books, and its ACSM rows, which run `Imports`' actions as one more kind of work.
* `--config` and `--state-dir`, which only move files; which hosts an HTTP client may
  talk to, which is the client's own scope and not the lock's; a settings file that
  somebody damages while crossload runs.
* The vendored C and C++ below `caps/adobe-native/native/vendor`, which is other
  projects' code, and the capabilities, whose effects are external definitions.
* Checking and then deleting a card's file is two steps of the model, and nothing is
  claimed about another program that replaces the file between them
  (`books.rs:942`).
* A file on the reader that changes and keeps its size is taken for the old one
  (`books.rs:652`), as the manual says (MANUAL.md:750); `KnownIsTrue` is about files
  that are listed with their time.

## 7. What is left

The parts that the promises rest on are modelled. Left for later, in this order:

1. `Folders` with authors' folders and converted PDFs; `Tui` with ACSM rows.
2. A refinement from `CrossPointSend` to the transfer steps of `Delivery`, which today both
   implement `ReaderShelf` and are not compared with each other.
