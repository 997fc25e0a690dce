------------------------------ MODULE Sessions ------------------------------
(***************************************************************************)
(* crossload's processes beside each other: interfaces that are opened,    *)
(* locked, changed in their settings and started again, and commands that  *)
(* save settings, list the library, copy and record, over one settings     *)
(* file, one record of copies and one index of identities, while devices   *)
(* are plugged in and books change.                                        *)
(***************************************************************************)
EXTENDS Lock, SharedFiles

CONSTANTS
    Procs,          \* the processes that may run at once
    Programs,       \* what may be started
    FirstFiles,     \* the settings there may be at first
    FirstThere,     \* the sets of folders there may be at first
    Pluggable,      \* the folders of devices that come and go
    Drafts,         \* what may be typed in the panel, by key
    Items,          \* the books of the library, in the order they are listed
    Stamped,        \* those listed with the time they were changed
    MaxStarts, MaxEdits, MaxChanges  \* bounds

(* The books of a library are listed once each.                            *)
ASSUME SessionsAssumption ==
    /\ Items \in Seq(Range(Items))
    /\ \A i, j \in DOMAIN Items : Items[i] = Items[j] => i = j

(* Settings are paths and words. *)
ASSUME ValuesAssumption ==
    /\ SavedOne \notin Path
    /\ Expand \in [DOMAIN Expand -> Path]
    /\ {DefaultReader, RootFolder, StartedIn} \subseteq Path
    /\ FirstFiles \subseteq [Keys -> Path \union {None}]
    /\ Drafts \in [Shown -> SUBSET Path]

ASSUME ProgramsAssumption ==
    \A program \in Programs :
        /\ program.command \in {"tui", "config set", "config unset", "books", "sync", "import",
                               "kobo sync"} \union Adders
        /\ program.apply \in BOOLEAN
        /\ program.command = "books" => ~program.apply
        /\ program.command = "kobo sync" => program.apply
        /\ program.given \in [Keys -> Path \union {None, SavedOne}]
        /\ \A k \in Keys : program.given[k] = SavedOne =>
                k \in {"reader", "copy_to"} /\ program.command # "config set"
        /\ program.command = "import" => program.words \subseteq Files

VARIABLES
    file,           \* the saved settings
    there,          \* the folders that exist
    record,         \* the record of copies
    stored,         \* the index of identities
    content,        \* each book's, as a version
    starts,         \* how many processes were started
    locks,          \* whether this computer can lock a process (macOS cannot)
    proc            \* what each process is doing

vars == <<file, there, record, stored, content, starts, locks, proc>>

NoPlaces == [k \in Shown |-> None]
Unread == [i \in DOMAIN Items |-> None]

Off ==
    [at |-> "off", program |-> None, saved |-> NoSettings, session |-> NoPlaces,
     draft |-> NoPlaces, opened |-> FALSE, kobos |-> {}, edits |-> 0,
     locked |-> FALSE, asked |-> {}, held |-> {}, absent |-> {},
     index |-> <<>>, dirty |-> FALSE, next |-> 1, key |-> None, listed |-> Unread,
     lines |-> <<>>, count |-> 0]

Init ==
    /\ file \in FirstFiles
    /\ there \in FirstThere
    /\ record = <<>>
    /\ stored = <<>>
    /\ content = [i \in DOMAIN Items |-> 1]
    /\ starts = 0
    /\ locks \in BOOLEAN
    /\ proc = [p \in Procs |-> Off]

Set(p, next) == proc' = [proc EXCEPT ![p] = next]

(* A process that ended leaves nothing but the number of copies it made. *)
End(p) == Set(p, [Off EXCEPT !.count = proc[p].count])

(* The links and the folders of requests that lead to nothing.  What a     *)
(* process finds so when it opens is kept for the properties only.         *)
Absent(program, now) ==
    {path \in DOMAIN Leads \union {Front(w) : w \in program.words} : ~Exists(path, now)}

-----------------------------------------------------------------------------
(* Starting: settings that cannot be read end every program. *)

CanStart(p) == proc[p].at = "off" /\ starts < MaxStarts /\ Acceptable(file)

StartInterface(p, program) ==
    /\ CanStart(p)
    /\ program.command = "tui"
    /\ Resolvable(program.given, Normal(file))
    /\ starts' = starts + 1
    /\ Set(p, [proc[p] EXCEPT !.at = "opening", !.program = program, !.saved = Normal(file),
                              !.session = Session(program.given, Normal(file))])
    /\ UNCHANGED <<file, there, record, stored, content, locks>>

Body(program) ==
    CASE program.command \in {"config set", "config unset"} -> "saving"
      [] program.command \in {"books", "sync"} -> "listing"
      [] OTHER -> "adding"

(* A command is locked to what it may open before it does anything.  One   *)
(* that cannot make its folders ends.                                      *)
StartCommand(p, program) ==
    LET saved == Normal(file)
        made == MadeFor(program, saved, there) IN
    /\ CanStart(p)
    /\ program.command # "tui"
    /\ Body(program) = "listing" => Resolvable(program.given, saved)
    /\ Body(program) # "saving" => OutputOf(program, saved) # None
    /\ starts' = starts + 1
    /\ there' = made
    /\ IF \E path \in ToMake(program, saved, there) : Dangling(path, there) THEN End(p)
       ELSE \E index \in OpenIndex(stored) :
        Set(p, [proc[p] EXCEPT !.at = Body(program), !.program = program, !.saved = saved,
                               !.locked = locks, !.index = index, !.absent = Absent(program, there),
                               !.held = IF locks THEN Held(CommandGrants(program, saved, there), made)
                                        ELSE {}])
    /\ UNCHANGED <<file, record, stored, content, locks>>

-----------------------------------------------------------------------------
(* The interface: run_tui's loop, and the settings panel in it. *)

Wanted(p) == InterfaceGrants(proc[p].session)

OpenedAs(me, now) ==
    [me EXCEPT !.at = "running", !.draft = Panel(me.session),
               !.opened = Exists(me.session["browse"], now), !.kobos = KobosIn(now),
               !.absent = Absent(me.program, now)]

(* Its own folders are made whenever it opens. *)
OwnMade == there \union UNION {Make(Own[name], there) : name \in {"settings", "history", "cache"}}

Opening(p) ==
    LET session == proc[p].session IN
    /\ proc[p].at = "opening"
    /\ session["device"] # None => OutsideDevice(session["output"], session["device"], there)
    /\ ~Dangling(Own["settings"], there)

(* Books would land on the Kobo, or settings cannot be saved: the          *)
(* interface does not start.                                               *)
Refuse(p) ==
    /\ proc[p].at = "opening"
    /\ ~Opening(p)
    /\ End(p)
    /\ UNCHANGED <<file, there, record, stored, content, starts, locks>>

(* Locked once, before the first time it runs, or not at all (macOS).  One *)
(* that cannot make the import folder ends.                                *)
FirstOpen(p) ==
    LET output == proc[p].session["output"]
        made == Make(output, OwnMade) IN
    /\ Opening(p)
    /\ proc[p].asked = {}
    /\ there' = made
    /\ IF Dangling(output, OwnMade) THEN End(p)
       ELSE Set(p, [OpenedAs(proc[p], made) EXCEPT !.locked = locks, !.asked = Wanted(p),
                        !.held = IF locks THEN Held(Wanted(p), made) ELSE {}])
    /\ UNCHANGED <<file, record, stored, content, starts, locks>>

(* What the lock asked for and did not get is not new. *)
Missing(p) == Uncovered(proc[p].held, Wanted(p) \ proc[p].asked, OwnMade)

OpenAgain(p) ==
    /\ Opening(p)
    /\ proc[p].asked # {}
    /\ proc[p].locked => Missing(p) = {}
    /\ there' = OwnMade
    /\ Set(p, OpenedAs(proc[p], OwnMade))
    /\ UNCHANGED <<file, record, stored, content, starts, locks>>

(* The supervisor starts the whole program again, with the same arguments. *)
StartAgain(p) ==
    LET program == proc[p].program IN
    /\ Opening(p)
    /\ proc[p].asked # {} /\ proc[p].locked /\ Missing(p) # {}
    /\ IF Acceptable(file) /\ Resolvable(program.given, Normal(file))
       THEN Set(p, [Off EXCEPT !.at = "opening", !.program = program, !.saved = Normal(file),
                               !.session = Session(program.given, Normal(file)),
                               !.edits = proc[p].edits, !.count = proc[p].count])
       ELSE End(p)
    /\ there' = OwnMade
    /\ UNCHANGED <<file, record, stored, content, starts, locks>>

(* Without a supervisor it ends, and says what the settings need. *)
GiveUp(p) ==
    /\ Opening(p)
    /\ proc[p].asked # {} /\ proc[p].locked /\ Missing(p) # {}
    /\ there' = OwnMade
    /\ End(p)
    /\ UNCHANGED <<file, record, stored, content, starts, locks>>

Edit(p, k, value) ==
    /\ proc[p].at = "running"
    /\ proc[p].edits < MaxEdits
    /\ proc[p].draft[k] # value
    /\ Set(p, [proc[p] EXCEPT !.draft[k] = value, !.edits = @ + 1])
    /\ UNCHANGED <<file, there, record, stored, content, starts, locks>>

(* The Kobos that were found when the interface opened are offered. *)
Detect(p) == \E device \in proc[p].kobos : Edit(p, "device", device)

(* A save without an edit counts as one for the bound, which it may pass.  *)
SavePanel(p) ==
    LET me == proc[p]
        settings == Normal(PanelSettings(me.draft, me.saved))
        counted == IF me.draft = Panel(me.session) THEN me.edits + 1 ELSE me.edits IN
    /\ me.at = "running"
    /\ me.edits <= MaxEdits
    /\ Bad(me.session, me.draft, me.opened) = {}
    /\ file' = settings
    /\ Set(p, [me EXCEPT !.at = "saved", !.saved = settings, !.edits = counted])
    /\ UNCHANGED <<there, record, stored, content, starts, locks>>

Restart(p) ==
    LET me == proc[p] IN
    /\ me.at = "saved"
    /\ IF Resolvable(me.program.given, me.saved)
       THEN Set(p, [me EXCEPT !.at = "opening", !.draft = NoPlaces,
                              !.session = Restarted(me.program.given, me.session, me.saved)])
       ELSE End(p)
    /\ UNCHANGED <<file, there, record, stored, content, starts, locks>>

Quit(p) ==
    /\ proc[p].at = "running"
    /\ End(p)
    /\ UNCHANGED <<file, there, record, stored, content, starts, locks>>

-----------------------------------------------------------------------------
(* Commands. *)

Updated(p) ==
    LET me == proc[p]
        given == me.program.given IN
    IF me.program.command = "config set" THEN Merge(me.saved, given)
    ELSE Unset(me.saved, {k \in Keys : given[k] # None})

SaveSettings(p) ==
    /\ proc[p].at = "saving"
    /\ file' = IF Acceptable(Updated(p)) THEN Normal(Updated(p)) ELSE file
    /\ End(p)
    /\ UNCHANGED <<there, record, stored, content, starts, locks>>

AddToOutput(p) ==
    /\ proc[p].at = "adding"
    /\ End(p)
    /\ UNCHANGED <<file, there, record, stored, content, starts, locks>>

(* The evidence a listing gives: a file's size and time, or its size only. *)
Fingerprint(i) == IF Items[i] \in Stamped THEN content[i] ELSE 0

(* A book is listed, and the next one is next. *)
Listed(me, sha) == [me EXCEPT !.at = "listing", !.key = None, !.next = @ + 1, !.listed[me.next] = sha]

(* A book is known by its key, or is read next. *)
List(p) ==
    LET me == proc[p]
        i == me.next
        key == SourceKey(Items[i], Fingerprint(i)) IN
    /\ me.at = "listing" /\ i \in DOMAIN Items
    /\ IF Hits(me.index, key) # {}
       THEN Set(p, [Listed(me, Known(me.index, key)) EXCEPT !.index = Touch(me.index, key)])
       ELSE Set(p, [me EXCEPT !.at = "reading", !.key = key])
    /\ UNCHANGED <<file, there, record, stored, content, starts, locks>>

(* Reading it is later than listing it; a book that cannot be read has no  *)
(* identity.                                                               *)
Read(p) ==
    LET me == proc[p]
        sha == content[me.next] IN
    /\ me.at = "reading"
    /\ \/ Set(p, [Listed(me, sha) EXCEPT !.index = Put(me.index, me.key, sha), !.dirty = TRUE])
       \/ Set(p, Listed(me, None))
    /\ UNCHANGED <<file, there, record, stored, content, starts, locks>>

(* All books are listed, and the index is about to be kept. *)
AllListed(p) == proc[p].at = "listing" /\ proc[p].next = Len(Items) + 1

(* The index is replaced, if there is anything new in it.  Failing to      *)
(* costs the next scan its work.  Which identity a book was listed with is *)
(* compared again by the copy itself (Folders), and is not kept here.      *)
KeepIndex(p) ==
    LET me == proc[p] IN
    /\ AllListed(p)
    /\ \/ me.dirty /\ \E aged \in 0..Len(me.index) : stored' = Trimmed(me.index, aged)
       \/ UNCHANGED stored
    /\ IF me.program.apply
       THEN Set(p, [me EXCEPT !.at = "copying", !.next = 1, !.index = <<>>, !.dirty = FALSE,
                    !.listed = [i \in DOMAIN Items |-> IF @[i] = None THEN None ELSE 0]])
       ELSE End(p)
    /\ UNCHANGED <<file, there, record, content, starts, locks>>

Planned(p) == {i \in proc[p].next..Len(Items) : proc[p].listed[i] # None}

(* A book is copied, or is not because it changed or for another reason;   *)
(* either way there is a line to record.                                   *)
Transfer(p) ==
    /\ proc[p].at = "copying"
    /\ IF Planned(p) = {} THEN End(p)
       ELSE \E lines \in ReadLines(record), i \in Planned(p) :
            /\ \A j \in Planned(p) : i <= j
            /\ Set(p, [proc[p] EXCEPT !.at = "recording", !.lines = lines, !.next = i + 1, !.count = @ + 1])
    /\ UNCHANGED <<file, there, record, stored, content, starts, locks>>

(* The record never fails a copy: one that cannot be written is let be. *)
WriteRecord(p) ==
    LET me == proc[p] IN
    /\ me.at = "recording"
    /\ record' \in {record, Recorded(me.lines, [by |-> p, n |-> me.count])}
    /\ Set(p, [me EXCEPT !.at = "copying", !.lines = <<>>])
    /\ UNCHANGED <<file, there, stored, content, starts, locks>>

-----------------------------------------------------------------------------
(* What happens meanwhile. *)

(* Devices matter to interfaces, and to what is still to be started. *)
Noticed == starts < MaxStarts \/ \E p \in Procs : proc[p].at \in {"opening", "running", "saved", "adding"}

Plug(path) ==
    /\ Noticed /\ path \notin there
    /\ there' = there \union Above(path)
    /\ UNCHANGED <<file, record, stored, content, starts, locks, locks, proc>>

Unplug(path) ==
    /\ Noticed /\ path \in there
    /\ there' = there \ {q \in there : IsPrefix(path, q)}
    /\ UNCHANGED <<file, record, stored, content, starts, locks, locks, proc>>

(* A book that changes before anybody has looked at it is one that was so. *)
Change(i) ==
    /\ SumFunction(content) < Len(content) + MaxChanges
    /\ stored # <<>> \/ \E p \in Procs : proc[p].at \in {"listing", "reading"}
    /\ content' = [content EXCEPT ![i] = @ + 1]
    /\ UNCHANGED <<file, there, record, stored, starts, locks, proc>>

Next ==
    \/ \E p \in Procs :
        \/ \E program \in Programs : StartInterface(p, program) \/ StartCommand(p, program)
        \/ Refuse(p) \/ FirstOpen(p) \/ OpenAgain(p) \/ StartAgain(p) \/ GiveUp(p)
        \/ \E k \in Shown : \E value \in Drafts[k] : Edit(p, k, value)
        \/ Detect(p) \/ SavePanel(p) \/ Restart(p) \/ Quit(p)
        \/ SaveSettings(p) \/ AddToOutput(p)
        \/ List(p) \/ Read(p) \/ KeepIndex(p) \/ Transfer(p) \/ WriteRecord(p)
    \/ \E path \in Pluggable : Plug(path) \/ Unplug(path)
    \/ \E i \in DOMAIN Items : Change(i)

Spec == Init /\ [][Next]_vars

-----------------------------------------------------------------------------
(* Whatever restarted it and however often it was saved, a running         *)
(* interface is what a fresh start with the same arguments would come to,  *)
(* unless another process saved settings since (main.rs, run_tui; cli.rs,  *)
(* Tui::restart): what the command line gave holds as long as it runs.     *)
RunsAsItWouldStart ==
    \A p \in Procs :
        proc[p].at \in {"opening", "running"} /\ proc[p].saved = Normal(file) =>
            proc[p].session = Session(proc[p].program.given, Normal(file))

(* A process that is locked never works with a place its lock refuses: an  *)
(* interface was restarted or ended instead, except for what it asked for  *)
(* and was not there, and a command found the folders made that it writes  *)
(* to, and the one beside a request that it archives.  A lost cache or     *)
(* record would not even be an error.  A link that led to nothing when the *)
(* process opened is let through as a folder still to be made (lock.rs,    *)
(* resolved), and the lock may refuse what it leads to later, such as a    *)
(* device: such places are all that the property leaves out.               *)
Writable(p, path) ==
    proc[p].locked => \E h \in proc[p].held : h.does = "write" /\ IsPrefix(h.at, Canonical(path))

LedAway(p, path) == ({path} \union Above(path)) \intersect proc[p].absent # {}

NothingOutsideTheLock ==
    \A p \in Procs :
        /\ proc[p].at = "running" =>
            \A g \in Wanted(p) \ proc[p].asked :
                CASE g.does = "write" -> LedAway(p, g.at) \/ Writable(p, g.at)
                  [] g.does \in {"connect", "resolve"} -> proc[p].locked => g \in proc[p].held
                  [] OTHER -> TRUE
        /\ proc[p].at = "saving" => Writable(p, Own["settings"])
        /\ AllListed(p) => Writable(p, Own["cache"])
        /\ proc[p].at = "recording" => Writable(p, Own["history"])
        /\ proc[p].at = "adding" /\ proc[p].program.command = "import" =>
            /\ Writable(p, Own["activation"])
            /\ \A request \in proc[p].program.words :
                LedAway(p, Front(request)) \/ Writable(p, Front(request))
        /\ proc[p].at = "adding" =>
            LET output == OutputOf(proc[p].program, proc[p].saved) IN
            OutputAccepted(proc[p].program, proc[p].saved, output, there) =>
                LedAway(p, output) \/ Writable(p, output)

(* What a save may change: what the user edited or the command line gave,  *)
(* what had no value before, and the card when a reader was asked for.     *)
Touched(p) ==
    LET me == proc[p]
        given == me.program.given IN
    IF me.at = "saving" THEN {k \in Keys : given[k] # None}
    ELSE {k \in Shown : me.draft[k] # Panel(me.session)[k] \/ k \in Given(given) \/ file[k] = None}
        \union IF given["reader"] # None THEN {"copy_to"} ELSE {}

(* Saving settings changes those that it is about and keeps all others, in *)
(* a command as in the panel, when nobody else saved since they were read. *)
(* Only a race of two processes loses a setting.                           *)
UpdatesPreserve ==
    [][\A p \in Procs :
        /\ proc[p].at \in {"saving", "running"}
        /\ proc'[p].at # proc[p].at
        /\ proc[p].saved = Normal(file)
        => \A k \in Keys \ Touched(p) : Normal(file')[k] = Normal(file)[k]]_vars

(* An identity that a listing takes from the index is that of the book     *)
(* that is there, whichever processes wrote the index and whatever changed *)
(* since or while they read; only a listing without times can be wrong.    *)
KnownIsTrue ==
    [][\A p \in Procs, i \in DOMAIN Items :
        /\ Items[i] \in Stamped
        /\ proc[p].listed[i] = None
        => proc'[p].listed[i] \in {None, content[i]}]_vars

(* However processes race for the record, it stays bounded, and every      *)
(* process's copies are in it once and in the order they were made.        *)
RecordInOrder ==
    /\ Len(record) <= MaxLines
    /\ \A i, j \in DOMAIN record :
        i < j /\ record[i].by = record[j].by => record[i].n < record[j].n

=============================================================================
