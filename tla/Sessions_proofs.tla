--------------------------- MODULE Sessions_proofs ---------------------------
(***************************************************************************)
(* What holds of crossload's processes beside each other, for any number   *)
(* of them, of programs, books, copies and changes: Sessions.              *)
(***************************************************************************)
EXTENDS Sessions, SequenceTheorems, WellFoundedInduction, TLAPS

(* A process is a record with the fields of one that is off; what the      *)
(* fields of the settings hold does not matter.                            *)
Fields == DOMAIN Off
Line == [by : Procs, n : Nat]

Shaped ==
    /\ DOMAIN proc = Procs
    /\ \A p \in Procs :
        /\ DOMAIN proc[p] = Fields
        /\ proc[p].count \in Nat
        /\ proc[p].lines \in Seq(Line)
    /\ record \in Seq(Line)

(* Copies are in the order in which each process made them; and a process  *)
(* that is about to record one has recorded earlier ones only.             *)
Ordered(lines) ==
    \A i, j \in DOMAIN lines : i < j /\ lines[i].by = lines[j].by => lines[i].n < lines[j].n

Past(lines, procs) ==
    \A i \in DOMAIN lines :
        LET by == procs[lines[i].by] IN
        lines[i].n <= by.count /\ (by.at = "recording" => lines[i].n < by.count)

RecordInv ==
    /\ Shaped
    /\ Len(record) <= MaxLines
    /\ \A lines \in {record} \union {proc[p].lines : p \in Procs} : Ordered(lines) /\ Past(lines, proc)

(* A session is what the settings that the process has and its arguments   *)
(* come to.                                                                *)
InSession(me) ==
    me.at \in {"opening", "running"} => me.session = Session(me.program.given, me.saved)

SessionInv == \A p \in Procs : InSession(proc[p])

(* An entry of the index may be old, but what it says of a book is of a    *)
(* time after the one its key is from.                                     *)
Credible(versions) ==
    {entry \in [key : Range(Items) \X Nat, sha : Nat] :
        \A i \in DOMAIN Items :
            entry.key[1] = Items[i] => entry.key[2] <= entry.sha /\ entry.sha <= versions[i]}

Listing(me, versions) ==
    /\ DOMAIN me.listed = DOMAIN Items
    /\ me.next \in Nat
    /\ me.index \in Seq(Credible(versions))
    /\ me.at = "reading" =>
        /\ me.next \in DOMAIN Items
        /\ me.key \in {Items[me.next]} \X (0..versions[me.next])

IndexInv ==
    /\ content \in [DOMAIN Items -> Nat]
    /\ stored \in Seq(Credible(content))
    /\ \A p \in Procs : Listing(proc[p], content)

-----------------------------------------------------------------------------
(* The steps of a process one by one. *)

LEMMA FieldsAre ==
    Fields = {"at", "program", "saved", "session", "draft", "opened", "kobos", "edits", "locked",
              "asked", "held", "absent", "index", "dirty", "next", "key", "listed", "lines", "count"}
BY DEF Fields, Off

(* What does not list, copy or record anything. *)
Quiet(p) ==
    \/ \E program \in Programs : StartInterface(p, program) \/ StartCommand(p, program)
    \/ Refuse(p) \/ FirstOpen(p) \/ OpenAgain(p) \/ StartAgain(p) \/ GiveUp(p)
    \/ \E k \in Shown : \E value \in Drafts[k] : Edit(p, k, value)
    \/ Detect(p) \/ SavePanel(p) \/ Restart(p) \/ Quit(p)
    \/ SaveSettings(p) \/ AddToOutput(p)

Step(p) == Quiet(p) \/ List(p) \/ Read(p) \/ KeepIndex(p) \/ Transfer(p) \/ WriteRecord(p)

World ==
    \/ \E path \in Pluggable : Plug(path) \/ Unplug(path)
    \/ \E i \in DOMAIN Items : Change(i)

LEMMA NextIs == Next <=> (\E p \in Procs : Step(p)) \/ World
BY DEF Next, Step, Quiet, World

(* A process goes on as what it becomes, and no other does. *)
LEMMA SetIs ==
    ASSUME Shaped, NEW p \in Procs, NEW me, Set(p, me), DOMAIN me = Fields
    PROVE  /\ DOMAIN proc' = Procs /\ proc'[p] = me /\ DOMAIN proc'[p] = Fields
           /\ \A q \in Procs \ {p} : proc'[q] = proc[q]
BY DEF Shaped, Set

LEMMA EndIs ==
    ASSUME Shaped, NEW p \in Procs, End(p)
    PROVE  /\ Set(p, [Off EXCEPT !.count = proc[p].count])
           /\ DOMAIN [Off EXCEPT !.count = proc[p].count] = Fields
           /\ proc'[p] = [Off EXCEPT !.count = proc[p].count]
           /\ proc'[p].at = "off" /\ proc'[p].count = proc[p].count /\ proc'[p].lines = <<>>
           /\ proc'[p].listed = Unread /\ proc'[p].next = 1 /\ proc'[p].index = <<>>
<1> DEFINE me == [Off EXCEPT !.count = proc[p].count]
<1>1. DOMAIN me = Fields
    BY DEF Fields
<1>2. /\ me.at = "off" /\ me.count = proc[p].count /\ me.lines = <<>>
      /\ me.listed = Unread /\ me.next = 1 /\ me.index = <<>>
    BY DEF Off
<1>3. Set(p, me)
    BY DEF End
<1> HIDE DEF me
<1>4. proc'[p] = me
    BY <1>1, <1>3, SetIs
<1> QED
    BY <1>1, <1>2, <1>3, <1>4 DEF me

(* A process that is kept as far as its listing, its lines and its number  *)
(* of copies go, or is a new one.                                          *)
Keeps(p) ==
    /\ DOMAIN proc' = Procs /\ DOMAIN proc'[p] = Fields
    /\ \A q \in Procs \ {p} : proc'[q] = proc[q]
    /\ proc'[p].count = proc[p].count
    /\ proc'[p].lines \in {proc[p].lines, <<>>}
    /\ proc'[p].listed \in {proc[p].listed, Unread}
    /\ proc'[p].next \in {proc[p].next, 1}
    /\ proc'[p].index \in {proc[p].index, <<>>, stored}
    /\ proc'[p].at \notin {"recording", "reading"}

LEMMA SetKeeps ==
    ASSUME Shaped, NEW p \in Procs, NEW me, Set(p, me), DOMAIN me = Fields,
           me.count = proc[p].count, me.lines = proc[p].lines, me.listed = proc[p].listed,
           me.next = proc[p].next, me.index \in {proc[p].index, <<>>, stored},
           me.at \notin {"recording", "reading"}
    PROVE  Keeps(p)
BY SetIs DEF Keeps

LEMMA EndKeeps ==
    ASSUME Shaped, NEW p \in Procs, End(p)
    PROVE  Keeps(p)
BY EndIs, SetIs DEF Keeps

(* A step that changes the session, the panel or the lock of a process. *)
LEMMA InterfaceKeeps ==
    ASSUME Shaped, NEW p \in Procs, Quiet(p)
    PROVE  Keeps(p)
<1> DEFINE me == proc[p]
<1>1. DOMAIN me = Fields
    BY DEF Shaped
<1>2. ASSUME NEW program, StartInterface(p, program)
      PROVE  Keeps(p)
    <2> DEFINE saved == Normal(file)
               session == Session(program.given, Normal(file))
               k == [me EXCEPT !.at = "opening", !.program = program, !.saved = saved, !.session = session]
    <2>1. Set(p, k)
        BY <1>2 DEF StartInterface
    <2> HIDE DEF saved, session
    <2>2. /\ DOMAIN k = Fields /\ k.count = me.count /\ k.lines = me.lines /\ k.listed = me.listed
          /\ k.next = me.next /\ k.index = me.index /\ k.at = "opening"
        BY <1>1, FieldsAre
    <2> HIDE DEF k
    <2> QED
        BY <2>1, <2>2, SetKeeps
<1>3. ASSUME NEW program, StartCommand(p, program)
      PROVE  Keeps(p)
    <2>0. SUFFICES ASSUME ~End(p)
                   PROVE  Keeps(p)
        BY EndKeeps
    <2>1. PICK index, saved, held, locked, absent :
            /\ index \in OpenIndex(stored)
            /\ Set(p, [me EXCEPT !.at = Body(program), !.program = program, !.saved = saved,
                                 !.locked = locked, !.index = index, !.absent = absent,
                                 !.held = held])
        BY <1>3, <2>0 DEF StartCommand
    <2> DEFINE at == Body(program)
               k == [me EXCEPT !.at = at, !.program = program, !.saved = saved,
                               !.locked = locked, !.index = index, !.absent = absent, !.held = held]
    <2>2. at \in {"saving", "listing", "adding"}
        BY DEF Body
    <2> HIDE DEF at
    <2>3. /\ DOMAIN k = Fields /\ k.count = me.count /\ k.lines = me.lines /\ k.listed = me.listed
          /\ k.next = me.next /\ k.index = index /\ k.at = at
        BY <1>1, FieldsAre
    <2>4. Set(p, k)
        BY <2>1 DEF at
    <2> HIDE DEF k
    <2> QED
        BY <2>1, <2>2, <2>3, <2>4, SetKeeps DEF OpenIndex
<1>4. CASE Refuse(p) \/ GiveUp(p) \/ Quit(p) \/ SaveSettings(p) \/ AddToOutput(p)
    BY <1>4, EndKeeps DEF Refuse, GiveUp, Quit, SaveSettings, AddToOutput
<1>6. ASSUME NEW now
      PROVE  /\ DOMAIN OpenedAs(me, now) = Fields /\ OpenedAs(me, now).count = me.count
             /\ OpenedAs(me, now).lines = me.lines /\ OpenedAs(me, now).listed = me.listed
             /\ OpenedAs(me, now).next = me.next /\ OpenedAs(me, now).index = me.index
             /\ OpenedAs(me, now).at = "running"
    <2> DEFINE draft == Panel(me.session)
               opened == Exists(me.session["browse"], now)
               kobos == KobosIn(now)
               absent == Absent(me.program, now)
               k == OpenedAs(me, now)
    <2>1. k = [me EXCEPT !.at = "running", !.draft = draft, !.opened = opened, !.kobos = kobos,
                         !.absent = absent]
        BY DEF OpenedAs
    <2> HIDE DEF draft, opened, kobos, absent, k
    <2>2. /\ DOMAIN k = Fields /\ k.count = me.count /\ k.lines = me.lines /\ k.listed = me.listed
          /\ k.next = me.next /\ k.index = me.index /\ k.at = "running"
        BY <1>1, <2>1, FieldsAre
    <2> QED
        BY <2>2 DEF k
<1>7. CASE OpenAgain(p)
    BY <1>6, <1>7, SetKeeps DEF OpenAgain
<1>8. CASE FirstOpen(p)
    <2>0. SUFFICES ASSUME ~End(p)
                   PROVE  Keeps(p)
        BY EndKeeps
    <2>1. PICK now, locked, asked, held :
            Set(p, [OpenedAs(me, now) EXCEPT !.locked = locked, !.asked = asked, !.held = held])
        BY <1>8, <2>0 DEF FirstOpen
    <2> DEFINE opened == OpenedAs(me, now)
               k == [opened EXCEPT !.locked = locked, !.asked = asked, !.held = held]
    <2>2. /\ DOMAIN opened = Fields /\ opened.count = me.count /\ opened.lines = me.lines
          /\ opened.listed = me.listed /\ opened.next = me.next /\ opened.index = me.index
          /\ opened.at = "running"
        BY <1>6
    <2> HIDE DEF opened
    <2>3. /\ DOMAIN k = Fields /\ k.count = me.count /\ k.lines = me.lines /\ k.listed = me.listed
          /\ k.next = me.next /\ k.index = me.index /\ k.at = "running"
        BY <2>2, FieldsAre
    <2>4. Set(p, k)
        BY <2>1 DEF opened
    <2> HIDE DEF k
    <2> QED
        BY <2>3, <2>4, SetKeeps
<1>9. CASE StartAgain(p)
    <2> DEFINE program == me.program
               saved == Normal(file)
               session == Session(me.program.given, Normal(file))
               edits == me.edits
               count == me.count
               k == [Off EXCEPT !.at = "opening", !.program = program, !.saved = saved,
                                !.session = session, !.edits = edits, !.count = count]
    <2>1. Set(p, k) \/ End(p)
        BY <1>9 DEF StartAgain
    <2> HIDE DEF program, saved, session, edits, count
    <2>2. /\ DOMAIN k = Fields /\ k.count = count /\ k.lines = <<>> /\ k.listed = Unread
          /\ k.next = 1 /\ k.index = <<>> /\ k.at = "opening"
        BY DEF Fields, Off
    <2> HIDE DEF k
    <2>3. CASE Set(p, k)
        BY <2>2, <2>3, SetIs DEF Keeps, count
    <2> QED
        BY <2>1, <2>3, EndKeeps
<1>10. ASSUME NEW k, NEW value, Edit(p, k, value)
       PROVE  Keeps(p)
    <2> DEFINE draft == [me.draft EXCEPT ![k] = value]
               edits == me.edits + 1
               n == [me EXCEPT !.draft = draft, !.edits = edits]
    <2>1. Set(p, n) /\ me.at = "running"
        BY <1>1, <1>10, FieldsAre DEF Edit
    <2> HIDE DEF draft, edits
    <2>2. /\ DOMAIN n = Fields /\ n.count = me.count /\ n.lines = me.lines /\ n.listed = me.listed
          /\ n.next = me.next /\ n.index = me.index /\ n.at = me.at
        BY <1>1, FieldsAre
    <2> HIDE DEF n
    <2> QED
        BY <2>1, <2>2, SetKeeps
<1>11. CASE SavePanel(p)
    <2> DEFINE saved == Normal(PanelSettings(me.draft, me.saved))
               edits == IF me.draft = Panel(me.session) THEN me.edits + 1 ELSE me.edits
               k == [me EXCEPT !.at = "saved", !.saved = saved, !.edits = edits]
    <2>1. Set(p, k)
        BY <1>11 DEF SavePanel
    <2> HIDE DEF saved, edits
    <2>2. /\ DOMAIN k = Fields /\ k.count = me.count /\ k.lines = me.lines /\ k.listed = me.listed
          /\ k.next = me.next /\ k.index = me.index /\ k.at = "saved"
        BY <1>1, FieldsAre
    <2> HIDE DEF k
    <2> QED
        BY <2>1, <2>2, SetKeeps
<1>12. CASE Restart(p)
    <2> DEFINE draft == NoPlaces
               session == Restarted(me.program.given, me.session, me.saved)
               k == [me EXCEPT !.at = "opening", !.draft = draft, !.session = session]
    <2>1. Set(p, k) \/ End(p)
        BY <1>12 DEF Restart
    <2> HIDE DEF draft, session
    <2>2. /\ DOMAIN k = Fields /\ k.count = me.count /\ k.lines = me.lines /\ k.listed = me.listed
          /\ k.next = me.next /\ k.index = me.index /\ k.at = "opening"
        BY <1>1, FieldsAre
    <2> HIDE DEF k
    <2> QED
        BY <2>1, <2>2, SetKeeps, EndKeeps
<1> QED
    BY <1>2, <1>3, <1>4, <1>7, <1>8, <1>9, <1>10, <1>11, <1>12 DEF Quiet, Detect

LEMMA QuietLeaves ==
    ASSUME NEW p \in Procs, Quiet(p)
    PROVE  UNCHANGED <<record, stored, content>>
BY DEF Quiet, StartInterface, StartCommand, Refuse, FirstOpen, OpenAgain, StartAgain, GiveUp, Edit,
       Detect, SavePanel, Restart, Quit, SaveSettings, AddToOutput

(* A step that records nothing and is not about to. *)
Leaves(p) ==
    /\ DOMAIN proc' = Procs /\ DOMAIN proc'[p] = Fields
    /\ \A q \in Procs \ {p} : proc'[q] = proc[q]
    /\ proc'[p].count = proc[p].count
    /\ proc'[p].lines \in {proc[p].lines, <<>>}
    /\ proc'[p].at # "recording"

LEMMA SetLeaves ==
    ASSUME Shaped, NEW p \in Procs, NEW me, Set(p, me), DOMAIN me = Fields,
           me.count = proc[p].count, me.lines = proc[p].lines, me.at # "recording"
    PROVE  Leaves(p) /\ proc'[p] = me
BY SetIs DEF Leaves

LEMMA EndLeaves ==
    ASSUME Shaped, NEW p \in Procs, End(p)
    PROVE  Leaves(p)
BY EndIs, SetIs DEF Leaves

LEMMA KeepsLeaves == \A p \in Procs : Keeps(p) => Leaves(p)
BY DEF Keeps, Leaves

(* A book that is listed, from the index or not. *)
LEMMA ListedIs ==
    ASSUME Shaped, NEW p \in Procs, NEW sha
    PROVE  LET me == proc[p]
               k == Listed(me, sha) IN
           /\ DOMAIN k = Fields /\ k.count = me.count /\ k.lines = me.lines /\ k.at = "listing"
           /\ k.next = me.next + 1 /\ k.listed = [me.listed EXCEPT ![me.next] = sha]
           /\ k.index = me.index
<1> DEFINE me == proc[p]
           next == me.next + 1
           listed == [me.listed EXCEPT ![me.next] = sha]
           k == Listed(me, sha)
<1>1. DOMAIN me = Fields
    BY DEF Shaped
<1>2. k = [me EXCEPT !.at = "listing", !.key = None, !.next = next, !.listed = listed]
    BY <1>1, FieldsAre DEF Listed
<1> HIDE DEF next, listed, k
<1>3. /\ DOMAIN k = Fields /\ k.count = me.count /\ k.lines = me.lines /\ k.at = "listing"
      /\ k.next = next /\ k.listed = listed /\ k.index = me.index
    BY <1>1, <1>2, FieldsAre
<1> QED
    BY <1>3 DEF k, next, listed

LEMMA ListIs ==
    ASSUME Shaped, NEW p \in Procs, List(p)
    PROVE  LET me == proc[p]
               i == me.next
               key == SourceKey(Items[i], Fingerprint(i)) IN
           /\ Leaves(p)
           /\ me.at = "listing" /\ i \in DOMAIN Items
           /\ \/ /\ Hits(me.index, key) # {}
                 /\ proc'[p].at = "listing" /\ proc'[p].next = i + 1
                 /\ proc'[p].listed = [me.listed EXCEPT ![i] = Known(me.index, key)]
                 /\ proc'[p].index = Touch(me.index, key)
              \/ /\ proc'[p].at = "reading" /\ proc'[p].key = key /\ proc'[p].next = i
                 /\ proc'[p].listed = me.listed /\ proc'[p].index = me.index
<1> DEFINE me == proc[p]
           i == me.next
           key == SourceKey(Items[i], Fingerprint(i))
           sha == Known(me.index, key)
           listed == Listed(me, sha)
           index == Touch(me.index, key)
<1>0. DOMAIN me = Fields
    BY DEF Shaped
<1>1. me.at = "listing" /\ i \in DOMAIN Items
    BY DEF List
<1>2. CASE Hits(me.index, key) # {}
    <2> DEFINE k == [listed EXCEPT !.index = index]
    <2>1. Set(p, k)
        BY <1>2 DEF List
    <2>2. /\ DOMAIN listed = Fields /\ listed.count = me.count /\ listed.lines = me.lines
          /\ listed.at = "listing" /\ listed.next = i + 1
          /\ listed.listed = [me.listed EXCEPT ![i] = sha]
        BY ListedIs
    <2> HIDE DEF listed, index
    <2>3. /\ DOMAIN k = Fields /\ k.count = me.count /\ k.lines = me.lines /\ k.at = "listing"
          /\ k.next = i + 1 /\ k.listed = [me.listed EXCEPT ![i] = sha] /\ k.index = index
        BY <2>2, FieldsAre
    <2> HIDE DEF k
    <2>4. Leaves(p) /\ proc'[p] = k
        BY <2>1, <2>3, SetLeaves
    <2> QED
        BY <1>1, <1>2, <2>3, <2>4 DEF index
<1>3. CASE Hits(me.index, key) = {}
    <2> HIDE DEF key
    <2> DEFINE k == [me EXCEPT !.at = "reading", !.key = key]
    <2>1. Set(p, k)
        BY <1>3 DEF List, key
    <2>2. /\ DOMAIN k = Fields /\ k.count = me.count /\ k.lines = me.lines /\ k.at = "reading"
          /\ k.next = i /\ k.listed = me.listed /\ k.index = me.index /\ k.key = key
        BY <1>0, FieldsAre
    <2> HIDE DEF k
    <2>3. Leaves(p) /\ proc'[p] = k
        BY <2>1, <2>2, SetLeaves
    <2> QED
        BY <1>1, <2>2, <2>3 DEF key
<1> QED
    BY <1>2, <1>3

LEMMA ReadIs ==
    ASSUME Shaped, NEW p \in Procs, Read(p)
    PROVE  LET me == proc[p]
               sha == content[me.next] IN
           /\ Leaves(p)
           /\ me.at = "reading" /\ proc'[p].at = "listing" /\ proc'[p].next = me.next + 1
           /\ \/ /\ proc'[p].listed = [me.listed EXCEPT ![me.next] = sha]
                 /\ proc'[p].index = Put(me.index, me.key, sha)
              \/ /\ proc'[p].listed = [me.listed EXCEPT ![me.next] = None]
                 /\ proc'[p].index = me.index
<1> DEFINE me == proc[p]
           sha == content[me.next]
           index == Put(me.index, me.key, sha)
           listed == Listed(me, sha)
           k == [listed EXCEPT !.index = index, !.dirty = TRUE]
           n == Listed(me, None)
<1>1. me.at = "reading" /\ (Set(p, k) \/ Set(p, n))
    BY DEF Read
<1>2. CASE Set(p, k)
    <2>1. /\ DOMAIN listed = Fields /\ listed.count = me.count /\ listed.lines = me.lines
          /\ listed.at = "listing" /\ listed.next = me.next + 1
          /\ listed.listed = [me.listed EXCEPT ![me.next] = sha]
        BY ListedIs
    <2> HIDE DEF listed, index
    <2>2. /\ DOMAIN k = Fields /\ k.count = me.count /\ k.lines = me.lines /\ k.at = "listing"
          /\ k.next = me.next + 1 /\ k.listed = [me.listed EXCEPT ![me.next] = sha]
          /\ k.index = index
        BY <2>1, FieldsAre
    <2> HIDE DEF k
    <2>3. Leaves(p) /\ proc'[p] = k
        BY <1>2, <2>2, SetLeaves
    <2> QED
        BY <1>1, <2>2, <2>3 DEF index
<1>3. CASE Set(p, n)
    <2>1. /\ DOMAIN n = Fields /\ n.count = me.count /\ n.lines = me.lines
          /\ n.at = "listing" /\ n.next = me.next + 1
          /\ n.listed = [me.listed EXCEPT ![me.next] = None] /\ n.index = me.index
        BY ListedIs
    <2> HIDE DEF n, k
    <2>2. Leaves(p) /\ proc'[p] = n
        BY <1>3, <2>1, SetLeaves
    <2> QED
        BY <1>1, <2>1, <2>2
<1> QED
    BY <1>1, <1>2, <1>3

LEMMA KeepIndexIs ==
    ASSUME Shaped, NEW p \in Procs, KeepIndex(p)
    PROVE  /\ Leaves(p)
           /\ proc'[p].at \in {"copying", "off"} /\ proc'[p].next = 1 /\ proc'[p].index = <<>>
           /\ \/ proc'[p].listed = Unread
              \/ proc'[p].listed =
                    [i \in DOMAIN Items |-> IF proc[p].listed[i] = None THEN None ELSE 0]
           /\ \/ stored' = stored
              \/ \E aged \in 0..Len(proc[p].index) : stored' = Trimmed(proc[p].index, aged)
<1> DEFINE me == proc[p]
           listed == [i \in DOMAIN Items |-> IF me.listed[i] = None THEN None ELSE 0]
           k == [me EXCEPT !.at = "copying", !.next = 1, !.index = <<>>, !.dirty = FALSE,
                           !.listed = listed]
<1>0. DOMAIN me = Fields
    BY DEF Shaped
<1>1. \/ stored' = stored
      \/ \E aged \in 0..Len(me.index) : stored' = Trimmed(me.index, aged)
    BY DEF KeepIndex
<1>2. Set(p, k) \/ End(p)
    BY <1>0, FieldsAre DEF KeepIndex
<1>3. CASE Set(p, k)
    <2> HIDE DEF listed
    <2>1. /\ DOMAIN k = Fields /\ k.count = me.count /\ k.lines = me.lines /\ k.at = "copying"
          /\ k.next = 1 /\ k.listed = listed /\ k.index = <<>>
        BY <1>0, FieldsAre
    <2> HIDE DEF k
    <2>2. Leaves(p) /\ proc'[p] = k
        BY <1>3, <2>1, SetLeaves
    <2> QED
        BY <1>1, <2>1, <2>2 DEF listed
<1>4. CASE End(p)
    BY <1>1, <1>4, EndIs, EndLeaves
<1> QED
    BY <1>2, <1>3, <1>4

LEMMA TransferIs ==
    ASSUME Shaped, NEW p \in Procs, Transfer(p)
    PROVE  /\ proc[p].at = "copying"
           /\ DOMAIN proc' = Procs /\ DOMAIN proc'[p] = Fields
           /\ \A q \in Procs \ {p} : proc'[q] = proc[q]
           /\ \/ Leaves(p) /\ End(p)
              \/ /\ proc'[p].at = "recording" /\ proc'[p].count = proc[p].count + 1
                 /\ proc'[p].lines \in {record, <<>>}
                 /\ proc'[p].listed = proc[p].listed /\ proc'[p].index = proc[p].index
                 /\ \E i \in Planned(p) : proc'[p].next = i + 1
<1> DEFINE me == proc[p]
<1>0. DOMAIN me = Fields
    BY DEF Shaped
<1>1. me.at = "copying"
    BY DEF Transfer
<1>2. CASE End(p)
    BY <1>1, <1>2, EndLeaves DEF Leaves
<1>3. ASSUME NEW lines \in ReadLines(record), NEW i \in Planned(p),
             Set(p, [me EXCEPT !.at = "recording", !.lines = lines, !.next = i + 1, !.count = @ + 1])
      PROVE  /\ DOMAIN proc' = Procs /\ DOMAIN proc'[p] = Fields
             /\ \A q \in Procs \ {p} : proc'[q] = proc[q]
             /\ proc'[p].at = "recording" /\ proc'[p].count = me.count + 1
             /\ proc'[p].lines \in {record, <<>>}
             /\ proc'[p].listed = me.listed /\ proc'[p].index = me.index
             /\ proc'[p].next = i + 1
    <2> DEFINE next == i + 1
               count == me.count + 1
               k == [me EXCEPT !.at = "recording", !.lines = lines, !.next = next, !.count = count]
    <2>1. Set(p, k)
        BY <1>0, <1>3, FieldsAre
    <2> HIDE DEF next, count
    <2>2. /\ DOMAIN k = Fields /\ k.count = count /\ k.lines = lines /\ k.at = "recording"
          /\ k.next = next /\ k.listed = me.listed /\ k.index = me.index
        BY <1>0, FieldsAre
    <2> HIDE DEF k
    <2>3. /\ DOMAIN proc' = Procs /\ proc'[p] = k
          /\ \A q \in Procs \ {p} : proc'[q] = proc[q]
        BY <2>1, <2>2, SetIs
    <2> QED
        BY <2>2, <2>3 DEF next, count, ReadLines
<1>4. \/ End(p)
      \/ \E lines \in ReadLines(record), i \in Planned(p) :
            Set(p, [me EXCEPT !.at = "recording", !.lines = lines, !.next = i + 1, !.count = @ + 1])
    BY DEF Transfer
<1> QED
    BY <1>1, <1>2, <1>3, <1>4

LEMMA WriteRecordIs ==
    ASSUME Shaped, NEW p \in Procs, WriteRecord(p)
    PROVE  /\ Leaves(p)
           /\ proc[p].at = "recording" /\ proc'[p].at = "copying"
           /\ proc'[p].listed = proc[p].listed /\ proc'[p].index = proc[p].index
           /\ proc'[p].next = proc[p].next
           /\ record' \in {record, Recorded(proc[p].lines, [by |-> p, n |-> proc[p].count])}
<1> DEFINE me == proc[p]
           k == [me EXCEPT !.at = "copying", !.lines = <<>>]
<1>1. /\ me.at = "recording" /\ DOMAIN me = Fields /\ Set(p, k)
      /\ record' \in {record, Recorded(me.lines, [by |-> p, n |-> me.count])}
    BY DEF WriteRecord, Shaped
<1>2. /\ DOMAIN k = Fields /\ k.count = me.count /\ k.lines = <<>> /\ k.at = "copying"
      /\ k.next = me.next /\ k.listed = me.listed /\ k.index = me.index
    BY <1>1, FieldsAre
<1> HIDE DEF k
<1>3. /\ DOMAIN proc' = Procs /\ proc'[p] = k
      /\ \A q \in Procs \ {p} : proc'[q] = proc[q]
    BY <1>1, <1>2, SetIs
<1> QED
    BY <1>1, <1>2, <1>3 DEF Leaves

LEMMA OthersStay ==
    ASSUME Shaped, NEW p \in Procs, Step(p)
    PROVE  \A q \in Procs \ {p} : proc'[q] = proc[q]
<1>1. ASSUME Leaves(p)
      PROVE  \A q \in Procs \ {p} : proc'[q] = proc[q]
    BY <1>1 DEF Leaves
<1>2. Quiet(p) => Leaves(p)
    BY InterfaceKeeps, KeepsLeaves
<1>3. List(p) \/ Read(p) \/ KeepIndex(p) \/ WriteRecord(p) => Leaves(p)
    BY ListIs, ReadIs, KeepIndexIs, WriteRecordIs
<1>4. Transfer(p) => \A q \in Procs \ {p} : proc'[q] = proc[q]
    BY TransferIs
<1> QED
    BY <1>1, <1>2, <1>3, <1>4 DEF Step

-----------------------------------------------------------------------------
(* The record of copies. *)

LEMMA LastOfIs ==
    ASSUME NEW S, NEW seq \in Seq(S), NEW n \in Nat
    PROVE  LET last == LastOf(seq, n) IN
           /\ last \in Seq(S) /\ Len(last) \in Nat /\ Len(last) <= n
           /\ \E d \in Nat : /\ Len(last) + d = Len(seq)
                             /\ \A i \in 1..Len(last) : i + d \in 1..Len(seq) /\ last[i] = seq[i + d]
<1> DEFINE d == IF Len(seq) > n THEN Len(seq) - n ELSE 0
           last == SubSeq(seq, 1 + d, Len(seq))
<1>1. Len(seq) \in Nat /\ d \in Nat /\ d <= Len(seq) /\ Len(seq) - d <= n
    BY LenProperties
<1>2. last = LastOf(seq, n)
    BY DEF LastOf
<1> HIDE DEF d
<1>3. 1 + d \in Int /\ Len(seq) \in Int /\ \A i \in 1 + d..Len(seq) : seq[i] \in S
    BY <1>1, ElementOfSeq
<1>4. /\ last \in Seq(S)
      /\ Len(last) = IF 1 + d <= Len(seq) THEN Len(seq) - (1 + d) + 1 ELSE 0
      /\ \A i \in 1..(Len(seq) - (1 + d) + 1) : last[i] = seq[1 + d + i - 1]
    BY <1>3, SubSeqProperties
<1> HIDE DEF last
<1>5. Len(last) = Len(seq) - d
    <2>1. 1 + d <= Len(seq) => Len(seq) - (1 + d) + 1 = Len(seq) - d
        BY <1>1
    <2>2. ~(1 + d <= Len(seq)) => Len(seq) - d = 0
        BY <1>1
    <2> QED
        BY <1>4, <2>1, <2>2
<1>6. ASSUME NEW i \in 1..Len(last)
      PROVE  i + d \in 1..Len(seq) /\ last[i] = seq[i + d]
    <2>1. i \in 1..(Len(seq) - (1 + d) + 1) /\ 1 + d + i - 1 = i + d /\ i + d \in 1..Len(seq)
        BY <1>1, <1>5
    <2>2. last[i] = seq[1 + d + i - 1]
        BY <1>4, <2>1
    <2> QED
        BY <2>1, <2>2
<1>7. Len(last) \in Nat /\ Len(last) <= n /\ Len(last) + d = Len(seq)
    BY <1>1, <1>5
<1> QED
    BY <1>1, <1>2, <1>4, <1>6, <1>7

LEMMA LinesAre ==
    ASSUME NEW lines \in Seq(Line), NEW i \in DOMAIN lines
    PROVE  lines[i] \in Line /\ lines[i].by \in Procs /\ lines[i].n \in Nat
<1>1. lines[i] \in Line
    BY LenProperties, ElementOfSeq
<1> QED
    BY <1>1 DEF Line

(* A record with one more line is still in order. *)
LEMMA RecordedInOrder ==
    ASSUME NEW p \in Procs, NEW n \in Nat, NEW lines \in Seq(Line), Ordered(lines),
           \A i \in DOMAIN lines : lines[i].by = p => lines[i].n < n
    PROVE  LET next == Recorded(lines, [by |-> p, n |-> n]) IN
           /\ next \in Seq(Line) /\ Len(next) <= MaxLines /\ Ordered(next)
           /\ \A i \in DOMAIN next :
                \/ next[i].by = p /\ next[i].n = n
                \/ \E j \in DOMAIN lines : next[i] = lines[j]
<1> DEFINE copy == [by |-> p, n |-> n]
           next == Recorded(lines, copy)
           last == LastOf(lines, MaxLines - 1)
           k == Len(last)
<1>1. copy \in Line /\ copy.by = p /\ copy.n = n
    BY DEF Line
<1>2. next = Append(last, copy)
    BY DEF Recorded
<1> HIDE DEF copy, next
<1>3. MaxLines - 1 \in Nat
    BY SharedAssumption
<1>4. /\ last \in Seq(Line) /\ k \in Nat /\ k <= MaxLines - 1
      /\ \E d \in Nat : /\ k + d = Len(lines)
                        /\ \A i \in 1..k : i + d \in 1..Len(lines) /\ last[i] = lines[i + d]
    BY <1>3, LastOfIs
<1> HIDE DEF last
<1>5. /\ next \in Seq(Line) /\ Len(next) = k + 1 /\ next[k + 1] = copy
      /\ \A i \in 1..k : next[i] = last[i]
    BY <1>1, <1>2, <1>4, AppendProperties
<1>6. PICK d \in Nat : \A i \in 1..k : i + d \in DOMAIN lines /\ next[i] = lines[i + d]
    BY <1>4, <1>5, LenProperties
<1>7. DOMAIN next = 1..k + 1
    BY <1>5, LenProperties
<1>8. ASSUME NEW i \in DOMAIN next
      PROVE  \/ next[i].by = p /\ next[i].n = n
             \/ \E j \in DOMAIN lines : next[i] = lines[j]
    <2>1. i \in 1..k \/ i = k + 1
        BY <1>4, <1>7
    <2> QED
        BY <1>1, <1>5, <1>6, <2>1
<1>9. ASSUME NEW i \in DOMAIN next, NEW j \in DOMAIN next, i < j, next[i].by = next[j].by
      PROVE  next[i].n < next[j].n
    <2>1. i \in 1..k /\ i + d < j + d /\ (j \in 1..k \/ j = k + 1)
        BY <1>4, <1>7, <1>9
    <2>2. CASE j = k + 1
        BY <1>1, <1>5, <1>6, <1>9, <2>1, <2>2
    <2>3. CASE j \in 1..k
        BY <1>6, <1>9, <2>1, <2>3 DEF Ordered
    <2> QED
        BY <2>1, <2>2, <2>3
<1>10. Ordered(next) /\ Len(next) <= MaxLines
    BY <1>4, <1>9, <1>5, SharedAssumption DEF Ordered
<1> QED
    BY <1>8, <1>10, <1>5 DEF copy, next

LEMMA EmptyLines ==
    /\ <<>> \in Seq(Line) /\ Ordered(<<>>) /\ Len(<<>>) = 0
    /\ \A procs : Past(<<>>, procs)
BY DEF Ordered, Past

(* Whose step it is does not matter to the others, nor does a step that    *)
(* leaves the copies alone.                                                *)
LEMMA PastLeft ==
    ASSUME Shaped, NEW p \in Procs, Leaves(p), NEW lines \in Seq(Line), Past(lines, proc)
    PROVE  Past(lines, proc')
<1>1. \A i \in DOMAIN lines : lines[i] \in Line /\ lines[i].by \in Procs /\ lines[i].n \in Nat
    BY LinesAre
<1>2. \A q \in Procs : /\ proc'[q].count = proc[q].count
                       /\ proc'[q].at = "recording" => proc[q].at = "recording"
    BY DEF Leaves
<1> QED
    BY <1>1, <1>2 DEF Past

LEMMA PastCopied ==
    ASSUME Shaped, NEW p \in Procs, NEW lines \in Seq(Line), Past(lines, proc),
           \A q \in Procs \ {p} : proc'[q] = proc[q],
           proc'[p].count = proc[p].count + 1
    PROVE  Past(lines, proc')
<1>1. \A i \in DOMAIN lines : lines[i] \in Line /\ lines[i].by \in Procs /\ lines[i].n \in Nat
    BY LinesAre
<1>2. ASSUME NEW i \in DOMAIN lines
      PROVE  LET by == proc'[lines[i].by] IN
             lines[i].n <= by.count /\ (by.at = "recording" => lines[i].n < by.count)
    <2>1. CASE lines[i].by = p
        <3>1. lines[i].n <= proc[p].count /\ proc[p].count \in Nat /\ lines[i].n \in Nat
            BY <1>1, <2>1 DEF Past, Shaped
        <3>2. lines[i].n < proc[p].count + 1
            BY <3>1
        <3> QED
            BY <2>1, <3>1, <3>2
    <2>2. CASE lines[i].by # p
        BY <1>1, <2>2 DEF Past
    <2> QED
        BY <2>1, <2>2
<1> QED
    BY <1>2 DEF Past

(* What a step has to keep. *)
LEMMA RecordLeft ==
    ASSUME RecordInv, NEW p \in Procs, Leaves(p), UNCHANGED record
    PROVE  RecordInv'
<1>1. Shaped'
    <2>1. proc'[p].count \in Nat /\ proc'[p].lines \in Seq(Line)
        BY EmptyLines DEF RecordInv, Shaped, Leaves
    <2>2. \A q \in Procs \ {p} : DOMAIN proc'[q] = Fields /\ proc'[q].count \in Nat /\ proc'[q].lines \in Seq(Line)
        BY DEF RecordInv, Shaped, Leaves
    <2> QED
        BY <2>1, <2>2 DEF RecordInv, Shaped, Leaves
<1>2. \A lines \in {record} \union {proc[q].lines : q \in Procs} :
        lines \in Seq(Line) /\ Ordered(lines) /\ Past(lines, proc)
    BY DEF RecordInv, Shaped
<1>3. \A lines \in {record} \union {proc[q].lines : q \in Procs} : Ordered(lines) /\ Past(lines, proc')
    BY <1>2, PastLeft DEF RecordInv
<1>4. \A lines \in {record} \union {proc'[q].lines : q \in Procs} : Ordered(lines) /\ Past(lines, proc')
    BY <1>3, EmptyLines DEF Leaves
<1> QED
    BY <1>1, <1>4 DEF RecordInv

LEMMA RecordCopied ==
    ASSUME RecordInv, NEW p \in Procs, Transfer(p)
    PROVE  RecordInv'
<1>1. Shaped /\ UNCHANGED record
    BY DEF RecordInv, Transfer
<1>2. CASE Leaves(p)
    BY <1>1, <1>2, RecordLeft
<1>3. CASE ~Leaves(p)
    <2>1. /\ DOMAIN proc' = Procs /\ DOMAIN proc'[p] = Fields
          /\ \A q \in Procs \ {p} : proc'[q] = proc[q]
          /\ proc'[p].count = proc[p].count + 1
          /\ proc'[p].lines \in {record, <<>>}
        BY <1>1, <1>3, TransferIs
    <2>2. Shaped'
        <3>1. proc'[p].count \in Nat /\ proc'[p].lines \in Seq(Line)
            <4>1. proc[p].count \in Nat /\ record \in Seq(Line)
                BY <1>1 DEF Shaped
            <4>2. proc'[p].count \in Nat
                BY <2>1, <4>1
            <4>3. proc'[p].lines \in Seq(Line)
                BY <2>1, <4>1, EmptyLines
            <4> QED
                BY <4>2, <4>3
        <3>2. \A q \in Procs \ {p} : DOMAIN proc'[q] = Fields /\ proc'[q].count \in Nat /\ proc'[q].lines \in Seq(Line)
            BY <1>1, <2>1 DEF Shaped
        <3> QED
            BY <1>1, <2>1, <3>1, <3>2 DEF Shaped
    <2>3. \A lines \in {record} \union {proc[q].lines : q \in Procs} :
            lines \in Seq(Line) /\ Ordered(lines) /\ Past(lines, proc)
        BY DEF RecordInv, Shaped
    <2>4. \A lines \in {record} \union {proc[q].lines : q \in Procs} : Ordered(lines) /\ Past(lines, proc')
        BY <1>1, <2>1, <2>3, PastCopied
    <2>5. \A lines \in {record} \union {proc'[q].lines : q \in Procs} : Ordered(lines) /\ Past(lines, proc')
        BY <2>1, <2>4, EmptyLines
    <2> QED
        BY <1>1, <2>2, <2>5 DEF RecordInv
<1> QED
    BY <1>2, <1>3

LEMMA RecordWritten ==
    ASSUME RecordInv, NEW p \in Procs, WriteRecord(p)
    PROVE  RecordInv'
<1> DEFINE n == proc[p].count
           lines == proc[p].lines
           next == Recorded(lines, [by |-> p, n |-> n])
<1>1. Shaped /\ Leaves(p) /\ proc[p].at = "recording" /\ proc'[p].at = "copying" /\ record' \in {record, next}
    BY WriteRecordIs DEF RecordInv
<1>2. n \in Nat /\ lines \in Seq(Line) /\ Ordered(lines) /\ Past(lines, proc)
    BY <1>1 DEF RecordInv, Shaped
<1>3. \A i \in DOMAIN lines : lines[i].by = p => lines[i].n < n
    BY <1>1, <1>2 DEF Past
<1> HIDE DEF n, lines
<1>4. /\ next \in Seq(Line) /\ Len(next) <= MaxLines /\ Ordered(next)
      /\ \A i \in DOMAIN next :
            \/ next[i].by = p /\ next[i].n = n
            \/ \E j \in DOMAIN lines : next[i] = lines[j]
    BY <1>2, <1>3, RecordedInOrder
<1> HIDE DEF next
<1>5. CASE record' = record
    BY <1>1, <1>5, RecordLeft
<1>6. CASE record' = next
    <2>1. Past(lines, proc')
        BY <1>1, <1>2, PastLeft
    <2>2. proc'[p].at # "recording" /\ proc'[p].count = n /\ n <= n
        BY <1>1, <1>2 DEF Leaves, n
    <2>3. Past(next, proc')
        BY <1>4, <2>1, <2>2 DEF Past
    <2>4. \A l \in {proc[q].lines : q \in Procs} : l \in Seq(Line) /\ Ordered(l) /\ Past(l, proc')
        BY <1>1, PastLeft DEF RecordInv, Shaped
    <2>5. \A l \in {record'} \union {proc'[q].lines : q \in Procs} : Ordered(l) /\ Past(l, proc')
        BY <1>1, <1>4, <1>6, <2>3, <2>4, EmptyLines DEF Leaves
    <2>6. \A q \in Procs : DOMAIN proc'[q] = Fields /\ proc'[q].count \in Nat /\ proc'[q].lines \in Seq(Line)
        BY <1>1, EmptyLines DEF Leaves, Shaped
    <2>7. Shaped'
        BY <1>1, <1>4, <1>6, <2>6 DEF Leaves, Shaped
    <2> QED
        BY <1>4, <1>6, <2>5, <2>7 DEF RecordInv
<1> QED
    BY <1>1, <1>5, <1>6

LEMMA RecordInvHolds == Spec => []RecordInv
<1>1. Init => RecordInv
    <2> SUFFICES ASSUME Init PROVE RecordInv
        OBVIOUS
    <2>1. /\ record = <<>> /\ DOMAIN proc = Procs
          /\ \A p \in Procs : DOMAIN proc[p] = Fields /\ proc[p].count = 0 /\ proc[p].lines = <<>>
        BY DEF Init, Off, Fields
    <2>2. \A p \in Procs : proc[p].count \in Nat
        BY <2>1
    <2>3. \A p \in Procs : proc[p].lines \in Seq(Line)
        BY <2>1, EmptyLines
    <2>4. record \in Seq(Line)
        BY <2>1, EmptyLines
    <2>5. Shaped
        BY <2>1, <2>2, <2>3, <2>4 DEF Shaped
    <2>6. Len(record) <= MaxLines
        BY <2>1, EmptyLines, SharedAssumption
    <2>7. \A lines \in {record} \union {proc[p].lines : p \in Procs} : lines = <<>>
        BY <2>1
    <2> QED
        BY <2>5, <2>6, <2>7, EmptyLines DEF RecordInv
<1>2. RecordInv /\ [Next]_vars => RecordInv'
    <2> SUFFICES ASSUME RecordInv, [Next]_vars PROVE RecordInv'
        OBVIOUS
    <2>1. ASSUME NEW p \in Procs, Step(p)
          PROVE  RecordInv'
        <3>1. CASE Quiet(p)
            BY <2>1, <3>1, InterfaceKeeps, KeepsLeaves, QuietLeaves, RecordLeft DEF RecordInv
        <3>2. CASE List(p)
            BY <2>1, <3>2, ListIs, RecordLeft DEF RecordInv, List
        <3>3. CASE Read(p)
            BY <2>1, <3>3, ReadIs, RecordLeft DEF RecordInv, Read
        <3>4. CASE KeepIndex(p)
            BY <2>1, <3>4, KeepIndexIs, RecordLeft DEF RecordInv, KeepIndex
        <3> QED
            BY <2>1, <3>1, <3>2, <3>3, <3>4, RecordCopied, RecordWritten DEF Step
    <2>2. CASE World \/ UNCHANGED vars
        BY <2>2 DEF World, Plug, Unplug, Change, vars, RecordInv, Shaped
    <2> QED
        BY <2>1, <2>2, NextIs
<1> QED
    BY <1>1, <1>2, PTL DEF Spec

(* However processes race for the record, and whatever of it is lost, it   *)
(* stays bounded, and every process's copies are in it once and in the     *)
(* order they were made (history.rs, append).                              *)
THEOREM RecordStaysInOrder == Spec => []RecordInOrder
<1>1. RecordInv => RecordInOrder
    BY DEF RecordInv, RecordInOrder, Ordered
<1> QED
    BY <1>1, RecordInvHolds, PTL

-----------------------------------------------------------------------------
(* The session of an interface, and the settings it saves. *)

LEMMA SetInSession ==
    ASSUME Shaped, SessionInv, NEW p \in Procs, NEW me, Set(p, me), DOMAIN me = Fields, InSession(me)
    PROVE  SessionInv'
BY SetIs DEF SessionInv, InSession

LEMMA OtherAt ==
    ASSUME SessionInv, NEW p \in Procs, \A q \in Procs \ {p} : proc'[q] = proc[q],
           proc'[p].at \notin {"opening", "running"}
    PROVE  SessionInv'
BY DEF SessionInv, InSession

LEMMA EndInSession ==
    ASSUME Shaped, SessionInv, NEW p \in Procs, End(p)
    PROVE  SessionInv'
BY EndIs, SetIs, OtherAt

LEMMA OpenedInSession ==
    ASSUME Shaped, NEW p \in Procs, InSession(proc[p]), proc[p].at = "opening", NEW now,
           NEW me, me = OpenedAs(proc[p], now)
    PROVE  DOMAIN me = Fields /\ InSession(me)
<1> DEFINE old == proc[p]
           draft == Panel(old.session)
           opened == Exists(old.session["browse"], now)
           kobos == KobosIn(now)
           absent == Absent(old.program, now)
<1>1. DOMAIN old = Fields /\ old.session = Session(old.program.given, old.saved)
    BY DEF Shaped, InSession
<1>2. me = [old EXCEPT !.at = "running", !.draft = draft, !.opened = opened, !.kobos = kobos,
                       !.absent = absent]
    BY DEF OpenedAs
<1> HIDE DEF draft, opened, kobos, absent
<1>3. /\ DOMAIN me = Fields /\ me.session = old.session /\ me.program = old.program
      /\ me.saved = old.saved
    BY <1>1, <1>2, FieldsAre
<1> QED
    BY <1>1, <1>3 DEF InSession

LEMMA QuietInSession ==
    ASSUME Shaped, SessionInv, NEW p \in Procs, Quiet(p)
    PROVE  SessionInv'
<1> DEFINE me == proc[p]
<1>1. DOMAIN me = Fields /\ InSession(me)
    BY DEF Shaped, SessionInv
<1>2. ASSUME NEW program, StartInterface(p, program)
      PROVE  SessionInv'
    <2> DEFINE saved == Normal(file)
               session == Session(program.given, saved)
               k == [me EXCEPT !.at = "opening", !.program = program, !.saved = saved, !.session = session]
    <2>1. Set(p, k)
        BY <1>2 DEF StartInterface
    <2> HIDE DEF saved, session
    <2>2. /\ DOMAIN k = Fields /\ k.session = session /\ k.program = program /\ k.saved = saved
        BY <1>1, FieldsAre
    <2> HIDE DEF k
    <2>3. InSession(k)
        BY <2>2 DEF InSession, session
    <2> QED
        BY <2>1, <2>2, <2>3, SetInSession
<1>3. ASSUME NEW program, StartCommand(p, program)
      PROVE  SessionInv'
    <2>0. SUFFICES ASSUME ~End(p)
                   PROVE  SessionInv'
        BY EndInSession
    <2>1. PICK index, saved, held, locked, absent :
            Set(p, [me EXCEPT !.at = Body(program), !.program = program, !.saved = saved,
                              !.locked = locked, !.index = index, !.absent = absent, !.held = held])
        BY <1>3, <2>0 DEF StartCommand
    <2> DEFINE at == Body(program)
               k == [me EXCEPT !.at = at, !.program = program, !.saved = saved,
                               !.locked = locked, !.index = index, !.absent = absent, !.held = held]
    <2>2. at \in {"saving", "listing", "adding"}
        BY DEF Body
    <2> HIDE DEF at
    <2>3. DOMAIN k = Fields /\ k.at = at
        BY <1>1, FieldsAre
    <2>4. Set(p, k)
        BY <2>1 DEF at
    <2> HIDE DEF k
    <2>5. InSession(k)
        BY <2>2, <2>3 DEF InSession
    <2> QED
        BY <2>3, <2>4, <2>5, SetInSession
<1>4. CASE Refuse(p) \/ GiveUp(p) \/ Quit(p) \/ SaveSettings(p) \/ AddToOutput(p)
    BY <1>4, EndInSession DEF Refuse, GiveUp, Quit, SaveSettings, AddToOutput
<1>5. CASE OpenAgain(p)
    <2> DEFINE k == OpenedAs(me, OwnMade)
    <2>1. Set(p, k) /\ me.at = "opening"
        BY <1>5 DEF OpenAgain, Opening
    <2>2. DOMAIN k = Fields /\ InSession(k)
        BY <1>1, <2>1, OpenedInSession
    <2> HIDE DEF k
    <2> QED
        BY <2>1, <2>2, SetInSession
<1>6. CASE FirstOpen(p)
    <2>0. SUFFICES ASSUME ~End(p)
                   PROVE  SessionInv'
        BY EndInSession
    <2>1. PICK now, locked, asked, held :
            Set(p, [OpenedAs(me, now) EXCEPT !.locked = locked, !.asked = asked, !.held = held])
        BY <1>6, <2>0 DEF FirstOpen
    <2> DEFINE opened == OpenedAs(me, now)
               k == [opened EXCEPT !.locked = locked, !.asked = asked, !.held = held]
    <2>2. me.at = "opening"
        BY <1>6 DEF FirstOpen, Opening
    <2>3. DOMAIN opened = Fields /\ InSession(opened)
        BY <1>1, <2>2, OpenedInSession
    <2> HIDE DEF opened
    <2>4. /\ DOMAIN k = Fields /\ k.at = opened.at /\ k.session = opened.session
          /\ k.program = opened.program /\ k.saved = opened.saved
        BY <2>3, FieldsAre
    <2>5. Set(p, k)
        BY <2>1 DEF opened
    <2> HIDE DEF k
    <2>6. InSession(k)
        BY <2>3, <2>4 DEF InSession
    <2> QED
        BY <2>4, <2>5, <2>6, SetInSession
<1>7. CASE StartAgain(p)
    <2> DEFINE program == me.program
               saved == Normal(file)
               session == Session(program.given, saved)
               edits == me.edits
               count == me.count
               k == [Off EXCEPT !.at = "opening", !.program = program, !.saved = saved,
                                !.session = session, !.edits = edits, !.count = count]
    <2>1. Set(p, k) \/ End(p)
        BY <1>7 DEF StartAgain
    <2> HIDE DEF program, saved, session, edits, count
    <2>2. DOMAIN k = Fields /\ k.session = session /\ k.program = program /\ k.saved = saved
        BY DEF Fields, Off
    <2> HIDE DEF k
    <2>3. InSession(k)
        BY <2>2 DEF InSession, session
    <2> QED
        BY <2>1, <2>2, <2>3, SetInSession, EndInSession
<1>8. ASSUME NEW k, NEW value, Edit(p, k, value)
      PROVE  SessionInv'
    <2> DEFINE draft == [me.draft EXCEPT ![k] = value]
               edits == me.edits + 1
               n == [me EXCEPT !.draft = draft, !.edits = edits]
    <2>1. Set(p, n)
        BY <1>1, <1>8, FieldsAre DEF Edit
    <2> HIDE DEF draft, edits
    <2>2. /\ DOMAIN n = Fields /\ n.at = me.at /\ n.session = me.session
          /\ n.program = me.program /\ n.saved = me.saved
        BY <1>1, FieldsAre
    <2> HIDE DEF n
    <2>3. InSession(n)
        BY <1>1, <2>2 DEF InSession
    <2> QED
        BY <2>1, <2>2, <2>3, SetInSession
<1>9. CASE SavePanel(p)
    <2> DEFINE saved == Normal(PanelSettings(me.draft, me.saved))
               edits == IF me.draft = Panel(me.session) THEN me.edits + 1 ELSE me.edits
               k == [me EXCEPT !.at = "saved", !.saved = saved, !.edits = edits]
    <2>1. Set(p, k)
        BY <1>9 DEF SavePanel
    <2> HIDE DEF saved, edits
    <2>2. DOMAIN k = Fields /\ k.at = "saved"
        BY <1>1, FieldsAre
    <2> HIDE DEF k
    <2>3. InSession(k)
        BY <2>2 DEF InSession
    <2> QED
        BY <2>1, <2>2, <2>3, SetInSession
<1>10. CASE Restart(p)
    <2> DEFINE draft == NoPlaces
               program == me.program
               saved == me.saved
               session == Session(program.given, saved)
               k == [me EXCEPT !.at = "opening", !.draft = draft, !.session = session]
    <2>1. Set(p, k) \/ End(p)
        BY <1>10 DEF Restart, Restarted
    <2> HIDE DEF draft, session, program, saved
    <2>2. DOMAIN k = Fields /\ k.session = session /\ k.program = program /\ k.saved = saved
        BY <1>1, FieldsAre DEF program, saved
    <2> HIDE DEF k
    <2>3. InSession(k)
        BY <2>2 DEF InSession, session
    <2> QED
        BY <2>1, <2>2, <2>3, SetInSession, EndInSession
<1> QED
    BY <1>2, <1>3, <1>4, <1>5, <1>6, <1>7, <1>8, <1>9, <1>10 DEF Quiet, Detect

LEMMA SessionInductive == Spec => [](Shaped /\ SessionInv)
<1>1. Init => SessionInv
    <2> SUFFICES ASSUME Init PROVE SessionInv
        OBVIOUS
    <2>1. \A p \in Procs : proc[p].at = "off"
        BY DEF Init, Off
    <2> QED
        BY <2>1 DEF SessionInv, InSession
<1>2. Shaped /\ SessionInv /\ [Next]_vars => SessionInv'
    <2> SUFFICES ASSUME Shaped, SessionInv, [Next]_vars PROVE SessionInv'
        OBVIOUS
    <2>1. ASSUME NEW p \in Procs, Step(p)
          PROVE  SessionInv'
        <3>1. CASE List(p)
            BY <3>1, ListIs, OtherAt DEF Leaves
        <3>2. CASE Read(p)
            BY <3>2, ReadIs, OtherAt DEF Leaves
        <3>3. CASE KeepIndex(p)
            BY <3>3, KeepIndexIs, OtherAt DEF Leaves
        <3>4. CASE Transfer(p)
            BY <3>4, TransferIs, OtherAt, EndInSession
        <3>5. CASE WriteRecord(p)
            BY <3>5, WriteRecordIs, OtherAt DEF Leaves
        <3> QED
            BY <2>1, <3>1, <3>2, <3>3, <3>4, <3>5, QuietInSession DEF Step
    <2>2. CASE World \/ UNCHANGED vars
        BY <2>2 DEF World, Plug, Unplug, Change, vars, SessionInv, InSession
    <2> QED
        BY <2>1, <2>2, NextIs
<1>3. RecordInv => Shaped
    BY DEF RecordInv
<1> QED
    BY <1>1, <1>2, <1>3, RecordInvHolds, PTL DEF Spec

(* Whatever restarted it and however often it was saved, a running         *)
(* interface is what a fresh start with the same arguments would come to,  *)
(* unless another process saved settings since (main.rs, run_tui; cli.rs,  *)
(* Tui::restart).                                                          *)
THEOREM RunsAsStarted == Spec => []RunsAsItWouldStart
<1>1. SessionInv => RunsAsItWouldStart
    BY DEF SessionInv, InSession, RunsAsItWouldStart
<1> QED
    BY <1>1, SessionInductive, PTL

-----------------------------------------------------------------------------
(* What a value stands for; that stands for itself. *)
Stands(k, value) == IF k \in Folders /\ value \in DOMAIN Expand THEN Expand[value] ELSE value

LEMMA StandsIs ==
    /\ \A s : \A k \in Keys : Normal(s)[k] = Stands(k, s[k])
    /\ \A k, value : Stands(k, Stands(k, value)) = Stands(k, value)
    /\ \A k, value : value # None => Stands(k, value) # None
    /\ \A k : k \in Kept => \A value : Stands(k, value) = value
BY SettingsAssumption DEF Normal, Stands, Kept, Folders

(* What the panel shows of a setting that neither it nor the command line  *)
(* is about is what was saved.                                             *)
LEMMA ShownAsSaved ==
    ASSUME NEW given, NEW saved, NEW k \in Shown, saved[k] # None,
           given[k] \in {None, SavedOne}, k = "copy_to" => given["reader"] = None
    PROVE  Panel(Session(given, saved))[k] = saved[k]
<1> DEFINE resolved == Resolve(given, saved)
           filled == Fill(given, saved)
           session == Session(given, saved)
<1>1. SavedOne # None
    BY SettingsAssumption
<1>2. /\ resolved[k] \in {None, saved[k]}
      /\ k = "folder" => resolved[k] = saved[k]
      /\ given["reader"] = None => resolved["reader"] = None
    BY <1>1 DEF Resolve, Or, Shown, Folders
<1>3. filled[k] = saved[k] /\ DOMAIN filled = Shown
    BY <1>2 DEF Fill, Or
<1>4. session[k] = saved[k] /\ DOMAIN session = Shown
    <2> DEFINE browse == Or(filled["browse"], StartedIn)
               output == Or(filled["output"], browse)
    <2>1. /\ k = "browse" => browse = saved[k]
          /\ k = "output" => output = saved[k]
        BY <1>3 DEF Or
    <2>2. "browse" \in Shown /\ "output" \in Shown
        BY DEF Shown, Folders
    <2>3. session = [filled EXCEPT !["browse"] = browse, !["output"] = output]
        BY <1>3, <2>2 DEF Session
    <2> HIDE DEF filled, browse, output, session
    <2> QED
        BY <1>3, <2>1, <2>2, <2>3
<1> HIDE DEF session
<1>5. Panel(session)[k] = saved[k]
    BY <1>4 DEF Panel, Or
<1> QED
    BY <1>5 DEF session

LEMMA PanelPreserves ==
    ASSUME NEW p \in Procs, SavePanel(p), SessionInv, proc[p].saved = Normal(file),
           NEW k \in Keys \ Touched(p)
    PROVE  Normal(file')[k] = Normal(file)[k]
<1> DEFINE me == proc[p]
           settings == PanelSettings(me.draft, me.saved)
<1>1. me.at = "running" /\ file' = Normal(settings)
    BY DEF SavePanel
<1>2. Normal(file')[k] = Stands(k, settings[k])
    BY <1>1, StandsIs
<1>3. me.saved[k] = Stands(k, file[k])
    BY StandsIs
<1>4. CASE k \in Kept
    <2>1. k \notin Shown
        BY <1>4 DEF Kept, Shown, Folders
    <2>2. settings[k] = me.saved[k]
        BY <2>1 DEF PanelSettings
    <2> QED
        BY <1>2, <1>3, <2>2, StandsIs
<1>5. CASE k \in Shown
    <2>1. /\ me.draft[k] = Panel(me.session)[k] /\ k \notin Given(me.program.given) /\ file[k] # None
          /\ me.program.given["reader"] # None => k # "copy_to"
        BY <1>1, <1>5 DEF Touched
    <2>2. me.session = Session(me.program.given, me.saved)
        BY <1>1 DEF SessionInv, InSession
    <2>3. me.program.given[k] \in {None, SavedOne}
        BY <1>5, <2>1 DEF Given
    <2>4. me.saved[k] # None
        BY <1>3, <2>1, StandsIs
    <2>5. me.draft[k] = me.saved[k]
        BY <1>5, <2>1, <2>2, <2>3, <2>4, ShownAsSaved
    <2>6. settings[k] = me.saved[k]
        BY <1>5, <2>5 DEF PanelSettings
    <2> QED
        BY <1>2, <1>3, <2>6, StandsIs
<1> QED
    BY <1>4, <1>5 DEF Keys

LEMMA CommandPreserves ==
    ASSUME NEW p \in Procs, SaveSettings(p), proc[p].saved = Normal(file),
           NEW k \in Keys \ Touched(p)
    PROVE  Normal(file')[k] = Normal(file)[k]
<1> DEFINE me == proc[p]
<1>1. me.at = "saving" /\ file' \in {file, Normal(Updated(p))}
    BY DEF SaveSettings
<1>2. me.program.given[k] = None
    BY <1>1 DEF Touched
<1>3. me.saved[k] = Stands(k, file[k])
    BY StandsIs
<1>4. Updated(p)[k] = me.saved[k]
    BY <1>2 DEF Updated, Merge, Unset, Or
<1> QED
    BY <1>1, <1>3, <1>4, StandsIs

(* Saving settings changes those that it is about and keeps all others, in *)
(* a command as in the panel, when nobody else saved since they were read  *)
(* (cli/config.rs, run_config; cli.rs, the panel's save).                  *)
THEOREM SavesPreserve == Spec => UpdatesPreserve
<1> DEFINE Preserves ==
        \A p \in Procs :
            /\ proc[p].at \in {"saving", "running"}
            /\ proc'[p].at # proc[p].at
            /\ proc[p].saved = Normal(file)
            => \A k \in Keys \ Touched(p) : Normal(file')[k] = Normal(file)[k]
<1>1. Shaped /\ SessionInv /\ [Next]_vars => [Preserves]_vars
    <2> SUFFICES ASSUME Shaped, SessionInv, Next,
                        NEW p \in Procs,
                        proc[p].at \in {"saving", "running"},
                        proc'[p].at # proc[p].at,
                        proc[p].saved = Normal(file),
                        NEW k \in Keys \ Touched(p)
                 PROVE  Normal(file')[k] = Normal(file)[k]
        OBVIOUS
    <2>1. CASE World
        BY <2>1 DEF World, Plug, Unplug, Change
    <2>2. ASSUME NEW q \in Procs, Step(q)
          PROVE  Normal(file')[k] = Normal(file)[k]
        <3>1. CASE p # q
            <4>1. proc'[p] = proc[p]
                BY <2>2, <3>1, OthersStay
            <4> QED
                BY <4>1
        <3>2. CASE p = q /\ file' = file
            BY <3>2
        <3>3. CASE p = q /\ (SavePanel(p) \/ SaveSettings(p))
            BY <3>3, PanelPreserves, CommandPreserves
        <3>4. ASSUME p = q, ~SavePanel(p), ~SaveSettings(p)
              PROVE  file' = file
            BY <2>2, <3>4 DEF Step, Quiet, StartInterface, StartCommand, Refuse, FirstOpen, OpenAgain,
               StartAgain, GiveUp, Edit, Detect, Restart, Quit, AddToOutput, List, Read, KeepIndex,
               Transfer, WriteRecord
        <3> QED
            BY <3>1, <3>2, <3>3, <3>4
    <2> QED
        BY <2>1, <2>2, NextIs
<1>2. (Shaped /\ SessionInv) /\ [Next]_vars =>
      [\A p \in Procs :
        /\ proc[p].at \in {"saving", "running"}
        /\ proc'[p].at # proc[p].at
        /\ proc[p].saved = Normal(file)
        => \A k \in Keys \ Touched(p) : Normal(file')[k] = Normal(file)[k]]_vars
    BY <1>1
<1> QED
    BY <1>2, SessionInductive, PTL DEF Spec, UpdatesPreserve

-----------------------------------------------------------------------------
(* The index of identities. *)

LEMMA SubSeqIn ==
    ASSUME NEW S, NEW seq \in Seq(S), NEW m \in Nat \ {0}, NEW n \in Int, n <= Len(seq)
    PROVE  SubSeq(seq, m, n) \in Seq(S)
<1>1. Len(seq) \in Nat
    BY LenProperties
<1>2. \A i \in m..n : i \in 1..Len(seq)
    BY <1>1
<1>3. \A i \in m..n : seq[i] \in S
    BY <1>2, ElementOfSeq
<1> QED
    BY <1>3, SubSeqProperties

LEMMA RemoveAtIn ==
    ASSUME NEW S, NEW seq \in Seq(S), NEW i \in DOMAIN seq
    PROVE  RemoveAt(seq, i) \in Seq(S)
<1>1. /\ Len(seq) \in Nat /\ i \in Nat \ {0} /\ i <= Len(seq)
      /\ i - 1 \in Int /\ i - 1 <= Len(seq) /\ i + 1 \in Nat \ {0}
    BY LenProperties
<1>2. SubSeq(seq, 1, i - 1) \in Seq(S) /\ SubSeq(seq, i + 1, Len(seq)) \in Seq(S)
    BY <1>1, SubSeqIn
<1> QED
    BY <1>2, ConcatProperties DEF RemoveAt

LEMMA PutIn ==
    ASSUME NEW S, NEW index \in Seq(S), NEW key, NEW sha, [key |-> key, sha |-> sha] \in S
    PROVE  Put(index, key, sha) \in Seq(S)
<1> DEFINE entry == [key |-> key, sha |-> sha]
           hit == CHOOSE i \in Hits(index, key) : TRUE
           others == IF Hits(index, key) = {} THEN index ELSE RemoveAt(index, hit)
<1>1. Hits(index, key) # {} => hit \in DOMAIN index
    BY DEF Hits
<1> HIDE DEF hit
<1>2. others \in Seq(S)
    BY <1>1, RemoveAtIn
<1>3. Put(index, key, sha) = Append(others, entry)
    BY DEF Put, hit
<1> HIDE DEF others, entry
<1>4. entry \in S
    BY DEF entry
<1> QED
    BY <1>2, <1>3, <1>4, AppendProperties

LEMMA TrimmedIn ==
    ASSUME NEW S, NEW index \in Seq(S), NEW aged \in 0..Len(index)
    PROVE  Trimmed(index, aged) \in Seq(S)
<1> DEFINE young == SubSeq(index, aged + 1, Len(index))
<1>1. Len(index) \in Nat /\ Len(index) \in Int /\ Len(index) <= Len(index) /\ aged + 1 \in Nat \ {0}
    BY LenProperties
<1>2. young \in Seq(S)
    BY <1>1, SubSeqIn
<1> HIDE DEF young
<1>3. MaxEntries \in Nat
    BY SharedAssumption
<1>4. LastOf(young, MaxEntries) \in Seq(S)
    BY <1>2, <1>3, LastOfIs
<1> QED
    BY <1>4 DEF Trimmed, young

(* What the index has for a key is one of its entries. *)
LEMMA KnownIs ==
    ASSUME NEW index \in Seq(Credible(content)), NEW key, Hits(index, key) # {}
    PROVE  [key |-> key, sha |-> Known(index, key)] \in Credible(content)
<1> DEFINE hit == CHOOSE i \in Hits(index, key) : TRUE
           entry == index[hit]
<1>1. hit \in DOMAIN index /\ entry.key = key /\ Known(index, key) = entry.sha
    BY DEF Hits, Known
<1> HIDE DEF hit
<1>2. entry \in Credible(content)
    BY <1>1, LenProperties, ElementOfSeq
<1> HIDE DEF entry
<1>3. entry \in [key : Range(Items) \X Nat, sha : Nat]
    BY <1>2 DEF Credible
<1>4. entry = [key |-> key, sha |-> Known(index, key)]
    BY <1>1, <1>3
<1> QED
    BY <1>2, <1>4

(* A book that changes makes no entry wrong about what it was. *)
LEMMA CredibleGrows ==
    ASSUME content \in [DOMAIN Items -> Nat], content' \in [DOMAIN Items -> Nat],
           \A i \in DOMAIN Items : content[i] <= content'[i]
    PROVE  Credible(content) \subseteq Credible(content')
<1> SUFFICES ASSUME NEW entry \in Credible(content)
             PROVE  entry \in Credible(content')
    OBVIOUS
<1>1. entry \in [key : Range(Items) \X Nat, sha : Nat] /\ entry.sha \in Nat
    BY DEF Credible
<1>2. ASSUME NEW i \in DOMAIN Items, entry.key[1] = Items[i]
      PROVE  entry.key[2] <= entry.sha /\ entry.sha <= content'[i]
    <2>1. entry.key[2] <= entry.sha /\ entry.sha <= content[i]
        BY <1>2 DEF Credible
    <2>2. content[i] \in Nat /\ content'[i] \in Nat /\ content[i] <= content'[i]
        OBVIOUS
    <2> QED
        BY <1>1, <2>1, <2>2
<1> QED
    BY <1>1, <1>2 DEF Credible

LEMMA ItemsAre ==
    /\ DOMAIN Items = 1..Len(Items) /\ Len(Items) \in Nat
    /\ \A i \in DOMAIN Items : Items[i] \in Range(Items)
    /\ \A i, j \in DOMAIN Items : Items[i] = Items[j] => i = j
BY SessionsAssumption, LenProperties, ElementOfSeq

(* What is read of a book after its key was taken may be kept for the key. *)
LEMMA ReadIsCredible ==
    ASSUME content \in [DOMAIN Items -> Nat], NEW i \in DOMAIN Items,
           NEW key \in {Items[i]} \X (0..content[i])
    PROVE  [key |-> key, sha |-> content[i]] \in Credible(content)
<1> DEFINE entry == [key |-> key, sha |-> content[i]]
<1>1. content[i] \in Nat
    OBVIOUS
<1>2. key[1] = Items[i] /\ key[2] \in 0..content[i] /\ key = <<key[1], key[2]>>
    OBVIOUS
<1>3. key \in Range(Items) \X Nat
    BY <1>1, <1>2, ItemsAre
<1>4. entry \in [key : Range(Items) \X Nat, sha : Nat]
    BY <1>1, <1>3
<1>5. entry.key = key /\ entry.sha = content[i]
    OBVIOUS
<1> HIDE DEF entry
<1>6. ASSUME NEW j \in DOMAIN Items, entry.key[1] = Items[j]
      PROVE  entry.key[2] <= entry.sha /\ entry.sha <= content[j]
    <2>1. i = j
        BY <1>2, <1>5, <1>6, ItemsAre
    <2> QED
        BY <1>1, <1>2, <1>5, <2>1
<1>7. entry \in Credible(content)
    BY <1>4, <1>6 DEF Credible
<1> QED
    BY <1>7 DEF entry

(* What is known by the key of a book as it is, and of one that is listed  *)
(* with its time, is what it is.                                           *)
LEMMA KnownByTime ==
    ASSUME content \in [DOMAIN Items -> Nat], NEW index \in Seq(Credible(content)),
           NEW i \in DOMAIN Items, Items[i] \in Stamped,
           NEW key, key = SourceKey(Items[i], Fingerprint(i)), Hits(index, key) # {}
    PROVE  Known(index, key) = content[i]
<1> DEFINE sha == Known(index, key)
           entry == [key |-> key, sha |-> sha]
<1>1. entry \in Credible(content) /\ entry.key = key /\ entry.sha = sha
    BY KnownIs
<1>2. key[1] = Items[i] /\ key[2] = content[i]
    BY DEF SourceKey, Fingerprint
<1> HIDE DEF sha, entry
<1>3. content[i] <= sha /\ sha <= content[i] /\ sha \in Nat /\ content[i] \in Nat
    BY <1>1, <1>2 DEF Credible
<1>4. sha = content[i]
    BY <1>3
<1> QED
    BY <1>4 DEF sha

(* A step of one process keeps what the others know. *)
LEMMA OneLists ==
    ASSUME IndexInv, NEW p \in Procs, \A q \in Procs \ {p} : proc'[q] = proc[q],
           stored' \in Seq(Credible(content)), UNCHANGED content, Listing(proc'[p], content)
    PROVE  IndexInv'
BY DEF IndexInv

LEMMA EmptyIndex == \A S : <<>> \in Seq(S)
OBVIOUS

LEMMA NothingListed ==
    ASSUME NEW me, DOMAIN me.listed = DOMAIN Items, me.next = 1, me.index = <<>>, me.at # "reading"
    PROVE  Listing(me, content)
<1>1. me.index \in Seq(Credible(content))
    BY EmptyIndex
<1>2. me.next \in Nat
    OBVIOUS
<1> QED
    BY <1>1, <1>2 DEF Listing

LEMMA QuietLists ==
    ASSUME Shaped, IndexInv, NEW p \in Procs, Quiet(p)
    PROVE  IndexInv'
<1>1. Keeps(p) /\ UNCHANGED <<stored, content>>
    BY InterfaceKeeps, QuietLeaves
<1>2. Listing(proc[p], content) /\ stored \in Seq(Credible(content))
    BY DEF IndexInv
<1>3. DOMAIN Unread = DOMAIN Items
    BY DEF Unread
<1>4. DOMAIN proc'[p].listed = DOMAIN Items /\ proc'[p].next \in Nat
    BY <1>1, <1>2, <1>3 DEF Keeps, Listing
<1>5. proc'[p].index \in Seq(Credible(content))
    BY <1>1, <1>2, EmptyIndex DEF Keeps, Listing
<1>6. Listing(proc'[p], content)
    BY <1>1, <1>4, <1>5 DEF Keeps, Listing
<1> QED
    BY <1>1, <1>2, <1>6, OneLists DEF Keeps

LEMMA ListLists ==
    ASSUME Shaped, IndexInv, NEW p \in Procs, List(p)
    PROVE  IndexInv'
<1> DEFINE me == proc[p]
           i == me.next
           key == SourceKey(Items[i], Fingerprint(i))
           sha == Known(me.index, key)
<1>1. UNCHANGED <<stored, content>>
    BY DEF List
<1>2. Listing(me, content) /\ stored \in Seq(Credible(content)) /\ content \in [DOMAIN Items -> Nat]
    BY DEF IndexInv
<1>3. Leaves(p) /\ i \in DOMAIN Items
    BY ListIs
<1>4. ASSUME Hits(me.index, key) # {}, proc'[p].at = "listing", proc'[p].next = i + 1,
             proc'[p].listed = [me.listed EXCEPT ![i] = sha], proc'[p].index = Touch(me.index, key)
      PROVE  Listing(proc'[p], content)
    <2>1. me.index \in Seq(Credible(content)) /\ i + 1 \in Nat
        BY <1>2 DEF Listing
    <2>2. [key |-> key, sha |-> sha] \in Credible(content)
        BY <1>4, <2>1, KnownIs
    <2> HIDE DEF sha
    <2>3. Put(me.index, key, sha) \in Seq(Credible(content))
        BY <2>1, <2>2, PutIn
    <2>4. proc'[p].index \in Seq(Credible(content))
        BY <1>4, <2>3 DEF Touch, sha
    <2>5. DOMAIN proc'[p].listed = DOMAIN Items
        BY <1>2, <1>4 DEF Listing
    <2> QED
        BY <1>4, <2>1, <2>4, <2>5 DEF Listing
<1>5. ASSUME proc'[p].at = "reading", proc'[p].key = key, proc'[p].next = i,
             proc'[p].listed = me.listed, proc'[p].index = me.index
      PROVE  Listing(proc'[p], content)
    <2>1. Fingerprint(i) \in 0..content[i]
        BY <1>2, <1>3 DEF Fingerprint
    <2>2. key \in {Items[i]} \X (0..content[i])
        BY <2>1 DEF SourceKey
    <2> QED
        BY <1>2, <1>3, <1>5, <2>2 DEF Listing
<1>6. Listing(proc'[p], content)
    BY <1>4, <1>5, ListIs
<1> QED
    BY <1>1, <1>2, <1>3, <1>6, OneLists DEF Leaves

LEMMA ReadLists ==
    ASSUME Shaped, IndexInv, NEW p \in Procs, Read(p)
    PROVE  IndexInv'
<1> DEFINE me == proc[p]
           sha == content[me.next]
<1>1. UNCHANGED <<stored, content>>
    BY DEF Read
<1>2. Listing(me, content) /\ stored \in Seq(Credible(content)) /\ content \in [DOMAIN Items -> Nat]
    BY DEF IndexInv
<1>3. /\ Leaves(p) /\ me.at = "reading" /\ proc'[p].at = "listing" /\ proc'[p].next = me.next + 1
      /\ proc'[p].index \in {me.index, Put(me.index, me.key, sha)}
      /\ \E value : proc'[p].listed = [me.listed EXCEPT ![me.next] = value]
    BY ReadIs
<1>4. /\ me.next \in DOMAIN Items /\ me.key \in {Items[me.next]} \X (0..content[me.next])
      /\ me.index \in Seq(Credible(content)) /\ me.next \in Nat /\ DOMAIN me.listed = DOMAIN Items
    BY <1>2, <1>3 DEF Listing
<1>5. [key |-> me.key, sha |-> sha] \in Credible(content)
    BY <1>2, <1>4, ReadIsCredible
<1>6. Put(me.index, me.key, sha) \in Seq(Credible(content))
    BY <1>4, <1>5, PutIn
<1>7. /\ proc'[p].index \in Seq(Credible(content)) /\ proc'[p].next \in Nat
      /\ DOMAIN proc'[p].listed = DOMAIN Items
    BY <1>3, <1>4, <1>6
<1>8. Listing(proc'[p], content)
    BY <1>3, <1>7 DEF Listing
<1> QED
    BY <1>1, <1>2, <1>3, <1>8, OneLists DEF Leaves

LEMMA KeepIndexLists ==
    ASSUME Shaped, IndexInv, NEW p \in Procs, KeepIndex(p)
    PROVE  IndexInv'
<1> DEFINE me == proc[p]
<1>1. UNCHANGED content
    BY DEF KeepIndex
<1>2. me.index \in Seq(Credible(content)) /\ stored \in Seq(Credible(content))
    BY DEF IndexInv, Listing
<1>3. stored' \in Seq(Credible(content))
    <2>1. stored' = stored \/ \E aged \in 0..Len(me.index) : stored' = Trimmed(me.index, aged)
        BY KeepIndexIs
    <2>2. \A aged \in 0..Len(me.index) : Trimmed(me.index, aged) \in Seq(Credible(content))
        BY <1>2, TrimmedIn
    <2> QED
        BY <1>2, <2>1, <2>2
<1>4. DOMAIN proc'[p].listed = DOMAIN Items
    BY KeepIndexIs DEF Unread
<1>5. proc'[p].at # "reading" /\ proc'[p].next = 1 /\ proc'[p].index = <<>>
    BY KeepIndexIs
<1>6. Listing(proc'[p], content)
    BY <1>4, <1>5, NothingListed
<1> QED
    BY <1>1, <1>3, <1>6, KeepIndexIs, OneLists DEF Leaves

LEMMA CopyLists ==
    ASSUME Shaped, IndexInv, NEW p \in Procs, Transfer(p) \/ WriteRecord(p)
    PROVE  IndexInv'
<1> DEFINE me == proc[p]
<1>1. UNCHANGED <<stored, content>>
    BY DEF Transfer, WriteRecord
<1>2. Listing(me, content) /\ stored \in Seq(Credible(content))
    BY DEF IndexInv
<1>3. CASE End(p)
    <2>1. /\ proc'[p].at = "off" /\ proc'[p].listed = Unread /\ proc'[p].next = 1 /\ proc'[p].index = <<>>
          /\ \A q \in Procs \ {p} : proc'[q] = proc[q]
        BY <1>3, EndIs, EndLeaves DEF Leaves
    <2>2. Listing(proc'[p], content)
        BY <2>1, NothingListed DEF Unread
    <2> QED
        BY <1>1, <1>2, <2>1, <2>2, OneLists
<1>4. CASE ~End(p)
    <2>1. /\ \A q \in Procs \ {p} : proc'[q] = proc[q]
          /\ proc'[p].at \in {"recording", "copying"}
          /\ proc'[p].listed = me.listed /\ proc'[p].index = me.index
          /\ proc'[p].next = me.next \/ \E i \in Planned(p) : proc'[p].next = i + 1
        BY <1>4, TransferIs, WriteRecordIs DEF Leaves
    <2>2. me.next \in Nat /\ Len(Items) \in Nat
        BY <1>2, ItemsAre DEF Listing
    <2>3. \A i \in Planned(p) : i + 1 \in Nat
        BY <2>2 DEF Planned
    <2>4. Listing(proc'[p], content)
        BY <1>2, <2>1, <2>2, <2>3 DEF Listing
    <2> QED
        BY <1>1, <1>2, <2>1, <2>4, OneLists
<1> QED
    BY <1>3, <1>4

LEMMA ChangeLists ==
    ASSUME IndexInv, NEW b \in DOMAIN Items, Change(b)
    PROVE  IndexInv'
<1>1. /\ content' = [content EXCEPT ![b] = @ + 1] /\ UNCHANGED <<stored, proc>>
      /\ content \in [DOMAIN Items -> Nat]
    BY DEF Change, IndexInv
<1>2. content' \in [DOMAIN Items -> Nat] /\ \A i \in DOMAIN Items : content[i] <= content'[i]
    BY <1>1
<1>3. Credible(content) \subseteq Credible(content')
    BY <1>1, <1>2, CredibleGrows
<1>4. stored \in Seq(Credible(content'))
    BY <1>3, SeqMonotonic DEF IndexInv
<1>5. ASSUME NEW p \in Procs
      PROVE  Listing(proc[p], content')
    <2>1. Listing(proc[p], content)
        BY DEF IndexInv
    <2>2. proc[p].index \in Seq(Credible(content'))
        BY <1>3, <2>1, SeqMonotonic DEF Listing
    <2>3. ASSUME proc[p].at = "reading"
          PROVE  proc[p].key \in {Items[proc[p].next]} \X (0..content'[proc[p].next])
        <3>1. proc[p].next \in DOMAIN Items /\ proc[p].key \in {Items[proc[p].next]} \X (0..content[proc[p].next])
            BY <2>1, <2>3 DEF Listing
        <3>2. 0..content[proc[p].next] \subseteq 0..content'[proc[p].next]
            BY <1>1, <1>2, <3>1
        <3> QED
            BY <3>1, <3>2
    <2> QED
        BY <2>1, <2>2, <2>3 DEF Listing
<1> QED
    BY <1>1, <1>2, <1>4, <1>5 DEF IndexInv

LEMMA IndexInductive == Spec => [](Shaped /\ IndexInv)
<1>1. Init => IndexInv
    <2> SUFFICES ASSUME Init PROVE IndexInv
        OBVIOUS
    <2>1. /\ content = [i \in DOMAIN Items |-> 1] /\ stored = <<>>
          /\ \A p \in Procs : /\ proc[p].at = "off" /\ proc[p].listed = Unread
                              /\ proc[p].next = 1 /\ proc[p].index = <<>>
        BY DEF Init, Off
    <2>2. \A p \in Procs : Listing(proc[p], content)
        BY <2>1, NothingListed DEF Unread
    <2>3. stored \in Seq(Credible(content))
        BY <2>1, EmptyIndex
    <2> QED
        BY <2>1, <2>2, <2>3 DEF IndexInv
<1>2. Shaped /\ IndexInv /\ [Next]_vars => IndexInv'
    <2> SUFFICES ASSUME Shaped, IndexInv, [Next]_vars PROVE IndexInv'
        OBVIOUS
    <2>1. ASSUME NEW p \in Procs, Step(p)
          PROVE  IndexInv'
        BY <2>1, QuietLists, ListLists, ReadLists, KeepIndexLists, CopyLists DEF Step
    <2>2. ASSUME NEW path, Plug(path) \/ Unplug(path)
          PROVE  IndexInv'
        BY <2>2 DEF Plug, Unplug, IndexInv
    <2>3. CASE UNCHANGED vars
        BY <2>3 DEF vars, IndexInv
    <2> QED
        BY <2>1, <2>2, <2>3, ChangeLists, NextIs DEF World
<1>3. RecordInv => Shaped
    BY DEF RecordInv
<1> QED
    BY <1>1, <1>2, <1>3, RecordInvHolds, PTL DEF Spec

(* An identity that a listing takes from the index is that of the book     *)
(* that is there, whichever processes wrote the index and whatever changed *)
(* since or while they read (cache.rs and books.rs, Library::scan).        *)
THEOREM KnownIsWhatIsThere == Spec => KnownIsTrue
<1>1. Shaped /\ IndexInv /\ [Next]_vars =>
      [\A p \in Procs, i \in DOMAIN Items :
        /\ Items[i] \in Stamped
        /\ proc[p].listed[i] = None
        => proc'[p].listed[i] \in {None, content[i]}]_vars
    <2> SUFFICES ASSUME Shaped, IndexInv, Next,
                        NEW p \in Procs, NEW i \in DOMAIN Items,
                        Items[i] \in Stamped,
                        proc[p].listed[i] = None
                 PROVE  proc'[p].listed[i] \in {None, content[i]}
        OBVIOUS
    <2>1. Listing(proc[p], content) /\ content \in [DOMAIN Items -> Nat]
        BY DEF IndexInv
    <2>2. Unread[i] = None
        BY DEF Unread
    <2>3. ASSUME World
          PROVE  proc' = proc
        BY <2>3 DEF World, Plug, Unplug, Change
    <2>4. ASSUME NEW q \in Procs, Step(q), q # p
          PROVE  proc'[p] = proc[p]
        BY <2>4, OthersStay
    <2>5. CASE Quiet(p)
        BY <2>2, <2>5, InterfaceKeeps DEF Keeps
    <2>6. CASE List(p)
        <3> DEFINE me == proc[p]
                   key == SourceKey(Items[me.next], Fingerprint(me.next))
        <3>1. CASE proc'[p].listed = me.listed
            BY <3>1
        <3>2. CASE /\ Hits(me.index, key) # {}
                   /\ proc'[p].listed = [me.listed EXCEPT ![me.next] = Known(me.index, key)]
            <4>1. CASE i = me.next
                <5>1. Known(me.index, key) = content[i]
                    BY <2>1, <3>2, <4>1, KnownByTime DEF Listing
                <5> QED
                    BY <2>1, <3>2, <4>1, <5>1 DEF Listing
            <4>2. CASE i # me.next
                BY <2>1, <3>2, <4>2 DEF Listing
            <4> QED
                BY <4>1, <4>2
        <3> QED
            BY <2>6, <3>1, <3>2, ListIs
    <2>7. CASE Read(p)
        <3>1. \/ proc'[p].listed = [proc[p].listed EXCEPT ![proc[p].next] = content[proc[p].next]]
              \/ proc'[p].listed = [proc[p].listed EXCEPT ![proc[p].next] = None]
            BY <2>7, ReadIs
        <3> QED
            BY <2>1, <3>1 DEF Listing
    <2>8. CASE KeepIndex(p)
        BY <2>2, <2>8, KeepIndexIs
    <2>9. CASE Transfer(p) \/ WriteRecord(p)
        BY <2>2, <2>9, TransferIs, WriteRecordIs, EndIs
    <2> QED
        BY <2>3, <2>4, <2>5, <2>6, <2>7, <2>8, <2>9, NextIs DEF Step
<1> QED
    BY <1>1, IndexInductive, PTL DEF Spec, KnownIsTrue

-----------------------------------------------------------------------------
(* Paths, and where they lead. *)

LEMMA PathIs ==
    ASSUME NEW path \in Path
    PROVE  /\ path \in Seq(STRING) /\ path # <<>> /\ Len(path) \in Nat \ {0}
           /\ SubSeq(path, 1, Len(path)) = path
<1>1. path \in Seq(STRING) /\ path # <<>>
    BY DEF Path
<1> QED
    BY <1>1, EmptySeq, SubSeqFull

(* The folders above a path, itself among them. *)
LEMMA AboveIs ==
    ASSUME NEW path \in Path
    PROVE  /\ path \in Above(path)
           /\ \A q \in Above(path) : /\ q \in Path /\ Len(q) \in 1..Len(path)
                                     /\ q = SubSeq(path, 1, Len(q))
<1>1. path \in Seq(STRING) /\ Len(path) \in Nat \ {0} /\ SubSeq(path, 1, Len(path)) = path
    BY PathIs
<1>2. path \in Above(path)
    <2>1. Len(path) \in 1..Len(path)
        BY <1>1
    <2> QED
        BY <1>1, <2>1, Zenon DEF Above
<1>3. ASSUME NEW q \in Above(path)
      PROVE  q \in Path /\ Len(q) \in 1..Len(path) /\ q = SubSeq(path, 1, Len(q))
    <2>1. PICK n \in 1..Len(path) : q = SubSeq(path, 1, n)
        BY DEF Above
    <2>2. \A i \in 1..n : path[i] \in STRING
        BY <1>1, <2>1, ElementOfSeq
    <2>3. q \in Seq(STRING) /\ Len(q) = n
        BY <1>1, <2>1, <2>2, SubSeqProperties
    <2>4. q # <<>>
        BY <2>3, EmptySeq
    <2> QED
        BY <2>1, <2>3, <2>4 DEF Path
<1> QED
    BY <1>2, <1>3

(* There is a longest one of some paths that have no more than n names. *)
LEMMA LongestIs ==
    ASSUME NEW paths, paths # {}, NEW n \in Nat, \A q \in paths : Len(q) \in 0..n
    PROVE  /\ Longest(paths) \in paths
           /\ \A q \in paths : Len(q) <= Len(Longest(paths))
<1> DEFINE rests == {n - Len(q) : q \in paths}
<1>1. rests \in SUBSET Nat /\ rests # {}
    OBVIOUS
<1>0. \A q \in paths : n - Len(q) \in rests
    OBVIOUS
<1>9. \A k \in rests : \E q \in paths : k = n - Len(q)
    OBVIOUS
<1> HIDE DEF rests
<1>2. PICK least \in rests : \A k \in rests : <<k, least>> \notin OpToRel(<, Nat)
    BY <1>1, NatLessThanWellFounded, WFMin
<1>3. \A k \in rests : least <= k
    <2> SUFFICES ASSUME NEW k \in rests, k < least
                 PROVE  FALSE
        BY <1>1
    <2>1. <<k, least>> \in {pair \in Nat \X Nat : pair[1] < pair[2]}
        BY <1>1
    <2>2. OpToRel(<, Nat) = {pair \in Nat \X Nat : pair[1] < pair[2]}
        BY Zenon DEF OpToRel
    <2> QED
        BY <1>2, <2>1, <2>2, Zenon
<1>4. PICK longest \in paths : least = n - Len(longest)
    BY <1>2, <1>9
<1>5. \A q \in paths : Len(q) <= Len(longest)
    <2> SUFFICES ASSUME NEW q \in paths
                 PROVE  Len(q) <= Len(longest)
        OBVIOUS
    <2>1. n - Len(q) \in rests
        BY <1>0
    <2>2. Len(q) \in Nat /\ Len(longest) \in Nat
        BY <1>4
    <2> QED
        BY <1>3, <1>4, <2>1, <2>2
<1> QED
    BY <1>5 DEF Longest

(* What two parts of a sequence are together. *)
LEMMA PartsJoin ==
    ASSUME NEW path \in Path, NEW i \in 0..Len(path), NEW j \in i..Len(path)
    PROVE  /\ SubSeq(path, i + 1, j) \o SubSeq(path, j + 1, Len(path)) = SubSeq(path, i + 1, Len(path))
           /\ SubSeq(path, i + 1, j) \in Seq(STRING)
           /\ SubSeq(path, j + 1, Len(path)) \in Seq(STRING)
<1>1. path \in Seq(STRING) /\ Len(path) \in Nat \ {0}
    BY PathIs
<1>2. \A k \in 1..Len(path) : path[k] \in STRING
    BY <1>1, ElementOfSeq
<1>3. SubSeq(path, i + 1, j) \in Seq(STRING)
    BY <1>1, <1>2, SubSeqProperties
<1>4. SubSeq(path, j + 1, Len(path)) \in Seq(STRING)
    BY <1>1, <1>2, SubSeqProperties
<1>5. i + 1 \in 1..Len(path) + 1 /\ j \in (i + 1) - 1..Len(path) /\ Len(path) \in j..Len(path)
    BY <1>1
<1>6. SubSeq(path, i + 1, j) \o SubSeq(path, j + 1, Len(path)) = SubSeq(path, i + 1, Len(path))
    BY <1>1, <1>5, ConcatAdjacentSubSeq
<1> QED
    BY <1>3, <1>4, <1>6

LEMMA PrefixIs ==
    ASSUME NEW S, NEW s \in Seq(S), NEW t \in Seq(S)
    PROVE  /\ IsPrefix(s, s)
           /\ IsPrefix(s, t) <=> Len(s) <= Len(t) /\ \A i \in 1..Len(s) : s[i] = t[i]
           /\ IsPrefix(s, s \o t)
<1>1. Len(s) \in Nat /\ Len(t) \in Nat /\ SubSeq(s, 1, Len(s)) = s
    BY LenProperties, SubSeqFull
<1>2. ASSUME NEW u \in Seq(S), Len(s) <= Len(u)
      PROVE  SubSeq(u, 1, Len(s)) = s <=> \A i \in 1..Len(s) : s[i] = u[i]
    <2> DEFINE part == SubSeq(u, 1, Len(s))
    <2>1. Len(u) \in Nat /\ \A i \in 1..Len(s) : u[i] \in S
        BY <1>1, <1>2, LenProperties, ElementOfSeq
    <2>2. part \in Seq(S) /\ Len(part) = Len(s) /\ \A i \in 1..Len(s) : part[i] = u[i]
        BY <1>1, <2>1, SubSeqProperties
    <2> HIDE DEF part
    <2>3. (\A i \in 1..Len(s) : s[i] = u[i]) => part = s
        BY <2>2, SeqEqual
    <2> QED
        BY <2>2, <2>3 DEF part
<1>3. s \o t \in Seq(S) /\ Len(s \o t) = Len(s) + Len(t) /\ \A i \in 1..Len(s) : (s \o t)[i] = s[i]
    BY <1>1, ConcatProperties
<1>4. IsPrefix(s, t) <=> Len(s) <= Len(t) /\ \A i \in 1..Len(s) : s[i] = t[i]
    BY <1>1, <1>2 DEF IsPrefix
<1>5. IsPrefix(s, s \o t)
    <2>1. Len(s) <= Len(s \o t)
        BY <1>1, <1>3
    <2> QED
        BY <1>1, <1>2, <1>3, <2>1 DEF IsPrefix
<1>6. IsPrefix(s, s)
    BY <1>1 DEF IsPrefix
<1> QED
    BY <1>4, <1>5, <1>6

LEMMA PrefixesChain ==
    ASSUME NEW S, NEW s \in Seq(S), NEW t \in Seq(S), NEW u \in Seq(S),
           IsPrefix(s, t), IsPrefix(t, u)
    PROVE  IsPrefix(s, u)
<1>1. Len(s) \in Nat /\ Len(t) \in Nat /\ Len(u) \in Nat
    BY LenProperties
<1>2. /\ Len(s) <= Len(t) /\ \A i \in 1..Len(s) : s[i] = t[i]
      /\ Len(t) <= Len(u) /\ \A i \in 1..Len(t) : t[i] = u[i]
    BY PrefixIs
<1>3. Len(s) <= Len(u) /\ \A i \in 1..Len(s) : s[i] = u[i]
    <2>1. \A i \in 1..Len(s) : i \in 1..Len(t)
        BY <1>1, <1>2
    <2> QED
        BY <1>1, <1>2, <2>1
<1> QED
    BY <1>3, PrefixIs

(* A path under a link is where the link leads, and what comes after it.   *)
LEMMA LinkIs ==
    ASSUME NEW path \in Path, NEW link \in Above(path) \intersect DOMAIN Leads,
           \A q \in Above(path) \intersect DOMAIN Leads : Len(q) <= Len(link)
    PROVE  Canonical(path) = Leads[link] \o SubSeq(path, Len(link) + 1, Len(path))
<1> DEFINE links == Above(path) \intersect DOMAIN Leads
<1>1. /\ links # {} /\ Len(path) \in Nat
      /\ \A q \in links : Len(q) \in 0..Len(path) /\ q = SubSeq(path, 1, Len(q))
    BY AboveIs, PathIs
<1>2. Longest(links) \in links /\ \A q \in links : Len(q) <= Len(Longest(links))
    BY <1>1, LongestIs
<1>3. Len(Longest(links)) = Len(link)
    <2>1. link \in links /\ \A q \in links : Len(q) <= Len(link)
        OBVIOUS
    <2> HIDE DEF links
    <2>2. Len(Longest(links)) <= Len(link) /\ Len(link) <= Len(Longest(links))
        BY <1>2, <2>1
    <2>3. Len(link) \in Nat /\ Len(Longest(links)) \in Nat
        BY <1>1, <1>2, <2>1
    <2> QED
        BY <2>2, <2>3
<1>4. Longest(links) = link
    BY <1>1, <1>2, <1>3
<1> QED
    BY <1>1, <1>4 DEF Canonical

LEMMA CanonicalIs ==
    ASSUME NEW path \in Path
    PROVE  /\ Canonical(path) \in Path
           /\ path \in DOMAIN Leads => Canonical(path) = Leads[path]
<1> DEFINE links == Above(path) \intersect DOMAIN Leads
<1>1. \A q \in links : Len(q) \in 1..Len(path)
    BY AboveIs
<1>2. CASE links = {}
    BY <1>2, AboveIs DEF Canonical
<1>3. CASE links # {}
    <2> DEFINE link == Longest(links)
    <2>1. Len(path) \in Nat /\ \A q \in links : Len(q) \in 0..Len(path)
        BY <1>1, PathIs
    <2>2. link \in links /\ \A q \in links : Len(q) <= Len(link)
        BY <1>3, <2>1, LongestIs
    <2> HIDE DEF link
    <2>3. Canonical(path) = Leads[link] \o SubSeq(path, Len(link) + 1, Len(path))
        BY <2>2, LinkIs
    <2>4. SubSeq(path, Len(link) + 1, Len(path)) \in Seq(STRING)
        <3>1. Len(link) \in 0..Len(path) /\ Len(path) \in Len(link)..Len(path)
            BY <2>1, <2>2
        <3>2. Len(link) \in Len(link)..Len(path)
            BY <3>1
        <3> QED
            BY <3>1, <3>2, PartsJoin
    <2>5. Leads[link] \in Path
        BY <2>2, LockAssumption
    <2>6. Leads[link] \in Seq(STRING) /\ Len(Leads[link]) \in Nat \ {0}
        BY <2>5, PathIs
    <2> DEFINE rest == SubSeq(path, Len(link) + 1, Len(path))
               front == Leads[link]
    <2>7. Canonical(path) \in Seq(STRING) /\ Len(Canonical(path)) = Len(front) + Len(rest)
        BY <2>3, <2>4, <2>6, ConcatProperties
    <2>8. Canonical(path) # <<>>
        <3>1. Len(rest) \in Nat /\ Len(front) \in Nat \ {0}
            BY <2>4, <2>6, LenProperties
        <3> HIDE DEF rest, front
        <3>2. Len(Canonical(path)) # 0
            BY <2>7, <3>1
        <3> QED
            BY <3>2, EmptySeq
    <2>9. ASSUME path \in DOMAIN Leads
          PROVE  Canonical(path) = Leads[path]
        <3>1. path \in links /\ \A q \in links : Len(q) <= Len(path)
            BY <2>1, <2>9, AboveIs
        <3>2. Canonical(path) = Leads[path] \o SubSeq(path, Len(path) + 1, Len(path))
            BY <3>1, LinkIs
        <3>3. SubSeq(path, Len(path) + 1, Len(path)) = <<>>
            BY <2>1, SubSeqEmpty
        <3>4. Leads[path] \in Seq(STRING)
            BY <2>9, LockAssumption, PathIs
        <3> QED
            BY <3>2, <3>3, <3>4, ConcatEmptySeq
    <2> QED
        BY <2>7, <2>8, <2>9 DEF Path
<1> QED
    BY <1>2, <1>3, AboveIs
LEMMA JoinsAre ==
    ASSUME NEW s \in Seq(STRING), NEW t \in Seq(STRING), NEW u \in Seq(STRING)
    PROVE  (s \o t) \o u = s \o (t \o u)
BY ConcatAssociative

(* A path that is made of the beginning of another. *)
LEMMA PartOfPart ==
    ASSUME NEW path \in Path, NEW n \in 0..Len(path), NEW i \in 1..n + 1, NEW j \in 0..n, i <= j + 1
    PROVE  SubSeq(SubSeq(path, 1, n), i, j) = SubSeq(path, i, j)
<1> DEFINE part == SubSeq(path, 1, n)
<1>1. path \in Seq(STRING) /\ Len(path) \in Nat \ {0}
    BY PathIs
<1>2. CASE i > j
    BY <1>1, <1>2, SubSeqEmpty
<1>3. CASE i <= j
    <2>1. 1 \in 1..Len(path) /\ n \in 1..Len(path) /\ i \in 1..n - 1 + 1 /\ j \in 1..n - 1 + 1
        BY <1>1, <1>3
    <2>2. SubSeq(part, i, j) = SubSeq(path, 1 + i - 1, 1 + j - 1)
        BY <1>1, <2>1, SubSeqOfSubSeq
    <2> QED
        BY <2>1, <2>2
<1> QED
    BY <1>1, <1>2, <1>3

LEMMA AboveAbove ==
    ASSUME NEW path \in Path, NEW found \in Above(path)
    PROVE  Above(found) = {q \in Above(path) : Len(q) <= Len(found)}
<1>1. /\ found \in Path /\ Len(found) \in 1..Len(path) /\ found = SubSeq(path, 1, Len(found))
      /\ Len(path) \in Nat \ {0} /\ Len(found) \in Nat \ {0}
    BY AboveIs, PathIs
<1>2. \A n \in 1..Len(found) : SubSeq(found, 1, n) = SubSeq(path, 1, n)
    BY <1>1, PartOfPart
<1>3. ASSUME NEW q \in Above(found)
      PROVE  q \in Above(path) /\ Len(q) <= Len(found)
    <2>1. Len(q) \in 1..Len(found) /\ q = SubSeq(found, 1, Len(q))
        BY <1>1, AboveIs
    <2>2. q = SubSeq(path, 1, Len(q)) /\ Len(q) \in 1..Len(path)
        BY <1>1, <1>2, <2>1
    <2>3. q \in Above(path)
        BY <2>2 DEF Above
    <2> QED
        BY <1>1, <2>1, <2>3
<1>4. ASSUME NEW q \in Above(path), Len(q) <= Len(found)
      PROVE  q \in Above(found)
    <2>1. Len(q) \in 1..Len(path) /\ q = SubSeq(path, 1, Len(q))
        BY AboveIs
    <2>2. Len(q) \in 1..Len(found)
        BY <1>1, <1>4, <2>1
    <2> QED
        BY <1>2, <2>1, <2>2 DEF Above
<1> QED
    BY <1>3, <1>4


(* What is found of a path is at least as long as the link it lies behind, *)
(* so where the whole path leads does not depend on what is there.         *)
LEMMA ResolvedIs ==
    ASSUME NEW path \in Path, NEW now, ~Dangling(path, now)
    PROVE  /\ Resolved(path, now) = Canonical(path)
           /\ Existing(path, now) # <<>> => IsPrefix(Canonical(Existing(path, now)), Canonical(path))
           /\ Existing(path, now) \in {<<>>} \union Path
<1> DEFINE here == {q \in Above(path) : Exists(q, now)}
           links == Above(path) \intersect DOMAIN Leads
           found == Existing(path, now)
           n == Len(found)
           rest == SubSeq(path, n + 1, Len(path))
<1>1. /\ path \in Seq(STRING) /\ path \in Path /\ Len(path) \in Nat \ {0}
      /\ SubSeq(path, 1, Len(path)) = path
    BY PathIs
<1>2. \A q \in Above(path) : q \in Path /\ Len(q) \in 1..Len(path) /\ q = SubSeq(path, 1, Len(q))
    BY AboveIs
<1>3. found \in {<<>>} \union here /\ \A q \in here : Len(q) <= n
    <2>1. \A q \in {<<>>} \union here : Len(q) \in 0..Len(path)
        BY <1>1, <1>2, EmptySeq
    <2>2. {<<>>} \union here # {} /\ found = Longest({<<>>} \union here)
        BY DEF Existing
    <2>3. Longest({<<>>} \union here) \in {<<>>} \union here
          /\ \A q \in {<<>>} \union here : Len(q) <= Len(Longest({<<>>} \union here))
        BY <1>1, <2>1, <2>2, LongestIs
    <2> QED
        BY <2>2, <2>3
<1>4. n \in 0..Len(path) /\ found = SubSeq(path, 1, n)
    <2>1. CASE found = <<>>
        BY <1>1, <2>1, EmptySeq, SubSeqEmpty
    <2>2. CASE found \in here
        BY <1>1, <1>2, <2>2
    <2> QED
        BY <1>3, <2>1, <2>2
<1>5. \A link \in links : link \in here
    BY <1>2 DEF Dangling
<1>6. CASE links = {}
    <2>1. Canonical(path) = path
        BY <1>6 DEF Canonical
    <2>2. Canonical(found) = found
        <3>1. Above(found) \intersect DOMAIN Leads = {}
            <4>1. CASE found = <<>>
                BY <4>1, EmptySeq DEF Above
            <4>2. CASE found \in here
                BY <1>6, <4>2, AboveAbove
            <4> QED
                BY <1>3, <4>1, <4>2
        <3> QED
            BY <3>1 DEF Canonical
    <2>3. found \o rest = path
        <3>1. 0 \in 0..Len(path) /\ n \in 0..Len(path) /\ 0 + 1 = 1
            BY <1>1, <1>4
        <3>2. SubSeq(path, 0 + 1, n) \o SubSeq(path, n + 1, Len(path)) = SubSeq(path, 0 + 1, Len(path))
            BY <3>1, PartsJoin
        <3> QED
            BY <1>1, <1>4, <3>1, <3>2
    <2>4. Resolved(path, now) = path
        BY <2>2, <2>3 DEF Resolved
    <2>5. found # <<>> => IsPrefix(found, path)
        <3>1. rest \in Seq(STRING) /\ found \in Seq(STRING)
            BY <1>1, <1>2, <1>3, <1>4, PartsJoin, PathIs, EmptySeq
        <3> QED
            BY <2>3, <3>1, PrefixIs
    <2> QED
        BY <1>2, <1>3, <2>1, <2>2, <2>4, <2>5
<1>7. CASE links # {}
    <2> DEFINE link == Longest(links)
               l == Len(link)
               middle == SubSeq(path, l + 1, n)
    <2>1. link \in links /\ \A q \in links : Len(q) <= l
        <3>1. \A q \in links : Len(q) \in 0..Len(path)
            BY <1>1, <1>2
        <3> QED
            BY <1>1, <1>7, <3>1, LongestIs
    <2> HIDE DEF link
    <2>2. l \in 1..Len(path) /\ l <= n /\ Leads[link] \in Seq(STRING)
        BY <1>2, <1>3, <1>5, <2>1, LockAssumption, PathIs
    <2>3. Canonical(path) = Leads[link] \o SubSeq(path, l + 1, Len(path))
        BY <2>1, LinkIs
    <2>4. found \in here /\ found \in Path
        <3>1. found # <<>>
            BY <1>4, <2>2, EmptySeq
        <3> QED
            BY <1>2, <1>3, <3>1
    <2>5. Canonical(found) = Leads[link] \o middle
        <3>1. /\ link \in Above(found) \intersect DOMAIN Leads
              /\ \A q \in Above(found) \intersect DOMAIN Leads : Len(q) <= l
            BY <2>1, <2>2, <2>4, AboveAbove
        <3>2. Canonical(found) = Leads[link] \o SubSeq(found, l + 1, n)
            BY <2>4, <3>1, LinkIs
        <3>3. SubSeq(found, l + 1, n) = middle
            <4>1. n \in 0..Len(path) /\ l + 1 \in 1..n + 1 /\ n \in 0..n /\ l + 1 <= n + 1
                BY <1>1, <1>4, <2>2
            <4> HIDE DEF found, n
            <4>2. SubSeq(SubSeq(path, 1, n), l + 1, n) = SubSeq(path, l + 1, n)
                BY <4>1, PartOfPart
            <4> QED
                BY <1>4, <4>2
        <3> QED
            BY <3>2, <3>3
    <2>6. middle \o rest = SubSeq(path, l + 1, Len(path)) /\ middle \in Seq(STRING) /\ rest \in Seq(STRING)
        <3>1. l \in 0..Len(path) /\ n \in l..Len(path)
            BY <1>1, <1>4, <2>2
        <3> QED
            BY <3>1, PartsJoin
    <2> DEFINE front == Leads[link]
    <2> HIDE DEF middle, rest
    <2>7. Canonical(found) \o rest = Canonical(path)
        <3>1. front \in Seq(STRING)
            BY <2>2
        <3> HIDE DEF front
        <3>2. (front \o middle) \o rest = front \o (middle \o rest)
            BY <2>6, <3>1, JoinsAre
        <3> QED
            BY <2>3, <2>5, <2>6, <3>2 DEF front
    <2>8. Canonical(found) \in Seq(STRING) /\ IsPrefix(Canonical(found), Canonical(found) \o rest)
        <3>1. Canonical(found) \in Seq(STRING)
            BY <2>4, CanonicalIs, PathIs
        <3> QED
            BY <2>6, <3>1, PrefixIs
    <2>9. Resolved(path, now) = Canonical(path)
        BY <2>7 DEF Resolved, rest
    <2> QED
        BY <2>4, <2>7, <2>8, <2>9
<1> QED
    BY <1>6, <1>7

-----------------------------------------------------------------------------
(* What a lock holds. *)

Place == Path \union {None}

LEMMA OnItself ==
    ASSUME NEW path \in Seq(STRING)
    PROVE  Canonical(path) \in Seq(STRING) /\ IsPrefix(Canonical(path), Canonical(path))
<1>1. CASE path = <<>>
    <2>1. Above(path) = {}
        BY <1>1, EmptySeq DEF Above
    <2>2. Canonical(path) = path
        BY <2>1 DEF Canonical
    <2> QED
        BY <2>2, PrefixIs
<1>2. CASE path # <<>>
    <2>1. Canonical(path) \in Seq(STRING)
        BY <1>2, CanonicalIs, PathIs DEF Path
    <2> QED
        BY <2>1, PrefixIs
<1> QED
    BY <1>1, <1>2

LEMMA BeforeTheLast ==
    ASSUME NEW path \in Path
    PROVE  Front(path) \in Seq(STRING)
<1>1. path \in Seq(STRING) /\ Len(path) \in Nat \ {0}
    BY PathIs
<1>2. \A i \in 1..Len(path) - 1 : path[i] \in STRING
    BY <1>1, ElementOfSeq
<1>3. SubSeq(path, 1, Len(path) - 1) \in Seq(STRING)
    BY <1>1, <1>2, SubSeqProperties
<1> QED
    BY <1>3 DEF Front

(* Once it is made, a folder is where the path leads. *)
LEMMA MakeIs ==
    ASSUME NEW path \in Path, NEW now, ~Dangling(path, now)
    PROVE  Canonical(path) \in Make(path, now)
<1>1. Resolved(path, now) = Canonical(path) /\ Canonical(path) \in Path
    BY ResolvedIs, CanonicalIs
<1>2. Canonical(path) \in Above(Canonical(path))
    BY <1>1, AboveIs
<1> QED
    BY <1>1, <1>2 DEF Make

(* A place that is there when the process is locked is held. *)
LEMMA HeldIs ==
    ASSUME NEW grants, NEW now, NEW path \in Seq(STRING), Grant("write", path) \in grants,
           Canonical(path) \in now
    PROVE  \E h \in Held(grants, now) : h = Grant("write", Canonical(path)) /\ h.does = "write"
                                        /\ h.at = Canonical(path) /\ IsPrefix(h.at, Canonical(path))
<1> DEFINE wanted == Grant("write", path)
           paths == {g \in grants : g.does \in {"read", "write"}}
           h == Grant("write", Canonical(path))
<1>1. wanted.does = "write" /\ wanted.at = path /\ h.does = "write" /\ h.at = Canonical(path)
    BY DEF Grant
<1>2. wanted \in {g \in paths : Exists(g.at, now)}
    BY <1>1 DEF Exists
<1>3. h \in {Grant(g.does, Canonical(g.at)) : g \in {g \in paths : Exists(g.at, now)}}
    BY <1>1, <1>2
<1>4. h \in Held(grants, now)
    BY <1>3 DEF Held
<1> QED
    BY <1>1, <1>4, OnItself

LEMMA BelowPath ==
    ASSUME NEW path \in Path, NEW rest \in Seq(STRING)
    PROVE  path \o rest \in Path
<1>1. path \in Seq(STRING) /\ Len(path) \in Nat \ {0} /\ Len(rest) \in Nat
    BY PathIs, LenProperties
<1>2. path \o rest \in Seq(STRING) /\ Len(path \o rest) = Len(path) + Len(rest)
    BY <1>1, ConcatProperties
<1>3. Len(path \o rest) # 0
    BY <1>1, <1>2
<1> QED
    BY <1>2, <1>3, EmptySeq DEF Path

LEMMA NamesAre ==
    ASSUME NEW S, NEW a \in S, NEW b \in S
    PROVE  <<a>> \in Seq(S) /\ <<a, b>> \in Seq(S)
OBVIOUS

LEMMA OwnIs ==
    /\ DOMAIN Own = {"settings", "history", "cache", "activation"}
    /\ \A name \in {"settings", "history", "cache", "activation"} : Own[name] \in Path
<1> DEFINE data(base, below, mac) ==
                IF OnMac THEN Home \o mac ELSE Or(Xdg[base], Home \o below)
           settings == Or(Xdg["config"], Home \o <<".config">>)
<1>1. \A rest \in Seq(STRING) : Home \o rest \in Path
    BY BelowPath, LockAssumption
<1>2. \A base \in {"config", "state", "cache", "data"} : Xdg[base] \in Place
    BY LockAssumption DEF Place
<1>3. /\ <<".config">> \in Seq(STRING) /\ <<".cache">> \in Seq(STRING)
      /\ <<".local", "state">> \in Seq(STRING) /\ <<".local", "share">> \in Seq(STRING)
      /\ <<"Library", "Application Support">> \in Seq(STRING)
      /\ <<"Library", "Caches">> \in Seq(STRING)
      /\ <<"crossload">> \in Seq(STRING) /\ <<"xteink">> \in Seq(STRING)
    BY NamesAre, NamesAssumption
<1>4. \A base \in {"config", "state", "cache", "data"}, below, mac \in Seq(STRING) :
        data(base, below, mac) \in Path
    BY <1>1, <1>2 DEF Or, Place
<1>5. settings \in Path
    BY <1>1, <1>2, <1>3 DEF Or, Place
<1> DEFINE history == data("state", <<".local", "state">>, <<"Library", "Application Support">>)
           cache == data("cache", <<".cache">>, <<"Library", "Caches">>)
           activation == data("data", <<".local", "share">>, <<"Library", "Application Support">>)
<1>6. history \in Path /\ cache \in Path /\ activation \in Path
    BY <1>3, <1>4
<1>7. Own = [settings |-> settings \o <<"crossload">>, history |-> history \o <<"crossload">>,
             cache |-> cache \o <<"crossload">>, activation |-> activation \o <<"xteink">>]
    BY DEF Own
<1> HIDE DEF settings, history, cache, activation
<1>8. /\ settings \o <<"crossload">> \in Path /\ history \o <<"crossload">> \in Path
      /\ cache \o <<"crossload">> \in Path /\ activation \o <<"xteink">> \in Path
    BY <1>3, <1>5, <1>6, BelowPath
<1> QED
    BY <1>7, <1>8

-----------------------------------------------------------------------------
(* What the settings come to is places. *)

Places(keys) == [keys -> Place]

LEMMA NormalIs ==
    ASSUME NEW saved \in Places(Keys)
    PROVE  Normal(saved) \in Places(Keys)
<1>1. \A value \in DOMAIN Expand : Expand[value] \in Place
    BY ValuesAssumption DEF Place
<1>2. \A k \in Keys : saved[k] \in Place
    BY DEF Places
<1>3. \A k \in Keys : (IF k \in Folders /\ saved[k] \in DOMAIN Expand THEN Expand[saved[k]] ELSE saved[k]) \in Place
    BY <1>1, <1>2
<1> QED
    BY <1>3 DEF Normal, Places

LEMMA ShownAreKeys ==
    /\ Shown \subseteq Keys /\ Folders \subseteq Shown
    /\ Folders = {"browse", "output", "device", "copy_to"}
    /\ Shown = {"browse", "output", "device", "copy_to", "reader", "folder"}
BY DEF Keys, Shown, Folders

LEMMA SessionIs ==
    ASSUME NEW program \in Programs, NEW saved \in Places(Keys)
    PROVE  Session(program.given, saved) \in Places(Shown)
<1> DEFINE asked == program.given
           transfer == Resolve(asked, saved)
           filled == Fill(asked, saved)
           browse == Or(filled["browse"], StartedIn)
<1>1. \A k \in Keys : saved[k] \in Place
    BY DEF Places
<1>2. \A k \in Keys : asked[k] = SavedOne \/ asked[k] \in Place
    BY ProgramsAssumption DEF Place
<1> HIDE DEF asked
<1>3. \A k \in Shown : (IF asked[k] = SavedOne THEN saved[k]
                        ELSE IF k = "folder" THEN Or(asked[k], saved[k]) ELSE asked[k]) \in Place
    BY <1>1, <1>2, ShownAreKeys DEF Or
<1>4. \A k \in Shown : transfer[k] \in Place
    BY <1>3 DEF Resolve
<1> HIDE DEF transfer
<1>5. RootFolder \in Place /\ StartedIn \in Place
    BY ValuesAssumption DEF Place
<1>6. \A k \in Shown : (IF k = "copy_to" /\ transfer["reader"] # None THEN transfer[k]
                        ELSE IF k = "folder" THEN Or(transfer[k], RootFolder)
                        ELSE Or(transfer[k], saved[k])) \in Place
    BY <1>1, <1>4, <1>5, ShownAreKeys DEF Or
<1>7. filled \in Places(Shown)
    BY <1>6 DEF Fill, Places, transfer
<1> HIDE DEF filled
<1>8. browse \in Place /\ Or(filled["output"], browse) \in Place
    BY <1>5, <1>7, ShownAreKeys DEF Or, Places
<1> HIDE DEF browse
<1>9. [filled EXCEPT !["browse"] = browse, !["output"] = Or(@, browse)] \in Places(Shown)
    BY <1>7, <1>8, ShownAreKeys DEF Places
<1> QED
    BY <1>9 DEF Session, browse, filled, asked

LEMMA PanelIs ==
    ASSUME NEW session \in Places(Shown)
    PROVE  Panel(session) \in Places(Shown)
<1>1. Or(session["reader"], DefaultReader) \in Place
    BY ValuesAssumption, ShownAreKeys DEF Or, Place, Places
<1> QED
    BY <1>1 DEF Panel, Places

LEMMA PanelSettingsAre ==
    ASSUME NEW draft \in Places(Shown), NEW saved \in Places(Keys)
    PROVE  Normal(PanelSettings(draft, saved)) \in Places(Keys)
<1>1. PanelSettings(draft, saved) \in Places(Keys)
    BY ShownAreKeys DEF PanelSettings, Places
<1> QED
    BY <1>1, NormalIs

(* What an interface writes to is places. *)
LEMMA WrittenIs ==
    ASSUME NEW session \in Places(Shown), NEW g \in InterfaceGrants(session), g.does = "write"
    PROVE  g.at \in Path
<1>1. \A does, at : Grant(does, at).does = does /\ Grant(does, at).at = at
    BY DEF Grant
<1>2. ASSUME NEW addresses, NEW h \in ReaderGrants(addresses)
      PROVE  h.does # "write"
    <2>1. \E at : h = Grant("connect", at) \/ h = Grant("resolve", at)
        BY DEF ReaderGrants, Connections, Connect
    <2> QED
        BY <1>1, <2>1
<1>3. \A path \in ({session[k] : k \in Folders} \ {None}) \union {Temporary} : path \in Path
    BY LockAssumption, ShownAreKeys DEF Places, Place
<1>4. ASSUME NEW h \in Media, h.does = "write"
      PROVE  h.at \in Path
    <2>1. \/ \E path \in UserMedia : h = Grant("write", path)
          \/ \E path \in MediaRoots : h = Grant("read", path)
        BY DEF Media
    <2>2. \E path \in UserMedia : h = Grant("write", path)
        BY <1>1, <1>4, <2>1
    <2> QED
        BY <1>1, <2>2, LockAssumption
<1>5. \A h \in OwnGrants : h.at \in Path
    BY <1>1, OwnIs DEF OwnGrants
<1>6. \/ \E path \in ({session[k] : k \in Folders} \ {None}) \union {Temporary} : g = Grant("write", path)
      \/ g \in ReaderGrants({session["reader"]}) \/ g \in Media \/ g \in OwnGrants
    BY DEF InterfaceGrants
<1> QED
    BY <1>1, <1>2, <1>3, <1>4, <1>5, <1>6

-----------------------------------------------------------------------------
(* What a command finds made and holds. *)

LEMMA OutputIs ==
    ASSUME NEW program \in Programs, NEW saved \in Places(Keys)
    PROVE  /\ OutputOf(program, saved) \in Place
           /\ OutputOf(program, saved) # None =>
                OutputOf(program, saved) \in Path /\ OutputOf(program, saved) \in Named(program, saved, "output")
           /\ \A k \in Keys : Named(program, saved, k) \subseteq Path
<1>1. \A k \in Keys : saved[k] \in Place /\ program.given[k] \in Place \union {SavedOne}
    BY ProgramsAssumption DEF Place, Places
<1>2. \A k \in Keys : Named(program, saved, k) \subseteq Path
    BY <1>1 DEF Named, Place
<1>3. "output" \in Keys /\ program.given["output"] # SavedOne
    BY ProgramsAssumption, ShownAreKeys
<1>4. saved["output"] \in Place /\ program.given["output"] \in Place
    BY <1>1, <1>3
<1>5. saved["output"] # SavedOne
    BY <1>4, ValuesAssumption, SettingsAssumption DEF Place
<1> QED
    BY <1>2, <1>3, <1>4, <1>5 DEF OutputOf, Or, Named, Place

LEMMA MadeForIs ==
    ASSUME NEW program \in Programs, NEW saved \in Places(Keys), NEW now,
           \A path \in ToMake(program, saved, now) : ~Dangling(path, now)
    PROVE  LET writes == Writes(program, saved)
               made == MadeFor(program, saved, now) IN
           /\ now \subseteq made
           /\ \A name \in writes.own \intersect DOMAIN Own : Canonical(Own[name]) \in made
           /\ writes.output \in Path /\ OutputAccepted(program, saved, writes.output, now) =>
                Canonical(writes.output) \in made
<1> DEFINE writes == Writes(program, saved)
           paths == ToMake(program, saved, now)
           made == MadeFor(program, saved, now)
<1>1. made = now \union UNION {Make(path, now) : path \in paths}
    BY DEF MadeFor
<1>2. \A name \in DOMAIN Own : Own[name] \in Path
    BY OwnIs
<1>3. \A path \in paths \intersect Path : Canonical(path) \in made
    BY <1>1, MakeIs
<1>4. writes.output \in Path /\ OutputAccepted(program, saved, writes.output, now) => writes.output \in paths
    BY LockAssumption DEF ToMake
<1>5. \A name \in writes.own \intersect DOMAIN Own : Own[name] \in paths
    BY DEF ToMake
<1> QED
    BY <1>1, <1>2, <1>3, <1>4, <1>5

(* What a process can write to, whatever comes and goes. *)
Holding(me, path) ==
    me.locked => \E h \in me.held : h.does = "write" /\ IsPrefix(h.at, Canonical(path))

(* A path that no absent link is above leads to where it led. *)
Led(me, path) == ({path} \union Above(path)) \intersect me.absent = {}

LEMMA LedHolds ==
    ASSUME NEW program \in Programs, NEW now, NEW me, me.absent = Absent(program, now),
           NEW path, Led(me, path)
    PROVE  /\ ~Dangling(path, now)
           /\ \A w \in program.words : path = Front(w) => Exists(path, now)
BY DEF Led, Absent, Dangling

LEMMA CommandHolds ==
    ASSUME NEW program \in Programs, NEW saved \in Places(Keys), NEW now,
           \A path \in ToMake(program, saved, now) : ~Dangling(path, now),
           NEW me, me.held = Held(CommandGrants(program, saved, now), MadeFor(program, saved, now)),
           me.absent = Absent(program, now)
    PROVE  /\ \A name \in Writes(program, saved).own \intersect DOMAIN Own : Holding(me, Own[name])
           /\ program.command = "import" =>
                \A request \in program.words : Led(me, Front(request)) => Holding(me, Front(request))
           /\ Writes(program, saved).output = OutputOf(program, saved) /\ OutputOf(program, saved) # None =>
                (Led(me, OutputOf(program, saved)) => Holding(me, OutputOf(program, saved)))
<1> DEFINE grants == CommandGrants(program, saved, now)
           made == MadeFor(program, saved, now)
           writes == Writes(program, saved)
           output == OutputOf(program, saved)
<1>2. /\ now \subseteq made
      /\ \A name \in writes.own \intersect DOMAIN Own : Canonical(Own[name]) \in made
      /\ writes.output \in Path /\ OutputAccepted(program, saved, writes.output, now) =>
            Canonical(writes.output) \in made
    BY MadeForIs
<1>3. \A path \in Seq(STRING) : Grant("write", path) \in grants /\ Canonical(path) \in made => Holding(me, path)
    BY HeldIs DEF Holding
<1>4. \A name \in DOMAIN Own : Grant("write", Own[name]) \in grants /\ Own[name] \in Seq(STRING)
    BY OwnIs, PathIs DEF CommandGrants, OwnGrants
<1>5. ASSUME program.command = "import", NEW request \in program.words, Led(me, Front(request))
      PROVE  Holding(me, Front(request))
    <2>1. request \in Files /\ request \in Path
        BY <1>5, ProgramsAssumption, LockAssumption
    <2>2. Canonical(Front(request)) \in now
        BY <1>5, LedHolds DEF Exists
    <2>3. request \in Typed(program) \intersect Files /\ Exists(Front(request), now)
        BY <2>1, <2>2 DEF Typed, Exists
    <2>4. Grant("write", Front(request)) \in RequestGrants(Typed(program), now)
        BY <2>3 DEF RequestGrants
    <2>5. Grant("write", Front(request)) \in grants
        BY <2>4 DEF CommandGrants
    <2> QED
        BY <1>2, <1>3, <2>1, <2>2, <2>5, BeforeTheLast
<1>6. ASSUME writes.output = output, output # None, Led(me, output)
      PROVE  Holding(me, output)
    <2>1. output \in Path /\ output \in Named(program, saved, "output")
        BY <1>6, OutputIs
    <2>2. CASE OutputAccepted(program, saved, output, now)
        <3>1. Grant("write", output) \in grants
            BY <2>1, <2>2 DEF CommandGrants
        <3> QED
            BY <1>2, <1>3, <1>6, <2>1, <2>2, <3>1, PathIs
    <2>3. CASE ~OutputAccepted(program, saved, output, now)
        <3>1. PICK device \in Named(program, saved, "device") : ~OutsideDevice(output, device, now)
            BY <2>3 DEF OutputAccepted
        <3>2. /\ Canonical(device) \in now
              /\ IsPrefix(Canonical(device), Canonical(Existing(output, now)))
            BY <3>1 DEF OutsideDevice, Exists
        <3>3. device \in Path /\ Canonical(device) \in Path
            BY <3>1, OutputIs, ShownAreKeys, CanonicalIs
        <3>4. Existing(output, now) # <<>>
            <4>1. ASSUME Existing(output, now) = <<>>
                  PROVE  FALSE
                <5>1. Canonical(<<>>) = <<>>
                    <6>1. Above(<<>>) = {}
                        BY EmptySeq DEF Above
                    <6> QED
                        BY <6>1 DEF Canonical
                <5>2. Len(Canonical(device)) <= 0
                    BY <3>2, <4>1, <5>1, EmptySeq DEF IsPrefix
                <5> QED
                    BY <3>3, <5>2, PathIs
            <4> QED
                BY <4>1
        <3>5. /\ Existing(output, now) \in Path
              /\ IsPrefix(Canonical(Existing(output, now)), Canonical(output))
            BY <1>6, <2>1, <3>4, LedHolds, ResolvedIs
        <3>6. Grant("write", device) \in grants
            BY <3>1 DEF CommandGrants
        <3>7. PICK h \in me.held : h.does = "write" /\ h.at = Canonical(device)
            BY <1>2, <3>2, <3>3, <3>6, HeldIs, PathIs
        <3>8. /\ Canonical(Existing(output, now)) \in Seq(STRING)
              /\ Canonical(output) \in Seq(STRING) /\ Canonical(device) \in Seq(STRING)
            BY <2>1, <3>3, <3>5, CanonicalIs, PathIs
        <3>9. IsPrefix(Canonical(device), Canonical(output))
            BY <3>2, <3>5, <3>8, PrefixesChain
        <3> QED
            BY <3>7, <3>9 DEF Holding
    <2> QED
        BY <2>2, <2>3
<1> QED
    BY <1>2, <1>3, <1>4, <1>5, <1>6

-----------------------------------------------------------------------------
(* Whatever a process may do next, its lock lets it. *)

Equipped(me) ==
    /\ me.at # "off" => me.program \in Programs /\ me.saved \in Places(Keys)
    /\ me.at = "running" =>
        /\ me.draft \in Places(Shown) /\ me.kobos \subseteq Path
        /\ \A g \in InterfaceGrants(me.session) \ me.asked :
            /\ g.does = "write" => (Led(me, g.at) => Holding(me, g.at))
            /\ g.does \in {"connect", "resolve"} => (me.locked => g \in me.held)
    /\ me.at = "saving" => Holding(me, Own["settings"])
    /\ me.at \in {"listing", "reading"} => Holding(me, Own["cache"])
    /\ me.at \in {"listing", "reading"} /\ me.program.apply => Holding(me, Own["history"])
    /\ me.at \in {"copying", "recording"} => Holding(me, Own["history"])
    /\ me.at = "adding" =>
        /\ Led(me, OutputOf(me.program, me.saved)) => Holding(me, OutputOf(me.program, me.saved))
        /\ me.program.command = "import" =>
            /\ Holding(me, Own["activation"])
            /\ \A request \in me.program.words : Led(me, Front(request)) => Holding(me, Front(request))

LockInv ==
    /\ file \in Places(Keys)
    /\ \A p \in Procs : Equipped(proc[p])

LEMMA SetEquips ==
    ASSUME Shaped, LockInv, NEW p \in Procs, NEW me, Set(p, me), DOMAIN me = Fields, Equipped(me)
    PROVE  \A q \in Procs : Equipped(proc'[q])
BY SetIs DEF LockInv

LEMMA OffIsEquipped ==
    ASSUME NEW me, me.at = "off"
    PROVE  Equipped(me)
BY DEF Equipped

LEMMA EndEquips ==
    ASSUME Shaped, LockInv, NEW p \in Procs, End(p)
    PROVE  \A q \in Procs : Equipped(proc'[q])
<1> DEFINE me == [Off EXCEPT !.count = proc[p].count]
<1>1. Set(p, me) /\ DOMAIN me = Fields
    BY EndIs
<1>2. me.at = "off"
    BY DEF Off
<1> HIDE DEF me
<1> QED
    BY <1>1, <1>2, SetEquips, OffIsEquipped

(* Settings that were read, and a session that is not open yet. *)
LEMMA SettledEquips ==
    ASSUME NEW me, me.at \in {"opening", "saved"}, me.program \in Programs, me.saved \in Places(Keys)
    PROVE  Equipped(me)
BY DEF Equipped

LEMMA WritesAre ==
    ASSUME NEW program \in Programs, NEW saved, program.command # "tui"
    PROVE  LET writes == Writes(program, saved)
               body == Body(program) IN
           /\ body \in {"saving", "listing", "adding"}
           /\ body = "saving" => "settings" \in writes.own
           /\ body = "listing" => "cache" \in writes.own /\ (program.apply => "history" \in writes.own)
           /\ body = "adding" => writes.output = OutputOf(program, saved)
           /\ program.command = "import" => "activation" \in writes.own
<1> DEFINE command == program.command
<1>1. /\ command \in {"config set", "config unset", "books", "sync", "import", "kobo sync",
                      "optimize", "get", "kobo import"}
      /\ program.apply \in BOOLEAN
      /\ command = "books" => ~program.apply
      /\ command = "kobo sync" => program.apply
    BY ProgramsAssumption DEF Adders
<1>2. CASE command \in {"config set", "config unset"}
    BY <1>2 DEF Body, Writes, Adders
<1>3. CASE command = "books"
    BY <1>1, <1>3 DEF Body, Writes, Adders
<1>4. CASE command = "sync"
    BY <1>1, <1>4 DEF Body, Writes, Adders
<1>5. CASE command \in Adders
    BY <1>5 DEF Body, Writes, Adders
<1>6. CASE command = "import"
    BY <1>6 DEF Body, Writes, Adders
<1>7. CASE command = "kobo sync"
    BY <1>1, <1>7 DEF Body, Writes, Adders
<1> QED
    BY <1>1, <1>2, <1>3, <1>4, <1>5, <1>6, <1>7 DEF Adders

LEMMA StartCommandEquips ==
    ASSUME Shaped, LockInv, NEW p \in Procs, NEW program \in Programs, StartCommand(p, program)
    PROVE  LockInv'
<1> DEFINE me == proc[p]
           saved == Normal(file)
           held == IF locks THEN Held(CommandGrants(program, saved, there), MadeFor(program, saved, there))
                   ELSE {}
           at == Body(program)
           own == Writes(program, saved).own
           absent == Absent(program, there)
<1>1. /\ program.command # "tui" /\ (at # "saving" => OutputOf(program, saved) # None)
      /\ UNCHANGED file
    BY DEF StartCommand
<1>2. SUFFICES ASSUME ~End(p)
               PROVE  LockInv'
    BY <1>1, EndEquips DEF LockInv
<1>3. PICK index : Set(p, [me EXCEPT !.at = at, !.program = program, !.saved = saved,
                                     !.locked = locks, !.index = index, !.absent = absent, !.held = held])
    BY <1>2 DEF StartCommand
<1>4. saved \in Places(Keys) /\ \A path \in ToMake(program, saved, there) : ~Dangling(path, there)
    BY <1>2, NormalIs DEF LockInv, StartCommand
<1> DEFINE k == [me EXCEPT !.at = at, !.program = program, !.saved = saved,
                           !.locked = locks, !.index = index, !.absent = absent, !.held = held]
<1>5. DOMAIN me = Fields
    BY DEF Shaped
<1>6. locks => held = Held(CommandGrants(program, saved, there), MadeFor(program, saved, there))
    OBVIOUS
<1>7. /\ at \in {"saving", "listing", "adding"}
      /\ at = "saving" => "settings" \in own
      /\ at = "listing" => "cache" \in own /\ (program.apply => "history" \in own)
      /\ at = "adding" => Writes(program, saved).output = OutputOf(program, saved)
      /\ program.command = "import" => "activation" \in own
    BY <1>1, WritesAre
<1> HIDE DEF saved, held, at, absent
<1>8. /\ DOMAIN k = Fields /\ k.at = at /\ k.program = program /\ k.saved = saved
      /\ k.locked = locks /\ k.held = held /\ k.absent = absent
    BY <1>5, FieldsAre
<1> HIDE DEF k
<1>9. /\ \A name \in own \intersect DOMAIN Own : Holding(k, Own[name])
      /\ program.command = "import" =>
            \A request \in program.words : Led(k, Front(request)) => Holding(k, Front(request))
      /\ at = "adding" => (Led(k, OutputOf(program, saved)) => Holding(k, OutputOf(program, saved)))
    <2>1. CASE ~locks
        BY <1>8, <2>1 DEF Holding
    <2>2. CASE locks
        <3>1. k.held = Held(CommandGrants(program, saved, there), MadeFor(program, saved, there))
            BY <1>6, <1>8, <2>2
        <3>2. k.absent = Absent(program, there)
            BY <1>8 DEF absent
        <3> QED
            BY <1>1, <1>4, <1>7, <3>1, <3>2, CommandHolds
    <2> QED
        BY <2>1, <2>2
<1>10. Equipped(k)
    <2>1. \A name \in {"settings", "history", "cache", "activation"} : name \in own => Holding(k, Own[name])
        BY <1>9, OwnIs
    <2> QED
        BY <1>4, <1>7, <1>8, <1>9, <2>1 DEF Equipped
<1>11. Set(p, k)
    BY <1>3 DEF k
<1>12. \A q \in Procs : Equipped(proc'[q])
    BY <1>8, <1>10, <1>11, SetEquips
<1> QED
    BY <1>1, <1>4, <1>12, NormalIs DEF LockInv

LEMMA OpenedIs ==
    ASSUME Shaped, NEW p \in Procs, NEW now
    PROVE  LET me == proc[p]
               k == OpenedAs(me, now) IN
           /\ DOMAIN k = Fields /\ k.at = "running" /\ k.program = me.program /\ k.saved = me.saved
           /\ k.session = me.session /\ k.locked = me.locked /\ k.asked = me.asked /\ k.held = me.held
           /\ k.draft = Panel(me.session) /\ k.kobos = KobosIn(now) /\ k.absent = Absent(me.program, now)
<1> DEFINE me == proc[p]
           draft == Panel(me.session)
           opened == Exists(me.session["browse"], now)
           kobos == KobosIn(now)
           absent == Absent(me.program, now)
           k == OpenedAs(me, now)
<1>1. DOMAIN me = Fields
    BY DEF Shaped
<1>2. k = [me EXCEPT !.at = "running", !.draft = draft, !.opened = opened, !.kobos = kobos,
                     !.absent = absent]
    BY DEF OpenedAs
<1> HIDE DEF draft, opened, kobos, absent, k
<1>3. /\ DOMAIN k = Fields /\ k.at = "running" /\ k.program = me.program /\ k.saved = me.saved
      /\ k.session = me.session /\ k.locked = me.locked /\ k.asked = me.asked /\ k.held = me.held
      /\ k.draft = draft /\ k.kobos = kobos /\ k.absent = absent
    BY <1>1, <1>2, FieldsAre
<1> QED
    BY <1>3 DEF k, draft, kobos, absent

LEMMA KobosAre == \A now : KobosIn(now) \subseteq Path
BY CanonicalIs, LockAssumption DEF KobosIn

LEMMA FirstOpenEquips ==
    ASSUME Shaped, SessionInv, LockInv, NEW p \in Procs, FirstOpen(p)
    PROVE  LockInv'
<1> DEFINE me == proc[p]
<1>0. SUFFICES ASSUME ~End(p)
               PROVE  LockInv'
    BY EndEquips DEF FirstOpen, LockInv
<1>1. PICK now, locked, held :
        /\ Set(p, [OpenedAs(me, now) EXCEPT !.locked = locked, !.asked = Wanted(p), !.held = held])
        /\ UNCHANGED file
    BY <1>0 DEF FirstOpen
<1> DEFINE opened == OpenedAs(me, now)
           asked == Wanted(p)
           k == [opened EXCEPT !.locked = locked, !.asked = asked, !.held = held]
<1>2. me.at = "opening" /\ InSession(me) /\ Equipped(me)
    BY DEF FirstOpen, Opening, SessionInv, LockInv
<1>3. /\ me.program \in Programs /\ me.saved \in Places(Keys) /\ me.session \in Places(Shown)
      /\ asked = InterfaceGrants(me.session)
    BY <1>2, SessionIs DEF Equipped, InSession, Wanted
<1>4. /\ DOMAIN opened = Fields /\ opened.at = "running" /\ opened.program = me.program
      /\ opened.saved = me.saved /\ opened.session = me.session
      /\ opened.draft = Panel(me.session) /\ opened.kobos = KobosIn(now)
    BY OpenedIs
<1>5. Set(p, k)
    BY <1>1
<1> HIDE DEF opened, asked
<1>6. /\ DOMAIN k = Fields /\ k.at = "running" /\ k.program = me.program
      /\ k.saved = me.saved /\ k.session = me.session /\ k.asked = asked
      /\ k.draft = Panel(me.session) /\ k.kobos = KobosIn(now)
    BY <1>4, FieldsAre
<1> HIDE DEF k
<1>7. Equipped(k)
    BY <1>3, <1>6, PanelIs, KobosAre DEF Equipped
<1>8. \A q \in Procs : Equipped(proc'[q])
    BY <1>5, <1>6, <1>7, SetEquips
<1> QED
    BY <1>1, <1>8 DEF LockInv

(* What the settings need that was not asked for is held, or the interface *)
(* is not opened again.                                                    *)
LEMMA OpenAgainEquips ==
    ASSUME Shaped, SessionInv, LockInv, NEW p \in Procs, OpenAgain(p)
    PROVE  LockInv'
<1> DEFINE me == proc[p]
           k == OpenedAs(me, OwnMade)
<1>1. Set(p, k) /\ UNCHANGED file /\ (me.locked => Missing(p) = {})
    BY DEF OpenAgain
<1>2. me.at = "opening" /\ InSession(me) /\ Equipped(me)
    BY DEF OpenAgain, Opening, SessionInv, LockInv
<1>3. /\ me.program \in Programs /\ me.saved \in Places(Keys) /\ me.session \in Places(Shown)
      /\ Wanted(p) = InterfaceGrants(me.session)
    BY <1>2, SessionIs DEF Equipped, InSession, Wanted
<1>4. /\ DOMAIN k = Fields /\ k.at = "running" /\ k.program = me.program /\ k.saved = me.saved
      /\ k.session = me.session /\ k.locked = me.locked /\ k.asked = me.asked /\ k.held = me.held
      /\ k.draft = Panel(me.session) /\ k.kobos = KobosIn(OwnMade) /\ k.absent = Absent(me.program, OwnMade)
    BY OpenedIs
<1> HIDE DEF k
<1>5. ASSUME NEW g \in InterfaceGrants(me.session) \ me.asked, me.locked
      PROVE  /\ g.does = "write" /\ Led(k, g.at) =>
                    \E h \in me.held : h.does = "write" /\ IsPrefix(h.at, Canonical(g.at))
             /\ g.does \in {"connect", "resolve"} => g \in me.held
    <2>1. Covers(me.held, g, OwnMade)
        BY <1>1, <1>3, <1>5 DEF Missing, Uncovered
    <2>2. ASSUME g.does = "write", Led(k, g.at)
          PROVE  \E h \in me.held : h.does = "write" /\ IsPrefix(h.at, Canonical(g.at))
        <3>1. Resolved(g.at, OwnMade) = Canonical(g.at)
            BY <1>3, <1>4, <2>2, WrittenIs, LedHolds, ResolvedIs
        <3> QED
            BY <2>1, <2>2, <3>1 DEF Covers
    <2>3. g.does \in {"connect", "resolve"} => g \in me.held
        BY <2>1 DEF Covers
    <2> QED
        BY <2>2, <2>3
<1>6. \A g \in InterfaceGrants(k.session) \ k.asked :
        /\ g.does = "write" => (Led(k, g.at) => Holding(k, g.at))
        /\ g.does \in {"connect", "resolve"} => (k.locked => g \in k.held)
    BY <1>4, <1>5 DEF Holding
<1>7. Equipped(k)
    BY <1>3, <1>4, <1>6, PanelIs, KobosAre DEF Equipped
<1>8. \A q \in Procs : Equipped(proc'[q])
    BY <1>1, <1>4, <1>7, SetEquips
<1> QED
    BY <1>1, <1>8 DEF LockInv

LEMMA InterfaceEquips ==
    ASSUME Shaped, SessionInv, LockInv, NEW p \in Procs, Quiet(p)
    PROVE  LockInv'
<1> DEFINE me == proc[p]
<1>1. DOMAIN me = Fields /\ Equipped(me) /\ file \in Places(Keys)
    BY DEF Shaped, LockInv
<1>2. ASSUME file' \in Places(Keys), \A q \in Procs : Equipped(proc'[q])
      PROVE  LockInv'
    BY <1>2 DEF LockInv
<1>3. ASSUME NEW program \in Programs, StartInterface(p, program)
      PROVE  LockInv'
    <2> DEFINE saved == Normal(file)
               session == Session(program.given, saved)
               k == [me EXCEPT !.at = "opening", !.program = program, !.saved = saved, !.session = session]
    <2>1. Set(p, k) /\ UNCHANGED <<file, there>>
        BY <1>3 DEF StartInterface
    <2>2. saved \in Places(Keys)
        BY <1>1, NormalIs
    <2> HIDE DEF saved, session
    <2>3. DOMAIN k = Fields /\ k.at = "opening" /\ k.program = program /\ k.saved = saved
        BY <1>1, FieldsAre
    <2> HIDE DEF k
    <2>4. Equipped(k)
        BY <2>2, <2>3, SettledEquips
    <2>5. \A q \in Procs : Equipped(proc'[q])
        BY <2>1, <2>3, <2>4, SetEquips
    <2> QED
        BY <1>1, <1>2, <2>1, <2>5
<1>4. CASE Refuse(p) \/ GiveUp(p) \/ Quit(p) \/ AddToOutput(p)
    <2>1. End(p) /\ UNCHANGED file
        BY <1>4 DEF Refuse, GiveUp, Quit, AddToOutput
    <2> QED
        BY <1>1, <1>2, <2>1, EndEquips
<1>5. CASE StartAgain(p)
    <2> DEFINE program == me.program
               saved == Normal(file)
               session == Session(me.program.given, Normal(file))
               edits == me.edits
               count == me.count
               k == [Off EXCEPT !.at = "opening", !.program = program, !.saved = saved,
                                !.session = session, !.edits = edits, !.count = count]
    <2>1. (Set(p, k) \/ End(p)) /\ me.at = "opening" /\ UNCHANGED file
        BY <1>5 DEF StartAgain, Opening
    <2>2. saved \in Places(Keys) /\ program \in Programs
        BY <1>1, <2>1, NormalIs DEF Equipped
    <2> HIDE DEF program, saved, session, edits, count
    <2>3. DOMAIN k = Fields /\ k.at = "opening" /\ k.program = program /\ k.saved = saved
        BY DEF Fields, Off
    <2> HIDE DEF k
    <2>4. Equipped(k)
        BY <2>2, <2>3, SettledEquips
    <2>5. \A q \in Procs : Equipped(proc'[q])
        BY <2>1, <2>3, <2>4, SetEquips, EndEquips
    <2> QED
        BY <1>1, <1>2, <2>1, <2>5
<1>6. ASSUME NEW k \in Shown, NEW value \in Path, Edit(p, k, value)
      PROVE  LockInv'
    <2> DEFINE draft == [me.draft EXCEPT ![k] = value]
               edits == me.edits + 1
               n == [me EXCEPT !.draft = draft, !.edits = edits]
    <2>1. Set(p, n) /\ me.at = "running" /\ UNCHANGED <<file, there>>
        BY <1>1, <1>6, FieldsAre DEF Edit
    <2>2. draft \in Places(Shown)
        BY <1>1, <1>6, <2>1 DEF Equipped, Places, Place
    <2> HIDE DEF draft, edits
    <2>3. /\ DOMAIN n = Fields /\ n.at = "running" /\ n.draft = draft /\ n.program = me.program
          /\ n.saved = me.saved /\ n.kobos = me.kobos /\ n.session = me.session
          /\ n.asked = me.asked /\ n.locked = me.locked /\ n.held = me.held /\ n.absent = me.absent
        BY <1>1, <2>1, FieldsAre
    <2> HIDE DEF n
    <2>4. Equipped(n)
        BY <1>1, <2>1, <2>2, <2>3 DEF Equipped, Holding, Led
    <2>5. \A q \in Procs : Equipped(proc'[q])
        BY <2>1, <2>3, <2>4, SetEquips
    <2> QED
        BY <1>1, <1>2, <2>1, <2>5
<1>7. ASSUME NEW k \in Shown, NEW value \in Drafts[k], Edit(p, k, value)
      PROVE  LockInv'
    BY <1>6, <1>7, ValuesAssumption
<1>8. CASE Detect(p)
    <2>1. PICK device \in me.kobos : Edit(p, "device", device)
        BY <1>8 DEF Detect
    <2>2. device \in Path /\ "device" \in Shown
        BY <1>1, <2>1, ShownAreKeys DEF Edit, Equipped
    <2> QED
        BY <1>6, <2>1, <2>2
<1>9. CASE SavePanel(p)
    <2> DEFINE saved == Normal(PanelSettings(me.draft, me.saved))
               edits == IF me.draft = Panel(me.session) THEN me.edits + 1 ELSE me.edits
               k == [me EXCEPT !.at = "saved", !.saved = saved, !.edits = edits]
    <2>1. Set(p, k) /\ me.at = "running" /\ file' = saved /\ UNCHANGED there
        BY <1>9 DEF SavePanel
    <2>2. saved \in Places(Keys) /\ me.program \in Programs
        BY <1>1, <2>1, PanelSettingsAre DEF Equipped
    <2> HIDE DEF saved, edits
    <2>3. DOMAIN k = Fields /\ k.at = "saved" /\ k.program = me.program /\ k.saved = saved
        BY <1>1, FieldsAre
    <2> HIDE DEF k
    <2>4. Equipped(k)
        BY <2>2, <2>3, SettledEquips
    <2>5. \A q \in Procs : Equipped(proc'[q])
        BY <2>1, <2>3, <2>4, SetEquips
    <2> QED
        BY <1>2, <2>1, <2>2, <2>5
<1>10. CASE Restart(p)
    <2> DEFINE draft == NoPlaces
               session == Restarted(me.program.given, me.session, me.saved)
               k == [me EXCEPT !.at = "opening", !.draft = draft, !.session = session]
    <2>1. (Set(p, k) \/ End(p)) /\ me.at = "saved" /\ UNCHANGED <<file, there>>
        BY <1>10 DEF Restart
    <2>2. me.saved \in Places(Keys) /\ me.program \in Programs
        BY <1>1, <2>1 DEF Equipped
    <2> HIDE DEF draft, session
    <2>3. DOMAIN k = Fields /\ k.at = "opening" /\ k.program = me.program /\ k.saved = me.saved
        BY <1>1, FieldsAre
    <2> HIDE DEF k
    <2>4. Equipped(k)
        BY <2>2, <2>3, SettledEquips
    <2>5. \A q \in Procs : Equipped(proc'[q])
        BY <2>1, <2>3, <2>4, SetEquips, EndEquips
    <2> QED
        BY <1>1, <1>2, <2>1, <2>5
<1>11. CASE SaveSettings(p)
    <2>1. /\ End(p) /\ me.at = "saving" /\ UNCHANGED there
          /\ file' \in {file, Normal(Updated(p))}
        BY <1>11 DEF SaveSettings
    <2>2. me.saved \in Places(Keys) /\ me.program \in Programs
        BY <1>1, <2>1 DEF Equipped
    <2>3. Updated(p) \in Places(Keys)
        <3> DEFINE given == me.program.given
        <3>1. \A k \in Keys : me.saved[k] \in Place
            BY <2>2 DEF Places
        <3>2. CASE me.program.command = "config set"
            <4>1. \A k \in Keys : given[k] \in Place
                BY <2>2, <3>2, ProgramsAssumption DEF Place
            <4>2. \A k \in Keys : Or(given[k], me.saved[k]) \in Place
                BY <3>1, <4>1 DEF Or
            <4> HIDE DEF given
            <4>3. Merge(me.saved, given) \in Places(Keys)
                BY <4>2 DEF Merge, Places
            <4> QED
                BY <3>2, <4>3 DEF Updated, given
        <3>3. CASE me.program.command # "config set"
            <4> DEFINE keys == {k \in Keys : given[k] # None}
            <4>1. Updated(p) = Unset(me.saved, keys)
                BY <3>3 DEF Updated
            <4> HIDE DEF keys
            <4>2. \A k \in Keys : (IF k \in keys THEN None ELSE me.saved[k]) \in Place
                BY <3>1 DEF Place
            <4> QED
                BY <4>1, <4>2 DEF Unset, Places
        <3> QED
            BY <3>2, <3>3
    <2>4. file' \in Places(Keys)
        BY <1>1, <2>1, <2>3, NormalIs
    <2> QED
        BY <1>2, <2>1, <2>4, EndEquips
<1> QED
    BY <1>3, <1>4, <1>5, <1>7, <1>8, <1>9, <1>10, <1>11, StartCommandEquips, FirstOpenEquips,
       OpenAgainEquips DEF Quiet

(* A command that lists and copies is locked to what it was when it began. *)
Same(k, me) ==
    /\ DOMAIN k = Fields /\ k.program = me.program /\ k.saved = me.saved
    /\ k.locked = me.locked /\ k.held = me.held

LEMMA SameEquips ==
    ASSUME NEW me, NEW k, Equipped(me), Same(k, me),
           \/ me.at \in {"listing", "reading"} /\ k.at \in {"listing", "reading"}
           \/ me.at \in {"listing", "reading"} /\ me.program.apply /\ k.at = "copying"
           \/ me.at \in {"copying", "recording"} /\ k.at \in {"copying", "recording"}
    PROVE  Equipped(k)
BY DEF Equipped, Same, Holding

LEMMA ListedSame ==
    ASSUME Shaped, NEW p \in Procs, NEW sha
    PROVE  Same(Listed(proc[p], sha), proc[p]) /\ Listed(proc[p], sha).at = "listing"
<1> DEFINE me == proc[p]
           next == me.next + 1
           listed == [me.listed EXCEPT ![me.next] = sha]
           k == Listed(me, sha)
<1>1. DOMAIN me = Fields
    BY DEF Shaped
<1>2. k = [me EXCEPT !.at = "listing", !.key = None, !.next = next, !.listed = listed]
    BY <1>1, FieldsAre DEF Listed
<1> HIDE DEF next, listed, k
<1>3. Same(k, me) /\ k.at = "listing"
    BY <1>1, <1>2, FieldsAre DEF Same
<1> QED
    BY <1>3 DEF k

LEMMA CommandSame ==
    ASSUME Shaped, NEW p \in Procs, List(p) \/ Read(p) \/ KeepIndex(p) \/ Transfer(p) \/ WriteRecord(p)
    PROVE  LET me == proc[p] IN
           \/ End(p)
           \/ \E k : /\ Set(p, k) /\ Same(k, me)
                     /\ \/ me.at \in {"listing", "reading"} /\ k.at \in {"listing", "reading"}
                        \/ me.at \in {"listing", "reading"} /\ me.program.apply /\ k.at = "copying"
                        \/ me.at \in {"copying", "recording"} /\ k.at \in {"copying", "recording"}
<1> DEFINE me == proc[p]
<1>1. DOMAIN me = Fields
    BY DEF Shaped
<1>2. CASE List(p)
    <2> DEFINE i == me.next
               key == SourceKey(Items[i], Fingerprint(i))
               listed == Listed(me, Known(me.index, key))
               index == Touch(me.index, key)
               k == [listed EXCEPT !.index = index]
               n == [me EXCEPT !.at = "reading", !.key = key]
    <2>1. me.at = "listing" /\ (Set(p, k) \/ Set(p, n))
        BY <1>2 DEF List
    <2>2. Same(listed, me) /\ listed.at = "listing"
        BY ListedSame
    <2> HIDE DEF key, listed, index
    <2>3. Same(k, me) /\ k.at = "listing"
        BY <2>2, FieldsAre DEF Same
    <2>4. Same(n, me) /\ n.at = "reading"
        BY <1>1, FieldsAre DEF Same
    <2> HIDE DEF k, n
    <2> QED
        BY <2>1, <2>3, <2>4
<1>3. CASE Read(p)
    <2> DEFINE sha == content[me.next]
               listed == Listed(me, sha)
               index == Put(me.index, me.key, sha)
               k == [listed EXCEPT !.index = index, !.dirty = TRUE]
               n == Listed(me, None)
    <2>1. me.at = "reading" /\ (Set(p, k) \/ Set(p, n))
        BY <1>3 DEF Read
    <2>2. Same(listed, me) /\ listed.at = "listing" /\ Same(n, me) /\ n.at = "listing"
        BY ListedSame
    <2> HIDE DEF listed, index, n
    <2>3. Same(k, me) /\ k.at = "listing"
        BY <2>2, FieldsAre DEF Same
    <2> HIDE DEF k
    <2> QED
        BY <2>1, <2>2, <2>3
<1>4. CASE KeepIndex(p)
    <2> DEFINE listed == [i \in DOMAIN Items |-> IF me.listed[i] = None THEN None ELSE 0]
               k == [me EXCEPT !.at = "copying", !.next = 1, !.index = <<>>, !.dirty = FALSE,
                               !.listed = listed]
    <2>1. me.at = "listing" /\ ((me.program.apply /\ Set(p, k)) \/ End(p))
        BY <1>1, <1>4, FieldsAre DEF KeepIndex, AllListed
    <2> HIDE DEF listed
    <2>2. Same(k, me) /\ k.at = "copying"
        BY <1>1, FieldsAre DEF Same
    <2> HIDE DEF k
    <2> QED
        BY <2>1, <2>2
<1>5. CASE Transfer(p)
    <2>1. ASSUME NEW lines, NEW i,
                 Set(p, [me EXCEPT !.at = "recording", !.lines = lines, !.next = i + 1, !.count = @ + 1])
          PROVE  \E k : Set(p, k) /\ Same(k, me) /\ k.at = "recording"
        <3> DEFINE next == i + 1
                   count == me.count + 1
                   k == [me EXCEPT !.at = "recording", !.lines = lines, !.next = next, !.count = count]
        <3>1. Set(p, k)
            BY <1>1, <2>1, FieldsAre
        <3> HIDE DEF next, count
        <3>2. Same(k, me) /\ k.at = "recording"
            BY <1>1, FieldsAre DEF Same
        <3> HIDE DEF k
        <3> QED
            BY <3>1, <3>2
    <2>2. /\ me.at = "copying"
          /\ \/ End(p)
             \/ \E lines \in ReadLines(record), i \in Planned(p) :
                    Set(p, [me EXCEPT !.at = "recording", !.lines = lines, !.next = i + 1, !.count = @ + 1])
        BY <1>5 DEF Transfer
    <2> QED
        BY <2>1, <2>2
<1>6. CASE WriteRecord(p)
    <2> DEFINE k == [me EXCEPT !.at = "copying", !.lines = <<>>]
    <2>1. me.at = "recording" /\ Set(p, k)
        BY <1>6 DEF WriteRecord
    <2>2. Same(k, me) /\ k.at = "copying"
        BY <1>1, FieldsAre DEF Same
    <2> HIDE DEF k
    <2> QED
        BY <2>1, <2>2
<1> QED
    BY <1>2, <1>3, <1>4, <1>5, <1>6

LEMMA CommandEquips ==
    ASSUME Shaped, LockInv, NEW p \in Procs,
           List(p) \/ Read(p) \/ KeepIndex(p) \/ Transfer(p) \/ WriteRecord(p)
    PROVE  LockInv'
<1>1. UNCHANGED <<file, there>>
    BY DEF List, Read, KeepIndex, Transfer, WriteRecord
<1>2. Equipped(proc[p])
    BY DEF LockInv
<1>3. \A q \in Procs : Equipped(proc'[q])
    <2>1. ASSUME NEW k, Set(p, k), Same(k, proc[p]), Equipped(k)
          PROVE  \A q \in Procs : Equipped(proc'[q])
        BY <2>1, SetEquips DEF Same
    <2> QED
        BY <1>2, <2>1, CommandSame, SameEquips, EndEquips
<1> QED
    BY <1>1, <1>3 DEF LockInv

LEMMA WorldLeaves ==
    ASSUME LockInv, World
    PROVE  LockInv'
BY DEF World, Plug, Unplug, Change, LockInv

LEMMA LockInvHolds == Spec => []LockInv
<1>1. Init => LockInv
    <2> SUFFICES ASSUME Init PROVE LockInv
        OBVIOUS
    <2>1. \A p \in Procs : proc[p].at = "off"
        BY DEF Init, Off
    <2>2. file \in Places(Keys)
        BY ValuesAssumption DEF Init, Places, Place
    <2> QED
        BY <2>1, <2>2, OffIsEquipped DEF LockInv
<1>2. Shaped /\ SessionInv /\ LockInv /\ [Next]_vars => LockInv'
    <2> SUFFICES ASSUME Shaped, SessionInv, LockInv, [Next]_vars PROVE LockInv'
        OBVIOUS
    <2>1. CASE UNCHANGED vars
        BY <2>1 DEF vars, LockInv
    <2>2. ASSUME NEW p \in Procs, Step(p)
          PROVE  LockInv'
        BY <2>2, InterfaceEquips, CommandEquips DEF Step
    <2> QED
        BY <2>1, <2>2, WorldLeaves, NextIs
<1> QED
    BY <1>1, <1>2, SessionInductive, PTL DEF Spec

(* A process that is locked never works with a place its lock refuses,     *)
(* whatever is saved, plugged in or taken away while it runs (cli.rs,      *)
(* run_tui; lock.rs, uncovered).  Links may lead anywhere, onto a *)
(* device too; only a place behind a link that led to nothing when the     *)
(* process opened is not spoken of, since the code lets it through.        *)
THEOREM NothingIsRefused == Spec => []NothingOutsideTheLock
<1>1. LockInv => NothingOutsideTheLock
    <2> SUFFICES ASSUME LockInv
                 PROVE  NothingOutsideTheLock
        OBVIOUS
    <2>1. ASSUME NEW p \in Procs
          PROVE  /\ Equipped(proc[p])
                 /\ \A path : Writable(p, path) <=> Holding(proc[p], path)
                 /\ \A path : LedAway(p, path) <=> ~Led(proc[p], path)
        BY DEF LockInv, Writable, Holding, LedAway, Led
    <2>2. ASSUME NEW p \in Procs, proc[p].at = "running", NEW g \in Wanted(p) \ proc[p].asked
          PROVE  /\ g.does = "write" => LedAway(p, g.at) \/ Writable(p, g.at)
                 /\ g.does \in {"connect", "resolve"} => (proc[p].locked => g \in proc[p].held)
        BY <2>1, <2>2 DEF Equipped, Wanted
    <2>3. ASSUME NEW p \in Procs, AllListed(p)
          PROVE  Writable(p, Own["cache"])
        BY <2>1, <2>3 DEF Equipped, AllListed
    <2>4. ASSUME NEW p \in Procs
          PROVE  /\ proc[p].at = "saving" => Writable(p, Own["settings"])
                 /\ proc[p].at = "recording" => Writable(p, Own["history"])
                 /\ proc[p].at = "adding" /\ proc[p].program.command = "import" =>
                        /\ Writable(p, Own["activation"])
                        /\ \A request \in proc[p].program.words :
                            LedAway(p, Front(request)) \/ Writable(p, Front(request))
                 /\ proc[p].at = "adding" =>
                        \/ LedAway(p, OutputOf(proc[p].program, proc[p].saved))
                        \/ Writable(p, OutputOf(proc[p].program, proc[p].saved))
        BY <2>1 DEF Equipped
    <2> QED
        BY <2>2, <2>3, <2>4 DEF NothingOutsideTheLock
<1> QED
    BY <1>1, LockInvHolds, PTL
=============================================================================
