------------------------------ MODULE KoboSync ------------------------------
(***************************************************************************)
(* crossload kobo sync: apps/crossload/src/sync.rs.                        *)
(*                                                                         *)
(* A run reads the whole destination once, and then goes through the       *)
(* Kobo's books in the order of their titles.  For each it decides from    *)
(* that inventory, and from what it planned itself, what is to be done; an *)
(* apply run does it, a dry run only looks on.  A book that fails is       *)
(* reported and the run goes on.  Running it again is the whole recovery.  *)
(***************************************************************************)
EXTENDS Delivery

SyncCommands == {c \in Commands : c.name = "sync"}

(* The books of a run: whole ones, and not those the user left out. *)
Chosen(books, command) == books \ (Previews \union command.exclude)

(* A dry run that nothing came between foretells the apply run after it. *)
Foretold(last, command, p) ==
    IF /\ last.at = "idle" /\ last.command \in SyncCommands
       /\ ~last.command.apply /\ excused[p] = {}
       /\ command = [last.command EXCEPT !.apply = TRUE]
    THEN last.rows ELSE NoRows

StartSync(p, command) ==
    /\ command.repair => kind = "Reader"
    /\ command.exclude \subseteq Books(kobo)
    /\ Begin(p, [Idle EXCEPT !.command = command, !.at = "scan",
                             !.todo = Chosen(Books(kobo), command),
                             !.foretold = Foretold(job[p], command, p)])

(* What a listing of the destination tells: the folders, and which files   *)
(* there are.  Only the formats that a reader lists are read after that.   *)
Files(t) == [listed |-> [place \in Places |-> IF t[place] \in Shown THEN None ELSE t[place]],
             unread |-> {place \in Places : t[place] \in Shown}]

(* The destination is listed.  When that fails, the run ends. *)
ListFiles(p) ==
    /\ job[p].at = "scan"
    /\ \/ job' = [job EXCEPT ![p].at = "read files", ![p].seen = Files(tree).listed,
                             ![p].unread = Files(tree).unread]
       \/ job' = [job EXCEPT ![p] = Idle]
    /\ UNCHANGED <<kind, disk, excused, bounds>>

(* Inventory::scan: the files are read one by one.  One that is not there  *)
(* any more, or has another size, ends the run.                            *)
ReadFile(p) ==
    /\ job[p].at = "read files"
    /\ LET j == job[p] IN
       \/ \E place \in j.unread :
            \/ /\ tree[place] \in Contents
               /\ job' = [job EXCEPT ![p].seen[place] = tree[place], ![p].unread = @ \ {place}]
            \/ job' = [job EXCEPT ![p] = Idle]
       \/ /\ j.unread = {}
          /\ job' = [job EXCEPT ![p] = Proceed(j)]
    /\ UNCHANGED <<kind, disk, excused, bounds>>

(* Inventory::matching: only formats that a reader lists were read. *)
Matching(j) == {place \in Places : j.seen[place] \in Shown /\ IsCopy(j.seen[place], j.data)}

(* The books planned or transferred in this run that are this one. *)
Twins(j) == {x \in j.planned : SameBook(x.data, j.data)}

(* The name is free, or has a partial file that may be set aside. *)
Repairable(j) ==
    LET file == j.seen[Target(j)] IN
    /\ kind = "Reader" /\ j.command.repair
    /\ tree[Target(j)] = file
    /\ <<file, DeviceCopy[j.data]>> \in Begins

(* Mutant: a match in the inventory is believed.                           *)
MutantDecide(j) ==
    CASE j.data = None -> {"Failed"}
      [] j.data # None /\ Matching(j) # {} -> {"Present"}
      [] j.data # None /\ Matching(j) = {} /\ Twins(j) # {} -> {"Duplicate"}
      [] OTHER ->
            IF \/ j.seen[FolderOf[Target(j)]] \in Contents
               \/ \E x \in j.planned : x.path = Target(j)
               \/ j.seen[Target(j)] # None /\ ~Repairable(j)
            THEN {"Failed"} ELSE {"Go"}

(* What is to be done about a book.  What matches in the inventory is read *)
(* again by an apply run, which is the only one that says it is there.     *)
Decide(j) ==
    CASE j.data = None -> {"Failed"}
      [] j.data # None /\ Matching(j) # {} ->
            {IF j.command.apply /\ ~IsCopy(tree[place], j.data) THEN "Failed" ELSE "Present" :
                place \in Matching(j)}
      [] j.data # None /\ Matching(j) = {} /\ Twins(j) # {} -> {"Duplicate"}
      [] OTHER ->
            IF \/ j.seen[FolderOf[Target(j)]] \in Contents
               \/ \E x \in j.planned : x.path = Target(j)
               \/ j.seen[Target(j)] # None /\ ~Repairable(j)
            THEN {"Failed"} ELSE {"Go"}

(* The next book is read from the Kobo, prepared and decided on. *)
Plan(p) ==
    /\ job[p].at = "plan"
    /\ LET j == [job[p] EXCEPT !.data = Import(kobo, job[p].origin), !.repair = FALSE] IN
       \E status \in Decide(j) :
          job' = [job EXCEPT ![p] =
                    IF status = "Go"
                    THEN [j EXCEPT !.at = IF j.command.apply THEN "import" ELSE "dry",
                                   !.repair = j.seen[Target(j)] # None]
                    ELSE Proceed(Reported(j, status))]
    /\ UNCHANGED <<kind, disk, excused, bounds>>

Planned(j) == [j EXCEPT !.planned = @ \union {[data |-> j.data, path |-> Target(j)]}]

(* Mutant: a dry run does not remember what it planned.                    *)
MutantDryRun(p) ==
    /\ job[p].at = "dry"
    /\ IF local[job[p].origin] \in {None, job[p].data}
       THEN job' = [job EXCEPT ![p] =
                    Proceed(Reported(@, IF @.repair THEN "Repair" ELSE "Transfer"))]
       ELSE Fail(p)
    /\ UNCHANGED <<kind, disk, excused, bounds>>

(* A dry run looks whether the import folder has another file of the name. *)
DryRun(p) ==
    /\ job[p].at = "dry"
    /\ IF local[job[p].origin] \in {None, job[p].data}
       THEN job' = [job EXCEPT ![p] =
                    Proceed(Reported(Planned(@), IF @.repair THEN "Repair" ELSE "Transfer"))]
       ELSE Fail(p)
    /\ UNCHANGED <<kind, disk, excused, bounds>>

(* kobo::publish with reuse: an identical file already is the import. *)
LookLocal(p) ==
    /\ job[p].at = "import"
    /\ LET j == job[p]
           file == local[j.origin] IN
       \/ file = None /\ Goto(p, "keep")
       \/ file = j.data /\ Goto(p, "verify")
       \/ file \notin {None, j.data} /\ Fail(p)
    /\ UNCHANGED <<kind, disk, excused, bounds>>

(* It is not there yet, and gets its name, unless that was taken since. *)
Keep(p) ==
    /\ job[p].at = "keep"
    /\ \/ SaveAs(p, [job[p] EXCEPT !.at = "verify"])
       \/ SaveTaken(p, Failed(job[p]))

(* The local import is read back before the book is transferred. *)
Verify(p) ==
    /\ job[p].at = "verify"
    /\ IF local[job[p].origin] = job[p].data THEN Goto(p, "folder") ELSE Fail(p)
    /\ UNCHANGED <<kind, disk, excused, bounds>>

SyncStep(p) ==
    ListFiles(p) \/ ReadFile(p) \/ Plan(p) \/ DryRun(p) \/ LookLocal(p) \/ Keep(p) \/ Verify(p)
=============================================================================
