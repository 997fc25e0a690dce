--------------------------- MODULE Commands_proofs ---------------------------
(***************************************************************************)
(* Proofs about the commands that bring books in and pass them on, for any *)
(* processes, commands, books, and any number of runs and mishaps.         *)
(***************************************************************************)
EXTENDS Commands, WellFoundedInduction, TLAPS

USE DEF Steps

-----------------------------------------------------------------------------
(* The first of some books, by title, is one of them, and comes before all *)
(* the others.                                                             *)
LEMMA FirstIsOne ==
    ASSUME NEW ids \in SUBSET Ids, ids # {}
    PROVE  /\ First(ids) \in ids
           /\ \A other \in ids \ {First(ids)} : ByTitle[First(ids)] < ByTitle[other]
<1>1. ByTitle \in [Ids -> Nat] /\ \A a, b \in Ids : ByTitle[a] = ByTitle[b] => a = b
    BY KoboAssumption
<1> DEFINE places == {ByTitle[id] : id \in ids}
<1>2. places \in SUBSET Nat /\ places # {}
    BY <1>1
<1>3. PICK least \in places : \A n \in places : <<n, least>> \notin OpToRel(<, Nat)
    BY <1>2, NatLessThanWellFounded, WFMin
<1>4. \A n \in places : least <= n
    <2> SUFFICES ASSUME NEW n \in places, n < least
                 PROVE  FALSE
        BY <1>2
    <2>1. <<n, least>> \in {pair \in Nat \X Nat : pair[1] < pair[2]}
        BY <1>2
    <2>2. OpToRel(<, Nat) = {pair \in Nat \X Nat : pair[1] < pair[2]}
        BY Zenon DEF OpToRel
    <2> QED
        BY <1>3, <2>1, <2>2, Zenon
<1>5. \E id \in ids : \A other \in ids : ByTitle[id] <= ByTitle[other]
    BY <1>3, <1>4
<1>6. First(ids) \in ids /\ \A other \in ids : ByTitle[First(ids)] <= ByTitle[other]
    BY <1>5 DEF First
<1>7. ASSUME NEW other \in ids \ {First(ids)}
      PROVE  ByTitle[First(ids)] < ByTitle[other]
    <2> DEFINE first == First(ids)
    <2>1. first \in Ids /\ other \in Ids /\ first # other /\ ByTitle[first] <= ByTitle[other]
        BY <1>6, <1>7
    <2> HIDE DEF first
    <2>2. ByTitle[first] # ByTitle[other] /\ ByTitle[first] \in Nat /\ ByTitle[other] \in Nat
        BY <1>1, <2>1
    <2>3. ByTitle[first] < ByTitle[other]
        BY <2>1, <2>2
    <2> QED
        BY <2>3 DEF first
<1> QED
    BY <1>6, <1>7

-----------------------------------------------------------------------------
(* Types of what the steps are made of. *)

LEMMA PreparedTypes ==
    ASSUME NEW j \in Jobs, j.data \in Contents
    PROVE  /\ Target(j) \in Paths
           /\ FolderOf[Target(j)] \in Folders
           /\ Prepared(j.data).data = DeviceCopy[j.data]
           /\ Prepared(j.data).data \in Contents
           /\ Target(j) \in Places /\ FolderOf[Target(j)] \in Places
BY DeliveryAssumption DEF Prepared, Target, Places

(* A job that goes on with its next book keeps all but that. *)
LEMMA ProceedTypes ==
    ASSUME NEW j \in Jobs
    PROVE  /\ Proceed(j) \in Jobs /\ Fits(Proceed(j))
           /\ Proceed(j).at \in {"idle", "plan"}
           /\ Proceed(j).command = j.command /\ Proceed(j).data = j.data
           /\ Proceed(j).rows = j.rows /\ Proceed(j).foretold = j.foretold
           /\ Proceed(j).planned = j.planned /\ Proceed(j).seen = j.seen
           /\ Proceed(j).repair = j.repair
<1>1. CASE j.todo = {}
    <2> DEFINE k == [j EXCEPT !.at = "idle"]
    <2>1. /\ k \in Jobs /\ k.at = "idle"
          /\ k.command = j.command /\ k.data = j.data /\ k.rows = j.rows
          /\ k.foretold = j.foretold /\ k.planned = j.planned /\ k.seen = j.seen
          /\ k.repair = j.repair
        BY DEF Jobs
    <2>2. Proceed(j) = k
        BY <1>1 DEF Proceed
    <2> HIDE DEF k
    <2> QED
        BY <2>1, <2>2 DEF Fits
<1>2. CASE j.todo # {}
    <2> DEFINE first == First(j.todo)
    <2>1. first \in j.todo /\ j.todo \in SUBSET Ids
        BY <1>2, FirstIsOne DEF Jobs
    <2>2. first \in Origins
        BY <2>1, DeliveryAssumption
    <2> DEFINE k == [j EXCEPT !.at = "plan", !.origin = first, !.todo = @ \ {first}]
    <2>3. Proceed(j) = k
        BY <1>2 DEF Proceed
    <2> HIDE DEF first
    <2>4. /\ k \in Jobs /\ k.at = "plan" /\ k.origin = first
          /\ k.command = j.command /\ k.data = j.data /\ k.rows = j.rows
          /\ k.foretold = j.foretold /\ k.planned = j.planned /\ k.seen = j.seen
          /\ k.repair = j.repair
        BY <2>1, <2>2 DEF Jobs
    <2> HIDE DEF k
    <2> QED
        BY <2>2, <2>3, <2>4 DEF Fits
<1> QED
    BY <1>1, <1>2

LEMMA ReportedTypes ==
    ASSUME NEW j \in Jobs, j.origin \in Origins, NEW status \in Statuses
    PROVE  /\ Reported(j, status) \in Jobs
           /\ Reported(j, status).rows = [j.rows EXCEPT ![j.origin] = status]
           /\ Reported(j, status).command = j.command
           /\ Reported(j, status).data = j.data
           /\ Reported(j, status).planned = j.planned
           /\ Reported(j, status).foretold = j.foretold
           /\ Reported(j, status).at = j.at /\ Reported(j, status).seen = j.seen
           /\ Reported(j, status).todo = j.todo
BY DEF Reported, Jobs

LEMMA FailedTypes ==
    ASSUME NEW j \in Jobs, j.origin \in Origins
    PROVE  /\ Failed(j) \in Jobs /\ Fits(Failed(j))
           /\ Failed(j).at \in {"idle", "plan"}
           /\ Failed(j).rows = [j.rows EXCEPT ![j.origin] = "Failed"]
           /\ Failed(j).command = j.command /\ Failed(j).data = j.data
           /\ Failed(j).planned = j.planned /\ Failed(j).foretold = j.foretold
           /\ Failed(j).seen = j.seen
<1>1. "Failed" \in Statuses
    BY DEF Statuses
<1> QED
    BY <1>1, ReportedTypes, ProceedTypes DEF Failed

(* What was planned or sent is remembered, and nothing else changes. *)
LEMMA RememberedTypes ==
    ASSUME NEW j \in Jobs, NEW data \in Contents, NEW path \in Paths,
           NEW k, k = [j EXCEPT !.planned = @ \union {[data |-> data, path |-> path]}]
    PROVE  /\ k \in Jobs /\ k.planned = j.planned \union {[data |-> data, path |-> path]}
           /\ k.at = j.at /\ k.origin = j.origin /\ k.command = j.command /\ k.data = j.data
           /\ k.rows = j.rows /\ k.repair = j.repair /\ k.foretold = j.foretold
           /\ k.seen = j.seen /\ k.todo = j.todo
<1> DEFINE kept == j.planned \union {[data |-> data, path |-> path]}
<1>1. j.planned \in SUBSET [data : Contents, path : Paths]
    BY DEF Jobs
<1>2. kept \in SUBSET [data : Contents, path : Paths]
    BY <1>1
<1>3. k = [j EXCEPT !.planned = kept]
    OBVIOUS
<1> HIDE DEF kept
<1>4. /\ k \in Jobs /\ k.planned = kept
      /\ k.at = j.at /\ k.origin = j.origin /\ k.command = j.command /\ k.data = j.data
      /\ k.rows = j.rows /\ k.repair = j.repair /\ k.foretold = j.foretold
      /\ k.seen = j.seen /\ k.todo = j.todo
    BY <1>2, <1>3 DEF Jobs
<1> QED
    BY <1>4 DEF kept

LEMMA PlannedTypes ==
    ASSUME NEW j \in Jobs, j.data \in Contents
    PROVE  /\ Planned(j) \in Jobs
           /\ Planned(j).origin = j.origin /\ Planned(j).data = j.data
           /\ Planned(j).rows = j.rows /\ Planned(j).command = j.command
           /\ Planned(j).foretold = j.foretold /\ Planned(j).seen = j.seen
           /\ Planned(j).todo = j.todo
           /\ Planned(j).planned = j.planned \union {[data |-> j.data, path |-> Target(j)]}
<1>1. Target(j) \in Paths
    BY PreparedTypes
<1> QED
    BY <1>1, RememberedTypes DEF Planned

LEMMA DeliveredTypes ==
    ASSUME NEW j \in Jobs, j.origin \in Origins, j.data \in Contents
    PROVE  /\ Delivered(j) \in Jobs /\ Fits(Delivered(j))
           /\ Delivered(j).at \in {"idle", "plan"}
           /\ Delivered(j).command = j.command /\ Delivered(j).data = j.data
           /\ Delivered(j).foretold = j.foretold /\ Delivered(j).seen = j.seen
           /\ \E status \in {"Sent", "Repaired"} : Delivered(j).rows = [j.rows EXCEPT ![j.origin] = status]
           /\ Delivered(j).planned = j.planned \union {[data |-> j.data, path |-> Target(j)]}
<1> DEFINE status == IF j.repair THEN "Repaired" ELSE "Sent"
           told == Reported(j, status)
           done == [told EXCEPT !.planned = @ \union {[data |-> j.data, path |-> Target(j)]}]
<1>1. status \in {"Sent", "Repaired"} /\ status \in Statuses
    BY DEF Statuses
<1>2. Delivered(j) = Proceed(done)
    BY DEF Delivered
<1> HIDE DEF status
<1>3. /\ told \in Jobs /\ told.rows = [j.rows EXCEPT ![j.origin] = status]
      /\ told.command = j.command /\ told.data = j.data /\ told.planned = j.planned
      /\ told.foretold = j.foretold /\ told.seen = j.seen
    BY <1>1, ReportedTypes
<1>4. Target(j) \in Paths
    BY PreparedTypes
<1> HIDE DEF told
<1>5. /\ done \in Jobs /\ done.rows = told.rows /\ done.command = told.command
      /\ done.data = told.data /\ done.foretold = told.foretold /\ done.seen = told.seen
      /\ done.planned = j.planned \union {[data |-> j.data, path |-> Target(j)]}
    BY <1>3, <1>4, RememberedTypes
<1> HIDE DEF done
<1> QED
    BY <1>1, <1>2, <1>3, <1>5, ProceedTypes

LEMMA PassOnTypes ==
    ASSUME NEW j \in Jobs, j.origin \in Origins
    PROVE  /\ PassOn(j) \in Jobs /\ Fits(PassOn(j))
           /\ PassOn(j).at \in {"idle", "plan", "read"}
<1>1. CASE j.command.pass
    <2>1. /\ PassOn(j) \in Jobs /\ PassOn(j).at = "read"
          /\ PassOn(j).origin = j.origin
        BY <1>1 DEF PassOn, Jobs
    <2> QED
        BY <2>1 DEF Fits
<1>2. CASE ~j.command.pass
    <2>1. "Saved" \in Statuses
        BY DEF Statuses
    <2> QED
        BY <1>2, <2>1, ReportedTypes, ProceedTypes DEF PassOn
<1> QED
    BY <1>1, <1>2

LEMMA IdleTypes == Idle \in Jobs /\ Fits(Idle)
<1>1. Idle.at = "idle"
    BY DEF Idle
<1>2. NoRows \in [Origins -> Statuses \union {None}]
    BY DEF NoRows
<1>3. [place \in Places |-> None] \in [Places -> Entries]
    BY DEF Entries
<1> HIDE DEF NoRows, Places, Entries
<1>4. Idle \in Jobs
    BY <1>2, <1>3 DEF Idle, Jobs
<1> QED
    BY <1>1, <1>4 DEF Fits

-----------------------------------------------------------------------------
(* Type correctness.  A step gives one process another job that fits, and  *)
(* keeps the types of all that is around the jobs.                         *)

Around ==
    /\ kind \in {"Reader", "Card"}
    /\ kobo \in Mounts
    /\ tree \in Trees
    /\ local \in [Origins -> Contents \union {None}]
    /\ spent \subseteq Requests
    /\ excused \in [Procs -> SUBSET Origins]
    /\ runs \in 0..MaxRuns
    /\ faults \in Nat /\ owner \in Nat /\ faults + owner <= MaxMishaps
    /\ published \subseteq Origins
    /\ aside \subseteq [name : [path : Paths, data : Contents, part : Contents], file : Contents]

Moves(p, j) == j \in Jobs /\ Fits(j) /\ job' = [job EXCEPT ![p] = j]

LEMMA Parts == TypeOK <=> Around /\ job \in [Procs -> Jobs] /\ \A p \in Procs : Fits(job[p])
BY DEF TypeOK, Around

LEMMA MovesKeeps ==
    ASSUME TypeOK, NEW p \in Procs, NEW j, Moves(p, j), Around'
    PROVE  TypeOK' /\ job'[p] = j /\ \A q \in Procs \ {p} : job'[q] = job[q]
<1>1. job \in [Procs -> Jobs] /\ \A q \in Procs : Fits(job[q])
    BY DEF TypeOK
<1>2. job' \in [Procs -> Jobs] /\ job'[p] = j /\ \A q \in Procs \ {p} : job'[q] = job[q]
    BY <1>1 DEF Moves
<1>3. \A q \in Procs : Fits(job'[q])
    BY <1>1, <1>2 DEF Moves
<1>4. TypeOK'
    BY <1>2, <1>3, Zenon DEF TypeOK, Around
<1> QED
    BY <1>2, <1>4

(* The disk and the rest stay as they are in many steps. *)
LEMMA AroundStays ==
    ASSUME Around, UNCHANGED <<kind, disk, excused, bounds>>
    PROVE  Around'
BY DEF Around, disk, bounds

(* The job of a process has what it needs where it is at. *)
LEMMA JobTypes ==
    ASSUME TypeOK, NEW p \in Procs
    PROVE  /\ job \in [Procs -> Jobs] /\ job[p] \in Jobs /\ Fits(job[p]) /\ Around
           /\ job[p].at \notin {"idle", "scan", "read files"} => job[p].origin \in Origins
           /\ job[p].at \in {"import", "keep", "save", "verify", "folder", "mkdir", "look", "backup", "create", "dry"}
                => job[p].data \in Contents
           /\ job[p].at \in {"fulfil", "archive"} => job[p].origin \in Requests
           /\ job[p].at = "backup" => job[p].seen[Target(job[p])] \in Contents
BY DEF TypeOK, Fits, Around

(* Going on to the next thing. *)
LEMMA GotoTypes ==
    ASSUME TypeOK, NEW p \in Procs, NEW at \in Steps, Goto(p, at), job[p].origin \in Origins,
           at \in {"keep", "verify", "folder", "mkdir", "look", "create"} => job[p].data \in Contents,
           at \notin {"fulfil", "archive", "import", "save", "dry", "backup"}
    PROVE  \E j \in Jobs : Moves(p, j)
<1> DEFINE j == job[p]
           k == [j EXCEPT !.at = at]
<1>1. j \in Jobs /\ job \in [Procs -> Jobs]
    BY JobTypes
<1>2. k \in Jobs /\ k.at = at /\ k.origin = j.origin /\ k.data = j.data
    BY <1>1 DEF Jobs
<1>3. job' = [job EXCEPT ![p] = k]
    BY DEF Goto
<1> HIDE DEF k
<1>4. Fits(k)
    BY <1>2 DEF Fits
<1> QED
    BY <1>2, <1>3, <1>4 DEF Moves

LEMMA FailMoves ==
    ASSUME TypeOK, NEW p \in Procs, Fail(p), job[p].origin \in Origins
    PROVE  \E j \in Jobs : Moves(p, j)
BY JobTypes, FailedTypes DEF Fail, Moves

(* A well-typed step of a process. *)
Moved(p) == Around' /\ \E j \in Jobs : Moves(p, j)

LEMMA MovedKeeps ==
    ASSUME TypeOK, NEW p \in Procs, Moved(p)
    PROVE  TypeOK' /\ \A q \in Procs \ {p} : job'[q] = job[q]
BY MovesKeeps DEF Moved

LEMMA DisturbTypes ==
    ASSUME NEW p, excused \in [Procs -> SUBSET Origins], Disturb(p)
    PROVE  excused' \in [Procs -> SUBSET Origins]
BY DEF Disturb

LEMMA TreeTypes ==
    ASSUME tree \in Trees
    PROVE  /\ tree \in [Places -> Entries]
           /\ \A path \in Paths : tree[path] # None => tree[FolderOf[path]] = Directory
           /\ \A folder \in Folders :
                tree[folder] = None => [tree EXCEPT ![folder] = Directory] \in Trees
           /\ \A path \in Paths : [tree EXCEPT ![path] = None] \in Trees
           /\ \A path \in Paths, c \in Contents :
                tree[FolderOf[path]] = Directory => [tree EXCEPT ![path] = c] \in Trees
<1>1. /\ tree \in [Places -> Entries]
      /\ \A path \in Paths : tree[path] # None => tree[FolderOf[path]] = Directory
    BY DEF Trees
<1>2. /\ FolderOf \in [Paths -> Folders] /\ Paths \intersect Folders = {}
      /\ Paths \subseteq Places /\ Folders \subseteq Places
      /\ Directory \in Entries /\ None \in Entries /\ Contents \subseteq Entries
    BY DeliveryAssumption DEF Places, Entries
<1>3. ASSUME NEW folder \in Folders, tree[folder] = None
      PROVE  [tree EXCEPT ![folder] = Directory] \in Trees
    BY <1>1, <1>2, <1>3 DEF Trees
<1>4. ASSUME NEW path \in Paths
      PROVE  [tree EXCEPT ![path] = None] \in Trees
    BY <1>1, <1>2 DEF Trees
<1>5. ASSUME NEW path \in Paths, NEW c \in Contents, tree[FolderOf[path]] = Directory
      PROVE  [tree EXCEPT ![path] = c] \in Trees
    BY <1>1, <1>2, <1>5 DEF Trees
<1> QED
    BY <1>1, <1>3, <1>4, <1>5

LEMMA FindFolderTypes ==
    ASSUME TypeOK, NEW p \in Procs, FindFolder(p)
    PROVE  Moved(p)
<1>1. job[p].origin \in Origins /\ job[p].data \in Contents
    BY JobTypes DEF FindFolder
<1>2. Around'
    BY JobTypes, AroundStays DEF FindFolder
<1>3. Goto(p, "look") \/ Goto(p, "mkdir") \/ Fail(p)
    BY DEF FindFolder
<1> QED
    BY <1>1, <1>2, <1>3, GotoTypes, FailMoves DEF Moved

LEMMA MakeFolderTypes ==
    ASSUME TypeOK, NEW p \in Procs, MakeFolder(p)
    PROVE  Moved(p)
<1> DEFINE folder == FolderOf[Target(job[p])]
<1>1. job[p].origin \in Origins /\ job[p].data \in Contents /\ folder \in Folders
    BY JobTypes, PreparedTypes DEF MakeFolder
<1>2. Around'
    <2>1. tree' \in Trees
        BY <1>1, JobTypes, TreeTypes DEF MakeFolder, Around
    <2>2. excused' \in [Procs -> SUBSET Origins]
        BY JobTypes, DisturbTypes DEF MakeFolder, Around
    <2> QED
        BY <2>1, <2>2, JobTypes DEF MakeFolder, Around, bounds
<1>3. Goto(p, "look") \/ Fail(p)
    BY DEF MakeFolder
<1> QED
    BY <1>1, <1>2, <1>3, GotoTypes, FailMoves DEF Moved

LEMMA LookTypes ==
    ASSUME TypeOK, NEW p \in Procs, Look(p)
    PROVE  Moved(p)
<1> DEFINE j == job[p]
           file == tree[Target(j)]
<1>1. j \in Jobs /\ j.origin \in Origins /\ j.data \in Contents /\ Target(j) \in Places
    BY JobTypes, PreparedTypes DEF Look
<1>2. Around'
    BY JobTypes, AroundStays DEF Look
<1>3. \/ Goto(p, "create") \/ Fail(p)
      \/ job' = [job EXCEPT ![p] = Delivered(j)]
      \/ /\ file \in Contents
         /\ job' = [job EXCEPT ![p] = [j EXCEPT !.at = "backup", !.seen[Target(j)] = file]]
    BY DeliveryAssumption DEF Look
<1>4. CASE Goto(p, "create") \/ Fail(p)
    BY <1>1, <1>2, <1>4, GotoTypes, FailMoves DEF Moved
<1>5. CASE job' = [job EXCEPT ![p] = Delivered(j)]
    BY <1>1, <1>2, <1>5, DeliveredTypes DEF Moved, Moves
<1>6. CASE /\ file \in Contents
           /\ job' = [job EXCEPT ![p] = [j EXCEPT !.at = "backup", !.seen[Target(j)] = file]]
    <2> DEFINE k == [j EXCEPT !.at = "backup", !.seen[Target(j)] = file]
    <2>1. file \in Entries
        BY <1>1, JobTypes, TreeTypes DEF Around
    <2> HIDE DEF file
    <2>2. /\ k \in Jobs /\ k.origin = j.origin /\ k.data = j.data /\ k.at = "backup"
          /\ k.seen[Target(j)] = file
        BY <1>1, <2>1 DEF Jobs
    <2>3. job' = [job EXCEPT ![p] = k]
        BY <1>6 DEF file
    <2> HIDE DEF k
    <2>4. Fits(k)
        BY <1>1, <1>6, <2>2 DEF Fits, Target, file
    <2> QED
        BY <1>2, <2>2, <2>3, <2>4 DEF Moved, Moves
<1> QED
    BY <1>3, <1>4, <1>5, <1>6

LEMMA SetAsideTypes ==
    ASSUME TypeOK, NEW p \in Procs, SetAside(p)
    PROVE  Moved(p)
<1>1. job[p].origin \in Origins /\ job[p].data \in Contents /\ Target(job[p]) \in Paths
    BY JobTypes, PreparedTypes DEF SetAside
<1>2. Around'
    <2>1. tree' \in Trees
        BY <1>1, JobTypes, TreeTypes DEF SetAside, Around
    <2>2. excused' \in [Procs -> SUBSET Origins]
        BY JobTypes, DisturbTypes DEF SetAside, Around
    <2>3. aside' \subseteq [name : [path : Paths, data : Contents, part : Contents], file : Contents]
        <3>1. Backup(job[p]) \in [path : Paths, data : Contents, part : Contents]
            BY <1>1, JobTypes DEF SetAside, Backup
        <3>2. \/ aside' = aside
              \/ /\ tree[Target(job[p])] \in Contents
                 /\ aside' = aside \union {[name |-> Backup(job[p]), file |-> tree[Target(job[p])]]}
            BY DEF SetAside
        <3>3. aside \subseteq [name : [path : Paths, data : Contents, part : Contents], file : Contents]
            BY JobTypes DEF Around
        <3> HIDE DEF Backup
        <3> QED
            BY <3>1, <3>2, <3>3
    <2> QED
        BY <2>1, <2>2, <2>3, JobTypes DEF SetAside, Around, bounds
<1>3. Goto(p, "create") \/ Fail(p)
    BY DEF SetAside
<1> QED
    BY <1>1, <1>2, <1>3, GotoTypes, FailMoves DEF Moved
LEMMA CreateTypes ==
    ASSUME TypeOK, NEW p \in Procs, Create(p)
    PROVE  Moved(p)
<1> DEFINE j == job[p]
<1>1. /\ j \in Jobs /\ j.origin \in Origins /\ j.data \in Contents
      /\ Target(j) \in Paths /\ Prepared(j.data).data \in Contents
    BY JobTypes, PreparedTypes DEF Create
<1>2. Around'
    <2> DEFINE path == Target(j)
               copy == Prepared(j.data).data
    <2>1. \/ tree' = tree
          \/ tree[FolderOf[path]] = Directory /\ tree' = [tree EXCEPT ![path] = copy]
        BY DEF Create
    <2>2. tree \in Trees /\ path \in Paths /\ copy \in Contents
        BY <1>1, JobTypes DEF Around
    <2> HIDE DEF path, copy
    <2>3. tree' \in Trees
        BY <2>1, <2>2, TreeTypes
    <2>4. excused' \in [Procs -> SUBSET Origins]
        BY JobTypes, DisturbTypes DEF Create, Around
    <2> QED
        BY <2>3, <2>4, JobTypes DEF Create, Around, bounds
<1>3. job' = [job EXCEPT ![p] = Delivered(j)] \/ Fail(p)
    BY DEF Create
<1> QED
    BY <1>1, <1>2, <1>3, DeliveredTypes, FailMoves DEF Moved, Moves

(* A mishap is one of those that are counted. *)
LEMMA MishapTypes ==
    ASSUME Around, Mishap
    PROVE  /\ faults + 1 \in Nat /\ (faults + 1) + owner <= MaxMishaps
           /\ owner + 1 \in Nat /\ faults + (owner + 1) <= MaxMishaps
BY DeliveryAssumption DEF Around, Mishap

LEMMA AnswerLostTypes ==
    ASSUME TypeOK, NEW p \in Procs, AnswerLost(p)
    PROVE  Moved(p)
<1> DEFINE j == job[p]
<1>1. /\ j \in Jobs /\ j.origin \in Origins /\ j.data \in Contents
      /\ Target(j) \in Paths /\ DeviceCopy[j.data] \in Contents
    BY JobTypes, PreparedTypes, DeliveryAssumption DEF AnswerLost
<1>2. Around'
    <2>1. tree' \in Trees
        BY <1>1, JobTypes, TreeTypes DEF AnswerLost, Around
    <2>2. excused' \in [Procs -> SUBSET Origins]
        BY DEF AnswerLost
    <2>3. faults' \in Nat /\ faults' + owner' <= MaxMishaps
        BY JobTypes, MishapTypes DEF AnswerLost
    <2> QED
        BY <2>1, <2>2, <2>3, JobTypes DEF AnswerLost, Around
<1> QED
    BY <1>1, <1>2, FailMoves DEF Moved, AnswerLost

LEMMA FaultTypes ==
    ASSUME TypeOK, NEW p \in Procs, Fault(p)
    PROVE  Moved(p)
<1>1. job[p].origin \in Origins
    BY JobTypes DEF Fault
<1>2. Around'
    <2>1. excused' \in [Procs -> SUBSET Origins]
        BY <1>1, JobTypes DEF Fault, Around
    <2>2. faults' \in Nat /\ faults' + owner' <= MaxMishaps
        BY JobTypes, MishapTypes DEF Fault
    <2> QED
        BY <2>1, <2>2, JobTypes DEF Fault, Around, disk
<1> QED
    BY <1>1, <1>2, FailMoves DEF Moved, Fault

LEMMA StopTypes ==
    ASSUME TypeOK, NEW p \in Procs, Stop(p)
    PROVE  Moved(p)
<1>1. Around'
    <2>1. faults' \in Nat /\ faults' + owner' <= MaxMishaps
        BY JobTypes, MishapTypes DEF Stop
    <2> QED
        BY <2>1, JobTypes DEF Stop, Around, disk
<1> QED
    BY <1>1, IdleTypes DEF Moved, Moves, Stop

LEMMA OwnerTypes ==
    ASSUME TypeOK, Owner
    PROVE  TypeOK' /\ job' = job
<1>1. Around
    BY Parts
<1>2. PICK move \in OwnerMoves :
        \/ /\ move[1] = "tree" /\ tree' \in Trees /\ UNCHANGED <<local, kobo>>
        \/ /\ move[1] = "local" /\ local' = [local EXCEPT ![move[2]] = move[3]] /\ UNCHANGED <<tree, kobo>>
        \/ /\ move[1] = "kobo" /\ kobo' = [kobo EXCEPT ![move[2]] = move[3]] /\ UNCHANGED <<tree, local>>
    BY DEF Owner
<1>3. /\ move[1] = "local" => move[3] \in Contents \union {None}
      /\ move[1] = "kobo" => move[3] = None
    BY DeliveryAssumption
<1>4. tree' \in Trees /\ local' \in [Origins -> Contents \union {None}] /\ kobo' \in Mounts
    <2>1. tree' \in Trees /\ local' \in [Origins -> Contents \union {None}]
        BY <1>1, <1>2, <1>3 DEF Around
    <2>2. kobo \in Mounts
        BY <1>1 DEF Around
    <2>3. ASSUME NEW id, kobo' = [kobo EXCEPT ![id] = None]
          PROVE  kobo' \in Mounts
        <3>1. Store \subseteq Ids
            BY KoboAssumption
        <3>2. kobo' \in [Ids -> Contents \union {None}]
            BY <2>2, <2>3 DEF Mounts
        <3>3. \A other \in Store : kobo'[other] # None => kobo'[other] = kobo[other]
            BY <2>2, <2>3, <3>1 DEF Mounts
        <3> QED
            BY <2>2, <3>2, <3>3 DEF Mounts
    <2> QED
        BY <1>2, <1>3, <2>1, <2>2, <2>3
<1>5. excused' \in [Procs -> SUBSET Origins]
    BY DEF Owner
<1>6. faults' \in Nat /\ owner' \in Nat /\ faults' + owner' <= MaxMishaps
    BY <1>1, MishapTypes DEF Owner, Around
<1>7. Around' /\ job' = job
    BY <1>1, <1>4, <1>5, <1>6 DEF Around, Owner
<1> QED
    BY <1>7, Zenon DEF TypeOK, Around
LEMMA ListFilesTypes ==
    ASSUME TypeOK, NEW p \in Procs, ListFiles(p)
    PROVE  Moved(p)
<1> DEFINE j == job[p]
           files == Files(tree)
           k == [j EXCEPT !.at = "read files", !.seen = files.listed, !.unread = files.unread]
<1>1. j \in Jobs /\ job \in [Procs -> Jobs] /\ tree \in [Places -> Entries]
    BY JobTypes, TreeTypes DEF Around
<1>2. files.listed \in [Places -> Entries] /\ files.unread \in SUBSET Places
    BY <1>1 DEF Files, Entries
<1> HIDE DEF files
<1>3. k \in Jobs /\ k.at = "read files"
    BY <1>1, <1>2 DEF Jobs
<1>4. Around'
    BY JobTypes, AroundStays DEF ListFiles
<1>5. CASE job' = [job EXCEPT ![p].at = "read files", ![p].seen = Files(tree).listed,
                              ![p].unread = Files(tree).unread]
    <2>1. job' = [job EXCEPT ![p] = k]
        BY <1>1, <1>5 DEF files
    <2> HIDE DEF k
    <2>2. Fits(k)
        BY <1>3 DEF Fits
    <2> QED
        BY <1>3, <1>4, <2>1, <2>2 DEF Moved, Moves
<1>6. CASE job' = [job EXCEPT ![p] = Idle]
    BY <1>4, <1>6, IdleTypes DEF Moved, Moves
<1> QED
    BY <1>5, <1>6 DEF ListFiles

LEMMA ReadFileTypes ==
    ASSUME TypeOK, NEW p \in Procs, ReadFile(p)
    PROVE  Moved(p)
<1> DEFINE j == job[p]
<1>1. j \in Jobs /\ job \in [Procs -> Jobs] /\ tree \in [Places -> Entries] /\ j.at = "read files"
    BY JobTypes, TreeTypes DEF Around, ReadFile
<1>2. Around'
    BY JobTypes, AroundStays DEF ReadFile
<1>3. ASSUME NEW place \in j.unread,
             job' = [job EXCEPT ![p].seen[place] = tree[place], ![p].unread = @ \ {place}]
      PROVE  Moved(p)
    <2> DEFINE file == tree[place]
               k == [j EXCEPT !.seen[place] = file, !.unread = @ \ {place}]
    <2>1. place \in Places
        BY <1>1 DEF Jobs
    <2>2. file \in Entries
        BY <1>1, <2>1
    <2>3. job' = [job EXCEPT ![p] = k]
        BY <1>1, <1>3
    <2> HIDE DEF file
    <2>4. k \in Jobs /\ k.at = "read files"
        BY <1>1, <2>1, <2>2 DEF Jobs
    <2> HIDE DEF k
    <2>5. Fits(k)
        BY <2>4 DEF Fits
    <2> QED
        BY <1>2, <2>3, <2>4, <2>5 DEF Moved, Moves
<1>4. CASE job' = [job EXCEPT ![p] = Idle]
    BY <1>2, <1>4, IdleTypes DEF Moved, Moves
<1>5. CASE job' = [job EXCEPT ![p] = Proceed(j)]
    BY <1>1, <1>2, <1>5, ProceedTypes DEF Moved, Moves
<1> QED
    BY <1>3, <1>4, <1>5 DEF ReadFile

(* What importing gives is a book that passes validation. *)
LEMMA ImportTypes ==
    ASSUME NEW id
    PROVE  /\ Import(kobo, id) \in Readable \union {None}
           /\ Import(kobo, id) \in Contents \union {None}
<1>1. Readable \subseteq Contents
    BY KoboAssumption
<1> DEFINE made == IF Volume(kobo, id) = None THEN kobo[id] ELSE Decrypt(Volume(kobo, id), kobo[id])
<1>2. Import(kobo, id) = IF id \notin Previews /\ kobo[id] # None /\ made \in Readable THEN made ELSE None
    BY DEF Import
<1> HIDE DEF made
<1> QED
    BY <1>1, <1>2

(* What a run makes of a book it decided on. *)
Considered(p) == [job[p] EXCEPT !.data = Import(kobo, job[p].origin), !.repair = FALSE]
Going(j) == [j EXCEPT !.at = IF j.command.apply THEN "import" ELSE "dry",
                        !.repair = j.seen[Target(j)] # None]

LEMMA ConsideredTypes ==
    ASSUME TypeOK, NEW p \in Procs, job[p].at = "plan"
    PROVE  /\ Considered(p) \in Jobs
           /\ Considered(p).data = Import(kobo, job[p].origin)
           /\ Considered(p).at = "plan" /\ Considered(p).origin = job[p].origin
           /\ Considered(p).origin \in Origins
           /\ Considered(p).command = job[p].command /\ Considered(p).seen = job[p].seen
           /\ Considered(p).rows = job[p].rows /\ Considered(p).foretold = job[p].foretold
           /\ Considered(p).planned = job[p].planned /\ Considered(p).todo = job[p].todo
<1> DEFINE data == Import(kobo, job[p].origin)
<1>1. data \in Contents \union {None}
    BY ImportTypes
<1>2. job[p] \in Jobs /\ job[p].origin \in Origins
    BY JobTypes
<1> HIDE DEF data
<1>3. Considered(p) = [job[p] EXCEPT !.data = data, !.repair = FALSE]
    BY DEF Considered, data
<1>4. /\ Considered(p) \in Jobs
      /\ Considered(p).data = data
      /\ Considered(p).at = "plan" /\ Considered(p).origin = job[p].origin
      /\ Considered(p).command = job[p].command /\ Considered(p).seen = job[p].seen
      /\ Considered(p).rows = job[p].rows /\ Considered(p).foretold = job[p].foretold
      /\ Considered(p).planned = job[p].planned /\ Considered(p).todo = job[p].todo
    BY <1>1, <1>2, <1>3 DEF Jobs
<1> QED
    BY <1>2, <1>4 DEF data

(* What is decided, and what that needs. *)
LEMMA DecideTypes ==
    ASSUME NEW j \in Jobs, NEW status \in Decide(j)
    PROVE  /\ status \in {"Failed", "Present", "Duplicate", "Go"}
           /\ status \in {"Present", "Duplicate", "Go"} => j.data \in Contents
<1>1. j.data \in Contents \union {None}
    BY DEF Jobs
<1> QED
    BY <1>1 DEF Decide

LEMMA PlanStep ==
    ASSUME TypeOK, NEW p \in Procs, Plan(p)
    PROVE  \E status \in Decide(Considered(p)) :
                job' = [job EXCEPT ![p] =
                    IF status = "Go" THEN Going(Considered(p))
                    ELSE Proceed(Reported(Considered(p), status))]
BY DEF Plan, Considered, Going

LEMMA PlanTypes ==
    ASSUME TypeOK, NEW p \in Procs, Plan(p)
    PROVE  Moved(p)
<1> DEFINE j == Considered(p)
<1>1. j \in Jobs /\ j.origin \in Origins
    BY ConsideredTypes DEF Plan
<1>2. Around'
    BY JobTypes, AroundStays DEF Plan
<1>3. PICK status \in Decide(j) :
        job' = [job EXCEPT ![p] = IF status = "Go" THEN Going(j) ELSE Proceed(Reported(j, status))]
    BY PlanStep
<1> HIDE DEF j
<1>4. CASE status = "Go"
    <2> DEFINE at == IF j.command.apply THEN "import" ELSE "dry"
               repair == j.seen[Target(j)] # None
               k == [j EXCEPT !.at = at, !.repair = repair]
    <2>1. j.data \in Contents
        BY <1>1, <1>4, DecideTypes
    <2>2. at \in {"import", "dry"} /\ repair \in BOOLEAN
        OBVIOUS
    <2>3. Going(j) = k
        BY DEF Going
    <2> HIDE DEF at, repair
    <2>4. k \in Jobs /\ k.at = at /\ k.origin = j.origin /\ k.data = j.data
        BY <1>1, <2>2 DEF Jobs
    <2> HIDE DEF k
    <2>5. Fits(k)
        BY <1>1, <2>1, <2>2, <2>4 DEF Fits
    <2>6. job' = [job EXCEPT ![p] = k]
        BY <1>3, <1>4, <2>3
    <2> QED
        BY <1>2, <2>4, <2>5, <2>6 DEF Moved, Moves
<1>5. CASE status # "Go"
    <2>1. status \in Statuses
        BY <1>1, <1>3, <1>5, DecideTypes DEF Statuses
    <2>2. Proceed(Reported(j, status)) \in Jobs /\ Fits(Proceed(Reported(j, status)))
        BY <1>1, <2>1, ReportedTypes, ProceedTypes
    <2> QED
        BY <1>2, <1>3, <1>5, <2>2 DEF Moved, Moves
<1> QED
    BY <1>4, <1>5
LEMMA DryRunTypes ==
    ASSUME TypeOK, NEW p \in Procs, DryRun(p)
    PROVE  Moved(p)
<1> DEFINE j == job[p]
           status == IF j.repair THEN "Repair" ELSE "Transfer"
<1>1. j \in Jobs /\ job \in [Procs -> Jobs] /\ j.origin \in Origins /\ j.data \in Contents
    BY JobTypes DEF DryRun
<1>2. Around'
    BY JobTypes, AroundStays DEF DryRun
<1>3. CASE Fail(p)
    BY <1>1, <1>2, <1>3, FailMoves DEF Moved
<1>4. CASE job' = [job EXCEPT ![p] =
                    Proceed(Reported(Planned(@), IF @.repair THEN "Repair" ELSE "Transfer"))]
    <2>1. status \in Statuses
        BY DEF Statuses
    <2>2. job' = [job EXCEPT ![p] = Proceed(Reported(Planned(j), status))]
        BY <1>1, <1>4
    <2> HIDE DEF status
    <2>3. Planned(j) \in Jobs /\ Planned(j).origin \in Origins
        BY <1>1, PlannedTypes
    <2>4. Reported(Planned(j), status) \in Jobs
        BY <2>1, <2>3, ReportedTypes
    <2>5. Proceed(Reported(Planned(j), status)) \in Jobs /\ Fits(Proceed(Reported(Planned(j), status)))
        BY <2>4, ProceedTypes
    <2> QED
        BY <1>2, <2>2, <2>5 DEF Moved, Moves
<1> QED
    BY <1>3, <1>4 DEF DryRun

LEMMA LookLocalTypes ==
    ASSUME TypeOK, NEW p \in Procs, LookLocal(p)
    PROVE  Moved(p)
<1>1. job[p].origin \in Origins /\ job[p].data \in Contents
    BY JobTypes DEF LookLocal
<1>2. Around'
    BY JobTypes, AroundStays DEF LookLocal
<1>3. Goto(p, "keep") \/ Goto(p, "verify") \/ Fail(p)
    BY DEF LookLocal
<1> QED
    BY <1>1, <1>2, <1>3, GotoTypes, FailMoves DEF Moved

LEMMA VerifyTypes ==
    ASSUME TypeOK, NEW p \in Procs, Verify(p)
    PROVE  Moved(p)
<1>1. job[p].origin \in Origins /\ job[p].data \in Contents
    BY JobTypes DEF Verify
<1>2. Around'
    BY JobTypes, AroundStays DEF Verify
<1>3. Goto(p, "folder") \/ Fail(p)
    BY DEF Verify
<1> QED
    BY <1>1, <1>2, <1>3, GotoTypes, FailMoves DEF Moved

(* Saving a book, whatever the command does after it. *)
LEMMA SaveTypes ==
    ASSUME TypeOK, NEW p \in Procs, job[p].origin \in Origins, job[p].data \in Contents,
           NEW next \in Jobs, Fits(next), SaveAs(p, next) \/ SaveTaken(p, next)
    PROVE  Moved(p)
<1>1. job' = [job EXCEPT ![p] = next]
    BY DEF SaveAs, SaveTaken
<1>2. CASE SaveAs(p, next)
    <2>1. local' \in [Origins -> Contents \union {None}] /\ published' \subseteq Origins
        BY <1>2, JobTypes DEF SaveAs, Around
    <2>2. excused' \in [Procs -> SUBSET Origins]
        BY <1>2, JobTypes, DisturbTypes DEF SaveAs, Around
    <2>3. Around'
        BY <1>2, <2>1, <2>2, JobTypes DEF SaveAs, Around, bounds
    <2> QED
        BY <1>1, <2>3 DEF Moved, Moves
<1>3. CASE SaveTaken(p, next)
    <2>1. Around'
        BY <1>3, JobTypes, AroundStays DEF SaveTaken
    <2> QED
        BY <1>1, <2>1 DEF Moved, Moves
<1> QED
    BY <1>2, <1>3

(* A job that is somewhere else, with nothing else of it changed. *)
LEMMA AtTypes ==
    ASSUME NEW j \in Jobs, NEW at \in {"verify", "archive", "read"}, j.origin \in Origins,
           at = "verify" => j.data \in Contents, at = "archive" => j.origin \in Requests
    PROVE  [j EXCEPT !.at = at] \in Jobs /\ Fits([j EXCEPT !.at = at])
<1> DEFINE k == [j EXCEPT !.at = at]
<1>1. k \in Jobs /\ k.at = at /\ k.origin = j.origin /\ k.data = j.data
    BY DEF Jobs
<1> HIDE DEF k
<1>2. k \in Jobs /\ Fits(k)
    BY <1>1 DEF Fits
<1> QED
    BY <1>2 DEF k

LEMMA KeepTypes ==
    ASSUME TypeOK, NEW p \in Procs, Keep(p)
    PROVE  Moved(p)
<1>1. job[p] \in Jobs /\ job[p].origin \in Origins /\ job[p].data \in Contents
    BY JobTypes DEF Keep
<1> DEFINE kept == [job[p] EXCEPT !.at = "verify"]
           failed == Failed(job[p])
<1>2. kept \in Jobs /\ Fits(kept)
    BY <1>1, AtTypes
<1>3. failed \in Jobs /\ Fits(failed)
    BY <1>1, FailedTypes
<1>4. SaveAs(p, kept) \/ SaveTaken(p, failed)
    BY DEF Keep
<1> HIDE DEF kept, failed
<1> QED
    BY <1>1, <1>2, <1>3, <1>4, SaveTypes

LEMMA SyncStepTypes ==
    ASSUME TypeOK, NEW p \in Procs, SyncStep(p)
    PROVE  Moved(p)
BY ListFilesTypes, ReadFileTypes, PlanTypes, DryRunTypes, LookLocalTypes, KeepTypes, VerifyTypes
   DEF SyncStep

LEMMA SaveImportTypes ==
    ASSUME TypeOK, NEW p \in Procs, SaveImport(p) \/ SaveDownload(p) \/ SaveFulfilled(p)
    PROVE  Moved(p)
<1>1. /\ job[p] \in Jobs /\ job[p].origin \in Origins /\ job[p].data \in Contents
    BY JobTypes DEF SaveImport, SaveDownload, SaveFulfilled
<1> DEFINE passed == PassOn(job[p])
           failed == Failed(job[p])
           archived == [job[p] EXCEPT !.at = "archive"]
<1>2. passed \in Jobs /\ Fits(passed)
    BY <1>1, PassOnTypes
<1>3. failed \in Jobs /\ Fits(failed)
    BY <1>1, FailedTypes
<1>4. job[p].origin \in Requests => archived \in Jobs /\ Fits(archived)
    BY <1>1, AtTypes
<1>5. \/ SaveAs(p, passed) \/ SaveTaken(p, failed) \/ SaveTaken(p, passed)
      \/ job[p].origin \in Requests /\ SaveAs(p, archived)
    BY DEF SaveImport, SaveDownload, SaveFulfilled
<1> HIDE DEF passed, failed, archived
<1> QED
    BY <1>1, <1>2, <1>3, <1>4, <1>5, SaveTypes

LEMMA FulfilTypes ==
    ASSUME TypeOK, NEW p \in Procs, Fulfil(p)
    PROVE  Moved(p)
<1> DEFINE j == job[p]
           book == Ordered[j.origin]
           k == [j EXCEPT !.at = "save", !.data = book]
<1>1. j \in Jobs /\ job \in [Procs -> Jobs] /\ j.origin \in Requests /\ j.origin \in Origins
    BY JobTypes DEF Fulfil
<1>2. book \in Contents
    BY <1>1, ImportsAssumption
<1>3. Fail(p) \/ job' = [job EXCEPT ![p] = k]
    BY <1>1 DEF Fulfil
<1> HIDE DEF book
<1>4. k \in Jobs /\ k.at = "save" /\ k.origin = j.origin /\ k.data = book
    BY <1>1, <1>2 DEF Jobs
<1> HIDE DEF k
<1>5. Fits(k)
    BY <1>1, <1>2, <1>4 DEF Fits
<1>6. Around'
    BY JobTypes, AroundStays DEF Fulfil
<1>7. CASE Fail(p)
    BY <1>1, <1>6, <1>7, FailMoves DEF Moved
<1> QED
    BY <1>3, <1>4, <1>5, <1>6, <1>7 DEF Moved, Moves

LEMMA ArchiveTypes ==
    ASSUME TypeOK, NEW p \in Procs, Archive(p)
    PROVE  Moved(p)
<1>1. job[p] \in Jobs /\ job \in [Procs -> Jobs] /\ job[p].origin \in Requests /\ job[p].origin \in Origins
    BY JobTypes DEF Archive
<1>2. Around'
    BY <1>1, JobTypes DEF Archive, Around, bounds
<1>3. job' = [job EXCEPT ![p] = PassOn(job[p])]
    BY <1>1 DEF Archive
<1> QED
    BY <1>1, <1>2, <1>3, PassOnTypes DEF Moved, Moves

LEMMA ReadBackTypes ==
    ASSUME TypeOK, NEW p \in Procs, ReadBack(p)
    PROVE  Moved(p)
<1> DEFINE j == job[p]
           file == local[j.origin]
           k == [j EXCEPT !.at = "folder", !.data = file]
<1>1. j \in Jobs /\ job \in [Procs -> Jobs] /\ j.origin \in Origins
    BY JobTypes DEF ReadBack
<1>2. Around'
    BY JobTypes, AroundStays DEF ReadBack
<1>3. CASE file \in Readable /\ job' = [job EXCEPT ![p].at = "folder", ![p].data = file]
    <2>1. file \in Contents
        BY <1>3, KoboAssumption
    <2>2. job' = [job EXCEPT ![p] = k]
        BY <1>1, <1>3
    <2> HIDE DEF file
    <2>3. k \in Jobs /\ k.at = "folder" /\ k.origin = j.origin /\ k.data = file
        BY <1>1, <2>1 DEF Jobs
    <2> HIDE DEF k
    <2>4. Fits(k)
        BY <1>1, <2>1, <2>3 DEF Fits
    <2> QED
        BY <1>2, <2>2, <2>3, <2>4 DEF Moved, Moves
<1>4. CASE Fail(p)
    BY <1>1, <1>2, <1>4, FailMoves DEF Moved
<1> QED
    BY <1>3, <1>4 DEF ReadBack

LEMMA ImportStepTypes ==
    ASSUME TypeOK, NEW p \in Procs, ImportStep(p)
    PROVE  Moved(p)
BY SaveImportTypes, FulfilTypes, ArchiveTypes, ReadBackTypes DEF ImportStep

LEMMA DeliverTypes ==
    ASSUME TypeOK, NEW p \in Procs, Deliver(p)
    PROVE  Moved(p)
BY FindFolderTypes, MakeFolderTypes, LookTypes, SetAsideTypes, CreateTypes, AnswerLostTypes
   DEF Deliver

(* A process begins with a job that fits. *)
LEMMA BeginTypes ==
    ASSUME TypeOK, NEW p \in Procs, NEW j \in Jobs, Fits(j), Begin(p, j)
    PROVE  Moved(p)
<1>1. excused' \in [Procs -> SUBSET Origins]
    BY JobTypes DEF Begin, Around
<1>2. runs' \in 0..MaxRuns
    <2>1. runs \in 0..MaxRuns
        BY JobTypes DEF Around
    <2>2. MaxRuns \in Nat
        BY DeliveryAssumption
    <2>3. runs < MaxRuns /\ runs' = runs + 1
        BY DEF Begin
    <2> QED
        BY <2>1, <2>2, <2>3
<1>3. Around'
    BY <1>1, <1>2, JobTypes DEF Begin, Around, disk
<1> QED
    BY <1>3 DEF Moved, Moves, Begin

LEMMA StartTypes ==
    ASSUME TypeOK, NEW p \in Procs, NEW command \in Commands, NEW at \in Steps,
           NEW data \in Contents \union {None}, Start(p, command, at, data),
           command.origin \in Origins,
           at = "save" => data \in Contents, at = "fulfil" => command.origin \in Requests,
           at \in {"save", "fulfil", "read"}
    PROVE  Moved(p)
<1> DEFINE origin == command.origin
           j == [Idle EXCEPT !.command = command, !.at = at, !.origin = origin, !.data = data]
<1>1. Idle \in Jobs
    BY IdleTypes
<1>2. Begin(p, j)
    BY DEF Start
<1> HIDE DEF origin
<1>3. j \in Jobs /\ j.at = at /\ j.origin = origin /\ j.data = data
    BY <1>1 DEF Jobs, origin
<1> HIDE DEF j
<1>4. Fits(j)
    BY <1>3 DEF Fits, origin
<1> QED
    BY <1>2, <1>3, <1>4, BeginTypes

LEMMA StartSyncTypes ==
    ASSUME TypeOK, NEW p \in Procs, NEW command \in SyncCommands, StartSync(p, command)
    PROVE  Moved(p)
<1> DEFINE todo == Chosen(Books(kobo), command)
           said == Foretold(job[p], command, p)
           j == [Idle EXCEPT !.command = command, !.at = "scan", !.todo = todo, !.foretold = said]
<1>1. todo \in SUBSET Ids
    BY KoboAssumption DEF Chosen, Books, FromStore, Sideloaded
<1>2. said \in [Origins -> Statuses \union {None}]
    <2>1. job[p].rows \in [Origins -> Statuses \union {None}]
        BY JobTypes DEF Jobs
    <2>2. NoRows \in [Origins -> Statuses \union {None}]
        BY DEF NoRows
    <2> QED
        BY <2>1, <2>2 DEF Foretold
<1>3. Begin(p, j)
    BY DEF StartSync
<1>4. command \in Commands /\ Idle \in Jobs
    BY IdleTypes DEF SyncCommands
<1> HIDE DEF todo, said
<1>5. j \in Jobs /\ j.at = "scan"
    BY <1>1, <1>2, <1>4 DEF Jobs
<1> HIDE DEF j
<1>6. Fits(j)
    BY <1>5 DEF Fits
<1> QED
    BY <1>3, <1>5, <1>6, BeginTypes

LEMMA CommandTypes ==
    ASSUME TypeOK, NEW p \in Procs, Command(p)
    PROVE  Moved(p)
<1>1. PICK command \in Commands :
        \/ command \in SyncCommands /\ StartSync(p, command)
        \/ StartImport(p, command) \/ StartGet(p, command)
        \/ StartRequest(p, command) \/ StartSend(p, command)
    BY DEF Command
<1>2. CASE command \in SyncCommands /\ StartSync(p, command)
    BY <1>2, StartSyncTypes
<1>3. CASE StartImport(p, command)
    <2>1. /\ Import(kobo, command.origin) \in Contents /\ command.origin \in Origins
          /\ Start(p, command, "save", Import(kobo, command.origin))
        BY <1>3, ImportTypes, DeliveryAssumption DEF StartImport
    <2> QED
        BY <2>1, StartTypes
<1>4. CASE StartGet(p, command)
    <2>1. /\ Download(command.origin) \in Contents /\ command.origin \in Origins
          /\ Start(p, command, "save", Download(command.origin))
        BY <1>4, KoboAssumption, ImportsAssumption DEF StartGet
    <2> QED
        BY <2>1, StartTypes
<1>5. CASE StartRequest(p, command)
    <2>1. command.origin \in Requests /\ command.origin \in Origins /\ Start(p, command, "fulfil", None)
        BY <1>5, ImportsAssumption DEF StartRequest, Pending
    <2> QED
        BY <2>1, StartTypes
<1>6. CASE StartSend(p, command)
    <2>1. command.origin \in Origins /\ Start(p, command, "read", None)
        BY <1>6, DeliveryAssumption DEF StartSend
    <2> QED
        BY <2>1, StartTypes
<1> QED
    BY <1>1, <1>2, <1>3, <1>4, <1>5, <1>6

LEMMA StepTypes ==
    ASSUME TypeOK, NEW p \in Procs,
           Command(p) \/ SyncStep(p) \/ ImportStep(p) \/ Deliver(p) \/ Fault(p) \/ Stop(p)
    PROVE  Moved(p)
BY CommandTypes, SyncStepTypes, ImportStepTypes, DeliverTypes, FaultTypes, StopTypes

LEMMA NextTypes ==
    ASSUME TypeOK, [Next]_vars
    PROVE  TypeOK'
<1>1. ASSUME NEW p \in Procs,
             Command(p) \/ SyncStep(p) \/ ImportStep(p) \/ Deliver(p) \/ Fault(p) \/ Stop(p)
      PROVE  TypeOK'
    BY <1>1, StepTypes, MovedKeeps
<1>2. CASE Owner
    BY <1>2, OwnerTypes
<1>3. CASE UNCHANGED vars
    <2>1. Around' /\ job' = job
        BY <1>3, Parts, AroundStays DEF vars
    <2> QED
        BY <2>1, Zenon DEF TypeOK, Around
<1> QED
    BY <1>1, <1>2, <1>3 DEF Next

LEMMA InitTypes == Init => TypeOK
<1> SUFFICES ASSUME Init
             PROVE  TypeOK
    OBVIOUS
<1>1. Around
    BY DeliveryAssumption DEF Init, Around
<1>2. job \in [Procs -> Jobs] /\ \A p \in Procs : Fits(job[p])
    BY IdleTypes DEF Init
<1> QED
    BY <1>1, <1>2, Parts

(* Every process is in the middle of something its command does, with the  *)
(* book that needs, and the destination stays a tree: no file lies in a    *)
(* folder that is not there, whoever comes between.                        *)
THEOREM TypeCorrect == Spec => []TypeOK
<1>1. Init => TypeOK
    BY InitTypes
<1>2. TypeOK /\ [Next]_vars => TypeOK'
    BY NextTypes
<1> QED
    BY <1>1, <1>2, PTL DEF Spec

-----------------------------------------------------------------------------
(* What the reader or card shows. *)

(* Only four steps of a process change the destination. *)
LEMMA StepsLookOn ==
    ASSUME NEW p \in Procs,
           Command(p) \/ SyncStep(p) \/ ImportStep(p) \/ Deliver(p) \/ Fault(p) \/ Stop(p)
    PROVE  UNCHANGED <<tree, aside, owner>>
           \/ MakeFolder(p) \/ SetAside(p) \/ Create(p) \/ AnswerLost(p)
<1>1. CASE Command(p)
    BY <1>1 DEF Command, StartSync, StartImport, StartGet, StartRequest, StartSend, Start, Begin, disk
<1>2. CASE SyncStep(p)
    BY <1>2 DEF SyncStep, ListFiles, ReadFile, Plan, DryRun, LookLocal, Keep, Verify,
                SaveAs, SaveTaken, disk, bounds
<1>3. CASE ImportStep(p)
    BY <1>3 DEF ImportStep, SaveImport, SaveDownload, SaveFulfilled, Fulfil, Archive, ReadBack,
                SaveAs, SaveTaken, disk, bounds
<1>4. CASE Deliver(p)
    BY <1>4 DEF Deliver, FindFolder, Look, disk, bounds
<1>5. CASE Fault(p) \/ Stop(p)
    BY <1>5 DEF Fault, Stop, disk
<1> QED
    BY <1>1, <1>2, <1>3, <1>4, <1>5

shelf == [path \in Paths |-> tree[path]]
Aside == {x.file : x \in aside}

LEMMA ShelfInit == Init => Shelf!Init
<1> SUFFICES ASSUME Init
             PROVE  Shelf!Init
    OBVIOUS
<1>1. tree \in [Places -> Entries] /\ aside = {} /\ owner = 0
    BY InitTypes, TreeTypes DEF Init, TypeOK
<1>2. shelf \in [Paths -> Entries]
    BY <1>1 DEF shelf, Places
<1>3. Aside = {}
    BY <1>1 DEF Aside
<1> QED
    BY <1>1, <1>2, <1>3 DEF Shelf!Init, Shelf!Entries, Entries, shelf, Aside

LEMMA ShelfNext ==
    ASSUME TypeOK, [Next]_vars
    PROVE  [Shelf!Next]_(Shelf!vars)
<1>1. /\ tree \in [Places -> Entries] /\ Paths \subseteq Places
      /\ Paths \intersect Folders = {}
    BY Parts, TreeTypes, DeliveryAssumption DEF Around, Places
<1>2. CASE UNCHANGED <<tree, aside, owner>>
    <2>1. UNCHANGED <<shelf, Aside, owner>>
        BY <1>2 DEF shelf, Aside
    <2> QED
        BY <2>1 DEF Shelf!vars, shelf, Aside
<1>3. ASSUME NEW p \in Procs, MakeFolder(p)
      PROVE  UNCHANGED Shelf!vars
    <2> DEFINE folder == FolderOf[Target(job[p])]
    <2>1. folder \in Folders
        BY <1>3, JobTypes, PreparedTypes DEF MakeFolder
    <2>2. tree' = tree \/ tree' = [tree EXCEPT ![folder] = Directory]
        BY <1>3 DEF MakeFolder
    <2>3. UNCHANGED <<aside, owner>>
        BY <1>3 DEF MakeFolder, bounds
    <2> HIDE DEF folder
    <2>4. UNCHANGED shelf
        BY <1>1, <2>1, <2>2 DEF shelf
    <2> QED
        BY <2>3, <2>4 DEF Shelf!vars, shelf
<1>4. ASSUME NEW p \in Procs, SetAside(p)
      PROVE  [Shelf!Next]_(Shelf!vars)
    <2>1. PICK path \in Paths : path = Target(job[p])
        BY <1>4, JobTypes, PreparedTypes DEF SetAside
    <2>2. CASE UNCHANGED <<tree, aside>>
        <3>1. UNCHANGED <<shelf, Aside, owner>>
            BY <1>4, <2>2 DEF shelf, Aside, SetAside, bounds
        <3> QED
            BY <3>1 DEF Shelf!vars, shelf, Aside
    <2>3. CASE /\ tree[path] \in Contents /\ tree' = [tree EXCEPT ![path] = None]
               /\ aside' = aside \union {[name |-> Backup(job[p]), file |-> tree[path]]}
        <3>1. shelf[path] = tree[path] /\ shelf[path] \in Contents
            BY <2>1, <2>3 DEF shelf
        <3>2. shelf' = [shelf EXCEPT ![path] = None]
            BY <1>1, <2>1, <2>3 DEF shelf
        <3>3. Aside' = Aside \union {shelf[path]}
            <4> DEFINE moved == [name |-> Backup(job[p]), file |-> tree[path]]
            <4>1. moved.file = shelf[path] /\ aside' = aside \union {moved}
                BY <2>3, <3>1
            <4> HIDE DEF moved
            <4> QED
                BY <4>1 DEF Aside
        <3>4. UNCHANGED owner
            BY <1>4 DEF SetAside, bounds
        <3>5. Shelf!MoveAside(path)
            BY <3>1, <3>2, <3>3, <3>4 DEF Shelf!MoveAside, shelf, Aside
        <3>6. Shelf!Next
            BY <2>1, <3>5, Zenon DEF Shelf!Next
        <3> QED
            BY <3>6
    <2> QED
        BY <1>4, <2>1, <2>2, <2>3 DEF SetAside
<1>5. ASSUME NEW p \in Procs, Create(p) \/ AnswerLost(p)
      PROVE  [Shelf!Next]_(Shelf!vars)
    <2> DEFINE copy == DeviceCopy[job[p].data]
    <2>1. PICK path \in Paths : path = Target(job[p]) /\ job[p].data \in Contents
        BY <1>5, JobTypes, PreparedTypes DEF Create, AnswerLost
    <2>2. UNCHANGED <<aside, owner>>
        BY <1>5 DEF Create, AnswerLost, bounds
    <2>3. CASE UNCHANGED tree
        BY <1>2, <2>2, <2>3
    <2>4. CASE tree[path] = None /\ tree' = [tree EXCEPT ![path] = copy]
        <3>1. copy \in {DeviceCopy[c] : c \in Contents}
            BY <2>1
        <3> HIDE DEF copy
        <3>2. shelf[path] = None /\ shelf' = [shelf EXCEPT ![path] = copy]
            BY <1>1, <2>1, <2>4 DEF shelf
        <3>3. UNCHANGED Aside
            BY <2>2 DEF Aside
        <3>4. Shelf!Publish(path)
            BY <2>2, <3>1, <3>2, <3>3 DEF Shelf!Publish, shelf, Aside
        <3>5. Shelf!Next
            BY <2>1, <3>4, Zenon DEF Shelf!Next
        <3> QED
            BY <3>5
    <2> QED
        BY <1>5, <2>1, <2>3, <2>4 DEF Create, AnswerLost, Prepared
<1>6. CASE Owner
    <2>1. tree' \in [Places -> Entries]
        BY <1>6, OwnerTypes, TreeTypes DEF TypeOK, Trees
    <2>2. shelf' \in [Paths -> Entries]
        BY <1>1, <2>1 DEF shelf
    <2>3. UNCHANGED Aside /\ owner' = owner + 1
        BY <1>6 DEF Owner, Aside
    <2> QED
        BY <2>2, <2>3 DEF Shelf!Next, Shelf!Owner, Shelf!Entries, Entries, shelf, Aside
<1>7. UNCHANGED vars => UNCHANGED <<tree, aside, owner>>
    BY DEF vars, disk, bounds
<1> QED
    BY <1>2, <1>3, <1>4, <1>5, <1>6, <1>7, StepsLookOn DEF Next

(* Whatever several processes do at once, and wherever they are killed or  *)
(* an answer is lost: what the reader or card shows changes only by whole  *)
(* device copies that appear at free places, and by files that are moved   *)
(* aside with their contents.                                              *)
THEOREM CommandsImplementShelf == Spec => ImplementsShelf
<1>1. Init => Shelf!Init
    BY ShelfInit
<1>2. TypeOK /\ [Next]_vars => [Shelf!Next]_(Shelf!vars)
    BY ShelfNext
<1> QED
    BY <1>1, <1>2, TypeCorrect, PTL DEF Spec, ImplementsShelf, Shelf!Spec

-----------------------------------------------------------------------------
(* What a step reports about the book it is about. *)

Silent(p) == job'[p].rows \in {job[p].rows, NoRows}
Reports(p, status) ==
    /\ job'[p].rows = [job[p].rows EXCEPT ![job[p].origin] = status]
    /\ job'[p].data = job[p].data
Decided(p, status) ==
    /\ status \in Decide(Considered(p)) \ {"Go"}
    /\ job'[p].rows = [job[p].rows EXCEPT ![job[p].origin] = status]
    /\ job'[p].data = Considered(p).data

LEMMA GotoSilent ==
    ASSUME TypeOK, NEW p \in Procs, NEW at, Goto(p, at)
    PROVE  Silent(p)
<1>1. job \in [Procs -> Jobs] /\ job[p] \in Jobs
    BY JobTypes
<1> QED
    BY <1>1 DEF Goto, Silent, Jobs

LEMMA FailReports ==
    ASSUME TypeOK, NEW p \in Procs, job[p].origin \in Origins,
           job' = [job EXCEPT ![p] = Failed(job[p])]
    PROVE  Reports(p, "Failed")
<1>1. job \in [Procs -> Jobs] /\ job[p] \in Jobs
    BY JobTypes
<1>2. job'[p] = Failed(job[p])
    BY <1>1
<1> QED
    BY <1>1, <1>2, FailedTypes DEF Reports

LEMMA FailIs ==
    ASSUME TypeOK, NEW p \in Procs, Fail(p)
    PROVE  job' = [job EXCEPT ![p] = Failed(job[p])]
BY JobTypes DEF Fail

LEMMA DeliveredReports ==
    ASSUME TypeOK, NEW p \in Procs, job[p].origin \in Origins, job[p].data \in Contents,
           job' = [job EXCEPT ![p] = Delivered(job[p])]
    PROVE  \E status \in {"Sent", "Repaired"} : Reports(p, status)
<1>1. job \in [Procs -> Jobs] /\ job[p] \in Jobs
    BY JobTypes
<1>2. job'[p] = Delivered(job[p])
    BY <1>1
<1> QED
    BY <1>1, <1>2, DeliveredTypes DEF Reports

LEMMA PassOnReports ==
    ASSUME TypeOK, NEW p \in Procs, job[p].origin \in Origins,
           job' = [job EXCEPT ![p] = PassOn(job[p])]
    PROVE  Silent(p) \/ Reports(p, "Saved")
<1>1. job \in [Procs -> Jobs] /\ job[p] \in Jobs
    BY JobTypes
<1>2. job'[p] = PassOn(job[p])
    BY <1>1
<1>3. CASE job[p].command.pass
    BY <1>1, <1>2, <1>3 DEF PassOn, Silent, Jobs
<1>4. CASE ~job[p].command.pass
    <2>1. "Saved" \in Statuses
        BY DEF Statuses
    <2> QED
        BY <1>1, <1>2, <1>4, <2>1, ReportedTypes, ProceedTypes DEF PassOn, Reports
<1> QED
    BY <1>3, <1>4

(* A copy that is found there, or gets its name, is there. *)
Brought(p) ==
    /\ job[p].data \in Contents /\ Target(job[p]) \in Places
    /\ tree'[Target(job[p])] = DeviceCopy[job[p].data]
    /\ \E status \in {"Sent", "Repaired"} : Reports(p, status)

LEMMA DeliverReports ==
    ASSUME TypeOK, NEW p \in Procs, Deliver(p)
    PROVE  Silent(p) \/ Reports(p, "Failed") \/ Brought(p)
<1>1. /\ job[p] \in Jobs /\ job \in [Procs -> Jobs]
      /\ job[p].origin \in Origins /\ job[p].data \in Contents /\ Target(job[p]) \in Places
      /\ Prepared(job[p].data).data = DeviceCopy[job[p].data]
      /\ tree \in [Places -> Entries]
    BY JobTypes, PreparedTypes, TreeTypes DEF Deliver, FindFolder, MakeFolder, Look, SetAside, Create, AnswerLost, Around
<1>2. \A at : Goto(p, at) => Silent(p)
    BY GotoSilent
<1>3. Fail(p) => Reports(p, "Failed")
    BY <1>1, FailIs, FailReports
<1>4. CASE FindFolder(p) \/ MakeFolder(p) \/ SetAside(p) \/ AnswerLost(p)
    BY <1>2, <1>3, <1>4 DEF FindFolder, MakeFolder, SetAside, AnswerLost
<1>5. CASE Look(p)
    <2> DEFINE file == tree[Target(job[p])]
    <2>1. CASE /\ file = DeviceCopy[job[p].data]
               /\ job' = [job EXCEPT ![p] = Delivered(job[p])]
        <3>1. tree' = tree
            BY <1>5 DEF Look, disk
        <3> QED
            BY <1>1, <2>1, <3>1, DeliveredReports DEF Brought
    <2>2. CASE job' = [job EXCEPT ![p] = [job[p] EXCEPT !.at = "backup", !.seen[Target(job[p])] = file]]
        <3> DEFINE seen == [job[p].seen EXCEPT ![Target(job[p])] = file]
        <3>1. job'[p] = [job[p] EXCEPT !.at = "backup", !.seen = seen]
            BY <1>1, <2>2 DEF Jobs
        <3> HIDE DEF seen
        <3> QED
            BY <1>1, <3>1 DEF Silent, Jobs
    <2> QED
        BY <1>1, <1>2, <1>3, <1>5, <2>1, <2>2 DEF Look
<1>6. CASE Create(p)
    <2>1. CASE Fail(p)
        BY <1>3, <2>1
    <2>2. CASE /\ tree' = [tree EXCEPT ![Target(job[p])] = Prepared(job[p].data).data]
               /\ job' = [job EXCEPT ![p] = Delivered(@)]
        <3>1. tree'[Target(job[p])] = DeviceCopy[job[p].data]
            BY <1>1, <2>2
        <3>2. job' = [job EXCEPT ![p] = Delivered(job[p])]
            BY <1>1, <2>2
        <3> QED
            BY <1>1, <3>1, <3>2, DeliveredReports DEF Brought
    <2> QED
        BY <1>6, <2>1, <2>2 DEF Create
<1> QED
    BY <1>4, <1>5, <1>6 DEF Deliver

LEMMA PlanReports ==
    ASSUME TypeOK, NEW p \in Procs, Plan(p)
    PROVE  Silent(p) \/ \E status : Decided(p, status)
<1> DEFINE j == Considered(p)
<1>1. /\ j \in Jobs /\ j.origin = job[p].origin /\ j.origin \in Origins
      /\ j.rows = job[p].rows /\ job \in [Procs -> Jobs]
    BY ConsideredTypes, JobTypes DEF Plan
<1>2. PICK status \in Decide(j) :
        job' = [job EXCEPT ![p] = IF status = "Go" THEN Going(j) ELSE Proceed(Reported(j, status))]
    BY PlanStep
<1> HIDE DEF j
<1>3. CASE status = "Go"
    <2> DEFINE at == IF j.command.apply THEN "import" ELSE "dry"
               repair == j.seen[Target(j)] # None
    <2>1. job'[p] = [j EXCEPT !.at = at, !.repair = repair]
        BY <1>1, <1>2, <1>3 DEF Going
    <2> HIDE DEF at, repair
    <2> QED
        BY <1>1, <2>1 DEF Silent, Jobs
<1>4. CASE status # "Go"
    <2>1. status \in Statuses
        BY <1>1, <1>2, <1>4, DecideTypes DEF Statuses
    <2>2. job'[p] = Proceed(Reported(j, status))
        BY <1>1, <1>2, <1>4
    <2>3. /\ Proceed(Reported(j, status)).rows = [j.rows EXCEPT ![j.origin] = status]
          /\ Proceed(Reported(j, status)).data = j.data
        BY <1>1, <2>1, ReportedTypes, ProceedTypes
    <2> QED
        BY <1>1, <1>2, <1>4, <2>2, <2>3 DEF Decided, j
<1> QED
    BY <1>3, <1>4

LEMMA DryRunReports ==
    ASSUME TypeOK, NEW p \in Procs, DryRun(p)
    PROVE  Reports(p, "Failed") \/ Reports(p, "Transfer") \/ Reports(p, "Repair")
<1> DEFINE j == job[p]
           status == IF j.repair THEN "Repair" ELSE "Transfer"
<1>1. j \in Jobs /\ job \in [Procs -> Jobs] /\ j.origin \in Origins /\ j.data \in Contents
    BY JobTypes DEF DryRun
<1>2. CASE Fail(p)
    BY <1>1, <1>2, FailIs, FailReports
<1>3. CASE job' = [job EXCEPT ![p] =
                    Proceed(Reported(Planned(@), IF @.repair THEN "Repair" ELSE "Transfer"))]
    <2>1. status \in Statuses /\ status \in {"Repair", "Transfer"}
        BY DEF Statuses
    <2>2. job'[p] = Proceed(Reported(Planned(j), status))
        BY <1>1, <1>3
    <2> HIDE DEF status
    <2>3. /\ Planned(j) \in Jobs /\ Planned(j).origin = j.origin /\ Planned(j).rows = j.rows
          /\ Planned(j).data = j.data
        BY <1>1, PlannedTypes
    <2>4. /\ Reported(Planned(j), status) \in Jobs
          /\ Reported(Planned(j), status).rows = [j.rows EXCEPT ![j.origin] = status]
          /\ Reported(Planned(j), status).data = j.data
        BY <1>1, <2>1, <2>3, ReportedTypes
    <2>5. Reports(p, status)
        BY <2>2, <2>4, ProceedTypes DEF Reports
    <2> QED
        BY <2>1, <2>5
<1> QED
    BY <1>2, <1>3 DEF DryRun

LEMMA ScanSilent ==
    ASSUME TypeOK, NEW p \in Procs, ListFiles(p) \/ ReadFile(p)
    PROVE  Silent(p)
<1>1. job[p] \in Jobs /\ job \in [Procs -> Jobs]
    BY JobTypes
<1>2. job' = [job EXCEPT ![p] = Idle] => Silent(p)
    BY <1>1 DEF Silent, Idle
<1>3. CASE ListFiles(p)
    <2> DEFINE files == Files(tree)
    <2>1. CASE job' = [job EXCEPT ![p].at = "read files", ![p].seen = files.listed,
                                  ![p].unread = files.unread]
        <3>1. job'[p] = [job[p] EXCEPT !.at = "read files", !.seen = files.listed,
                                       !.unread = files.unread]
            BY <1>1, <2>1
        <3> HIDE DEF files
        <3> QED
            BY <1>1, <3>1 DEF Silent, Jobs
    <2> QED
        BY <1>2, <1>3, <2>1 DEF ListFiles
<1>4. CASE ReadFile(p)
    <2>1. ASSUME NEW place \in job[p].unread,
                 job' = [job EXCEPT ![p].seen[place] = tree[place], ![p].unread = @ \ {place}]
          PROVE  Silent(p)
        BY <1>1, <2>1 DEF Silent, Jobs
    <2>2. CASE job' = [job EXCEPT ![p] = Proceed(job[p])]
        BY <1>1, <2>2, ProceedTypes DEF Silent
    <2> QED
        BY <1>2, <1>4, <2>1, <2>2 DEF ReadFile
<1> QED
    BY <1>3, <1>4

LEMMA SyncReports ==
    ASSUME TypeOK, NEW p \in Procs, SyncStep(p)
    PROVE  \/ Silent(p) \/ Reports(p, "Failed")
           \/ DryRun(p) /\ (Reports(p, "Transfer") \/ Reports(p, "Repair"))
           \/ Plan(p) /\ \E status : Decided(p, status)
<1>1. job[p] \in Jobs /\ job \in [Procs -> Jobs]
    BY JobTypes
<1>2. CASE LookLocal(p) \/ Verify(p)
    <2>1. job[p].origin \in Origins
        BY <1>2, JobTypes DEF LookLocal, Verify
    <2> QED
        BY <1>2, <2>1, GotoSilent, FailIs, FailReports DEF LookLocal, Verify
<1>3. CASE Keep(p)
    <2>1. job[p].origin \in Origins
        BY <1>3, JobTypes DEF Keep
    <2>2. CASE job' = [job EXCEPT ![p] = Failed(job[p])]
        BY <2>1, <2>2, FailReports
    <2>3. CASE job' = [job EXCEPT ![p] = [job[p] EXCEPT !.at = "verify"]]
        BY <1>1, <2>3 DEF Silent, Jobs
    <2> QED
        BY <1>3, <2>2, <2>3 DEF Keep, SaveAs, SaveTaken
<1> QED
    BY <1>2, <1>3, ScanSilent, PlanReports, DryRunReports DEF SyncStep

LEMMA ImportReports ==
    ASSUME TypeOK, NEW p \in Procs, ImportStep(p)
    PROVE  Silent(p) \/ Reports(p, "Failed") \/ Reports(p, "Saved")
<1>1. job[p] \in Jobs /\ job \in [Procs -> Jobs] /\ job[p].origin \in Origins
    BY JobTypes DEF ImportStep, SaveImport, SaveDownload, SaveFulfilled, Fulfil, Archive, ReadBack
<1>2. CASE SaveImport(p) \/ SaveDownload(p) \/ SaveFulfilled(p)
    <2>1. CASE job' = [job EXCEPT ![p] = [job[p] EXCEPT !.at = "archive"]]
        BY <1>1, <2>1 DEF Silent, Jobs
    <2> QED
        BY <1>1, <1>2, <2>1, FailReports, PassOnReports
        DEF SaveImport, SaveDownload, SaveFulfilled, SaveAs, SaveTaken
<1>3. CASE Fulfil(p)
    <2>1. CASE job' = [job EXCEPT ![p].at = "save", ![p].data = Ordered[job[p].origin]]
        BY <1>1, <2>1 DEF Silent, Jobs
    <2> QED
        BY <1>1, <1>3, <2>1, FailIs, FailReports DEF Fulfil
<1>4. CASE Archive(p)
    <2>1. job' = [job EXCEPT ![p] = PassOn(job[p])]
        BY <1>1, <1>4 DEF Archive
    <2> QED
        BY <1>1, <2>1, PassOnReports
<1>5. CASE ReadBack(p)
    <2>1. CASE job' = [job EXCEPT ![p].at = "folder", ![p].data = local[job[p].origin]]
        BY <1>1, <2>1 DEF Silent, Jobs
    <2> QED
        BY <1>1, <1>5, <2>1, FailIs, FailReports DEF ReadBack
<1> QED
    BY <1>2, <1>3, <1>4, <1>5 DEF ImportStep

LEMMA CommandReports ==
    ASSUME TypeOK, NEW p \in Procs, Command(p)
    PROVE  job'[p].rows = NoRows
<1>1. job \in [Procs -> Jobs] /\ Idle \in Jobs /\ Idle.rows = NoRows
    BY JobTypes, IdleTypes DEF Idle
<1>2. ASSUME NEW command, NEW at, NEW data, Start(p, command, at, data)
      PROVE  job'[p].rows = NoRows
    BY <1>1, <1>2 DEF Start, Begin, Jobs
<1>3. ASSUME NEW command, StartSync(p, command)
      PROVE  job'[p].rows = NoRows
    <2> DEFINE todo == Chosen(Books(kobo), command)
               said == Foretold(job[p], command, p)
    <2>1. job' = [job EXCEPT ![p] = [Idle EXCEPT !.command = command, !.at = "scan",
                                                 !.todo = todo, !.foretold = said]]
        BY <1>3 DEF StartSync, Begin
    <2> HIDE DEF todo, said
    <2> QED
        BY <1>1, <2>1 DEF Jobs
<1> QED
    BY <1>2, <1>3 DEF Command, StartImport, StartGet, StartRequest, StartSend

LEMMA StepReports ==
    ASSUME TypeOK, NEW p \in Procs,
           Command(p) \/ SyncStep(p) \/ ImportStep(p) \/ Deliver(p) \/ Fault(p) \/ Stop(p)
    PROVE  \/ Silent(p) \/ Reports(p, "Failed") \/ Reports(p, "Saved") \/ Brought(p)
           \/ DryRun(p) /\ (Reports(p, "Transfer") \/ Reports(p, "Repair"))
           \/ Plan(p) /\ \E status : Decided(p, status)
<1>1. CASE Command(p)
    BY <1>1, CommandReports DEF Silent
<1>2. CASE Fault(p)
    <2>1. job[p].origin \in Origins
        BY <1>2, JobTypes DEF Fault
    <2> QED
        BY <1>2, <2>1, FailIs, FailReports DEF Fault
<1>3. CASE Stop(p)
    <2>1. job'[p] = Idle
        BY <1>3, JobTypes DEF Stop
    <2> QED
        BY <2>1 DEF Silent, Idle
<1> QED
    BY <1>1, <1>2, <1>3, SyncReports, ImportReports, DeliverReports

(* When an apply run of sync reports that a book is on the reader, a copy  *)
(* of it is somewhere at the destination at that very moment: a match in   *)
(* the inventory is read again, and a transfer has just been made.         *)
THEOREM ReportedIsThere == Spec => PresentIsThere
<1>1. ASSUME TypeOK, [Next]_vars, NEW p \in Procs, NEW o \in Ids,
             Applies(p), job[p].rows[o] = None,
             job'[p].rows[o] \in {"Present", "Sent", "Repaired"}
      PROVE  \E place \in Places : IsCopy(tree'[place], job'[p].data)
    <2>1. /\ job[p] \in Jobs /\ o \in Origins
          /\ job[p].rows \in [Origins -> Statuses \union {None}]
        BY <1>1, JobTypes, DeliveryAssumption DEF Jobs
    <2>8. None \notin {"Failed", "Present", "Duplicate", "Sent", "Repaired", "Saved", "Transfer", "Repair"}
        BY DeliveryAssumption DEF Statuses
    <2>2. job'[p].rows # job[p].rows /\ job'[p].rows # NoRows
        BY <1>1, <2>1, <2>8 DEF NoRows
    <2>3. PICK q \in Procs :
            Command(q) \/ SyncStep(q) \/ ImportStep(q) \/ Deliver(q) \/ Fault(q) \/ Stop(q)
        <3>1. Owner \/ UNCHANGED vars => job' = job
            BY DEF Owner, vars
        <3> QED
            BY <1>1, <2>2, <3>1 DEF Next
    <2>4. q = p
        BY <1>1, <2>2, <2>3, StepTypes, MovedKeeps
    <2>5. \A status : Reports(p, status) => job'[p].rows[o] \in {status, None}
        BY <1>1, <2>1 DEF Reports
    <2>6. CASE Brought(p)
        <3>1. job'[p].data = job[p].data
            BY <2>6 DEF Brought, Reports
        <3>2. DeviceCopy[job[p].data] \in Contents
            BY <2>6, DeliveryAssumption DEF Brought
        <3> QED
            BY <2>6, <3>1, <3>2 DEF Brought, IsCopy, Matches, Identity
    <2>7. ASSUME NEW status, Plan(p), Decided(p, status)
          PROVE  \E place \in Places : IsCopy(tree'[place], job'[p].data)
        <3> DEFINE j == Considered(p)
        <3>1. j \in Jobs /\ j.command = job[p].command /\ j.command.apply
            BY <1>1, <2>7, ConsideredTypes DEF Plan, Applies
        <3>2. job'[p].rows[o] \in {status, None}
            BY <1>1, <2>1, <2>7 DEF Decided
        <3>3. status = "Present" /\ status \in Decide(j)
            <4>1. status \in {"Failed", "Present", "Duplicate"} /\ status \in Decide(j)
                BY <2>7, <3>1, DecideTypes DEF Decided
            <4> QED
                BY <1>1, <2>2, <3>2, <4>1, <2>1, <2>8
        <3>4. PICK place \in Matching(j) : IsCopy(tree[place], j.data)
            <4> HIDE DEF j
            <4> QED
                BY <3>1, <3>3 DEF Decide
        <3>5. tree' = tree /\ job'[p].data = j.data /\ place \in Places
            BY <2>7, <3>4 DEF Plan, disk, Decided, Matching
        <3> QED
            BY <3>4, <3>5
    <2> QED
        BY <1>1, <2>2, <2>3, <2>4, <2>5, <2>6, <2>7, StepReports, <2>8 DEF Silent
<1>2. TypeOK /\ [Next]_vars =>
        [\A p \in Procs, o \in Ids :
            /\ Applies(p)
            /\ job[p].rows[o] = None
            /\ job'[p].rows[o] \in {"Present", "Sent", "Repaired"}
            => \E place \in Places : IsCopy(tree'[place], job'[p].data)]_vars
    BY <1>1
<1> QED
    BY <1>2, TypeCorrect, PTL DEF Spec, PresentIsThere

-----------------------------------------------------------------------------
(* Requests that are spent. *)

(* A request that is about to be archived has its book. *)
ArchivesWhatIsSaved == \A p \in Procs : job[p].at = "archive" => job[p].origin \in published

SpentInv == TypeOK /\ SpentIsImported /\ ArchivesWhatIsSaved

(* Only a process that has just saved the book is about to archive. *)
LEMMA OnlySavedIsArchived ==
    ASSUME TypeOK, NEW p \in Procs,
           Command(p) \/ SyncStep(p) \/ ImportStep(p) \/ Deliver(p) \/ Fault(p) \/ Stop(p),
           job'[p].at = "archive"
    PROVE  SaveFulfilled(p) /\ job'[p].origin \in published'
<1> DEFINE j == job[p]
<1>1. j \in Jobs /\ job \in [Procs -> Jobs]
    BY JobTypes
<1>2. \A at : Goto(p, at) => job'[p].at = at
    BY <1>1 DEF Goto, Jobs
<1>3. j.origin \in Origins => Failed(j).at # "archive" /\ PassOn(j).at # "archive"
    BY <1>1, FailedTypes, PassOnTypes
<1>4. Idle.at # "archive" /\ Idle \in Jobs
    BY IdleTypes DEF Idle
<1>5. \A k : job' = [job EXCEPT ![p] = k] => job'[p] = k
    BY <1>1
<1>6. Fail(p) => job'[p] = Failed(j)
    BY <1>1 DEF Fail
<1>7. ~Command(p)
    <2>1. ASSUME NEW command, NEW at \in {"save", "fulfil", "read"}, NEW data, Start(p, command, at, data)
          PROVE  FALSE
        BY <1>1, <1>4, <2>1 DEF Start, Begin, Jobs
    <2>2. ASSUME NEW command, StartSync(p, command)
          PROVE  FALSE
        <3> DEFINE todo == Chosen(Books(kobo), command)
                   said == Foretold(job[p], command, p)
        <3>1. job'[p] = [Idle EXCEPT !.command = command, !.at = "scan", !.todo = todo, !.foretold = said]
            BY <1>5, <2>2 DEF StartSync, Begin
        <3> HIDE DEF todo, said
        <3> QED
            BY <1>4, <3>1 DEF Jobs
    <2> QED
        BY <2>1, <2>2 DEF Command, StartImport, StartGet, StartRequest, StartSend
<1>8. ~SyncStep(p)
    <2>1. ~ListFiles(p)
        <3> DEFINE files == Files(tree)
        <3>1. job' # [job EXCEPT ![p].at = "read files", ![p].seen = files.listed, ![p].unread = files.unread]
            <4>1. SUFFICES ASSUME job'[p] = [j EXCEPT !.at = "read files", !.seen = files.listed,
                                                      !.unread = files.unread]
                           PROVE  FALSE
                BY <1>1
            <4> HIDE DEF files
            <4> QED
                BY <1>1, <4>1 DEF Jobs
        <3> QED
            BY <1>4, <1>5, <3>1 DEF ListFiles
    <2>2. ~ReadFile(p)
        <3>1. ASSUME ReadFile(p), NEW place,
                     job' = [job EXCEPT ![p].seen[place] = tree[place], ![p].unread = @ \ {place}]
              PROVE  FALSE
            BY <1>1, <3>1 DEF ReadFile, Jobs
        <3> QED
            BY <1>1, <1>4, <1>5, <3>1, ProceedTypes DEF ReadFile
    <2>3. ~Plan(p)
        <3> SUFFICES ASSUME Plan(p)
                     PROVE  FALSE
            OBVIOUS
        <3> DEFINE k == Considered(p)
                   at == IF k.command.apply THEN "import" ELSE "dry"
                   repair == k.seen[Target(k)] # None
        <3>1. k \in Jobs /\ k.origin \in Origins
            BY ConsideredTypes DEF Plan
        <3>2. PICK status \in Decide(k) :
                job'[p] = IF status = "Go" THEN [k EXCEPT !.at = at, !.repair = repair]
                          ELSE Proceed(Reported(k, status))
            BY <1>1, PlanStep DEF Going
        <3>3. at # "archive"
            OBVIOUS
        <3> HIDE DEF k, at, repair
        <3>4. status # "Go" => Reported(k, status) \in Jobs
            BY <3>1, <3>2, DecideTypes, ReportedTypes DEF Statuses
        <3> QED
            BY <3>1, <3>2, <3>3, <3>4, ProceedTypes DEF Jobs
    <2>4. ~DryRun(p)
        <3> SUFFICES ASSUME DryRun(p)
                     PROVE  FALSE
            OBVIOUS
        <3> DEFINE status == IF j.repair THEN "Repair" ELSE "Transfer"
        <3>1. j.origin \in Origins /\ j.data \in Contents /\ status \in Statuses
            BY JobTypes DEF DryRun, Statuses
        <3>2. job'[p] = Failed(j) \/ job'[p] = Proceed(Reported(Planned(j), status))
            BY <1>1, <1>6 DEF DryRun
        <3> HIDE DEF status
        <3>3. Planned(j) \in Jobs /\ Planned(j).origin \in Origins
            BY <1>1, <3>1, PlannedTypes
        <3>4. Reported(Planned(j), status) \in Jobs
            BY <3>1, <3>3, ReportedTypes
        <3> QED
            BY <1>3, <3>1, <3>2, <3>4, ProceedTypes
    <2>5. ~LookLocal(p) /\ ~Verify(p)
        <3>1. LookLocal(p) \/ Verify(p) => j.origin \in Origins
            BY JobTypes DEF LookLocal, Verify
        <3> QED
            BY <1>2, <1>3, <1>6, <3>1 DEF LookLocal, Verify
    <2>6. ~Keep(p)
        <3>1. Keep(p) => j.origin \in Origins
            BY JobTypes DEF Keep
        <3> QED
            BY <1>1, <1>3, <1>5, <3>1 DEF Keep, SaveAs, SaveTaken, Jobs
    <2> QED
        BY <2>1, <2>2, <2>3, <2>4, <2>5, <2>6 DEF SyncStep
<1>9. ~Deliver(p) /\ ~Fault(p) /\ ~Stop(p)
    <2>1. Deliver(p) => j.origin \in Origins /\ j.data \in Contents
        BY JobTypes DEF Deliver, FindFolder, MakeFolder, Look, SetAside, Create, AnswerLost
    <2>2. Fault(p) => j.origin \in Origins
        BY JobTypes DEF Fault
    <2>3. ~Fail(p) \/ j.origin \notin Origins
        BY <1>3, <1>6
    <2>4. ASSUME j.origin \in Origins, j.data \in Contents, job' = [job EXCEPT ![p] = Delivered(j)]
          PROVE  FALSE
        <3>1. Delivered(j).at \in {"idle", "plan"}
            BY <1>1, <2>4, DeliveredTypes
        <3>2. job'[p] = Delivered(j)
            BY <1>1, <2>4
        <3> QED
            BY <1>5, <3>1, <3>2
    <2>5. ASSUME NEW place, NEW file,
                 job' = [job EXCEPT ![p] = [j EXCEPT !.at = "backup", !.seen[place] = file]]
          PROVE  FALSE
        <3> DEFINE k == [j EXCEPT !.at = "backup", !.seen[place] = file]
        <3>1. job'[p] = k
            BY <1>5, <2>5
        <3>2. k.at = "backup"
            BY <1>1 DEF Jobs
        <3> QED
            BY <3>1, <3>2
    <2>6. ~Look(p)
        <3> SUFFICES ASSUME Look(p)
                     PROVE  FALSE
            OBVIOUS
        <3>1. j.origin \in Origins /\ j.data \in Contents
            BY <2>1 DEF Deliver
        <3>2. \/ Fail(p)
              \/ Goto(p, "create")
              \/ job' = [job EXCEPT ![p] = Delivered(j)]
              \/ job' = [job EXCEPT ![p] =
                              [j EXCEPT !.at = "backup", !.seen[Target(j)] = tree[Target(j)]]]
            BY DEF Look
        <3>3. ~Fail(p)
            BY <2>3, <3>1
        <3>4. ~Goto(p, "create")
            BY <1>2
        <3> QED
            BY <2>4, <2>5, <3>1, <3>2, <3>3, <3>4
    <2>7. ~Create(p)
        <3>1. Create(p) => Fail(p) \/ job' = [job EXCEPT ![p] = Delivered(j)]
            BY <1>1 DEF Create
        <3> QED
            BY <2>1, <2>3, <2>4, <3>1 DEF Deliver
    <2>8. ~FindFolder(p) /\ ~MakeFolder(p) /\ ~SetAside(p) /\ ~AnswerLost(p)
        BY <1>2, <2>1, <2>3 DEF FindFolder, MakeFolder, SetAside, AnswerLost, Deliver
    <2>9. ~Fault(p) /\ ~Stop(p)
        BY <1>4, <1>5, <2>2, <2>3 DEF Fault, Stop
    <2> QED
        BY <2>6, <2>7, <2>8, <2>9 DEF Deliver
<1>10. ImportStep(p) /\ j.origin \in Origins
    BY <1>7, <1>8, <1>9, JobTypes
    DEF ImportStep, SaveImport, SaveDownload, SaveFulfilled, Fulfil, Archive, ReadBack
<1>11. ~SaveImport(p) /\ ~SaveDownload(p) /\ ~Archive(p)
    <2>1. SaveImport(p) \/ SaveDownload(p) \/ Archive(p) => job'[p] \in {PassOn(j), Failed(j)}
        BY <1>1, <1>5 DEF SaveImport, SaveDownload, Archive, SaveAs, SaveTaken
    <2> QED
        BY <1>3, <1>10, <2>1
<1>12. ~Fulfil(p) /\ ~ReadBack(p)
    <2>1. ~Fulfil(p)
        BY <1>1, <1>3, <1>6, <1>10 DEF Fulfil, Jobs
    <2>2. ~ReadBack(p)
        BY <1>1, <1>3, <1>6, <1>10 DEF ReadBack, Jobs
    <2> QED
        BY <2>1, <2>2
<1>13. SaveFulfilled(p)
    BY <1>10, <1>11, <1>12 DEF ImportStep
<1>14. job'[p].origin \in published'
    <2>1. CASE SaveAs(p, [j EXCEPT !.at = "archive"])
        <3>1. job'[p].origin = j.origin
            BY <1>1, <2>1 DEF SaveAs, Jobs
        <3> QED
            BY <2>1, <3>1 DEF SaveAs
    <2>2. CASE SaveTaken(p, Failed(j))
        BY <1>3, <1>5, <1>10, <2>2 DEF SaveTaken
    <2> QED
        BY <1>13, <2>1, <2>2 DEF SaveFulfilled
<1> QED
    BY <1>13, <1>14

(* What was saved once counts as saved, and only archiving spends.         *)
LEMMA StepsSpend ==
    ASSUME NEW p \in Procs,
           Command(p) \/ SyncStep(p) \/ ImportStep(p) \/ Deliver(p) \/ Fault(p) \/ Stop(p)
    PROVE  /\ published \subseteq published'
           /\ \/ spent' = spent
              \/ job[p].at = "archive" /\ spent' \in {spent, spent \union {job[p].origin}}
<1>1. CASE Command(p)
    BY <1>1 DEF Command, StartSync, StartImport, StartGet, StartRequest, StartSend, Start, Begin, disk
<1>2. CASE SyncStep(p)
    BY <1>2 DEF SyncStep, ListFiles, ReadFile, Plan, DryRun, LookLocal, Keep, Verify,
                SaveAs, SaveTaken, disk
<1>3. CASE ImportStep(p)
    BY <1>3 DEF ImportStep, SaveImport, SaveDownload, SaveFulfilled, Fulfil, Archive, ReadBack,
                SaveAs, SaveTaken, disk
<1>4. CASE Deliver(p)
    BY <1>4 DEF Deliver, FindFolder, MakeFolder, Look, SetAside, Create, AnswerLost, disk
<1>5. CASE Fault(p) \/ Stop(p)
    BY <1>5 DEF Fault, Stop, disk
<1> QED
    BY <1>1, <1>2, <1>3, <1>4, <1>5

LEMMA SpentInductive == Spec => []SpentInv
<1>1. Init => SpentInv
    BY InitTypes DEF SpentInv, Init, SpentIsImported, ArchivesWhatIsSaved, Idle
<1>2. SpentInv /\ [Next]_vars => SpentInv'
    <2> SUFFICES ASSUME SpentInv, [Next]_vars
                 PROVE  SpentInv'
        OBVIOUS
    <2>1. TypeOK /\ TypeOK'
        BY NextTypes DEF SpentInv
    <2>2. ASSUME NEW p \in Procs,
                 Command(p) \/ SyncStep(p) \/ ImportStep(p) \/ Deliver(p) \/ Fault(p) \/ Stop(p)
          PROVE  SpentIsImported' /\ ArchivesWhatIsSaved'
        <3>1. published \subseteq published'
            BY <2>2, StepsSpend
        <3>2. SpentIsImported'
            BY <2>2, <3>1, StepsSpend DEF SpentInv, SpentIsImported, ArchivesWhatIsSaved
        <3>3. \A q \in Procs \ {p} : job'[q] = job[q]
            BY <2>1, <2>2, StepTypes, MovedKeeps
        <3>4. ArchivesWhatIsSaved'
            BY <2>1, <2>2, <3>1, <3>3, OnlySavedIsArchived DEF SpentInv, ArchivesWhatIsSaved
        <3> QED
            BY <3>2, <3>4
    <2>3. Owner \/ UNCHANGED vars => UNCHANGED <<spent, published, job>>
        BY DEF Owner, vars, disk
    <2> QED
        BY <2>1, <2>2, <2>3 DEF Next, SpentInv, SpentIsImported, ArchivesWhatIsSaved
<1> QED
    BY <1>1, <1>2, PTL DEF Spec

(* A request is spent only when its book was imported, wherever processes  *)
(* are killed, names are taken or writing fails: one whose book was not    *)
(* imported stays pending.                                                 *)
THEOREM SpentHasItsBook == Spec => []SpentIsImported
<1>1. SpentInv => SpentIsImported
    BY DEF SpentInv
<1> QED
    BY <1>1, SpentInductive, PTL

-----------------------------------------------------------------------------
(* What a run of sync knows while nobody comes between.  Its inventory is  *)
(* what is at the destination but for what it did there itself; the book   *)
(* in hand was decided on from it; and what the next step needs is there.  *)

Working == {"plan", "dry", "import", "keep", "verify", "folder", "mkdir", "look", "backup", "create"}

(* A place is as it was seen, or the run made a folder or put a copy there. *)
Explained(j, t, place) ==
    \/ t[place] = j.seen[place]
    \/ place \in Folders /\ j.seen[place] = None /\ t[place] = Directory
    \/ \E x \in j.planned : x.path = place /\ t[place] = DeviceCopy[x.data]

SeenAs(j, t) ==
    /\ j.at = "read files" => \A place \in Places :
        IF place \in j.unread THEN t[place] \in Shown ELSE t[place] = j.seen[place]
    /\ j.at \in Working => \A place \in Places :
        Explained(j, t, place) \/ (j.at = "create" /\ place = Target(j) /\ t[place] = None)

DecidedOn(j, mount, on) ==
    j.at \in Working \ {"plan"} =>
        /\ j.data = Import(mount, j.origin)
        /\ Matching(j) = {} /\ Twins(j) = {}
        /\ \A x \in j.planned : x.path # Target(j)
        /\ j.seen[FolderOf[Target(j)]] \notin Contents
        /\ j.seen[Target(j)] # None =>
            /\ on = "Reader" /\ j.command.repair
            /\ <<j.seen[Target(j)], DeviceCopy[j.data]>> \in Begins

ReadyFor(j, t, imports) ==
    /\ j.at = "keep" => imports[j.origin] = None
    /\ j.at = "verify" => imports[j.origin] = j.data
    /\ j.at = "mkdir" => t[FolderOf[Target(j)]] = None
    /\ j.at \in {"look", "backup", "create"} => t[FolderOf[Target(j)]] = Directory
    /\ j.at = "backup" => t[Target(j)] = j.seen[Target(j)]
    /\ j.at = "create" => t[Target(j)] = None

Syncs(j) == j.at \in {"idle", "scan", "read files"} \union Working
Knows(j) == SeenAs(j, tree) /\ DecidedOn(j, kobo, kind) /\ ReadyFor(j, tree, local)

SyncHolds(p) == IsSync(p) => Syncs(job[p]) /\ (excused[p] # Origins => Knows(job[p]))
SyncInv == \A p \in Procs : SyncHolds(p)

(* What a job knows does not depend on where it is at, nor on its report. *)
LEMMA SameKnown ==
    ASSUME NEW j, NEW k, k.data = j.data, k.seen = j.seen, k.planned = j.planned
    PROVE  /\ Matching(k) = Matching(j) /\ Twins(k) = Twins(j) /\ Target(k) = Target(j)
           /\ \A t, place : Explained(k, t, place) = Explained(j, t, place)
<1>1. Matching(k) = Matching(j)
    BY DEF Matching
<1>2. Twins(k) = Twins(j)
    BY DEF Twins
<1>3. Target(k) = Target(j)
    BY DEF Target
<1>4. \A t, place : Explained(k, t, place) = Explained(j, t, place)
    BY DEF Explained
<1> QED
    BY <1>1, <1>2, <1>3, <1>4

(* A run that is done with a book needs to know nothing more about it. *)
LEMMA Settles ==
    ASSUME NEW j, NEW k, NEW t, NEW mount, NEW on, NEW imports,
           k.at \in {"idle", "plan"}, k.seen = j.seen, j.planned \subseteq k.planned,
           \A place \in Places : Explained(j, t, place)
    PROVE  Syncs(k) /\ SeenAs(k, t) /\ DecidedOn(k, mount, on) /\ ReadyFor(k, t, imports)
<1>1. \A place \in Places : Explained(k, t, place)
    BY DEF Explained
<1> QED
    BY <1>1 DEF Syncs, SeenAs, DecidedOn, ReadyFor, Working

(* The same job somewhere else. *)
LEMMA GotoIs ==
    ASSUME TypeOK, NEW p \in Procs, NEW at \in Steps, Goto(p, at)
    PROVE  /\ job'[p].at = at /\ job'[p].command = job[p].command
           /\ job'[p].origin = job[p].origin /\ job'[p].data = job[p].data
           /\ job'[p].seen = job[p].seen /\ job'[p].planned = job[p].planned
           /\ job'[p].todo = job[p].todo /\ job'[p].repair = job[p].repair
           /\ job'[p].rows = job[p].rows /\ job'[p].foretold = job[p].foretold
<1> DEFINE j == job[p]
           k == [j EXCEPT !.at = at]
<1>1. j \in Jobs /\ job \in [Procs -> Jobs]
    BY JobTypes
<1>2. job'[p] = k
    BY <1>1 DEF Goto
<1>3. /\ k.at = at /\ k.command = j.command /\ k.origin = j.origin /\ k.data = j.data
      /\ k.seen = j.seen /\ k.planned = j.planned /\ k.todo = j.todo /\ k.repair = j.repair
      /\ k.rows = j.rows /\ k.foretold = j.foretold
    BY <1>1 DEF Jobs
<1> QED
    BY <1>2, <1>3

(* A step that only goes on: what was decided stays decided, and the place *)
(* of the book is as explained as before.                                  *)
LEMMA GotoKnows ==
    ASSUME TypeOK, NEW p \in Procs, IsSync(p), SyncHolds(p),
           NEW at \in {"keep", "verify", "folder", "mkdir", "look", "create"}, Goto(p, at),
           job[p].at \in Working \ {"plan", "create"},
           kobo' = kobo, kind' = kind,
           excused'[p] # Origins => excused[p] # Origins,
           excused'[p] # Origins => \A place \in Places :
                \/ Explained(job[p], tree, place) => Explained(job[p], tree', place)
                \/ at = "create" /\ place = Target(job[p]) /\ tree'[place] = None,
           excused'[p] # Origins => ReadyFor([job[p] EXCEPT !.at = at], tree', local')
    PROVE  SyncHolds(p)'
<1> DEFINE j == job[p]
           k == job'[p]
<1>1. /\ k.at = at /\ k.command = j.command /\ k.origin = j.origin /\ k.data = j.data
      /\ k.seen = j.seen /\ k.planned = j.planned
    BY GotoIs
<1>2. Syncs(k)
    BY <1>1 DEF Syncs, Working
<1>3. ASSUME excused'[p] # Origins
      PROVE  SeenAs(k, tree') /\ DecidedOn(k, kobo', kind') /\ ReadyFor(k, tree', local')
    <2>1. SeenAs(j, tree) /\ DecidedOn(j, kobo, kind)
        BY <1>3 DEF SyncHolds, Knows
    <2>2. /\ Matching(k) = Matching(j) /\ Twins(k) = Twins(j) /\ Target(k) = Target(j)
          /\ \A t, place : Explained(k, t, place) = Explained(j, t, place)
        BY <1>1, SameKnown
    <2>3. \A place \in Places : Explained(j, tree, place)
        BY <2>1 DEF SeenAs, Working
    <2>4. SeenAs(k, tree')
        BY <1>1, <1>3, <2>2, <2>3 DEF SeenAs
    <2>5. DecidedOn(k, kobo', kind')
        BY <1>1, <2>1, <2>2 DEF DecidedOn
    <2>6. ReadyFor(k, tree', local')
        <3>1. k = [j EXCEPT !.at = at]
            BY JobTypes DEF Goto
        <3> QED
            BY <1>3, <3>1
    <2> QED
        BY <2>4, <2>5, <2>6
<1> QED
    BY <1>2, <1>3 DEF SyncHolds, Knows

(* A run that is done with a book, whichever way, while the destination is *)
(* as explained.                                                           *)
LEMMA DoneKnows ==
    ASSUME TypeOK, NEW p \in Procs, IsSync(p), SyncHolds(p),
           job'[p].at \in {"idle", "plan"}, job'[p].seen = job[p].seen,
           job[p].planned \subseteq job'[p].planned,
           excused'[p] # Origins => \A place \in Places : Explained(job[p], tree', place)
    PROVE  SyncHolds(p)'
<1>1. Syncs(job'[p])
    BY DEF Syncs, Working
<1>2. ASSUME excused'[p] # Origins
      PROVE  SeenAs(job'[p], tree') /\ DecidedOn(job'[p], kobo', kind') /\ ReadyFor(job'[p], tree', local')
    BY <1>2, Settles
<1> QED
    BY <1>1, <1>2 DEF SyncHolds, Knows

LEMMA FailKnows ==
    ASSUME TypeOK, NEW p \in Procs, IsSync(p), SyncHolds(p), Fail(p), job[p].at \in Working,
           tree' = tree, excused'[p] # Origins => excused[p] # Origins /\ job[p].at # "create"
    PROVE  SyncHolds(p)'
<1>1. job[p].origin \in Origins /\ job[p] \in Jobs /\ job \in [Procs -> Jobs]
    BY JobTypes DEF Working
<1>2. job'[p] = Failed(job[p])
    BY <1>1, FailIs
<1>3. job'[p].at \in {"idle", "plan"} /\ job'[p].seen = job[p].seen /\ job'[p].planned = job[p].planned
    BY <1>1, <1>2, FailedTypes
<1>4. excused'[p] # Origins => \A place \in Places : Explained(job[p], tree', place)
    BY DEF SyncHolds, Knows, SeenAs
<1> QED
    BY <1>3, <1>4, DoneKnows

(* Each step of a run. *)

LEMMA LookLocalKnows ==
    ASSUME TypeOK, NEW p \in Procs, IsSync(p), SyncHolds(p), LookLocal(p) \/ Verify(p)
    PROVE  SyncHolds(p)'
<1> DEFINE j == job[p]
<1>1. /\ j \in Jobs /\ j.at \in Working \ {"plan", "create"}
      /\ kobo' = kobo /\ kind' = kind /\ tree' = tree /\ local' = local /\ excused' = excused
    BY JobTypes DEF LookLocal, Verify, disk, Working
<1>2. CASE Fail(p)
    BY <1>1, <1>2, FailKnows
<1>3. ASSUME NEW at \in {"keep", "verify", "folder"}, Goto(p, at),
             at = "keep" => local[j.origin] = None, at = "verify" => local[j.origin] = j.data
      PROVE  SyncHolds(p)'
    <2>1. ReadyFor([j EXCEPT !.at = at], tree', local')
        <3> DEFINE k == [j EXCEPT !.at = at]
        <3>1. k.at = at /\ k.origin = j.origin /\ k.data = j.data
            BY <1>1 DEF Jobs
        <3> HIDE DEF k
        <3> QED
            BY <1>1, <1>3, <3>1 DEF ReadyFor, k
    <2> QED
        BY <1>1, <1>3, <2>1, GotoKnows
<1> QED
    BY <1>2, <1>3 DEF LookLocal, Verify

LEMMA FindFolderKnows ==
    ASSUME TypeOK, NEW p \in Procs, IsSync(p), SyncHolds(p), FindFolder(p)
    PROVE  SyncHolds(p)'
<1> DEFINE j == job[p]
<1>1. /\ j \in Jobs /\ j.at \in Working \ {"plan", "create"}
      /\ kobo' = kobo /\ kind' = kind /\ tree' = tree /\ excused' = excused
    BY JobTypes DEF FindFolder, disk, Working
<1>2. CASE Fail(p)
    BY <1>1, <1>2, FailKnows
<1>3. ASSUME NEW at \in {"look", "mkdir"}, Goto(p, at),
             tree[FolderOf[Target(j)]] = IF at = "look" THEN Directory ELSE None
      PROVE  SyncHolds(p)'
    <2>1. ReadyFor([j EXCEPT !.at = at], tree', local')
        <3> DEFINE k == [j EXCEPT !.at = at]
        <3>1. k.at = at /\ Target(k) = Target(j)
            BY <1>1 DEF Jobs, Target
        <3> HIDE DEF k
        <3> QED
            BY <1>1, <1>3, <3>1 DEF ReadyFor, k
    <2> QED
        BY <1>1, <1>3, <2>1, GotoKnows
<1> QED
    BY <1>2, <1>3 DEF FindFolder

LEMMA MakeFolderKnows ==
    ASSUME TypeOK, NEW p \in Procs, IsSync(p), SyncHolds(p), MakeFolder(p)
    PROVE  SyncHolds(p)'
<1> DEFINE j == job[p]
           folder == FolderOf[Target(j)]
<1>1. /\ j \in Jobs /\ j.at = "mkdir" /\ j.at \in Working \ {"plan", "create"}
      /\ kobo' = kobo /\ kind' = kind /\ excused'[p] = excused[p]
      /\ folder \in Folders /\ folder \in Places /\ tree \in [Places -> Entries]
    BY JobTypes, PreparedTypes, TreeTypes DEF MakeFolder, Working, Disturb, Around
<1>2. CASE tree[folder] # None
    <2>1. tree' = tree /\ (Goto(p, "look") \/ Fail(p))
        BY <1>2 DEF MakeFolder
    <2>2. excused[p] = Origins
        BY <1>1, <1>2 DEF SyncHolds, Knows, ReadyFor
    <2> QED
        BY <1>1, <2>1, <2>2, FailKnows, GotoKnows
<1>3. CASE /\ tree[folder] = None /\ tree' = [tree EXCEPT ![folder] = Directory]
           /\ Goto(p, "look")
    <2>1. tree'[folder] = Directory /\ \A place \in Places \ {folder} : tree'[place] = tree[place]
        BY <1>1, <1>3
    <2>2. \A x \in j.planned : x.path \notin Folders
        BY <1>1, DeliveryAssumption DEF Jobs
    <2>3. \A place \in Places : Explained(j, tree, place) => Explained(j, tree', place)
        <3> SUFFICES ASSUME NEW place \in Places, Explained(j, tree, place)
                     PROVE  Explained(j, tree', place)
            OBVIOUS
        <3>1. CASE place = folder
            BY <1>1, <1>3, <2>1, <2>2, <3>1, DeliveryAssumption DEF Explained
        <3>2. CASE place # folder
            BY <2>1, <3>2 DEF Explained
        <3> QED
            BY <3>1, <3>2
    <2>4. ReadyFor([j EXCEPT !.at = "look"], tree', local')
        <3> DEFINE k == [j EXCEPT !.at = "look"]
        <3>1. k.at = "look" /\ Target(k) = Target(j)
            BY <1>1 DEF Jobs, Target
        <3> HIDE DEF k
        <3> QED
            BY <2>1, <3>1 DEF ReadyFor, k
    <2> QED
        BY <1>1, <1>3, <2>3, <2>4, GotoKnows
<1> QED
    BY <1>2, <1>3 DEF MakeFolder

(* A process that is no sync has nothing to know. *)
LEMMA IdleKnows ==
    ASSUME NEW p \in Procs, job'[p] = Idle
    PROVE  SyncHolds(p)'
<1>1. Idle.command = None
    BY DEF Idle
<1>2. None \notin SyncCommands
    BY DeliveryAssumption DEF SyncCommands
<1> QED
    BY <1>1, <1>2 DEF SyncHolds, IsSync

LEMMA ListFilesKnows ==
    ASSUME TypeOK, NEW p \in Procs, IsSync(p), SyncHolds(p), ListFiles(p)
    PROVE  SyncHolds(p)'
<1> DEFINE listed == Files(tree).listed
           unread == Files(tree).unread
           k == [job[p] EXCEPT !.at = "read files", !.seen = listed, !.unread = unread]
<1>1. job \in [Procs -> Jobs] /\ job[p] \in Jobs /\ tree' = tree /\ tree \in [Places -> Entries]
    BY JobTypes, TreeTypes DEF ListFiles, disk, Around
<1>2. \A place \in Places :
        IF place \in unread THEN tree[place] \in Shown ELSE tree[place] = listed[place]
    BY DEF Files
<1> HIDE DEF listed, unread
<1>3. k.at = "read files" /\ k.seen = listed /\ k.unread = unread
    BY <1>1 DEF Jobs
<1> HIDE DEF k
<1>4. Syncs(k) /\ SeenAs(k, tree) /\ DecidedOn(k, kobo', kind') /\ ReadyFor(k, tree, local')
    BY <1>2, <1>3 DEF Syncs, SeenAs, DecidedOn, ReadyFor, Working
<1>5. job' = [job EXCEPT ![p] = k] \/ job' = [job EXCEPT ![p] = Idle]
    BY <1>1 DEF ListFiles, k, listed, unread
<1>6. job'[p] = k \/ job'[p] = Idle
    BY <1>1, <1>5
<1>7. CASE job'[p] = k
    BY <1>1, <1>4, <1>7 DEF SyncHolds, Knows
<1> QED
    BY <1>6, <1>7, IdleKnows

LEMMA ReadFileKnows ==
    ASSUME TypeOK, NEW p \in Procs, IsSync(p), SyncHolds(p), ReadFile(p)
    PROVE  SyncHolds(p)'
<1> DEFINE j == job[p]
<1>1. /\ job \in [Procs -> Jobs] /\ j \in Jobs /\ j.at = "read files"
      /\ tree' = tree /\ tree \in [Places -> Entries] /\ excused' = excused
    BY JobTypes, TreeTypes DEF ReadFile, disk, Around
<1>2. excused'[p] # Origins => \A place \in Places :
        IF place \in j.unread THEN tree[place] \in Shown ELSE tree[place] = j.seen[place]
    BY <1>1 DEF SyncHolds, Knows, SeenAs
<1>3. ASSUME NEW read \in j.unread,
             job' = [job EXCEPT ![p].seen[read] = tree[read], ![p].unread = @ \ {read}]
      PROVE  SyncHolds(p)'
    <2> DEFINE seen == [j.seen EXCEPT ![read] = tree[read]]
               unread == j.unread \ {read}
               k == [j EXCEPT !.seen = seen, !.unread = unread]
    <2>1. job'[p] = k
        BY <1>1, <1>3 DEF Jobs
    <2>2. j.seen \in [Places -> Entries] /\ read \in Places
        BY <1>1 DEF Jobs
    <2>3. excused'[p] # Origins => \A place \in Places :
            IF place \in unread THEN tree[place] \in Shown ELSE tree[place] = seen[place]
        BY <1>2, <2>2
    <2> HIDE DEF seen, unread
    <2>4. k.at = "read files" /\ k.seen = seen /\ k.unread = unread
        BY <1>1 DEF Jobs
    <2> HIDE DEF k
    <2>5. Syncs(k) /\ DecidedOn(k, kobo', kind') /\ ReadyFor(k, tree, local')
        BY <2>4 DEF Syncs, DecidedOn, ReadyFor, Working
    <2>6. excused'[p] # Origins => SeenAs(k, tree)
        BY <2>3, <2>4 DEF SeenAs, Working
    <2> QED
        BY <1>1, <2>1, <2>5, <2>6 DEF SyncHolds, Knows
<1>4. CASE job' = [job EXCEPT ![p] = Idle]
    <2>1. job'[p] = Idle
        BY <1>1, <1>4
    <2> QED
        BY <2>1, IdleKnows
<1>5. CASE j.unread = {} /\ job' = [job EXCEPT ![p] = Proceed(j)]
    <2>1. job'[p] = Proceed(j)
        BY <1>1, <1>5
    <2>2. job'[p].at \in {"idle", "plan"} /\ job'[p].seen = j.seen /\ job'[p].planned = j.planned
        BY <1>1, <2>1, ProceedTypes
    <2>3. excused'[p] # Origins => \A place \in Places : Explained(j, tree', place)
        BY <1>1, <1>2, <1>5 DEF Explained
    <2> QED
        BY <2>2, <2>3, DoneKnows
<1> QED
    BY <1>3, <1>4, <1>5 DEF ReadFile

(* What a book is brought for: nothing like it is there or was sent, and   *)
(* its place is free, or has what may be set aside.                        *)
LEMMA DecideGo ==
    ASSUME NEW j \in Jobs, "Go" \in Decide(j)
    PROVE  /\ j.data # None /\ Matching(j) = {} /\ Twins(j) = {}
           /\ \A x \in j.planned : x.path # Target(j)
           /\ j.seen[FolderOf[Target(j)]] \notin Contents
           /\ j.seen[Target(j)] # None => Repairable(j)
BY DEF Decide

LEMMA PlanKnows ==
    ASSUME TypeOK, NEW p \in Procs, IsSync(p), SyncHolds(p), Plan(p)
    PROVE  SyncHolds(p)'
<1> DEFINE j == Considered(p)
<1>1. /\ j \in Jobs /\ j.origin = job[p].origin /\ j.origin \in Origins /\ j.seen = job[p].seen
      /\ j.data = Import(kobo, j.origin) /\ j.planned = job[p].planned
      /\ job \in [Procs -> Jobs] /\ job[p].at = "plan"
      /\ tree' = tree /\ kobo' = kobo /\ kind' = kind /\ excused' = excused
    BY ConsideredTypes, JobTypes DEF Plan, disk
<1>2. PICK status \in Decide(j) :
        job' = [job EXCEPT ![p] = IF status = "Go" THEN Going(j) ELSE Proceed(Reported(j, status))]
    BY PlanStep
<1>3. excused'[p] # Origins => \A place \in Places : Explained(job[p], tree, place)
    BY <1>1 DEF SyncHolds, Knows, SeenAs, Working
<1> HIDE DEF j
<1>4. CASE status = "Go"
    <2> DEFINE at == IF j.command.apply THEN "import" ELSE "dry"
               repair == j.seen[Target(j)] # None
               k == [j EXCEPT !.at = at, !.repair = repair]
    <2>1. job'[p] = k
        BY <1>1, <1>2, <1>4 DEF Going
    <2>2. at \in {"import", "dry"}
        OBVIOUS
    <2> HIDE DEF at, repair
    <2>3. /\ k.at = at /\ k.origin = j.origin /\ k.data = j.data /\ k.seen = j.seen
          /\ k.planned = j.planned /\ k.command = j.command
        BY <1>1 DEF Jobs
    <2> HIDE DEF k
    <2>4. /\ Matching(k) = Matching(j) /\ Twins(k) = Twins(j) /\ Target(k) = Target(j)
          /\ \A t, place : Explained(k, t, place) = Explained(job[p], t, place)
        BY <1>1, <2>3, SameKnown DEF Explained
    <2>5. /\ Matching(j) = {} /\ Twins(j) = {}
          /\ \A x \in j.planned : x.path # Target(j)
          /\ j.seen[FolderOf[Target(j)]] \notin Contents
          /\ j.seen[Target(j)] # None =>
               /\ kind = "Reader" /\ j.command.repair
               /\ <<j.seen[Target(j)], DeviceCopy[j.data]>> \in Begins
        BY <1>1, <1>2, <1>4, DecideGo DEF Repairable
    <2>6. DecidedOn(k, kobo', kind')
        BY <1>1, <2>3, <2>4, <2>5 DEF DecidedOn
    <2>7. excused'[p] # Origins => SeenAs(k, tree')
        BY <1>1, <1>3, <2>2, <2>3, <2>4 DEF SeenAs
    <2>8. Syncs(k) /\ ReadyFor(k, tree', local')
        BY <2>2, <2>3 DEF Syncs, ReadyFor, Working
    <2> QED
        BY <2>1, <2>6, <2>7, <2>8 DEF SyncHolds, Knows
<1>5. CASE status # "Go"
    <2>1. status \in Statuses
        BY <1>1, <1>2, <1>5, DecideTypes DEF Statuses
    <2>2. job'[p] = Proceed(Reported(j, status))
        BY <1>1, <1>2, <1>5
    <2>3. /\ Reported(j, status) \in Jobs
          /\ Reported(j, status).seen = j.seen /\ Reported(j, status).planned = j.planned
        BY <1>1, <2>1, ReportedTypes
    <2>4. job'[p].at \in {"idle", "plan"} /\ job'[p].seen = j.seen /\ job'[p].planned = j.planned
        BY <2>2, <2>3, ProceedTypes
    <2> QED
        BY <1>1, <1>3, <2>4, DoneKnows
<1> QED
    BY <1>4, <1>5

LEMMA DryRunKnows ==
    ASSUME TypeOK, NEW p \in Procs, IsSync(p), SyncHolds(p), DryRun(p)
    PROVE  SyncHolds(p)'
<1> DEFINE j == job[p]
           status == IF j.repair THEN "Repair" ELSE "Transfer"
<1>1. /\ j \in Jobs /\ job \in [Procs -> Jobs] /\ j.origin \in Origins /\ j.data \in Contents
      /\ j.at = "dry" /\ j.at \in Working /\ tree' = tree /\ excused' = excused
    BY JobTypes DEF DryRun, disk, Working
<1>2. CASE Fail(p)
    BY <1>1, <1>2, FailKnows
<1>3. CASE job' = [job EXCEPT ![p] =
                    Proceed(Reported(Planned(@), IF @.repair THEN "Repair" ELSE "Transfer"))]
    <2>1. status \in Statuses
        BY DEF Statuses
    <2>2. job'[p] = Proceed(Reported(Planned(j), status))
        BY <1>1, <1>3
    <2> HIDE DEF status
    <2>3. /\ Planned(j) \in Jobs /\ Planned(j).origin = j.origin /\ Planned(j).seen = j.seen
          /\ j.planned \subseteq Planned(j).planned
        BY <1>1, PlannedTypes
    <2>4. /\ Reported(Planned(j), status) \in Jobs
          /\ Reported(Planned(j), status).seen = j.seen
          /\ Reported(Planned(j), status).planned = Planned(j).planned
        BY <1>1, <2>1, <2>3, ReportedTypes
    <2>5. /\ job'[p].at \in {"idle", "plan"} /\ job'[p].seen = j.seen
          /\ j.planned \subseteq job'[p].planned
        BY <2>2, <2>3, <2>4, ProceedTypes
    <2>6. excused'[p] # Origins => \A place \in Places : Explained(j, tree', place)
        BY <1>1 DEF SyncHolds, Knows, SeenAs
    <2> QED
        BY <2>5, <2>6, DoneKnows
<1> QED
    BY <1>2, <1>3 DEF DryRun

LEMMA KeepKnows ==
    ASSUME TypeOK, NEW p \in Procs, IsSync(p), SyncHolds(p), Keep(p)
    PROVE  SyncHolds(p)'
<1> DEFINE j == job[p]
<1>1. /\ j \in Jobs /\ job \in [Procs -> Jobs] /\ j.origin \in Origins
      /\ j.at \in Working \ {"plan", "create"}
      /\ local \in [Origins -> Contents \union {None}]
    BY JobTypes DEF Keep, Working, Around
<1>2. CASE SaveTaken(p, Failed(j))
    <2>1. Fail(p) /\ tree' = tree /\ excused' = excused
        BY <1>1, <1>2 DEF SaveTaken, Fail, disk
    <2> QED
        BY <1>1, <2>1, FailKnows
<1>3. CASE SaveAs(p, [j EXCEPT !.at = "verify"])
    <2>1. Goto(p, "verify")
        BY <1>1, <1>3 DEF SaveAs, Goto
    <2>2. /\ tree' = tree /\ kobo' = kobo /\ kind' = kind
          /\ excused'[p] = excused[p] /\ local' = [local EXCEPT ![j.origin] = j.data]
        BY <1>1, <1>3 DEF SaveAs, Disturb
    <2>3. ReadyFor([j EXCEPT !.at = "verify"], tree', local')
        <3> DEFINE k == [j EXCEPT !.at = "verify"]
        <3>1. k.at = "verify" /\ k.origin = j.origin /\ k.data = j.data
            BY <1>1 DEF Jobs
        <3> HIDE DEF k
        <3>2. local'[j.origin] = j.data
            BY <1>1, <2>2
        <3> QED
            BY <3>1, <3>2 DEF ReadyFor, k
    <2> QED
        BY <1>1, <2>1, <2>2, <2>3, GotoKnows
<1> QED
    BY <1>2, <1>3 DEF Keep

LEMMA LookKnows ==
    ASSUME TypeOK, NEW p \in Procs, IsSync(p), SyncHolds(p), Look(p)
    PROVE  SyncHolds(p)'
<1> DEFINE j == job[p]
           file == tree[Target(j)]
<1>1. /\ j \in Jobs /\ job \in [Procs -> Jobs] /\ j.origin \in Origins /\ j.data \in Contents
      /\ j.at = "look" /\ j.at \in Working \ {"plan", "create"}
      /\ kobo' = kobo /\ kind' = kind /\ tree' = tree /\ excused' = excused
      /\ Target(j) \in Paths /\ Target(j) \in Places /\ tree \in [Places -> Entries]
    BY JobTypes, PreparedTypes, TreeTypes DEF Look, disk, Working, Around
<1>2. excused[p] # Origins => Knows(j)
    BY DEF SyncHolds
<1>3. CASE Fail(p)
    BY <1>1, <1>3, FailKnows
<1>4. CASE file = None /\ Goto(p, "create")
    <2>1. excused'[p] # Origins => ReadyFor([j EXCEPT !.at = "create"], tree', local')
        <3> DEFINE k == [j EXCEPT !.at = "create"]
        <3>1. k.at = "create" /\ Target(k) = Target(j)
            BY <1>1 DEF Jobs, Target
        <3> HIDE DEF k
        <3> QED
            BY <1>1, <1>2, <1>4, <3>1 DEF Knows, ReadyFor, k
    <2> QED
        BY <1>1, <1>4, <2>1, GotoKnows
<1>5. CASE job' = [job EXCEPT ![p] = Delivered(j)]
    <2>1. job'[p] = Delivered(j)
        BY <1>1, <1>5
    <2>2. /\ job'[p].at \in {"idle", "plan"} /\ job'[p].seen = j.seen
          /\ j.planned \subseteq job'[p].planned
        BY <1>1, <2>1, DeliveredTypes
    <2>3. excused'[p] # Origins => \A place \in Places : Explained(j, tree', place)
        BY <1>1, <1>2 DEF Knows, SeenAs
    <2> QED
        BY <2>2, <2>3, DoneKnows
<1>6. CASE job' = [job EXCEPT ![p] = [j EXCEPT !.at = "backup", !.seen[Target(j)] = file]]
    <2> DEFINE seen == [j.seen EXCEPT ![Target(j)] = file]
               k == [j EXCEPT !.at = "backup", !.seen = seen]
    <2>1. job'[p] = k
        BY <1>1, <1>6 DEF Jobs
    <2>2. j.seen \in [Places -> Entries]
        BY <1>1 DEF Jobs
    <2>3. excused[p] # Origins => seen = j.seen
        <3>1. ASSUME excused[p] # Origins
              PROVE  file = j.seen[Target(j)]
            <4>1. Explained(j, tree, Target(j)) /\ \A x \in j.planned : x.path # Target(j)
                BY <1>1, <1>2, <3>1 DEF Knows, SeenAs, DecidedOn
            <4> QED
                BY <1>1, <4>1, DeliveryAssumption DEF Explained
        <3> QED
            BY <2>2, <3>1
    <2> HIDE DEF seen
    <2>4. /\ k.at = "backup" /\ k.origin = j.origin /\ k.data = j.data /\ k.seen = seen
          /\ k.planned = j.planned /\ k.command = j.command
        BY <1>1 DEF Jobs
    <2> HIDE DEF k
    <2>5. Syncs(k)
        BY <2>4 DEF Syncs, Working
    <2>6. ASSUME excused[p] # Origins
          PROVE  SeenAs(k, tree') /\ DecidedOn(k, kobo', kind') /\ ReadyFor(k, tree', local')
        <3>1. k.seen = j.seen /\ Knows(j)
            BY <1>2, <2>3, <2>4, <2>6
        <3>2. /\ Matching(k) = Matching(j) /\ Twins(k) = Twins(j) /\ Target(k) = Target(j)
              /\ \A t, place : Explained(k, t, place) = Explained(j, t, place)
            BY <2>4, <3>1, SameKnown
        <3>3. SeenAs(k, tree')
            BY <1>1, <2>4, <3>1, <3>2 DEF SeenAs, Knows
        <3>4. DecidedOn(k, kobo', kind')
            BY <1>1, <2>4, <3>1, <3>2 DEF DecidedOn, Knows
        <3>5. k.seen[Target(k)] = tree[Target(k)]
            BY <1>1, <2>2, <2>4, <3>2 DEF seen
        <3>6. ReadyFor(k, tree', local')
            BY <1>1, <2>4, <3>1, <3>2, <3>5 DEF ReadyFor, Knows
        <3> QED
            BY <3>3, <3>4, <3>6
    <2> QED
        BY <1>1, <2>1, <2>5, <2>6 DEF SyncHolds, Knows
<1> QED
    BY <1>3, <1>4, <1>5, <1>6 DEF Look

LEMMA SetAsideKnows ==
    ASSUME TypeOK, NEW p \in Procs, IsSync(p), SyncHolds(p), SetAside(p)
    PROVE  SyncHolds(p)'
<1> DEFINE j == job[p]
           path == Target(j)
<1>1. /\ j \in Jobs /\ j.at = "backup" /\ j.at \in Working \ {"plan", "create"}
      /\ kobo' = kobo /\ kind' = kind /\ excused'[p] = excused[p]
      /\ path \in Paths /\ path \in Places /\ FolderOf[path] \in Folders /\ FolderOf[path] \in Places
      /\ tree \in [Places -> Entries]
    BY JobTypes, PreparedTypes, TreeTypes DEF SetAside, Working, Disturb, Around
<1>2. excused[p] # Origins => Knows(j)
    BY DEF SyncHolds
<1>3. CASE Fail(p) /\ tree' = tree
    BY <1>1, <1>3, FailKnows
<1>4. CASE tree' = [tree EXCEPT ![path] = None] /\ Goto(p, "create")
    <2>1. tree'[path] = None /\ \A place \in Places \ {path} : tree'[place] = tree[place]
        BY <1>1, <1>4
    <2>2. \A place \in Places :
            \/ Explained(j, tree, place) => Explained(j, tree', place)
            \/ place = path /\ tree'[place] = None
        BY <2>1 DEF Explained
    <2>3. excused'[p] # Origins => ReadyFor([j EXCEPT !.at = "create"], tree', local')
        <3> DEFINE k == [j EXCEPT !.at = "create"]
        <3>1. k.at = "create" /\ Target(k) = path
            BY <1>1 DEF Jobs, Target
        <3> HIDE DEF k
        <3>2. excused[p] # Origins => tree'[FolderOf[path]] = Directory
            BY <1>1, <1>2, <2>1, DeliveryAssumption DEF Knows, ReadyFor
        <3> QED
            BY <1>1, <2>1, <3>1, <3>2 DEF ReadyFor, k
    <2> QED
        BY <1>1, <1>4, <2>2, <2>3, GotoKnows
<1> QED
    BY <1>3, <1>4 DEF SetAside

LEMMA CreateKnows ==
    ASSUME TypeOK, NEW p \in Procs, IsSync(p), SyncHolds(p), Create(p)
    PROVE  SyncHolds(p)'
<1> DEFINE j == job[p]
           path == Target(j)
<1>1. /\ j \in Jobs /\ job \in [Procs -> Jobs] /\ j.origin \in Origins /\ j.data \in Contents
      /\ j.at = "create" /\ j.at \in Working /\ excused'[p] = excused[p]
      /\ path \in Paths /\ path \in Places /\ Prepared(j.data).data = DeviceCopy[j.data]
      /\ tree \in [Places -> Entries]
    BY JobTypes, PreparedTypes, TreeTypes DEF Create, Working, Disturb, Around
<1>2. excused[p] # Origins => Knows(j)
    BY DEF SyncHolds
<1>3. CASE (tree[path] # None \/ tree[FolderOf[path]] # Directory) /\ Fail(p) /\ tree' = tree
    <2>1. excused[p] = Origins
        BY <1>1, <1>2, <1>3 DEF Knows, ReadyFor
    <2> QED
        BY <1>1, <1>3, <2>1, FailKnows
<1>4. CASE tree' = [tree EXCEPT ![path] = Prepared(j.data).data] /\ job' = [job EXCEPT ![p] = Delivered(@)]
    <2> DEFINE k == job'[p]
               x == [data |-> j.data, path |-> path]
    <2>1. k = Delivered(j)
        BY <1>1, <1>4
    <2>2. k.at \in {"idle", "plan"} /\ k.seen = j.seen /\ k.planned = j.planned \union {x}
        BY <1>1, <2>1, DeliveredTypes
    <2>3. tree'[path] = DeviceCopy[j.data] /\ \A place \in Places \ {path} : tree'[place] = tree[place]
        BY <1>1, <1>4
    <2>4. ASSUME excused[p] # Origins
          PROVE  \A place \in Places : Explained(k, tree', place)
        <3>1. \A place \in Places \ {path} : Explained(j, tree, place)
            BY <1>1, <1>2, <2>4 DEF Knows, SeenAs
        <3>2. \A place \in Places \ {path} : Explained(k, tree', place)
            BY <2>2, <2>3, <3>1 DEF Explained
        <3>3. x \in k.planned /\ x.path = path /\ x.data = j.data
            BY <2>2
        <3>4. Explained(k, tree', path)
            BY <2>3, <3>3 DEF Explained
        <3> QED
            BY <3>2, <3>4
    <2>5. excused[p] # Origins =>
            SeenAs(k, tree') /\ DecidedOn(k, kobo', kind') /\ ReadyFor(k, tree', local')
        BY <2>2, <2>4, Settles
    <2>6. Syncs(k)
        BY <2>2 DEF Syncs, Working
    <2> QED
        BY <1>1, <2>5, <2>6 DEF SyncHolds, Knows
<1> QED
    BY <1>3, <1>4 DEF Create

LEMMA AnswerLostKnows ==
    ASSUME TypeOK, NEW p \in Procs, IsSync(p), SyncHolds(p), AnswerLost(p)
    PROVE  SyncHolds(p)'
<1>1. job[p] \in Jobs /\ job \in [Procs -> Jobs] /\ job[p].origin \in Origins /\ excused'[p] = Origins
    BY JobTypes DEF AnswerLost
<1>2. job'[p] = Failed(job[p])
    BY <1>1, FailIs DEF AnswerLost
<1>3. job'[p].at \in {"idle", "plan"} /\ job'[p].seen = job[p].seen /\ job'[p].planned = job[p].planned
    BY <1>1, <1>2, FailedTypes
<1> QED
    BY <1>1, <1>3, DoneKnows

LEMMA FaultKnows ==
    ASSUME TypeOK, NEW p \in Procs, IsSync(p), SyncHolds(p), Fault(p)
    PROVE  SyncHolds(p)'
<1>1. /\ job[p].at \in Working /\ job[p].origin \in Origins /\ job[p] \in Jobs
      /\ job \in [Procs -> Jobs] /\ tree' = tree /\ Fail(p)
      /\ excused \in [Procs -> SUBSET Origins]
    BY JobTypes DEF Fault, disk, SyncHolds, Syncs, Around
<1>2. excused'[p] = IF job[p].at = "create" THEN Origins ELSE excused[p] \union {job[p].origin}
    BY <1>1 DEF Fault
<1>3. CASE job[p].at # "create"
    <2>1. excused'[p] # Origins => excused[p] # Origins
        BY <1>1, <1>2, <1>3
    <2> QED
        BY <1>1, <1>3, <2>1, FailKnows
<1>4. CASE job[p].at = "create"
    BY <1>1, <1>2, <1>4, FailKnows
<1> QED
    BY <1>3, <1>4

LEMMA StartKnows ==
    ASSUME TypeOK, NEW p \in Procs, Command(p)
    PROVE  SyncHolds(p)'
<1>1. job \in [Procs -> Jobs] /\ Idle \in Jobs
    BY JobTypes, IdleTypes
<1>2. PICK command \in Commands :
        \/ command \in SyncCommands /\ StartSync(p, command)
        \/ StartImport(p, command)
        \/ StartGet(p, command)
        \/ StartRequest(p, command)
        \/ StartSend(p, command)
    BY DEF Command
<1>3. CASE command \in SyncCommands /\ StartSync(p, command)
    <2> DEFINE todo == Chosen(Books(kobo), command)
               foretold == Foretold(job[p], command, p)
               k == [Idle EXCEPT !.command = command, !.at = "scan", !.todo = todo, !.foretold = foretold]
    <2>1. job'[p] = k
        BY <1>1, <1>3 DEF StartSync, Begin
    <2> HIDE DEF todo, foretold
    <2>2. k.at = "scan"
        BY <1>1 DEF Jobs
    <2> HIDE DEF k
    <2>3. Syncs(k) /\ SeenAs(k, tree') /\ DecidedOn(k, kobo', kind') /\ ReadyFor(k, tree', local')
        BY <2>2 DEF Syncs, SeenAs, DecidedOn, ReadyFor, Working
    <2> QED
        BY <2>1, <2>3 DEF SyncHolds, Knows
<1>4. ASSUME NEW at, NEW data, Start(p, command, at, data), command.name # "sync"
      PROVE  SyncHolds(p)'
    <2> DEFINE k == [Idle EXCEPT !.command = command, !.at = at,
                                 !.origin = command.origin, !.data = data]
    <2>1. job'[p] = k
        BY <1>1, <1>4 DEF Start, Begin
    <2>2. k.command = command
        BY <1>1 DEF Jobs
    <2> HIDE DEF k
    <2>3. command \notin SyncCommands
        BY <1>4 DEF SyncCommands
    <2> QED
        BY <2>1, <2>2, <2>3 DEF SyncHolds, IsSync
<1>5. StartImport(p, command) => \E at, data : Start(p, command, at, data) /\ command.name = "import"
    BY DEF StartImport
<1>6. StartGet(p, command) => \E at, data : Start(p, command, at, data) /\ command.name = "get"
    BY DEF StartGet
<1>7. StartRequest(p, command) =>
        \E at, data : Start(p, command, at, data) /\ command.name \in {"acsm", "import"}
    BY DEF StartRequest
<1>8. StartSend(p, command) => \E at, data : Start(p, command, at, data) /\ command.name = "send"
    BY DEF StartSend
<1> QED
    BY <1>2, <1>3, <1>4, <1>5, <1>6, <1>7, <1>8

(* A process keeps its command, and what a dry run foretold of it, till it *)
(* is killed or gives up.                                                  *)
KeepsCommand(j, k) == k.command = j.command /\ k.foretold = j.foretold

LEMMA CommandStays ==
    ASSUME TypeOK, NEW p \in Procs,
           SyncStep(p) \/ ImportStep(p) \/ Deliver(p) \/ Fault(p) \/ Stop(p)
    PROVE  job'[p] = Idle \/ KeepsCommand(job[p], job'[p])
<1> USE DEF KeepsCommand
<1> DEFINE j == job[p]
<1>1. job \in [Procs -> Jobs] /\ j \in Jobs
    BY JobTypes
<1>2. ASSUME NEW at, Goto(p, at)
      PROVE  KeepsCommand(j, job'[p])
    BY <1>1, <1>2 DEF Goto, Jobs
<1>3. ASSUME j.origin \in Origins, Fail(p) \/ job' = [job EXCEPT ![p] = Failed(j)]
      PROVE  KeepsCommand(j, job'[p])
    BY <1>1, <1>3, FailIs, FailedTypes
<1>4. ASSUME j.origin \in Origins, job' = [job EXCEPT ![p] = PassOn(j)]
      PROVE  KeepsCommand(j, job'[p])
    <2>1. "Saved" \in Statuses
        BY DEF Statuses
    <2>2. Reported(j, "Saved") \in Jobs /\ KeepsCommand(j, Reported(j, "Saved"))
        BY <1>1, <1>4, <2>1, ReportedTypes
    <2>3. KeepsCommand(j, [j EXCEPT !.at = "read"])
        BY <1>1 DEF Jobs
    <2>4. KeepsCommand(j, Proceed(Reported(j, "Saved")))
        BY <2>2, ProceedTypes
    <2>5. KeepsCommand(j, PassOn(j))
        BY <2>3, <2>4 DEF PassOn
    <2> QED
        BY <1>1, <1>4, <2>5
<1>5. ASSUME j.origin \in Origins, j.data \in Contents, job' = [job EXCEPT ![p] = Delivered(j)]
      PROVE  KeepsCommand(j, job'[p])
    BY <1>1, <1>5, DeliveredTypes
<1>6. CASE SyncStep(p)
    <2>1. CASE ListFiles(p)
        <3> DEFINE listed == Files(tree).listed
                   unread == Files(tree).unread
        <3>1. \/ job'[p] = [j EXCEPT !.at = "read files", !.seen = listed, !.unread = unread]
              \/ job'[p] = Idle
            BY <1>1, <2>1 DEF ListFiles, Jobs
        <3> HIDE DEF listed, unread
        <3> QED
            BY <1>1, <3>1 DEF Jobs
    <2>2. CASE ReadFile(p)
        <3>1. ASSUME NEW place \in j.unread,
                     job' = [job EXCEPT ![p].seen[place] = tree[place], ![p].unread = @ \ {place}]
              PROVE  KeepsCommand(j, job'[p])
            <4> DEFINE seen == [j.seen EXCEPT ![place] = tree[place]]
                       unread == j.unread \ {place}
            <4>1. job'[p] = [j EXCEPT !.seen = seen, !.unread = unread]
                BY <1>1, <3>1 DEF Jobs
            <4> HIDE DEF seen, unread
            <4> QED
                BY <1>1, <4>1 DEF Jobs
        <3>2. CASE job' = [job EXCEPT ![p] = Idle]
            BY <1>1, <3>2
        <3>3. CASE job' = [job EXCEPT ![p] = Proceed(j)]
            BY <1>1, <3>3, ProceedTypes
        <3> QED
            BY <2>2, <3>1, <3>2, <3>3 DEF ReadFile
    <2>3. CASE Plan(p)
        <3> DEFINE k == Considered(p)
                   at == IF k.command.apply THEN "import" ELSE "dry"
                   repair == k.seen[Target(k)] # None
        <3>1. k \in Jobs /\ k.origin \in Origins /\ KeepsCommand(j, k)
            BY <2>3, ConsideredTypes DEF Plan
        <3>2. PICK status \in Decide(k) :
                job'[p] = IF status = "Go" THEN [k EXCEPT !.at = at, !.repair = repair]
                          ELSE Proceed(Reported(k, status))
            BY <1>1, <2>3, PlanStep DEF Going
        <3> HIDE DEF k, at, repair
        <3>3. KeepsCommand(k, [k EXCEPT !.at = at, !.repair = repair])
            BY <3>1 DEF Jobs
        <3>4. status # "Go" => status \in Statuses
            BY <3>1, <3>2, DecideTypes DEF Statuses
        <3>5. status # "Go" => /\ Reported(k, status) \in Jobs
                               /\ KeepsCommand(k, Reported(k, status))
            BY <3>1, <3>4, ReportedTypes
        <3>6. status # "Go" => KeepsCommand(k, Proceed(Reported(k, status)))
            BY <3>5, ProceedTypes
        <3> QED
            BY <3>1, <3>2, <3>3, <3>6
    <2>4. CASE DryRun(p)
        <3> DEFINE status == IF j.repair THEN "Repair" ELSE "Transfer"
        <3>1. j.origin \in Origins /\ j.data \in Contents /\ status \in Statuses
            BY <2>4, JobTypes DEF DryRun, Statuses
        <3>2. Fail(p) \/ job'[p] = Proceed(Reported(Planned(j), status))
            BY <1>1, <2>4 DEF DryRun
        <3> HIDE DEF status
        <3>3. Planned(j) \in Jobs /\ Planned(j).origin \in Origins /\ KeepsCommand(j, Planned(j))
            BY <1>1, <3>1, PlannedTypes
        <3>4. /\ Reported(Planned(j), status) \in Jobs
              /\ KeepsCommand(j, Reported(Planned(j), status))
            BY <3>1, <3>3, ReportedTypes
        <3> QED
            BY <1>3, <3>1, <3>2, <3>4, ProceedTypes
    <2>5. CASE LookLocal(p) \/ Verify(p)
        <3>1. j.origin \in Origins
            BY <2>5, JobTypes DEF LookLocal, Verify
        <3> QED
            BY <1>2, <1>3, <2>5, <3>1 DEF LookLocal, Verify
    <2>6. CASE Keep(p)
        <3>1. j.origin \in Origins
            BY <2>6, JobTypes DEF Keep
        <3>2. KeepsCommand(j, [j EXCEPT !.at = "verify"])
            BY <1>1 DEF Jobs
        <3>3. job' \in {[job EXCEPT ![p] = [j EXCEPT !.at = "verify"]], [job EXCEPT ![p] = Failed(j)]}
            BY <2>6 DEF Keep, SaveAs, SaveTaken
        <3> QED
            BY <1>1, <1>3, <3>1, <3>2, <3>3
    <2> QED
        BY <1>6, <2>1, <2>2, <2>3, <2>4, <2>5, <2>6 DEF SyncStep
<1>7. CASE ImportStep(p)
    <2>1. j.origin \in Origins
        BY <1>7, JobTypes
        DEF ImportStep, SaveImport, SaveDownload, SaveFulfilled, Fulfil, Archive, ReadBack
    <2>2. CASE SaveImport(p) \/ SaveDownload(p) \/ Archive(p)
        <3>1. job' \in {[job EXCEPT ![p] = PassOn(j)], [job EXCEPT ![p] = Failed(j)]}
            BY <1>1, <2>2 DEF SaveImport, SaveDownload, Archive, SaveAs, SaveTaken
        <3> QED
            BY <1>3, <1>4, <2>1, <3>1
    <2>3. ASSUME NEW at, NEW data, job' = [job EXCEPT ![p].at = at, ![p].data = data]
          PROVE  KeepsCommand(j, job'[p])
        BY <1>1, <2>3 DEF Jobs
    <2>4. CASE Fulfil(p) \/ ReadBack(p)
        BY <1>3, <2>1, <2>3, <2>4 DEF Fulfil, ReadBack
    <2>5. CASE SaveFulfilled(p)
        <3>1. KeepsCommand(j, [j EXCEPT !.at = "archive"])
            BY <1>1 DEF Jobs
        <3>2. job' \in {[job EXCEPT ![p] = [j EXCEPT !.at = "archive"]], [job EXCEPT ![p] = Failed(j)]}
            BY <2>5 DEF SaveFulfilled, SaveAs, SaveTaken
        <3> QED
            BY <1>1, <1>3, <2>1, <3>1, <3>2
    <2> QED
        BY <1>7, <2>2, <2>4, <2>5 DEF ImportStep
<1>8. CASE Deliver(p)
    <2>1. j.origin \in Origins /\ j.data \in Contents
        BY <1>8, JobTypes DEF Deliver, FindFolder, MakeFolder, Look, SetAside, Create, AnswerLost
    <2>2. ASSUME NEW place, NEW file,
                 job' = [job EXCEPT ![p] = [j EXCEPT !.at = "backup", !.seen[place] = file]]
          PROVE  KeepsCommand(j, job'[p])
        <3>1. PICK seen : job'[p] = [j EXCEPT !.at = "backup", !.seen = seen]
            BY <1>1, <2>2 DEF Jobs
        <3> QED
            BY <1>1, <3>1 DEF Jobs
    <2>3. CASE Look(p)
        BY <1>2, <1>3, <1>5, <2>1, <2>2, <2>3 DEF Look
    <2>4. CASE Create(p)
        <3>1. Fail(p) \/ job' = [job EXCEPT ![p] = Delivered(j)]
            BY <1>1, <2>4 DEF Create
        <3> QED
            BY <1>3, <1>5, <2>1, <3>1
    <2>5. CASE FindFolder(p) \/ MakeFolder(p) \/ SetAside(p) \/ AnswerLost(p)
        BY <1>2, <1>3, <2>1, <2>5 DEF FindFolder, MakeFolder, SetAside, AnswerLost
    <2> QED
        BY <1>8, <2>3, <2>4, <2>5 DEF Deliver
<1>9. CASE Fault(p) \/ Stop(p)
    <2>1. Fault(p) => j.origin \in Origins
        BY JobTypes DEF Fault
    <2> QED
        BY <1>1, <1>3, <1>9, <2>1 DEF Fault, Stop
<1> QED
    BY <1>6, <1>7, <1>8, <1>9

(* What a process changes excuses the others: what they know may be old.   *)
LEMMA StepsDisturb ==
    ASSUME TypeOK, NEW p \in Procs, NEW q \in Procs \ {p},
           Command(p) \/ SyncStep(p) \/ ImportStep(p) \/ Deliver(p) \/ Fault(p) \/ Stop(p)
    PROVE  \/ excused'[q] = Origins
           \/ UNCHANGED <<kind, kobo, tree, local>> /\ excused'[q] = excused[q]
<1>1. excused \in [Procs -> SUBSET Origins]
    BY DEF TypeOK
<1>2. CASE Command(p)
    BY <1>1, <1>2 DEF Command, StartSync, StartImport, StartGet, StartRequest, StartSend, Start, Begin, disk
<1>3. CASE SyncStep(p)
    BY <1>1, <1>3 DEF SyncStep, ListFiles, ReadFile, Plan, DryRun, LookLocal, Keep, Verify,
                SaveAs, SaveTaken, Disturb, disk
<1>4. CASE ImportStep(p)
    BY <1>1, <1>4 DEF ImportStep, SaveImport, SaveDownload, SaveFulfilled, Fulfil, Archive, ReadBack,
                SaveAs, SaveTaken, Disturb, disk
<1>5. CASE Deliver(p)
    BY <1>1, <1>5 DEF Deliver, FindFolder, MakeFolder, Look, SetAside, Create, AnswerLost, Disturb, disk
<1>6. CASE Fault(p) \/ Stop(p)
    BY <1>1, <1>6 DEF Fault, Stop, disk
<1> QED
    BY <1>2, <1>3, <1>4, <1>5, <1>6

LEMMA StepKnows ==
    ASSUME TypeOK, NEW p \in Procs, SyncHolds(p),
           Command(p) \/ SyncStep(p) \/ ImportStep(p) \/ Deliver(p) \/ Fault(p) \/ Stop(p)
    PROVE  SyncHolds(p)'
<1>1. CASE Command(p)
    BY <1>1, StartKnows
<1>2. CASE ~IsSync(p) /\ ~Command(p)
    <2>1. job'[p] = Idle \/ KeepsCommand(job[p], job'[p])
        BY <1>2, CommandStays
    <2> QED
        BY <1>2, <2>1, IdleKnows DEF IsSync, SyncHolds, KeepsCommand
<1>3. CASE IsSync(p) /\ Stop(p)
    <2>1. job'[p] = Idle
        BY <1>3, JobTypes DEF Stop
    <2> QED
        BY <2>1, IdleKnows
<1>4. CASE IsSync(p) /\ ImportStep(p)
    <2>1. Syncs(job[p])
        BY <1>4 DEF SyncHolds
    <2> QED
        BY <1>4, <2>1 DEF Syncs, Working, ImportStep, SaveImport, SaveDownload, SaveFulfilled,
                          Fulfil, Archive, ReadBack
<1>5. CASE IsSync(p) /\ (SyncStep(p) \/ Deliver(p) \/ Fault(p))
    BY <1>5, ListFilesKnows, ReadFileKnows, PlanKnows, DryRunKnows, LookLocalKnows, KeepKnows,
       FindFolderKnows, MakeFolderKnows, LookKnows, SetAsideKnows, CreateKnows, AnswerLostKnows,
       FaultKnows
    DEF SyncStep, Deliver
<1> QED
    BY <1>1, <1>2, <1>3, <1>4, <1>5

(* What a run knows stays true, or it is excused. *)
LEMMA SyncInductive == Spec => [](TypeOK /\ SyncInv)
<1>1. Init => TypeOK /\ SyncInv
    <2> SUFFICES ASSUME Init, NEW p \in Procs
                 PROVE  SyncHolds(p)
        BY InitTypes DEF SyncInv
    <2>1. job[p].command = None
        BY DEF Init, Idle
    <2>2. None \notin SyncCommands
        BY DeliveryAssumption DEF SyncCommands
    <2> QED
        BY <2>1, <2>2 DEF SyncHolds, IsSync
<1>2. TypeOK /\ SyncInv /\ [Next]_vars => (TypeOK /\ SyncInv)'
    <2> SUFFICES ASSUME TypeOK, SyncInv, [Next]_vars, NEW q \in Procs
                 PROVE  SyncHolds(q)'
        BY NextTypes DEF SyncInv
    <2>1. ASSUME job'[q] = job[q],
                 excused'[q] = Origins \/ (UNCHANGED <<kind, kobo, tree, local>> /\ excused'[q] = excused[q])
          PROVE  SyncHolds(q)'
        BY <2>1 DEF SyncInv, SyncHolds, IsSync, Knows
    <2>2. ASSUME NEW p \in Procs,
                 Command(p) \/ SyncStep(p) \/ ImportStep(p) \/ Deliver(p) \/ Fault(p) \/ Stop(p)
          PROVE  SyncHolds(q)'
        <3>1. CASE p = q
            BY <2>2, <3>1, StepKnows DEF SyncInv
        <3>2. CASE p # q
            <4>1. job'[q] = job[q]
                BY <2>2, <3>2, StepTypes, MovedKeeps
            <4> QED
                BY <2>1, <2>2, <3>2, <4>1, StepsDisturb
        <3> QED
            BY <3>1, <3>2
    <2>3. CASE Owner
        BY <2>1, <2>3 DEF Owner
    <2>4. CASE UNCHANGED vars
        BY <2>1, <2>4 DEF vars, disk
    <2> QED
        BY <2>2, <2>3, <2>4 DEF Next
<1> QED
    BY <1>1, <1>2, PTL DEF Spec

-----------------------------------------------------------------------------
(* Which steps put a file at a place for books. *)
LEMMA OnlyCreatesPut ==
    ASSUME TypeOK, NEW p \in Procs, NEW path \in Paths,
           Command(p) \/ SyncStep(p) \/ ImportStep(p) \/ Deliver(p) \/ Fault(p) \/ Stop(p),
           tree'[path] # tree[path], tree'[path] \in Contents
    PROVE  job[p].at = "create" /\ path = Target(job[p])
<1>1. tree \in [Places -> Entries] /\ path \in Places /\ path \notin Folders /\ None \notin Contents
    BY TreeTypes, DeliveryAssumption, KoboAssumption DEF TypeOK, Places
<1>2. MakeFolder(p) \/ SetAside(p) \/ Create(p) \/ AnswerLost(p)
    BY StepsLookOn
<1>3. FolderOf[Target(job[p])] \in Folders
    BY <1>2, JobTypes, PreparedTypes DEF MakeFolder, SetAside, Create, AnswerLost
<1>4. ~MakeFolder(p)
    BY <1>1, <1>3 DEF MakeFolder
<1>5. ~SetAside(p)
    BY <1>1 DEF SetAside
<1>6. CASE Create(p)
    BY <1>1, <1>6 DEF Create
<1>7. CASE AnswerLost(p)
    BY <1>1, <1>7 DEF AnswerLost
<1> QED
    BY <1>2, <1>4, <1>5, <1>6, <1>7

(* A sync never puts a second copy of a book on the reader, whatever other *)
(* processes, failures, crashes and lost answers left there before: what   *)
(* the inventory shows is what is there, but for what the run knows it     *)
(* sent itself.                                                            *)
THEOREM NeverTwice == Spec => NoSecondCopy
<1> DEFINE Puts(p, path) ==
        /\ IsSync(p) /\ job'[p] # job[p] /\ excused[p] # Origins
        /\ tree'[path] # tree[path] /\ tree'[path] \in Contents
<1>1. TypeOK /\ SyncInv /\ [Next]_vars =>
        [\A p \in Procs, path \in Paths :
            /\ IsSync(p) /\ job'[p] # job[p] /\ excused[p] # Origins
            /\ tree'[path] # tree[path] /\ tree'[path] \in Contents
            => \A place \in Places \ {path} : ~Recognized(tree[place], job[p].data)]_vars
    <2> SUFFICES ASSUME TypeOK, SyncInv, [Next]_vars,
                        NEW p \in Procs, NEW path \in Paths, Puts(p, path),
                        NEW place \in Places \ {path}, Recognized(tree[place], job[p].data)
                 PROVE  FALSE
        OBVIOUS
    <2> DEFINE j == job[p]
    <2>1. PICK q \in Procs :
            Command(q) \/ SyncStep(q) \/ ImportStep(q) \/ Deliver(q) \/ Fault(q) \/ Stop(q)
        BY DEF Next, Owner, vars
    <2>2. q = p
        BY <2>1, StepTypes, MovedKeeps
    <2>3. j.at = "create" /\ path = Target(j)
        BY <2>1, <2>2, OnlyCreatesPut
    <2>4. Knows(j)
        BY DEF SyncInv, SyncHolds
    <2>5. Explained(j, tree, place) /\ Matching(j) = {} /\ Twins(j) = {}
        BY <2>3, <2>4 DEF Knows, SeenAs, DecidedOn, Working
    <2>6. CASE tree[place] = j.seen[place]
        BY <2>5, <2>6 DEF Recognized, Matching
    <2>7. CASE tree[place] = Directory
        BY <2>7, DeliveryAssumption DEF Recognized, IsCopy
    <2>8. CASE \E x \in j.planned : x.path = place /\ tree[place] = DeviceCopy[x.data]
        BY <2>5, <2>8 DEF Recognized, SameBook, Twins
    <2> QED
        BY <2>5, <2>6, <2>7, <2>8 DEF Explained
<1> QED
    BY <1>1, SyncInductive, PTL DEF Spec, NoSecondCopy

-----------------------------------------------------------------------------
(* Why a book fails. *)

(* What can be imported from a Kobo is: the encrypted file of a store book *)
(* and a copy of it by that book's keys, and any other file as it is.      *)
LEMMA ImportableIsImported ==
    ASSUME kobo \in Mounts, NEW id \in Ids, Importable(kobo, id)
    PROVE  Import(kobo, id) # None
<1> DEFINE file == kobo[id]
           volume == IF id \in Store THEN id ELSE Named[file]
<1>1. /\ kobo \in [Ids -> Contents \union {None}] /\ file \in Contents
      /\ id \in Store => Named[file] = id
      /\ \A v \in Keyed : v \in Ids /\ v # None /\ (kobo[v] # None => kobo[v] \notin Readable)
      /\ Readable \subseteq Contents /\ None \notin Contents
    BY KoboAssumption DEF Importable, Mounts
<1>2. Volume(kobo, id) = IF volume \in Keyed /\ kobo[volume] = file THEN volume ELSE None
    BY DEF Volume
<1>3. CASE file \in Readable
    <2>1. Volume(kobo, id) = None
        BY <1>1, <1>2, <1>3
    <2> QED
        BY <1>1, <1>3, <2>1 DEF Import, Importable
<1>4. CASE /\ HasSerial /\ Plain[file] \in Readable
           /\ \E v \in Keyed : kobo[v] = file /\ Named[file] = v
    <2>1. volume = Named[file] /\ volume \in Keyed /\ kobo[volume] = file
        BY <1>1, <1>4
    <2>2. Volume(kobo, id) = Named[file] /\ Volume(kobo, id) # None
        BY <1>1, <1>2, <2>1
    <2>3. Decrypt(Volume(kobo, id), file) = Plain[file]
        BY <1>4, <2>2 DEF Decrypt
    <2> QED
        BY <1>1, <1>4, <2>2, <2>3 DEF Import, Importable
<1> QED
    BY <1>3, <1>4 DEF Importable

FailsNow(p, o) == job[p].rows[o] # "Failed" /\ job'[p].rows[o] = "Failed"

(* A book fails when the step about it says so. *)
LEMMA FailureIs ==
    ASSUME TypeOK, NEW p \in Procs, NEW o \in Origins, FailsNow(p, o)
    PROVE  /\ ~Silent(p)
           /\ \A status : Reports(p, status) \/ Decided(p, status) =>
                status = "Failed" /\ o = job[p].origin
<1>1. job[p] \in Jobs /\ job[p].rows \in [Origins -> Statuses \union {None}]
    BY JobTypes DEF Jobs
<1>2. "Failed" \in Statuses /\ None \notin Statuses
    BY DeliveryAssumption DEF Statuses
<1>3. ~Silent(p)
    BY <1>2 DEF Silent, FailsNow, NoRows
<1>4. ASSUME NEW status, job'[p].rows = [job[p].rows EXCEPT ![job[p].origin] = status]
      PROVE  status = "Failed" /\ o = job[p].origin
    BY <1>1, <1>4 DEF FailsNow
<1> QED
    BY <1>3, <1>4 DEF Reports, Decided

(* The reasons, of the book in hand. *)
LEMMA ReasonIs ==
    ASSUME NEW p \in Procs, NEW o, job[p].data = Import(kobo, o), job[p].data \in Contents,
           \/ kind = "Reader" /\ DeviceCopy[job[p].data] \notin Shown
           \/ local[o] \notin {None, job[p].data}
           \/ tree[FolderOf[Target(job[p])]] \in Contents
           \/ /\ tree[Target(job[p])] # None
              /\ ~Recognized(tree[Target(job[p])], job[p].data)
    PROVE  Conflict(p, o)
<1>1. Target(job[p]) = PathOf[Import(kobo, o)] /\ Import(kobo, o) # None
    BY KoboAssumption DEF Target, Prepared
<1> QED
    BY <1>1 DEF Conflict

(* The book in hand, and what an undisturbed run knows about it. *)
LEMMA InHand ==
    ASSUME TypeOK, NEW p \in Procs, IsSync(p), SyncHolds(p), NEW o \in Ids, o \notin excused[p]
    PROVE  /\ Knows(job[p]) /\ o \in Origins
           /\ job[p].at \in Working \ {"plan"} =>
                /\ job[p].data \in Contents /\ job[p].data = Import(kobo, job[p].origin)
                /\ Target(job[p]) \in Paths /\ Target(job[p]) \in Places \ Folders
                /\ Matching(job[p]) = {} /\ \A x \in job[p].planned : x.path # Target(job[p])
                /\ \A place \in Places : job[p].at # "create" => Explained(job[p], tree, place)
<1>1. o \in Origins /\ Knows(job[p])
    BY DeliveryAssumption DEF SyncHolds
<1>2. job[p].at \in Working \ {"plan"} => job[p].data \in Contents /\ job[p] \in Jobs
    BY JobTypes DEF Working
<1> QED
    BY <1>1, <1>2, PreparedTypes, DeliveryAssumption DEF Knows, DecidedOn, SeenAs, Working

LEMMA SyncFails ==
    ASSUME TypeOK, NEW p \in Procs, IsSync(p), SyncHolds(p), NEW o \in Ids, FailsNow(p, o),
           o \notin excused'[p], DryRun(p) \/ LookLocal(p) \/ Keep(p) \/ Verify(p)
    PROVE  Conflict(p, o)
<1> DEFINE j == job[p]
<1>1. /\ j \in Jobs /\ job \in [Procs -> Jobs] /\ j.origin \in Origins
      /\ j.at \in Working \ {"plan"}
    BY JobTypes DEF DryRun, LookLocal, Keep, Verify, Working
<1>2. excused'[p] = excused[p]
    BY DEF DryRun, LookLocal, Keep, Verify, SaveAs, SaveTaken, Disturb
<1>3. Knows(j) /\ o \in Origins /\ j.data \in Contents /\ j.data = Import(kobo, j.origin)
    BY <1>1, <1>2, InHand
<1>4. ASSUME job' = [job EXCEPT ![p] = Failed(j)]
      PROVE  o = j.origin
    BY <1>1, <1>3, <1>4, FailReports, FailureIs
<1>5. \A at : ~Goto(p, at)
    BY <1>3, GotoSilent, FailureIs
<1>6. CASE DryRun(p)
    <2>1. CASE local[j.origin] \in {None, j.data}
        <3> DEFINE status == IF j.repair THEN "Repair" ELSE "Transfer"
        <3>1. status \in Statuses /\ status # "Failed"
            BY DEF Statuses
        <3>2. job'[p] = Proceed(Reported(Planned(j), status))
            BY <1>1, <1>6, <2>1 DEF DryRun
        <3> HIDE DEF status
        <3>3. Planned(j) \in Jobs /\ Planned(j).origin = j.origin /\ Planned(j).rows = j.rows
            BY <1>1, <1>3, PlannedTypes
        <3>4. /\ Reported(Planned(j), status) \in Jobs
              /\ Reported(Planned(j), status).rows = [j.rows EXCEPT ![j.origin] = status]
            BY <1>1, <3>1, <3>3, ReportedTypes
        <3>5. job'[p].rows = [j.rows EXCEPT ![j.origin] = status]
            BY <3>2, <3>4, ProceedTypes
        <3>6. j.rows \in [Origins -> Statuses \union {None}]
            BY <1>1 DEF Jobs
        <3> QED
            BY <1>3, <3>1, <3>5, <3>6 DEF FailsNow
    <2>2. CASE local[j.origin] \notin {None, j.data} /\ Fail(p)
        <3>1. o = j.origin
            BY <1>4, <2>2, FailIs
        <3> QED
            BY <1>3, <2>2, <3>1, ReasonIs
    <2> QED
        BY <1>6, <2>1, <2>2 DEF DryRun
<1>7. CASE LookLocal(p)
    <2>1. local[j.origin] \notin {None, j.data} /\ Fail(p)
        BY <1>5, <1>7 DEF LookLocal
    <2>2. o = j.origin
        BY <1>4, <2>1, FailIs
    <2> QED
        BY <1>3, <2>1, <2>2, ReasonIs
<1>8. ~Verify(p)
    BY <1>3, <1>5 DEF Verify, Knows, ReadyFor
<1>9. ~Keep(p)
    <2> SUFFICES ASSUME Keep(p)
                 PROVE  FALSE
        OBVIOUS
    <2>1. local[j.origin] = None
        BY <1>3 DEF Keep, Knows, ReadyFor
    <2>2. job' = [job EXCEPT ![p] = [j EXCEPT !.at = "verify"]]
        BY <2>1 DEF Keep, SaveAs, SaveTaken
    <2>3. Goto(p, "verify")
        BY <1>1, <2>2 DEF Goto
    <2> QED
        BY <1>5, <2>3
<1> QED
    BY <1>6, <1>7, <1>8, <1>9

LEMMA DeliverFails ==
    ASSUME TypeOK, NEW p \in Procs, IsSync(p), SyncHolds(p), NEW o \in Ids, FailsNow(p, o),
           o \notin excused'[p], Deliver(p)
    PROVE  Conflict(p, o)
<1> DEFINE j == job[p]
           file == tree[Target(j)]
<1>1. /\ j \in Jobs /\ job \in [Procs -> Jobs] /\ j.origin \in Origins
      /\ j.at \in Working \ {"plan"}
    BY JobTypes DEF Deliver, FindFolder, MakeFolder, Look, SetAside, Create, AnswerLost, Working
<1>2. ~AnswerLost(p) /\ excused'[p] = excused[p]
    <2>1. o \in Origins
        BY DeliveryAssumption
    <2> QED
        BY <2>1 DEF Deliver, FindFolder, MakeFolder, Look, SetAside, Create, AnswerLost, Disturb
<1>3. /\ Knows(j) /\ o \in Origins /\ j.data \in Contents /\ j.data = Import(kobo, j.origin)
      /\ Matching(j) = {} /\ \A x \in j.planned : x.path # Target(j)
      /\ Target(j) \in Places \ Folders
      /\ j.at # "create" => Explained(j, tree, Target(j))
    BY <1>1, <1>2, InHand
<1>4. Fail(p) => o = j.origin
    BY <1>1, <1>3, FailIs, FailReports, FailureIs
<1>5. \A at : ~Goto(p, at)
    BY <1>3, GotoSilent, FailureIs
<1>6. job' # [job EXCEPT ![p] = Delivered(j)]
    BY <1>1, <1>3, DeliveredReports, FailureIs
<1>7. j.at # "create" => file = j.seen[Target(j)]
    BY <1>3 DEF Explained
<1>8. CASE FindFolder(p)
    <2>1. tree[FolderOf[Target(j)]] \in Contents /\ Fail(p)
        BY <1>5, <1>8 DEF FindFolder
    <2> QED
        BY <1>3, <1>4, <2>1, ReasonIs
<1>9. ~MakeFolder(p)
    BY <1>3, <1>5 DEF MakeFolder, Knows, ReadyFor
<1>10. CASE Look(p)
    <2>1. CASE kind = "Reader" /\ DeviceCopy[j.data] \notin Shown
        <3>1. Fail(p)
            BY <1>10, <2>1 DEF Look, Prepared
        <3> QED
            BY <1>3, <1>4, <2>1, <3>1, ReasonIs
    <2>2. CASE ~(kind = "Reader" /\ DeviceCopy[j.data] \notin Shown)
        <3>1. file \notin {None, DeviceCopy[j.data]}
            BY <1>5, <1>6, <1>10, <2>2 DEF Look, Prepared
        <3>2. kind = "Reader" /\ j.command.repair /\ <<file, DeviceCopy[j.data]>> \in Begins
            BY <1>3, <1>7, <1>10, <3>1 DEF Look, Knows, DecidedOn, Working
        <3>3. job' = [job EXCEPT ![p] = [j EXCEPT !.at = "backup", !.seen[Target(j)] = file]]
            BY <1>10, <2>2, <3>1, <3>2 DEF Look, Prepared
        <3> DEFINE seen == [j.seen EXCEPT ![Target(j)] = file]
        <3>4. job'[p] = [j EXCEPT !.at = "backup", !.seen = seen]
            BY <1>1, <3>3 DEF Jobs
        <3> HIDE DEF seen
        <3>5. Silent(p)
            BY <1>1, <3>4 DEF Silent, Jobs
        <3> QED
            BY <1>3, <3>5, FailureIs
    <2> QED
        BY <2>1, <2>2
<1>11. CASE SetAside(p)
    <2>1. Fail(p)
        BY <1>5, <1>11 DEF SetAside
    <2>2. file = j.seen[Target(j)] /\ file \in Contents
        BY <1>7, <1>11, JobTypes DEF SetAside
    <2>3. file # None /\ ~Recognized(file, j.data)
        BY <1>3, <2>2, KoboAssumption DEF Recognized, Matching
    <2> QED
        BY <1>3, <1>4, <2>1, <2>3, ReasonIs
<1>12. ~Create(p)
    <2> SUFFICES ASSUME Create(p)
                 PROVE  FALSE
        OBVIOUS
    <2>1. tree[Target(j)] = None /\ tree[FolderOf[Target(j)]] = Directory
        BY <1>3 DEF Create, Knows, ReadyFor
    <2>2. job' = [job EXCEPT ![p] = Delivered(j)]
        BY <1>1, <2>1 DEF Create
    <2> QED
        BY <1>6, <2>2
<1> QED
    BY <1>2, <1>8, <1>9, <1>10, <1>11, <1>12 DEF Deliver

LEMMA PlanFails ==
    ASSUME TypeOK, NEW p \in Procs, IsSync(p), SyncHolds(p), NEW o \in Ids, FailsNow(p, o),
           o \notin excused'[p], Plan(p)
    PROVE  Conflict(p, o)
<1> DEFINE j == Considered(p)
           data == Import(kobo, o)
           path == PathOf[data]
<1>1. /\ excused'[p] = excused[p] /\ job[p].at = "plan" /\ kobo \in Mounts
      /\ None \notin Contents /\ Shown \subseteq Contents
    BY DeliveryAssumption, KoboAssumption DEF Plan, TypeOK
<1>2. o \in Origins /\ SeenAs(job[p], tree)
    BY <1>1, InHand DEF Knows
<1>3. PICK status : Decided(p, status)
    BY <1>2, PlanReports, FailureIs
<1>4. o = job[p].origin /\ "Failed" \in Decide(j)
    BY <1>2, <1>3, FailureIs DEF Decided
<1>5. /\ j \in Jobs /\ j.data = data /\ j.data \in Contents \union {None}
      /\ j.planned = job[p].planned /\ j.seen = job[p].seen
    BY <1>1, <1>4, ConsideredTypes DEF Jobs
<1>6. \A place \in Places : Explained(j, tree, place)
    BY <1>1, <1>2, <1>5 DEF SeenAs, Explained, Working
<1> HIDE DEF j
<1>7. CASE data = None
    BY <1>1, <1>7, ImportableIsImported DEF Conflict
<1>8. CASE data # None /\ Matching(j) # {}
    <2>1. PICK place \in Matching(j) : ~IsCopy(tree[place], data)
        BY <1>4, <1>5, <1>8 DEF Decide
    <2>2. place \in Places /\ j.seen[place] \in Contents /\ IsCopy(j.seen[place], data)
        BY <1>1, <1>5, <2>1 DEF Matching
    <2>3. \E x \in job[p].planned : x.path = place
        BY <1>1, <1>5, <1>6, <2>1, <2>2 DEF Explained
    <2> QED
        BY <1>8, <2>2, <2>3, <1>5 DEF Conflict
<1>9. CASE data # None /\ Matching(j) = {}
    <2>1. Twins(j) = {}
        BY <1>4, <1>5, <1>9 DEF Decide
    <2>2. \/ j.seen[FolderOf[Target(j)]] \in Contents
          \/ \E x \in j.planned : x.path = Target(j)
          \/ j.seen[Target(j)] # None
        BY <1>4, <1>5, <1>9, <2>1 DEF Decide
    <2>3. /\ path = Target(j) /\ path \in Paths /\ path \in Places /\ path \notin Folders
          /\ FolderOf[path] \in Folders /\ FolderOf[path] \in Places
        BY <1>5, <1>9, PreparedTypes, DeliveryAssumption DEF Target, Prepared
    <2>4. CASE \E x \in j.planned : x.path = Target(j)
        BY <1>5, <1>9, <2>1, <2>3, <2>4 DEF Conflict, Twins
    <2>5. CASE j.seen[FolderOf[Target(j)]] \in Contents
        <3>1. \A x \in j.planned : x.path \notin Folders
            BY <1>5, DeliveryAssumption DEF Jobs
        <3>2. tree[FolderOf[path]] \in Contents
            BY <1>1, <1>6, <2>3, <2>5, <3>1 DEF Explained
        <3> QED
            BY <1>9, <3>2 DEF Conflict
    <2>6. CASE j.seen[Target(j)] # None /\ ~\E x \in j.planned : x.path = Target(j)
        <3>1. tree[path] = j.seen[path]
            BY <1>6, <2>3, <2>6 DEF Explained
        <3>2. tree[path] # None /\ ~Recognized(tree[path], data)
            BY <1>5, <1>9, <2>3, <2>6, <3>1 DEF Recognized, Matching
        <3> QED
            BY <1>9, <3>2 DEF Conflict
    <2> QED
        BY <2>2, <2>4, <2>5, <2>6
<1> QED
    BY <1>7, <1>8, <1>9

(* Running sync again recovers from whatever happened before: a book fails *)
(* only where the conflict is there to be seen, and never because of what  *)
(* an earlier run, a crash, a lost answer, the failure of another book or  *)
(* another process left behind.                                            *)
THEOREM NoOtherFailures == Spec => FailuresHaveReasons
<1>1. TypeOK /\ SyncInv /\ [Next]_vars =>
        [\A p \in Procs, o \in Ids :
            /\ IsSync(p) /\ o \notin excused'[p]
            /\ job[p].rows[o] # "Failed" /\ job'[p].rows[o] = "Failed"
            => Conflict(p, o)]_vars
    <2> SUFFICES ASSUME TypeOK, SyncInv, [Next]_vars,
                        NEW p \in Procs, NEW o \in Ids, IsSync(p), o \notin excused'[p],
                        FailsNow(p, o)
                 PROVE  Conflict(p, o)
        BY DEF FailsNow
    <2>1. job'[p] # job[p] /\ o \in Origins /\ SyncHolds(p)
        BY DeliveryAssumption DEF FailsNow, SyncInv
    <2>2. PICK q \in Procs :
            Command(q) \/ SyncStep(q) \/ ImportStep(q) \/ Deliver(q) \/ Fault(q) \/ Stop(q)
        BY <2>1 DEF Next, Owner, vars
    <2>3. q = p
        BY <2>1, <2>2, StepTypes, MovedKeeps
    <2>4. ~Command(p) /\ ~Stop(p)
        <3>1. Command(p) \/ Stop(p) => job'[p].rows = NoRows
            <4>1. Stop(p) => job'[p] = Idle
                BY JobTypes DEF Stop
            <4>2. Idle.rows = NoRows
                BY DEF Idle
            <4> QED
                BY <4>1, <4>2, CommandReports
        <3> QED
            BY <2>1, <3>1, FailureIs DEF Silent
    <2>5. ~ImportStep(p)
        <3>1. Syncs(job[p])
            BY <2>1 DEF SyncHolds
        <3> QED
            BY <3>1 DEF Syncs, Working, ImportStep, SaveImport, SaveDownload, SaveFulfilled,
                        Fulfil, Archive, ReadBack
    <2>6. ~Fault(p)
        <3> SUFFICES ASSUME Fault(p)
                     PROVE  FALSE
            OBVIOUS
        <3>1. job[p].origin \in Origins /\ excused \in [Procs -> SUBSET Origins]
            BY JobTypes DEF Fault, Around
        <3>2. o = job[p].origin
            BY <2>1, <3>1, FailIs, FailReports, FailureIs DEF Fault
        <3> QED
            BY <2>1, <3>1, <3>2 DEF Fault
    <2>7. ~ListFiles(p) /\ ~ReadFile(p)
        <3>1. ListFiles(p) \/ ReadFile(p) => Silent(p)
            BY ScanSilent
        <3> QED
            BY <2>1, <3>1, FailureIs
    <2> QED
        BY <2>1, <2>2, <2>3, <2>4, <2>5, <2>6, <2>7, PlanFails, SyncFails, DeliverFails DEF SyncStep
<1> QED
    BY <1>1, SyncInductive, PTL DEF Spec, FailuresHaveReasons

-----------------------------------------------------------------------------
(* What a dry run foretells.  The rows of a run follow from its inventory  *)
(* and from the rows of the books before, by title: a dry run that nobody  *)
(* disturbed wrote its rows so, and an apply run after it comes by its own *)
(* in the same way.                                                        *)

(* The books that come before one, what is remembered of those of them     *)
(* that were sent or planned, and which rows say so.                       *)
Bringing == {"Transfer", "Repair", "Sent", "Repaired"}
Before(o) == {x \in Ids : ByTitle[x] < ByTitle[o]}
EntryOf(mount, o) == [data |-> Import(mount, o), path |-> PathOf[Import(mount, o)]]
Brings(mount, rows, ids) == {EntryOf(mount, x) : x \in {y \in ids : rows[y] \in Bringing}}

(* Something is in the way of a book, and may not be set aside. *)
Taken(on, seen, planned, repair, data) ==
    \/ seen[FolderOf[PathOf[data]]] \in Contents
    \/ \E x \in planned : x.path = PathOf[data]
    \/ /\ seen[PathOf[data]] # None
       /\ ~ (on = "Reader" /\ repair /\ <<seen[PathOf[data]], DeviceCopy[data]>> \in Begins)

Listed(seen, data) == \E place \in Places : seen[place] \in Shown /\ IsCopy(seen[place], data)
Twin(planned, data) == \E x \in planned : SameBook(x.data, data)

(* The row of a book in a dry run. *)
Verdict(on, file, seen, planned, repair, data) ==
    IF data = None THEN "Failed"
    ELSE IF Listed(seen, data) THEN "Present"
    ELSE IF Twin(planned, data) THEN "Duplicate"
    ELSE IF Taken(on, seen, planned, repair, data) \/ file \notin {None, data} THEN "Failed"
    ELSE IF seen[PathOf[data]] # None THEN "Repair" ELSE "Transfer"

Reasoned(mount, on, imports, seen, repair, rows) ==
    \A o \in Ids : rows[o] # None =>
        rows[o] = Verdict(on, imports[o], seen, Brings(mount, rows, Before(o)), repair, Import(mount, o))

(* The books a run has still to do. *)
Left(j) == IF j.at = "idle" THEN {} ELSE j.todo \union {j.origin}
Whole(j, mount) == Chosen(Books(mount), j.command)

(* How far a run has come: the books with a row are those that come before *)
(* the others, and what it planned or sent is what their rows say.         *)
Advances(j, mount, imports) ==
    /\ j.at \in {"scan", "read files"} =>
          j.todo = Whole(j, mount) /\ j.rows = NoRows /\ j.planned = {}
    /\ j.at \in Working \union {"idle"} =>
          /\ Left(j) \subseteq Whole(j, mount)
          /\ \A x \in Ids : j.rows[x] # None <=> x \in Whole(j, mount) \ Left(j)
          /\ \A x \in Whole(j, mount) \ Left(j), y \in Left(j) : ByTitle[x] < ByTitle[y]
          /\ j.planned = Brings(mount, j.rows, Ids)
    /\ j.at \in Working => \A x \in j.todo : ByTitle[j.origin] < ByTitle[x]
    /\ j.at \in Working \ {"plan"} => (j.repair <=> j.seen[Target(j)] # None)
    /\ j.at \in {"keep", "verify", "folder", "mkdir", "look", "backup", "create"} =>
          imports[j.origin] \in {None, j.data}

(* A dry run: its inventory is what is at the destination. *)
Rehearses(j, mount, on, imports, t) ==
    /\ j.at \in {"idle", "scan", "read files", "plan", "dry"}
    /\ j.at \in {"idle", "plan", "dry"} =>
          j.seen = t /\ Reasoned(mount, on, imports, j.seen, j.command.repair, j.rows)

(* An apply run: what was foretold follows from the inventory it goes by. *)
Inventory(j, t) == IF j.at \in {"scan", "read files"} THEN t ELSE j.seen
Foretells(j, mount, on, imports, t) ==
    /\ j.at # "dry"
    /\ j.foretold # NoRows =>
        /\ \A x \in Ids : j.foretold[x] # None <=> x \in Whole(j, mount)
        /\ Reasoned(mount, on, imports, Inventory(j, t), j.command.repair, j.foretold)

AsForetold(p) ==
    job[p].foretold # NoRows /\ (\A o \in Ids : ~Unforeseen(p, o)) =>
        \A o \in Ids : job[p].rows[o] # None => job[p].rows[o] = Foreseen(job[p].foretold[o])

Undisturbed(p) == excused[p] = {} /\ Origins # {}

Reckons(p) ==
    /\ Advances(job[p], kobo, local)
    /\ IF job[p].command.apply
       THEN Foretells(job[p], kobo, kind, local, tree) /\ AsForetold(p)
       ELSE Rehearses(job[p], kobo, kind, local, tree)

Foresees(p) ==
    /\ job[p].foretold # NoRows => Applies(p)
    /\ IsSync(p) /\ Undisturbed(p) => Reckons(p)

ForesightInv == \A p \in Procs : Foresees(p)

-----------------------------------------------------------------------------
(* A run is done with a book: its row is written, and the next is taken up. *)
Closes(j, k, status) ==
    /\ status \in Statuses
    /\ k.command = j.command /\ k.seen = j.seen /\ k.foretold = j.foretold
    /\ k.rows = [j.rows EXCEPT ![j.origin] = status]
    /\ \/ j.todo = {} /\ k.at = "idle"
       \/ /\ j.todo # {} /\ k.at = "plan"
          /\ k.origin = First(j.todo) /\ k.todo = j.todo \ {First(j.todo)}

Remembers(j, k, mount, status) ==
    k.planned = IF status \in Bringing THEN j.planned \union {EntryOf(mount, j.origin)} ELSE j.planned

LEMMA SomeStatuses ==
    /\ Bringing \subseteq Statuses /\ None \notin Bringing /\ None \notin Statuses
    /\ {"Failed", "Present", "Duplicate"} \subseteq Statuses
    /\ {"Failed", "Present", "Duplicate"} \intersect Bringing = {}
BY DeliveryAssumption DEF Bringing, Statuses

(* What a run remembers is what its rows say. *)
LEMMA BringsMore ==
    ASSUME NEW mount, NEW rows \in [Origins -> Statuses \union {None}], NEW o \in Ids,
           rows[o] = None, NEW status \in Statuses,
           NEW more, more = [rows EXCEPT ![o] = status]
    PROVE  /\ status \in Bringing =>
                Brings(mount, more, Ids) = Brings(mount, rows, Ids) \union {EntryOf(mount, o)}
           /\ status \notin Bringing => Brings(mount, more, Ids) = Brings(mount, rows, Ids)
           /\ \A ids : o \notin ids /\ ids \subseteq Ids => Brings(mount, more, ids) = Brings(mount, rows, ids)
<1>1. Ids \subseteq Origins /\ None \notin Bringing
    BY DeliveryAssumption, SomeStatuses
<1>2. more[o] = status /\ \A x \in Ids \ {o} : more[x] = rows[x]
    BY <1>1
<1>3. {y \in Ids : more[y] \in Bringing} =
        IF status \in Bringing THEN {y \in Ids : rows[y] \in Bringing} \union {o}
        ELSE {y \in Ids : rows[y] \in Bringing}
    BY <1>1, <1>2
<1>4. /\ status \in Bringing =>
            Brings(mount, more, Ids) = Brings(mount, rows, Ids) \union {EntryOf(mount, o)}
      /\ status \notin Bringing => Brings(mount, more, Ids) = Brings(mount, rows, Ids)
    BY <1>3 DEF Brings
<1>5. ASSUME NEW ids, o \notin ids, ids \subseteq Ids
      PROVE  Brings(mount, more, ids) = Brings(mount, rows, ids)
    <2>1. {y \in ids : more[y] \in Bringing} = {y \in ids : rows[y] \in Bringing}
        BY <1>2, <1>5
    <2> QED
        BY <2>1 DEF Brings
<1> QED
    BY <1>4, <1>5

(* The books with a row all come before the one in hand. *)
LEMMA DoneBefore ==
    ASSUME NEW j \in Jobs, NEW mount, NEW imports, j.at \in Working, Advances(j, mount, imports)
    PROVE  /\ j.origin \in Ids /\ j.origin \in Whole(j, mount) /\ j.rows[j.origin] = None
           /\ \A x \in Ids : j.rows[x] # None => x \in Before(j.origin)
           /\ \A x \in Before(j.origin) : x \in Whole(j, mount) => j.rows[x] # None
           /\ j.planned = Brings(mount, j.rows, Before(j.origin))
<1>1. /\ Left(j) = j.todo \union {j.origin} /\ Left(j) \subseteq Whole(j, mount)
      /\ \A x \in Ids : j.rows[x] # None <=> x \in Whole(j, mount) \ Left(j)
      /\ \A x \in Whole(j, mount) \ Left(j), y \in Left(j) : ByTitle[x] < ByTitle[y]
      /\ j.planned = Brings(mount, j.rows, Ids)
      /\ \A x \in j.todo : ByTitle[j.origin] < ByTitle[x]
    BY DEF Advances, Left, Working
<1>2. Whole(j, mount) \subseteq Ids
    BY KoboAssumption DEF Whole, Chosen, Books, FromStore, Sideloaded
<1>3. ByTitle \in [Ids -> Nat]
    BY KoboAssumption
<1>4. j.origin \in Ids /\ j.origin \in Whole(j, mount) /\ j.rows[j.origin] = None
    BY <1>1, <1>2
<1>5. \A x \in Ids : j.rows[x] # None => x \in Before(j.origin)
    BY <1>1 DEF Before
<1>6. ASSUME NEW x \in Before(j.origin), x \in Whole(j, mount)
      PROVE  j.rows[x] # None
    <2>1. x \in Ids /\ ByTitle[x] < ByTitle[j.origin]
        BY DEF Before
    <2>2. x # j.origin
        BY <1>3, <1>4, <2>1
    <2>3. x \notin j.todo
        <3> SUFFICES ASSUME x \in j.todo
                     PROVE  FALSE
            OBVIOUS
        <3>1. ByTitle[j.origin] < ByTitle[x]
            BY <1>1
        <3>2. ByTitle[j.origin] \in Nat /\ ByTitle[x] \in Nat
            BY <1>3, <1>4, <2>1
        <3> QED
            BY <2>1, <3>1, <3>2
    <2> QED
        BY <1>1, <1>6, <2>1, <2>2, <2>3
<1>7. {y \in Ids : j.rows[y] \in Bringing} = {y \in Before(j.origin) : j.rows[y] \in Bringing}
    BY <1>5, SomeStatuses DEF Before
<1>8. j.planned = Brings(mount, j.rows, Before(j.origin))
    BY <1>1, <1>7 DEF Brings
<1> QED
    BY <1>4, <1>5, <1>6, <1>8

(* A run that is done with a book has come one book further. *)
LEMMA ClosesAdvances ==
    ASSUME NEW j \in Jobs, NEW k, NEW mount, NEW imports, NEW later, NEW status,
           j.at \in Working, Advances(j, mount, imports), Closes(j, k, status),
           Remembers(j, k, mount, status)
    PROVE  Advances(k, mount, later)
<1> DEFINE books == Whole(j, mount)
<1>1. /\ Left(j) = j.todo \union {j.origin} /\ Left(j) \subseteq books
      /\ \A x \in Ids : j.rows[x] # None <=> x \in books \ Left(j)
      /\ \A x \in books \ Left(j), y \in Left(j) : ByTitle[x] < ByTitle[y]
      /\ j.planned = Brings(mount, j.rows, Ids)
      /\ \A x \in j.todo : ByTitle[j.origin] < ByTitle[x]
    BY DEF Advances, Left, Working
<1>2. Whole(k, mount) = books /\ books \subseteq Ids
    BY KoboAssumption DEF Whole, Chosen, Books, FromStore, Sideloaded, Closes
<1>3. /\ j.origin \in Ids /\ j.origin \in books /\ j.rows[j.origin] = None
    BY DoneBefore
<1>4. ByTitle \in [Ids -> Nat] /\ Ids \subseteq Origins /\ j.todo \in SUBSET Ids
      /\ j.rows \in [Origins -> Statuses \union {None}]
    BY KoboAssumption, DeliveryAssumption DEF Jobs
<1>5. j.origin \notin j.todo
    BY <1>1, <1>3, <1>4
<1>6. Left(k) = j.todo /\ k.at \in {"idle", "plan"}
    <2>1. CASE j.todo = {} /\ k.at = "idle"
        BY <2>1 DEF Left
    <2>2. CASE /\ j.todo # {} /\ k.at = "plan"
               /\ k.origin = First(j.todo) /\ k.todo = j.todo \ {First(j.todo)}
        <3>1. First(j.todo) \in j.todo
            BY <1>4, <2>2, FirstIsOne
        <3> QED
            BY <2>2, <3>1 DEF Left
    <2> QED
        BY <2>1, <2>2 DEF Closes
<1> HIDE DEF books
<1>7. ASSUME NEW x \in Ids
      PROVE  k.rows[x] # None <=> x \in books \ Left(k)
    <2>1. x # j.origin => k.rows[x] = j.rows[x]
        BY <1>4 DEF Closes
    <2>2. k.rows[j.origin] # None
        BY <1>3, <1>4, SomeStatuses DEF Closes
    <2> QED
        BY <1>1, <1>3, <1>5, <1>6, <2>1, <2>2
<1>8. ASSUME NEW x \in books \ Left(k), NEW y \in Left(k)
      PROVE  ByTitle[x] < ByTitle[y]
    BY <1>1, <1>6, <1>8
<1>9. k.planned = Brings(mount, k.rows, Ids)
    <2>1. /\ status \in Statuses /\ k.rows = [j.rows EXCEPT ![j.origin] = status]
        BY DEF Closes
    <2>2. /\ status \in Bringing =>
                Brings(mount, k.rows, Ids) = Brings(mount, j.rows, Ids) \union {EntryOf(mount, j.origin)}
          /\ status \notin Bringing => Brings(mount, k.rows, Ids) = Brings(mount, j.rows, Ids)
        BY <1>3, <1>4, <2>1, BringsMore
    <2> QED
        BY <1>1, <2>2 DEF Remembers
<1>10. k.at = "plan" => \A x \in k.todo : ByTitle[k.origin] < ByTitle[x]
    BY <1>4, FirstIsOne DEF Closes
<1> QED
    BY <1>1, <1>2, <1>6, <1>7, <1>8, <1>9, <1>10 DEF Advances, Working

(* The rows of a dry run stay reasoned when one is added that is. *)
LEMMA ClosesReasoned ==
    ASSUME NEW j \in Jobs, NEW k, NEW mount, NEW imports, NEW on, NEW seen, NEW repair, NEW status,
           j.at \in Working, Advances(j, mount, imports), Closes(j, k, status),
           Reasoned(mount, on, imports, seen, repair, j.rows),
           status = Verdict(on, imports[j.origin], seen, j.planned, repair, Import(mount, j.origin))
    PROVE  Reasoned(mount, on, imports, seen, repair, k.rows)
<1>1. /\ j.origin \in Ids /\ j.rows[j.origin] = None
      /\ \A x \in Ids : j.rows[x] # None => x \in Before(j.origin)
      /\ j.planned = Brings(mount, j.rows, Before(j.origin))
    BY DoneBefore
<1>2. ByTitle \in [Ids -> Nat] /\ Ids \subseteq Origins
      /\ j.rows \in [Origins -> Statuses \union {None}]
    BY KoboAssumption, DeliveryAssumption DEF Jobs
<1>3. status \in Statuses /\ k.rows = [j.rows EXCEPT ![j.origin] = status]
    BY DEF Closes
<1>4. k.rows[j.origin] = status /\ \A x \in Ids \ {j.origin} : k.rows[x] = j.rows[x]
    <2>1. j.origin \in Origins /\ DOMAIN j.rows = Origins
        BY <1>1, <1>2
    <2> QED
        BY <1>2, <1>3, <2>1
<1>5. ASSUME NEW x \in Ids, x \in Before(j.origin) \/ x = j.origin
      PROVE  Brings(mount, k.rows, Before(x)) = Brings(mount, j.rows, Before(x))
    <2>1. j.origin \notin Before(x) /\ Before(x) \subseteq Ids
        <3>1. ByTitle[x] \in Nat /\ ByTitle[j.origin] \in Nat /\ ByTitle[x] <= ByTitle[j.origin]
            BY <1>1, <1>2, <1>5 DEF Before
        <3> QED
            BY <3>1 DEF Before
    <2> QED
        BY <1>1, <1>2, <1>3, <2>1, BringsMore
<1>6. ASSUME NEW o \in Ids, k.rows[o] # None
      PROVE  k.rows[o] = Verdict(on, imports[o], seen, Brings(mount, k.rows, Before(o)), repair, Import(mount, o))
    <2>1. CASE o = j.origin
        BY <1>1, <1>4, <1>5, <2>1
    <2>2. CASE o # j.origin
        <3>1. k.rows[o] = j.rows[o] /\ o \in Before(j.origin)
            BY <1>1, <1>4, <1>6, <2>2
        <3>2. Brings(mount, k.rows, Before(o)) = Brings(mount, j.rows, Before(o))
            BY <1>5, <3>1
        <3> QED
            BY <1>6, <3>1, <3>2 DEF Reasoned
    <2> QED
        BY <2>1, <2>2
<1> QED
    BY <1>6 DEF Reasoned

LEMMA ForeseenBrings ==
    ASSUME NEW status
    PROVE  Foreseen(status) \in Bringing <=> status \in Bringing
<1>1. CASE status \in {"Transfer", "Repair"}
    BY <1>1 DEF Foreseen, Bringing
<1>2. CASE status \notin {"Transfer", "Repair"}
    <2>1. Foreseen(status) = status
        BY <1>2 DEF Foreseen
    <2> QED
        BY <2>1
<1> QED
    BY <1>1, <1>2

(* An apply run that did as foretold so far has planned what the dry run   *)
(* had: what was foretold of the book in hand follows from what it knows.  *)
LEMMA ForetoldIs ==
    ASSUME NEW j \in Jobs, NEW mount, NEW imports, NEW on, NEW t,
           j.at \in Working, Advances(j, mount, imports), Foretells(j, mount, on, imports, t),
           j.foretold # NoRows,
           \A x \in Ids : j.rows[x] # None => j.rows[x] = Foreseen(j.foretold[x])
    PROVE  j.foretold[j.origin] =
                Verdict(on, imports[j.origin], j.seen, j.planned, j.command.repair, Import(mount, j.origin))
<1>1. /\ j.origin \in Ids /\ j.origin \in Whole(j, mount)
      /\ \A x \in Ids : j.rows[x] # None => x \in Before(j.origin)
      /\ \A x \in Before(j.origin) : x \in Whole(j, mount) => j.rows[x] # None
      /\ j.planned = Brings(mount, j.rows, Before(j.origin))
    BY DoneBefore
<1>2. /\ \A x \in Ids : j.foretold[x] # None <=> x \in Whole(j, mount)
      /\ Reasoned(mount, on, imports, j.seen, j.command.repair, j.foretold)
    BY DEF Foretells, Inventory, Working
<1>3. ASSUME NEW x \in Before(j.origin)
      PROVE  j.rows[x] \in Bringing <=> j.foretold[x] \in Bringing
    <2>1. x \in Ids
        BY DEF Before
    <2>2. CASE j.rows[x] # None
        BY <2>1, <2>2, ForeseenBrings
    <2>3. CASE j.rows[x] = None
        <3>1. j.foretold[x] = None
            BY <1>1, <1>2, <2>1, <2>3
        <3> QED
            BY <2>3, <3>1
    <2> QED
        BY <2>2, <2>3
<1>4. {y \in Before(j.origin) : j.rows[y] \in Bringing} = {y \in Before(j.origin) : j.foretold[y] \in Bringing}
    BY <1>3
<1>5. Brings(mount, j.foretold, Before(j.origin)) = j.planned
    BY <1>1, <1>4 DEF Brings
<1> QED
    BY <1>1, <1>2, <1>5 DEF Reasoned

(* What is decided about a book, but for a match that is not there.        *)
LEMMA DecisionIs ==
    ASSUME NEW j \in Jobs, NEW status \in Decide(j), status # "Go",
           \A place \in Places : Explained(j, tree, place), tree \in [Places -> Entries]
    PROVE  \A file : \/ status = Verdict(kind, file, j.seen, j.planned, j.command.repair, j.data)
                     \/ /\ j.command.apply /\ status = "Failed" /\ j.data \in Contents
                        /\ Verdict(kind, file, j.seen, j.planned, j.command.repair, j.data) = "Present"
                        /\ \E x \in j.planned : IsCopy(j.seen[x.path], j.data)
<1> TAKE file
<1> DEFINE verdict == Verdict(kind, file, j.seen, j.planned, j.command.repair, j.data)
<1>1. j.data \in Contents \union {None}
    BY DEF Jobs
<1>2. CASE j.data = None
    BY <1>2 DEF Decide, Verdict
<1>3. CASE j.data # None /\ Matching(j) # {}
    <2>1. verdict = "Present"
        BY <1>3 DEF Verdict, Listed, Matching
    <2> HIDE DEF verdict
    <2>2. PICK place \in Matching(j) :
            status = IF j.command.apply /\ ~IsCopy(tree[place], j.data) THEN "Failed" ELSE "Present"
        BY <1>3 DEF Decide
    <2>3. place \in Places /\ j.seen[place] \in Shown /\ IsCopy(j.seen[place], j.data)
        BY DEF Matching
    <2>4. CASE j.command.apply /\ ~IsCopy(tree[place], j.data)
        <3>1. tree[place] # j.seen[place] /\ j.seen[place] # None
            BY <2>3, <2>4, DeliveryAssumption, KoboAssumption
        <3>2. \E x \in j.planned : x.path = place
            BY <2>3, <3>1 DEF Explained
        <3> QED
            BY <1>1, <1>3, <2>1, <2>2, <2>3, <2>4, <3>2 DEF verdict
    <2> QED
        BY <2>1, <2>2, <2>4 DEF verdict
<1>4. CASE j.data # None /\ Matching(j) = {} /\ Twins(j) # {}
    <2>1. status = "Duplicate"
        BY <1>4 DEF Decide
    <2>2. ~Listed(j.seen, j.data) /\ Twin(j.planned, j.data)
        BY <1>4 DEF Listed, Matching, Twin, Twins
    <2> QED
        BY <1>4, <2>1, <2>2 DEF Verdict
<1>5. CASE j.data # None /\ Matching(j) = {} /\ Twins(j) = {}
    <2> DEFINE path == Target(j)
    <2>1. status = "Failed"
        BY <1>5 DEF Decide
    <2>2. \/ j.seen[FolderOf[path]] \in Contents
          \/ \E x \in j.planned : x.path = path
          \/ j.seen[path] # None /\ ~Repairable(j)
        BY <1>5, <2>1 DEF Decide
    <2>3. path = PathOf[j.data] /\ path \in Paths /\ path \in Places /\ path \notin Folders
        BY <1>1, <1>5, PreparedTypes, DeliveryAssumption DEF Target, Prepared
    <2>4. ~Listed(j.seen, j.data) /\ ~Twin(j.planned, j.data)
        BY <1>5 DEF Listed, Matching, Twin, Twins
    <2>5. j.seen[path] # None => tree[path] = j.seen[path] \/ \E x \in j.planned : x.path = path
        BY <2>3 DEF Explained
    <2>6. Taken(kind, j.seen, j.planned, j.command.repair, j.data)
        BY <2>2, <2>3, <2>5 DEF Taken, Repairable
    <2> QED
        BY <1>5, <2>1, <2>4, <2>6 DEF Verdict
<1> QED
    BY <1>2, <1>3, <1>4, <1>5

(* What is to be done about a book that was decided on. *)
LEMMA InHandIs ==
    ASSUME NEW j \in Jobs, NEW mount, NEW on, NEW imports, NEW file, j.at \in Working \ {"plan"},
           j.data \in Contents, DecidedOn(j, mount, on), Advances(j, mount, imports)
    PROVE  /\ Import(mount, j.origin) = j.data
           /\ EntryOf(mount, j.origin) = [data |-> j.data, path |-> Target(j)]
           /\ Verdict(on, file, j.seen, j.planned, j.command.repair, j.data) =
                IF file \notin {None, j.data} THEN "Failed" ELSE IF j.repair THEN "Repair" ELSE "Transfer"
<1>1. /\ j.data = Import(mount, j.origin)
      /\ Matching(j) = {} /\ Twins(j) = {}
      /\ \A x \in j.planned : x.path # Target(j)
      /\ j.seen[FolderOf[Target(j)]] \notin Contents
      /\ j.seen[Target(j)] # None =>
           on = "Reader" /\ j.command.repair /\ <<j.seen[Target(j)], DeviceCopy[j.data]>> \in Begins
    BY DEF DecidedOn
<1>2. Target(j) = PathOf[j.data] /\ j.data # None
    BY KoboAssumption DEF Target, Prepared
<1>3. ~Listed(j.seen, j.data) /\ ~Twin(j.planned, j.data)
    BY <1>1 DEF Listed, Matching, Twin, Twins
<1>4. ~Taken(on, j.seen, j.planned, j.command.repair, j.data)
    BY <1>1, <1>2 DEF Taken
<1>5. j.repair <=> j.seen[PathOf[j.data]] # None
    BY <1>2 DEF Advances
<1>6. EntryOf(mount, j.origin) = [data |-> j.data, path |-> Target(j)]
    BY <1>1, <1>2 DEF EntryOf
<1>7. Verdict(on, file, j.seen, j.planned, j.command.repair, j.data) =
        IF file \notin {None, j.data} THEN "Failed" ELSE IF j.repair THEN "Repair" ELSE "Transfer"
    BY <1>2, <1>3, <1>4, <1>5 DEF Verdict
<1> QED
    BY <1>1, <1>6, <1>7

(* What a run met that a dry run does not look at stays met. *)
LEMMA UnforeseenStays ==
    ASSUME NEW p \in Procs, NEW o \in Ids, kind' = kind, kobo' = kobo, aside \subseteq aside',
           job'[p].rows[o] = job[p].rows[o], job'[p].foretold = job[p].foretold,
           job'[p].seen = job[p].seen, job[p].planned \subseteq job'[p].planned,
           Unforeseen(p, o)
    PROVE  Unforeseen(p, o)'
<1> DEFINE data == Import(kobo, o)
           said == job[p].foretold[o]
<1>1. job[p].rows[o] = "Failed" /\ data # None
    BY DEF Unforeseen
<1>2. job'[p].rows[o] = "Failed" /\ job'[p].foretold[o] = said /\ Import(kobo', o) = data
    BY <1>1
<1> HIDE DEF data, said
<1>3. CASE said = "Present"
    <2>1. \E x \in job[p].planned : IsCopy(job[p].seen[x.path], data)
        BY <1>3 DEF Unforeseen, data, said
    <2>2. \E x \in job'[p].planned : IsCopy(job'[p].seen[x.path], data)
        BY <2>1
    <2> QED
        BY <1>1, <1>2, <1>3, <2>2 DEF Unforeseen
<1>4. CASE said = "Transfer"
    <2>1. kind' = "Reader" /\ DeviceCopy[data] \notin Shown
        BY <1>4 DEF Unforeseen, data, said
    <2> QED
        BY <1>1, <1>2, <1>4, <2>1 DEF Unforeseen
<1>5. CASE said = "Repair"
    <2>1. DeviceCopy[data] \notin Shown \/ \E x \in aside : x.name.data = data
        BY <1>5 DEF Unforeseen, data, said
    <2>2. DeviceCopy[data] \notin Shown \/ \E x \in aside' : x.name.data = data
        BY <2>1
    <2> QED
        BY <1>1, <1>2, <1>5, <2>2 DEF Unforeseen
<1>6. said \in {"Present", "Transfer", "Repair"}
    BY DEF Unforeseen, data, said
<1> QED
    BY <1>3, <1>4, <1>5, <1>6

(* A file of the import folder only matters where it is another's. *)
LEMMA ReasonedKeeps ==
    ASSUME NEW mount, NEW on, NEW imports, NEW later, NEW seen, NEW repair, NEW rows,
           Reasoned(mount, on, imports, seen, repair, rows),
           \A o \in Ids : later[o] \in {None, Import(mount, o)} <=> imports[o] \in {None, Import(mount, o)}
    PROVE  Reasoned(mount, on, later, seen, repair, rows)
<1>1. ASSUME NEW o \in Ids, rows[o] # None
      PROVE  rows[o] = Verdict(on, later[o], seen, Brings(mount, rows, Before(o)), repair, Import(mount, o))
    <2> DEFINE data == Import(mount, o)
               planned == Brings(mount, rows, Before(o))
    <2>1. rows[o] = Verdict(on, imports[o], seen, planned, repair, data)
        BY <1>1 DEF Reasoned
    <2>2. later[o] \in {None, data} <=> imports[o] \in {None, data}
        OBVIOUS
    <2> HIDE DEF data, planned
    <2>3. Verdict(on, imports[o], seen, planned, repair, data) = Verdict(on, later[o], seen, planned, repair, data)
        BY <2>2 DEF Verdict
    <2> QED
        BY <2>1, <2>3 DEF data, planned
<1> QED
    BY <1>1 DEF Reasoned

(* A run goes on with the book in hand. *)
GoesOn(j, k, at) ==
    /\ k.at = at /\ k.command = j.command /\ k.origin = j.origin /\ k.data = j.data
    /\ k.seen = j.seen /\ k.planned = j.planned /\ k.todo = j.todo /\ k.repair = j.repair
    /\ k.rows = j.rows /\ k.foretold = j.foretold

LEMMA GoesOnForesees ==
    ASSUME NEW p \in Procs, IsSync(p), Foresees(p), Undisturbed(p), job[p].at \in Working \ {"plan", "dry"},
           NEW at \in Working \ {"plan", "dry", "import"}, GoesOn(job[p], job'[p], at),
           kind' = kind, kobo' = kobo, aside \subseteq aside',
           job[p].data = Import(kobo, job[p].origin),
           local[job[p].origin] \in {None, job[p].data}, local'[job[p].origin] \in {None, job[p].data},
           \A o \in Ids \ {job[p].origin} : local'[o] = local[o]
    PROVE  Foresees(p)'
<1> DEFINE j == job[p]
           k == job'[p]
<1>1. Advances(j, kobo, local) /\ j.command.apply
    BY DEF Foresees, Reckons, Rehearses, Working
<1>2. Foretells(j, kobo, kind, local, tree) /\ AsForetold(p)
    BY <1>1 DEF Foresees, Reckons
<1>3. /\ Left(k) = Left(j) /\ Whole(k, kobo) = Whole(j, kobo) /\ Target(k) = Target(j)
      /\ Inventory(k, tree') = Inventory(j, tree)
    BY DEF GoesOn, Left, Whole, Target, Inventory, Working
<1>4. Advances(k, kobo', local')
    BY <1>1, <1>3 DEF Advances, GoesOn, Working
<1>5. Foretells(k, kobo', kind', local', tree')
    <2>1. \A o \in Ids : local'[o] \in {None, Import(kobo, o)} <=> local[o] \in {None, Import(kobo, o)}
        OBVIOUS
    <2>2. ASSUME j.foretold # NoRows
          PROVE  /\ \A x \in Ids : j.foretold[x] # None <=> x \in Whole(j, kobo)
                 /\ Reasoned(kobo, kind, local', Inventory(j, tree), j.command.repair, j.foretold)
        BY <1>2, <2>1, <2>2, ReasonedKeeps DEF Foretells
    <2> QED
        BY <1>3, <2>2 DEF Foretells, GoesOn
<1>6. AsForetold(p)'
    <2> SUFFICES ASSUME k.foretold # NoRows, \A o \in Ids : ~Unforeseen(p, o)',
                        NEW o \in Ids, k.rows[o] # None
                 PROVE  k.rows[o] = Foreseen(k.foretold[o])
        BY DEF AsForetold
    <2>1. \A x \in Ids : ~Unforeseen(p, x)
        BY UnforeseenStays DEF GoesOn
    <2> QED
        BY <1>2, <2>1 DEF AsForetold, GoesOn
<1> QED
    BY <1>1, <1>4, <1>5, <1>6 DEF Foresees, Reckons, Applies, IsSync, GoesOn

(* A run is done with a book: a dry run wrote the row that follows from    *)
(* what it knows, an apply run what was foretold of the book.              *)
LEMMA ClosesForesees ==
    ASSUME TypeOK, NEW p \in Procs, IsSync(p), Foresees(p), Undisturbed(p), job[p].at \in Working,
           NEW status, Closes(job[p], job'[p], status), Remembers(job[p], job'[p], kobo, status),
           kind' = kind, kobo' = kobo, local' = local, aside' = aside,
           ~job[p].command.apply =>
                /\ tree' = tree
                /\ status = Verdict(kind, local[job[p].origin], job[p].seen, job[p].planned,
                                    job[p].command.repair, Import(kobo, job[p].origin)),
           job[p].command.apply /\ (\A o \in Ids : ~Unforeseen(p, o)') /\
           job[p].foretold[job[p].origin] =
                Verdict(kind, local[job[p].origin], job[p].seen, job[p].planned,
                        job[p].command.repair, Import(kobo, job[p].origin))
                => status = Foreseen(job[p].foretold[job[p].origin])
    PROVE  Foresees(p)'
<1> DEFINE j == job[p]
           k == job'[p]
<1>1. Advances(j, kobo, local) /\ j \in Jobs
    BY JobTypes DEF Foresees, Reckons
<1>2. Advances(k, kobo', local')
    BY <1>1, ClosesAdvances
<1>3. /\ k.at \in {"idle", "plan"} /\ k.command = j.command /\ k.seen = j.seen /\ k.foretold = j.foretold
      /\ j.rows \in [Origins -> Statuses \union {None}] /\ k.rows = [j.rows EXCEPT ![j.origin] = status]
      /\ j.planned \subseteq k.planned /\ Whole(k, kobo) = Whole(j, kobo)
    BY <1>1 DEF Closes, Remembers, Jobs, Whole
<1>4. CASE ~j.command.apply
    <2>1. Rehearses(j, kobo, kind, local, tree) /\ tree' = tree
        BY <1>4 DEF Foresees, Reckons
    <2>2. j.seen = tree /\ Reasoned(kobo, kind, local, j.seen, j.command.repair, j.rows)
        BY <2>1 DEF Rehearses, Working
    <2>3. Reasoned(kobo, kind, local, j.seen, j.command.repair, k.rows)
        BY <1>1, <1>4, <2>2, ClosesReasoned
    <2>4. Rehearses(k, kobo', kind', local', tree')
        BY <1>3, <2>1, <2>2, <2>3 DEF Rehearses
    <2> QED
        BY <1>2, <1>3, <1>4, <2>4 DEF Foresees, Reckons, Applies, IsSync
<1>5. CASE j.command.apply
    <2>1. Foretells(j, kobo, kind, local, tree) /\ AsForetold(p)
        BY <1>5 DEF Foresees, Reckons
    <2>2. Inventory(k, tree') = j.seen /\ Inventory(j, tree) = j.seen
        BY <1>3 DEF Inventory, Working
    <2>3. Foretells(k, kobo', kind', local', tree')
        BY <1>3, <2>1, <2>2 DEF Foretells
    <2>4. AsForetold(p)'
        <3> SUFFICES ASSUME k.foretold # NoRows, \A o \in Ids : ~Unforeseen(p, o)',
                            NEW o \in Ids, k.rows[o] # None
                     PROVE  k.rows[o] = Foreseen(k.foretold[o])
            BY DEF AsForetold
        <3>1. j.origin \in Ids /\ j.rows[j.origin] = None /\ Ids \subseteq Origins
            BY <1>1, DoneBefore, DeliveryAssumption
        <3>2. k.rows[j.origin] = status /\ \A x \in Ids \ {j.origin} : k.rows[x] = j.rows[x]
            BY <1>3, <3>1
        <3>3. \A x \in Ids : ~Unforeseen(p, x)
            <4> SUFFICES ASSUME NEW x \in Ids, Unforeseen(p, x)
                         PROVE  FALSE
                OBVIOUS
            <4>1. x # j.origin
                BY <3>1, KoboAssumption, SomeStatuses DEF Unforeseen
            <4> QED
                BY <1>3, <3>2, <4>1, UnforeseenStays
        <3>4. \A x \in Ids : j.rows[x] # None => j.rows[x] = Foreseen(j.foretold[x])
            BY <1>3, <2>1, <3>3 DEF AsForetold
        <3>5. j.foretold[j.origin] =
                Verdict(kind, local[j.origin], j.seen, j.planned, j.command.repair, Import(kobo, j.origin))
            BY <1>1, <1>3, <2>1, <3>4, ForetoldIs
        <3> QED
            BY <1>3, <1>5, <3>1, <3>2, <3>4, <3>5
    <2> QED
        BY <1>2, <1>3, <1>5, <2>3, <2>4 DEF Foresees, Reckons, Applies, IsSync
<1> QED
    BY <1>4, <1>5

(* How a run is done with a book. *)
LEMMA ProceedCloses ==
    ASSUME NEW j \in Jobs, NEW m \in Jobs, NEW status \in Statuses, m.command = j.command,
           m.seen = j.seen, m.foretold = j.foretold, m.todo = j.todo,
           m.rows = [j.rows EXCEPT ![j.origin] = status]
    PROVE  Closes(j, Proceed(m), status) /\ Proceed(m).planned = m.planned
<1>1. /\ Proceed(m).command = j.command /\ Proceed(m).seen = j.seen
      /\ Proceed(m).foretold = j.foretold /\ Proceed(m).rows = m.rows /\ Proceed(m).planned = m.planned
    BY ProceedTypes
<1>2. CASE j.todo = {}
    <2>1. Proceed(m).at = "idle"
        BY <1>2 DEF Proceed, Jobs
    <2> QED
        BY <1>1, <1>2, <2>1 DEF Closes
<1>3. CASE j.todo # {}
    <2> DEFINE first == First(j.todo)
               rest == j.todo \ {first}
    <2>1. Proceed(m) = [m EXCEPT !.at = "plan", !.origin = first, !.todo = rest]
        BY <1>3 DEF Proceed
    <2> HIDE DEF first, rest
    <2>2. Proceed(m).at = "plan" /\ Proceed(m).origin = first /\ Proceed(m).todo = rest
        BY <2>1 DEF Jobs
    <2> QED
        BY <1>1, <1>3, <2>2 DEF Closes, first, rest
<1> QED
    BY <1>2, <1>3

LEMMA FailCloses ==
    ASSUME TypeOK, NEW p \in Procs, job[p].origin \in Origins, Fail(p), NEW mount
    PROVE  Closes(job[p], job'[p], "Failed") /\ Remembers(job[p], job'[p], mount, "Failed")
<1> DEFINE j == job[p]
           m == Reported(j, "Failed")
<1>1. j \in Jobs /\ job' = [job EXCEPT ![p] = Failed(j)] /\ job \in [Procs -> Jobs]
    BY JobTypes, FailIs
<1>2. job'[p] = Proceed(m)
    BY <1>1 DEF Failed
<1>3. "Failed" \in Statuses /\ "Failed" \notin Bringing
    BY SomeStatuses
<1>4. /\ m \in Jobs /\ m.rows = [j.rows EXCEPT ![j.origin] = "Failed"] /\ m.command = j.command
      /\ m.planned = j.planned /\ m.foretold = j.foretold /\ m.seen = j.seen /\ m.todo = j.todo
    BY <1>1, <1>3, ReportedTypes
<1> HIDE DEF m
<1>5. Closes(j, Proceed(m), "Failed") /\ Proceed(m).planned = m.planned
    BY <1>1, <1>3, <1>4, ProceedCloses
<1> QED
    BY <1>2, <1>3, <1>4, <1>5 DEF Remembers

LEMMA DeliveredCloses ==
    ASSUME TypeOK, NEW p \in Procs, job[p].origin \in Origins, job[p].data \in Contents,
           job' = [job EXCEPT ![p] = Delivered(job[p])], NEW mount,
           EntryOf(mount, job[p].origin) = [data |-> job[p].data, path |-> Target(job[p])],
           NEW status, status = IF job[p].repair THEN "Repaired" ELSE "Sent"
    PROVE  Closes(job[p], job'[p], status) /\ Remembers(job[p], job'[p], mount, status)
<1> DEFINE j == job[p]
           told == Reported(j, status)
           entry == [data |-> j.data, path |-> Target(j)]
           m == [told EXCEPT !.planned = @ \union {entry}]
<1>1. j \in Jobs /\ job'[p] = Delivered(j)
    BY JobTypes
<1>2. status \in Statuses /\ status \in Bringing
    BY DEF Statuses, Bringing
<1>3. job'[p] = Proceed(m)
    BY <1>1 DEF Delivered
<1>4. /\ told \in Jobs /\ told.rows = [j.rows EXCEPT ![j.origin] = status] /\ told.command = j.command
      /\ told.planned = j.planned /\ told.foretold = j.foretold /\ told.seen = j.seen
      /\ told.todo = j.todo
    BY <1>1, <1>2, ReportedTypes
<1> HIDE DEF told
<1>5. Target(j) \in Paths
    BY <1>1, PreparedTypes
<1>6. /\ m \in Jobs /\ m.rows = told.rows /\ m.command = told.command
      /\ m.planned = told.planned \union {entry} /\ m.foretold = told.foretold /\ m.seen = told.seen
      /\ m.todo = told.todo
    BY <1>4, <1>5, RememberedTypes
<1> HIDE DEF m
<1>7. Closes(j, Proceed(m), status) /\ Proceed(m).planned = m.planned
    BY <1>1, <1>2, <1>4, <1>6, ProceedCloses
<1> QED
    BY <1>2, <1>3, <1>4, <1>6, <1>7 DEF Remembers

(* What is known of a book in hand. *)
LEMMA KnownInHand ==
    ASSUME TypeOK, NEW p \in Procs, IsSync(p), SyncHolds(p), Foresees(p), Undisturbed(p),
           job[p].at \in Working \ {"plan"}
    PROVE  /\ job \in [Procs -> Jobs] /\ job[p] \in Jobs /\ job[p].origin \in Origins
           /\ job[p].origin \in Ids /\ job[p].data \in Contents
           /\ Target(job[p]) \in Paths /\ Target(job[p]) \in Places
           /\ FolderOf[Target(job[p])] \in Folders /\ FolderOf[Target(job[p])] \in Places
           /\ Knows(job[p]) /\ Advances(job[p], kobo, local)
           /\ job[p].at # "dry" => job[p].command.apply
           /\ job[p].data = Import(kobo, job[p].origin)
           /\ EntryOf(kobo, job[p].origin) = [data |-> job[p].data, path |-> Target(job[p])]
           /\ Verdict(kind, local[job[p].origin], job[p].seen, job[p].planned, job[p].command.repair,
                      Import(kobo, job[p].origin)) =
                IF local[job[p].origin] \notin {None, job[p].data} THEN "Failed"
                ELSE IF job[p].repair THEN "Repair" ELSE "Transfer"
<1>1. /\ job \in [Procs -> Jobs] /\ job[p] \in Jobs /\ job[p].origin \in Origins
      /\ job[p].data \in Contents
    BY JobTypes DEF Working
<1>2. Knows(job[p]) /\ Reckons(p)
    BY DEF SyncHolds, Foresees, Undisturbed
<1>3. Advances(job[p], kobo, local) /\ DecidedOn(job[p], kobo, kind)
    BY <1>2 DEF Knows, Reckons
<1>4. job[p].at # "dry" => job[p].command.apply
    BY <1>2 DEF Reckons, Rehearses, Working
<1>5. /\ Import(kobo, job[p].origin) = job[p].data
      /\ EntryOf(kobo, job[p].origin) = [data |-> job[p].data, path |-> Target(job[p])]
      /\ Verdict(kind, local[job[p].origin], job[p].seen, job[p].planned, job[p].command.repair, job[p].data) =
            IF local[job[p].origin] \notin {None, job[p].data} THEN "Failed"
            ELSE IF job[p].repair THEN "Repair" ELSE "Transfer"
    BY <1>1, <1>3, InHandIs
<1>6. /\ Target(job[p]) \in Paths /\ Target(job[p]) \in Places
      /\ FolderOf[Target(job[p])] \in Folders /\ FolderOf[Target(job[p])] \in Places
    BY <1>1, PreparedTypes
<1>7. job[p].origin \in Ids
    BY <1>1, <1>3, DoneBefore
<1>8. Verdict(kind, local[job[p].origin], job[p].seen, job[p].planned, job[p].command.repair,
              Import(kobo, job[p].origin)) =
            IF local[job[p].origin] \notin {None, job[p].data} THEN "Failed"
            ELSE IF job[p].repair THEN "Repair" ELSE "Transfer"
    BY <1>5
<1>9. job[p].data = Import(kobo, job[p].origin)
    BY <1>5
<1> QED
    BY <1>1, <1>2, <1>3, <1>4, <1>5, <1>6, <1>7, <1>8, <1>9, Zenon

(* What a dry run does not look at, where a book fails. *)
LEMMA FailSays ==
    ASSUME TypeOK, NEW p \in Procs, job[p].origin \in Origins, Fail(p)
    PROVE  /\ job'[p].rows[job[p].origin] = "Failed" /\ job'[p].foretold = job[p].foretold
           /\ job'[p].planned = job[p].planned /\ job'[p].seen = job[p].seen
<1>1. job[p] \in Jobs /\ job'[p] = Failed(job[p])
    BY JobTypes, FailIs
<1>2. job[p].rows \in [Origins -> Statuses \union {None}]
    BY <1>1 DEF Jobs
<1>3. /\ job'[p].rows = [job[p].rows EXCEPT ![job[p].origin] = "Failed"]
      /\ job'[p].foretold = job[p].foretold
      /\ job'[p].planned = job[p].planned /\ job'[p].seen = job[p].seen
    BY <1>1, FailedTypes
<1>4. job'[p].rows[job[p].origin] = "Failed"
    BY <1>2, <1>3
<1> QED
    BY <1>3, <1>4

LEMMA IsUnforeseen ==
    ASSUME NEW p \in Procs, NEW o \in Ids, NEW data, data # None, Import(kobo', o) = data,
           job'[p].rows[o] = "Failed",
           \/ /\ job'[p].foretold[o] = "Present"
              /\ \E x \in job'[p].planned : IsCopy(job'[p].seen[x.path], data)
           \/ /\ job'[p].foretold[o] = "Transfer"
              /\ kind' = "Reader" /\ DeviceCopy[data] \notin Shown
           \/ /\ job'[p].foretold[o] = "Repair"
              /\ DeviceCopy[data] \notin Shown \/ \E x \in aside' : x.name.data = data
    PROVE  Unforeseen(p, o)'
<1>1. CASE /\ job'[p].foretold[o] = "Present"
           /\ \E x \in job'[p].planned : IsCopy(job'[p].seen[x.path], data)
    BY <1>1 DEF Unforeseen
<1>2. CASE /\ job'[p].foretold[o] = "Transfer"
           /\ kind' = "Reader" /\ DeviceCopy[data] \notin Shown
    BY <1>2 DEF Unforeseen
<1>3. CASE /\ job'[p].foretold[o] = "Repair"
           /\ DeviceCopy[data] \notin Shown \/ \E x \in aside' : x.name.data = data
    BY <1>3 DEF Unforeseen
<1> QED
    BY <1>1, <1>2, <1>3

(* A book in hand fails because the import folder has another, or for what *)
(* a dry run does not look at.                                             *)
LEMMA FailForesees ==
    ASSUME TypeOK, NEW p \in Procs, IsSync(p), SyncHolds(p), Foresees(p), Undisturbed(p),
           job[p].at \in Working \ {"plan"}, Fail(p),
           kind' = kind, kobo' = kobo, local' = local, tree' = tree, aside' = aside,
           \/ local[job[p].origin] \notin {None, job[p].data}
           \/ /\ job[p].command.apply
              /\ job[p].foretold[job[p].origin] = (IF job[p].repair THEN "Repair" ELSE "Transfer")
                    => \E o \in Ids : o = job[p].origin /\ Unforeseen(p, o)'
    PROVE  Foresees(p)'
<1> DEFINE j == job[p]
           verdict == Verdict(kind, local[j.origin], j.seen, j.planned, j.command.repair, Import(kobo, j.origin))
<1>1. /\ j.origin \in Origins /\ Advances(j, kobo, local) /\ j \in Jobs
      /\ verdict = IF local[j.origin] \notin {None, j.data} THEN "Failed"
                   ELSE IF j.repair THEN "Repair" ELSE "Transfer"
    BY KnownInHand
<1>2. Closes(j, job'[p], "Failed") /\ Remembers(j, job'[p], kobo, "Failed")
    BY <1>1, FailCloses
<1> HIDE DEF verdict
<1>4. CASE local[j.origin] \notin {None, j.data}
    <2>1. verdict = "Failed" /\ Foreseen("Failed") = "Failed"
        BY <1>1, <1>4 DEF Foreseen
    <2> QED
        BY <1>2, <2>1, ClosesForesees DEF verdict
<1>5. CASE /\ j.command.apply /\ local[j.origin] \in {None, j.data}
           /\ j.foretold[j.origin] = (IF j.repair THEN "Repair" ELSE "Transfer")
                => \E o \in Ids : o = j.origin /\ Unforeseen(p, o)'
    <2>1. j.foretold[j.origin] = verdict => \E o \in Ids : Unforeseen(p, o)'
        BY <1>1, <1>5
    <2> QED
        BY <1>2, <1>5, <2>1, ClosesForesees DEF verdict
<1> QED
    BY <1>4, <1>5

(* The same job somewhere else: it is about the same book. *)
LEMMA GotoForesees ==
    ASSUME TypeOK, NEW p \in Procs, IsSync(p), SyncHolds(p), Foresees(p), Undisturbed(p),
           job[p].at \in Working \ {"plan", "dry"},
           NEW at \in Working \ {"plan", "dry", "import"}, Goto(p, at),
           kind' = kind, kobo' = kobo, aside \subseteq aside',
           local[job[p].origin] \in {None, job[p].data}, local'[job[p].origin] \in {None, job[p].data},
           \A o \in Ids \ {job[p].origin} : local'[o] = local[o]
    PROVE  Foresees(p)'
<1>1. GoesOn(job[p], job'[p], at)
    BY GotoIs DEF GoesOn, Working
<1>2. job[p].data = Import(kobo, job[p].origin)
    BY KnownInHand
<1> QED
    BY <1>1, <1>2, GoesOnForesees

(* Each step of a run. *)

LEMMA LookLocalForesees ==
    ASSUME TypeOK, NEW p \in Procs, IsSync(p), SyncHolds(p), Foresees(p), Undisturbed(p),
           LookLocal(p) \/ Verify(p)
    PROVE  Foresees(p)'
<1> DEFINE j == job[p]
<1>1. /\ j.at \in {"import", "verify"} /\ j.at \in Working \ {"plan", "dry"}
      /\ kobo' = kobo /\ kind' = kind /\ tree' = tree /\ local' = local /\ aside' = aside
    BY DEF LookLocal, Verify, disk, Working
<1>2. Knows(j)
    BY <1>1, KnownInHand
<1>3. ASSUME local[j.origin] \notin {None, j.data}, Fail(p)
      PROVE  Foresees(p)'
    BY <1>1, <1>3, FailForesees
<1>4. ASSUME NEW at \in {"keep", "verify", "folder"}, Goto(p, at), local[j.origin] \in {None, j.data}
      PROVE  Foresees(p)'
    BY <1>1, <1>4, GotoForesees DEF Working
<1>5. CASE LookLocal(p)
    BY <1>3, <1>4, <1>5 DEF LookLocal
<1>6. CASE Verify(p)
    <2>1. local[j.origin] = j.data \/ local[j.origin] \notin {None, j.data}
        BY <1>2, <1>6 DEF Verify, Knows, ReadyFor
    <2> QED
        BY <1>3, <1>4, <1>6, <2>1 DEF Verify
<1> QED
    BY <1>5, <1>6

LEMMA KeepForesees ==
    ASSUME TypeOK, NEW p \in Procs, IsSync(p), SyncHolds(p), Foresees(p), Undisturbed(p), Keep(p)
    PROVE  Foresees(p)'
<1> DEFINE j == job[p]
<1>1. j.at = "keep" /\ j.at \in Working \ {"plan", "dry"}
    BY DEF Keep, Working
<1>2. Knows(j) /\ j \in Jobs /\ job \in [Procs -> Jobs] /\ j.origin \in Origins
      /\ local \in [Origins -> Contents \union {None}]
    BY <1>1, KnownInHand, JobTypes DEF Around
<1>3. local[j.origin] = None
    BY <1>1, <1>2 DEF Knows, ReadyFor
<1>4. SaveAs(p, [j EXCEPT !.at = "verify"])
    BY <1>3 DEF Keep, SaveTaken
<1>5. /\ Goto(p, "verify") /\ kobo' = kobo /\ kind' = kind /\ aside' = aside
      /\ local' = [local EXCEPT ![j.origin] = j.data]
    BY <1>2, <1>4 DEF SaveAs, Goto
<1>6. local'[j.origin] = j.data /\ \A o \in Ids \ {j.origin} : local'[o] = local[o]
    BY <1>2, <1>5, DeliveryAssumption
<1> QED
    BY <1>1, <1>3, <1>5, <1>6, GotoForesees DEF Working

LEMMA FindFolderForesees ==
    ASSUME TypeOK, NEW p \in Procs, IsSync(p), SyncHolds(p), Foresees(p), Undisturbed(p),
           FindFolder(p) \/ MakeFolder(p)
    PROVE  Foresees(p)'
<1> DEFINE j == job[p]
           folder == FolderOf[Target(j)]
<1>1. /\ j.at \in {"folder", "mkdir"} /\ j.at \in Working \ {"plan", "dry"}
      /\ kobo' = kobo /\ kind' = kind /\ local' = local /\ aside' = aside
    BY DEF FindFolder, MakeFolder, disk, Working
<1>2. /\ Knows(j) /\ Advances(j, kobo, local) /\ j \in Jobs /\ folder \in Folders /\ folder \in Places
    BY <1>1, KnownInHand
<1>3. tree[folder] \notin Contents
    <2>1. Explained(j, tree, folder) /\ j.seen[folder] \notin Contents
        BY <1>1, <1>2 DEF Knows, SeenAs, DecidedOn
    <2>2. \A x \in j.planned : x.path # folder
        BY <1>2, DeliveryAssumption DEF Jobs
    <2> QED
        BY <2>1, <2>2, DeliveryAssumption DEF Explained
<1>4. \E at \in {"look", "mkdir"} : Goto(p, at)
    <2>1. j.at = "mkdir" => tree[folder] = None
        BY <1>2 DEF Knows, ReadyFor
    <2> QED
        BY <1>3, <2>1 DEF FindFolder, MakeFolder
<1>5. local[j.origin] \in {None, j.data}
    BY <1>1, <1>2 DEF Advances
<1> QED
    BY <1>1, <1>4, <1>5, GotoForesees DEF Working

LEMMA LookForesees ==
    ASSUME TypeOK, NEW p \in Procs, IsSync(p), SyncHolds(p), Foresees(p), Undisturbed(p), Look(p)
    PROVE  Foresees(p)'
<1> DEFINE j == job[p]
           path == Target(j)
           copy == DeviceCopy[j.data]
           file == tree[path]
<1>1. /\ j.at = "look" /\ j.at \in Working \ {"plan", "dry"}
      /\ kobo' = kobo /\ kind' = kind /\ local' = local /\ aside' = aside /\ tree' = tree
    BY DEF Look, disk, Working
<1>2. /\ Knows(j) /\ Advances(j, kobo, local) /\ j \in Jobs /\ job \in [Procs -> Jobs]
      /\ j.origin \in Origins /\ j.origin \in Ids /\ j.data \in Contents /\ j.command.apply
      /\ path \in Paths /\ path \in Places /\ Prepared(j.data).data = copy /\ copy \in Contents
      /\ j.data = Import(kobo, j.origin)
    BY <1>1, KnownInHand, PreparedTypes
<1>3. local[j.origin] \in {None, j.data}
    BY <1>1, <1>2 DEF Advances
<1>4. /\ file = j.seen[path] /\ Matching(j) = {}
      /\ file # None => kind = "Reader" /\ j.command.repair /\ <<file, copy>> \in Begins
    <2>1. /\ Explained(j, tree, path) /\ Matching(j) = {} /\ \A x \in j.planned : x.path # path
          /\ j.seen[path] # None => kind = "Reader" /\ j.command.repair /\ <<j.seen[path], copy>> \in Begins
        BY <1>1, <1>2 DEF Knows, SeenAs, DecidedOn
    <2>2. path \notin Folders
        BY <1>2, DeliveryAssumption
    <2> QED
        BY <2>1, <2>2 DEF Explained
<1>5. CASE kind = "Reader" /\ copy \notin Shown
    <2>1. Fail(p)
        BY <1>2, <1>5 DEF Look
    <2>2. job'[p].rows[j.origin] = "Failed" /\ job'[p].foretold = j.foretold
        BY <1>2, <2>1, FailSays
    <2>3. ASSUME j.foretold[j.origin] \in {"Repair", "Transfer"}
          PROVE  \E o \in Ids : o = j.origin /\ Unforeseen(p, o)'
        <3>1. PICK o \in Ids : o = j.origin
            BY <1>2
        <3>2. Import(kobo', o) = j.data /\ j.data # None
            BY <1>1, <1>2, <3>1, KoboAssumption
        <3>3. job'[p].rows[o] = "Failed" /\ job'[p].foretold[o] \in {"Repair", "Transfer"}
            BY <2>2, <2>3, <3>1
        <3>4. kind' = "Reader" /\ DeviceCopy[j.data] \notin Shown
            BY <1>1, <1>2, <1>5
        <3>5. Unforeseen(p, o)'
            BY <3>2, <3>3, <3>4, IsUnforeseen
        <3> QED
            BY <3>1, <3>5
    <2> QED
        BY <1>1, <1>2, <2>1, <2>3, FailForesees
<1>6. CASE ~(kind = "Reader" /\ copy \notin Shown) /\ file = None
    <2>1. Goto(p, "create")
        BY <1>2, <1>6, KoboAssumption DEF Look
    <2> QED
        BY <1>1, <1>3, <2>1, GotoForesees DEF Working
<1>7. CASE ~(kind = "Reader" /\ copy \notin Shown) /\ file # None
    <2>1. file # copy
        <3> SUFFICES ASSUME file = copy
                     PROVE  FALSE
            OBVIOUS
        <3>1. j.seen[path] \in Shown
            BY <1>4, <1>7
        <3>2. IsCopy(j.seen[path], j.data)
            BY <1>2, <1>4 DEF IsCopy, Matches, Identity
        <3> QED
            BY <1>2, <1>4, <3>1, <3>2 DEF Matching
    <2> DEFINE seen == [j.seen EXCEPT ![path] = file]
               k == [j EXCEPT !.at = "backup", !.seen = seen]
    <2>2. job' = [job EXCEPT ![p] = [j EXCEPT !.at = "backup", !.seen[path] = file]]
        BY <1>2, <1>4, <1>7, <2>1 DEF Look
    <2>3. job'[p] = k
        BY <1>2, <2>2 DEF Jobs
    <2>4. seen = j.seen
        BY <1>2, <1>4 DEF Jobs
    <2> HIDE DEF seen
    <2>5. GoesOn(j, k, "backup")
        BY <1>2, <2>4 DEF GoesOn, Jobs
    <2> HIDE DEF k
    <2> QED
        BY <1>1, <1>2, <1>3, <2>3, <2>5, GoesOnForesees DEF Working
<1> QED
    BY <1>5, <1>6, <1>7

LEMMA SetAsideForesees ==
    ASSUME TypeOK, NEW p \in Procs, IsSync(p), SyncHolds(p), Foresees(p), Undisturbed(p), SetAside(p)
    PROVE  Foresees(p)'
<1> DEFINE j == job[p]
           path == Target(j)
<1>1. /\ j.at = "backup" /\ j.at \in Working \ {"plan", "dry"}
      /\ kobo' = kobo /\ kind' = kind /\ local' = local
    BY DEF SetAside, Working
<1>2. /\ Knows(j) /\ Advances(j, kobo, local) /\ j \in Jobs /\ job \in [Procs -> Jobs]
      /\ j.origin \in Origins /\ j.origin \in Ids /\ j.data \in Contents /\ j.command.apply
      /\ j.data = Import(kobo, j.origin) /\ j.seen[path] \in Contents
    BY <1>1, KnownInHand, JobTypes
<1>3. tree[path] = j.seen[path] /\ local[j.origin] \in {None, j.data} /\ j.repair
    BY <1>1, <1>2, KoboAssumption DEF Knows, ReadyFor, Advances, Working
<1>4. CASE BackupTaken(Backup(j))
    <2>1. Fail(p) /\ tree' = tree /\ aside' = aside
        BY <1>4 DEF SetAside
    <2>2. job'[p].rows[j.origin] = "Failed" /\ job'[p].foretold = j.foretold
        BY <1>2, <2>1, FailSays
    <2>3. ASSUME j.foretold[j.origin] = "Repair"
          PROVE  \E o \in Ids : o = j.origin /\ Unforeseen(p, o)'
        <3>1. PICK o \in Ids : o = j.origin
            BY <1>2
        <3>2. Import(kobo', o) = j.data /\ j.data # None
            BY <1>1, <1>2, <3>1, KoboAssumption
        <3>3. \E x \in aside' : x.name.data = j.data
            BY <1>4, <2>1 DEF BackupTaken, Backup
        <3>4. job'[p].rows[o] = "Failed" /\ job'[p].foretold[o] = "Repair"
            BY <2>2, <2>3, <3>1
        <3>5. Unforeseen(p, o)'
            BY <3>2, <3>3, <3>4, IsUnforeseen
        <3> QED
            BY <3>1, <3>5
    <2> QED
        BY <1>1, <1>2, <1>3, <2>1, <2>3, FailForesees
<1>5. CASE ~BackupTaken(Backup(j))
    <2>1. Goto(p, "create") /\ aside \subseteq aside'
        BY <1>2, <1>3, <1>5 DEF SetAside
    <2> QED
        BY <1>1, <1>3, <2>1, GotoForesees DEF Working
<1> QED
    BY <1>4, <1>5

LEMMA CreateForesees ==
    ASSUME TypeOK, NEW p \in Procs, IsSync(p), SyncHolds(p), Foresees(p), Undisturbed(p), Create(p)
    PROVE  Foresees(p)'
<1> DEFINE j == job[p]
           status == IF j.repair THEN "Repaired" ELSE "Sent"
           verdict == Verdict(kind, local[j.origin], j.seen, j.planned, j.command.repair, Import(kobo, j.origin))
<1>1. /\ j.at = "create" /\ j.at \in Working \ {"plan", "dry"}
      /\ kobo' = kobo /\ kind' = kind /\ local' = local /\ aside' = aside
    BY DEF Create, Working
<1>2. /\ Knows(j) /\ Advances(j, kobo, local) /\ j \in Jobs /\ job \in [Procs -> Jobs]
      /\ j.origin \in Origins /\ j.origin \in Ids /\ j.data \in Contents /\ j.command.apply
      /\ EntryOf(kobo, j.origin) = [data |-> j.data, path |-> Target(j)]
      /\ verdict = IF local[j.origin] \notin {None, j.data} THEN "Failed"
                   ELSE IF j.repair THEN "Repair" ELSE "Transfer"
    BY <1>1, KnownInHand
<1>3. job' = [job EXCEPT ![p] = Delivered(j)]
    BY <1>1, <1>2 DEF Create, Knows, ReadyFor
<1>4. local[j.origin] \in {None, j.data}
    BY <1>1, <1>2 DEF Advances
<1> HIDE DEF verdict
<1>5. Closes(j, job'[p], status) /\ Remembers(j, job'[p], kobo, status)
    BY <1>2, <1>3, DeliveredCloses
<1>6. status = Foreseen(verdict)
    BY <1>2, <1>4 DEF Foreseen
<1> HIDE DEF status
<1> QED
    BY <1>1, <1>2, <1>5, <1>6, ClosesForesees DEF verdict

(* A book that is to be brought: a dry run only says so, an apply run goes *)
(* on with it.                                                             *)
LEMMA GoingForesees ==
    ASSUME NEW p \in Procs, IsSync(p), Foresees(p), Undisturbed(p), job[p].at = "plan",
           NEW at, at = (IF job[p].command.apply THEN "import" ELSE "dry"),
           job'[p].at = at, job'[p].command = job[p].command, job'[p].origin = job[p].origin,
           job'[p].seen = job[p].seen, job'[p].planned = job[p].planned,
           job'[p].todo = job[p].todo, job'[p].rows = job[p].rows,
           job'[p].foretold = job[p].foretold,
           job'[p].repair <=> job'[p].seen[Target(job'[p])] # None,
           UNCHANGED <<kind, kobo, local, tree, aside>>
    PROVE  Foresees(p)'
<1> DEFINE j == job[p]
           k == job'[p]
<1>1. /\ Advances(j, kobo, local) /\ j.at \in Working /\ k.at \in {"dry", "import"}
      /\ UNCHANGED <<kind, kobo, local, tree, aside>>
    BY DEF Foresees, Reckons, Working
<1>2. Left(k) = Left(j) /\ Whole(k, kobo) = Whole(j, kobo)
    BY <1>1 DEF Left, Whole, Working
<1>3. Advances(k, kobo', local')
    BY <1>1, <1>2 DEF Advances, Working
<1>4. CASE ~j.command.apply
    <2>1. Rehearses(j, kobo, kind, local, tree)
        BY <1>4 DEF Foresees, Reckons
    <2>2. Rehearses(k, kobo', kind', local', tree')
        BY <1>1, <1>4, <2>1 DEF Rehearses
    <2> QED
        BY <1>3, <1>4, <2>2 DEF Foresees, Reckons, Applies, IsSync
<1>5. CASE j.command.apply
    <2>1. Foretells(j, kobo, kind, local, tree) /\ AsForetold(p)
        BY <1>5 DEF Foresees, Reckons
    <2>2. Inventory(k, tree') = Inventory(j, tree) /\ k.at # "dry"
        BY <1>1, <1>5 DEF Inventory
    <2>3. Foretells(k, kobo', kind', local', tree')
        BY <1>1, <1>2, <2>1, <2>2 DEF Foretells
    <2>4. AsForetold(p)'
        <3> SUFFICES ASSUME k.foretold # NoRows, \A o \in Ids : ~Unforeseen(p, o)',
                            NEW o \in Ids, k.rows[o] # None
                     PROVE  k.rows[o] = Foreseen(k.foretold[o])
            BY DEF AsForetold
        <3>1. \A x \in Ids : ~Unforeseen(p, x)
            BY <1>1, UnforeseenStays
        <3> QED
            BY <2>1, <3>1 DEF AsForetold
    <2> QED
        BY <1>3, <1>5, <2>3, <2>4 DEF Foresees, Reckons, Applies, IsSync
<1> QED
    BY <1>4, <1>5

LEMMA PlanForesees ==
    ASSUME TypeOK, NEW p \in Procs, IsSync(p), SyncHolds(p), Foresees(p), Undisturbed(p), Plan(p)
    PROVE  Foresees(p)'
<1> DEFINE j == job[p]
           c == Considered(p)
           verdict == Verdict(kind, local[j.origin], j.seen, j.planned, j.command.repair, Import(kobo, j.origin))
<1>1. /\ c \in Jobs /\ c.origin = j.origin /\ j.origin \in Origins /\ c.seen = j.seen
      /\ c.data = Import(kobo, j.origin) /\ c.planned = j.planned /\ c.command = j.command
      /\ c.rows = j.rows /\ c.foretold = j.foretold /\ c.todo = j.todo
      /\ job \in [Procs -> Jobs] /\ j \in Jobs /\ j.at = "plan" /\ j.at \in Working
      /\ UNCHANGED <<kind, kobo, local, tree, aside>>
    BY ConsideredTypes, JobTypes DEF Plan, disk, Working
<1>2. PICK status \in Decide(c) :
        job' = [job EXCEPT ![p] = IF status = "Go" THEN Going(c) ELSE Proceed(Reported(c, status))]
    BY PlanStep
<1>3. \A place \in Places : Explained(c, tree, place)
    <2>1. SeenAs(j, tree)
        BY DEF SyncHolds, Undisturbed, Knows
    <2> HIDE DEF c
    <2> QED
        BY <1>1, <2>1 DEF SeenAs, Explained
<1>4. tree \in [Places -> Entries] /\ Advances(j, kobo, local) /\ Reckons(p)
    BY JobTypes, TreeTypes DEF Around, Foresees, Reckons
<1>5. j.origin \in Ids
    BY <1>1, <1>4, DoneBefore
<1> HIDE DEF c
<1>6. CASE status = "Go"
    <2> DEFINE at == IF c.command.apply THEN "import" ELSE "dry"
               repair == c.seen[Target(c)] # None
               k == [c EXCEPT !.at = at, !.repair = repair]
    <2>1. job'[p] = k
        BY <1>1, <1>2, <1>6 DEF Going
    <2>2. repair \in BOOLEAN
        OBVIOUS
    <2>3. at = IF j.command.apply THEN "import" ELSE "dry"
        BY <1>1
    <2> HIDE DEF at, repair
    <2>4. /\ k.at = at /\ k.origin = c.origin /\ k.data = c.data /\ k.seen = c.seen
          /\ k.planned = c.planned /\ k.command = c.command /\ k.todo = c.todo
          /\ k.rows = c.rows /\ k.foretold = c.foretold /\ k.repair = repair
        BY <1>1, <2>2 DEF Jobs
    <2> HIDE DEF k
    <2>5. k.repair <=> k.seen[Target(k)] # None
        BY <2>4 DEF repair, Target
    <2> QED
        BY <1>1, <2>1, <2>3, <2>4, <2>5, GoingForesees
<1>7. CASE status # "Go"
    <2> DEFINE m == Reported(c, status)
    <2>1. status \in Statuses /\ status \notin Bringing
        BY <1>1, <1>2, <1>7, DecideTypes DEF Statuses, Bringing
    <2>2. job'[p] = Proceed(m)
        BY <1>1, <1>2, <1>7
    <2>3. /\ m \in Jobs /\ m.rows = [c.rows EXCEPT ![c.origin] = status] /\ m.command = c.command
          /\ m.seen = c.seen /\ m.planned = c.planned /\ m.foretold = c.foretold /\ m.todo = c.todo
        BY <1>1, <2>1, ReportedTypes
    <2> HIDE DEF m
    <2>4. Closes(j, Proceed(m), status) /\ Proceed(m).planned = m.planned
        BY <1>1, <2>1, <2>3, ProceedCloses
    <2>5. Closes(j, job'[p], status) /\ Remembers(j, job'[p], kobo, status)
        BY <1>1, <2>1, <2>2, <2>3, <2>4 DEF Remembers
    <2>6. \/ status = verdict
          \/ /\ j.command.apply /\ status = "Failed" /\ c.data \in Contents /\ verdict = "Present"
             /\ \E x \in j.planned : IsCopy(j.seen[x.path], c.data)
        <3>1. \A file : \/ status = Verdict(kind, file, c.seen, c.planned, c.command.repair, c.data)
                        \/ /\ c.command.apply /\ status = "Failed" /\ c.data \in Contents
                           /\ Verdict(kind, file, c.seen, c.planned, c.command.repair, c.data) = "Present"
                           /\ \E x \in c.planned : IsCopy(c.seen[x.path], c.data)
            BY <1>1, <1>2, <1>3, <1>4, <1>7, DecisionIs
        <3> QED
            BY <1>1, <3>1
    <2> HIDE DEF verdict
    <2>7. CASE status = verdict
        <3>1. Foreseen(status) = status
            BY <2>1 DEF Foreseen, Bringing
        <3> QED
            BY <1>1, <2>1, <2>5, <2>7, <3>1, ClosesForesees DEF verdict
    <2>8. CASE /\ j.command.apply /\ status = "Failed" /\ c.data \in Contents /\ verdict = "Present"
               /\ \E x \in j.planned : IsCopy(j.seen[x.path], c.data)
        <3>1. PICK o \in Ids : o = j.origin
            BY <1>5
        <3>2. /\ Import(kobo', o) = c.data /\ c.data # None
            BY <1>1, <2>8, <3>1, KoboAssumption
        <3>3. /\ job'[p].rows = [j.rows EXCEPT ![o] = "Failed"] /\ job'[p].foretold = j.foretold
              /\ job'[p].planned = j.planned /\ job'[p].seen = j.seen
            BY <2>1, <2>5, <2>8, <3>1 DEF Closes, Remembers
        <3>4. job'[p].rows[o] = "Failed"
            BY <1>1, <3>1, <3>3 DEF Jobs
        <3>5. j.foretold[o] = "Present" => Unforeseen(p, o)'
            BY <2>8, <3>2, <3>3, <3>4, IsUnforeseen
        <3>6. j.foretold[j.origin] = verdict => \E x \in Ids : Unforeseen(p, x)'
            BY <2>8, <3>1, <3>5
        <3> QED
            BY <1>1, <2>1, <2>5, <2>8, <3>6, ClosesForesees DEF verdict
    <2> QED
        BY <2>6, <2>7, <2>8
<1> QED
    BY <1>6, <1>7

LEMMA DryRunForesees ==
    ASSUME TypeOK, NEW p \in Procs, IsSync(p), SyncHolds(p), Foresees(p), Undisturbed(p), DryRun(p)
    PROVE  Foresees(p)'
<1> DEFINE j == job[p]
           status == IF j.repair THEN "Repair" ELSE "Transfer"
           verdict == Verdict(kind, local[j.origin], j.seen, j.planned, j.command.repair, Import(kobo, j.origin))
<1>1. /\ j.at = "dry" /\ j.at \in Working \ {"plan"} /\ j.at \in Working
      /\ kind' = kind /\ kobo' = kobo /\ local' = local /\ tree' = tree /\ aside' = aside
    BY DEF DryRun, disk, Working
<1>2. /\ job \in [Procs -> Jobs] /\ j \in Jobs /\ j.origin \in Origins /\ j.data \in Contents
      /\ EntryOf(kobo, j.origin) = [data |-> j.data, path |-> Target(j)]
      /\ verdict = IF local[j.origin] \notin {None, j.data} THEN "Failed"
                   ELSE IF j.repair THEN "Repair" ELSE "Transfer"
    BY <1>1, KnownInHand
<1>3. ~j.command.apply
    BY <1>1 DEF Foresees, Reckons, Foretells
<1>4. CASE local[j.origin] \notin {None, j.data}
    <2>1. Fail(p)
        BY <1>4 DEF DryRun
    <2> QED
        BY <1>1, <1>4, <2>1, FailForesees
<1>5. CASE local[j.origin] \in {None, j.data}
    <2> DEFINE told == Planned(j)
               m == Reported(told, status)
    <2>1. status \in Statuses /\ status \in Bringing /\ status = verdict
        BY <1>2, <1>5 DEF Statuses, Bringing
    <2>2. job'[p] = Proceed(m)
        BY <1>2, <1>5 DEF DryRun
    <2> HIDE DEF status, verdict
    <2>3. /\ told \in Jobs /\ told.origin = j.origin /\ told.seen = j.seen /\ told.command = j.command
          /\ told.rows = j.rows /\ told.foretold = j.foretold /\ told.todo = j.todo
          /\ told.planned = j.planned \union {[data |-> j.data, path |-> Target(j)]}
        BY <1>2, PlannedTypes
    <2> HIDE DEF told
    <2>4. /\ m \in Jobs /\ m.rows = [told.rows EXCEPT ![told.origin] = status] /\ m.command = told.command
          /\ m.seen = told.seen /\ m.planned = told.planned /\ m.foretold = told.foretold
          /\ m.todo = told.todo
        BY <1>2, <2>1, <2>3, ReportedTypes
    <2> HIDE DEF m
    <2>5. Closes(j, Proceed(m), status) /\ Proceed(m).planned = m.planned
        BY <1>2, <2>1, <2>3, <2>4, ProceedCloses
    <2>6. Closes(j, job'[p], status) /\ Remembers(j, job'[p], kobo, status)
        BY <1>2, <2>1, <2>2, <2>3, <2>4, <2>5 DEF Remembers
    <2> QED
        BY <1>1, <1>3, <2>1, <2>6, ClosesForesees DEF verdict
<1> QED
    BY <1>4, <1>5

(* The destination is read. *)
LEMMA ScanForesees ==
    ASSUME NEW p \in Procs, IsSync(p), Foresees(p), Undisturbed(p),
           job[p].at \in {"scan", "read files"}, job'[p].at = "read files",
           job'[p].command = job[p].command, job'[p].todo = job[p].todo,
           job'[p].planned = job[p].planned, job'[p].rows = job[p].rows,
           job'[p].foretold = job[p].foretold,
           UNCHANGED <<kind, kobo, local, tree>>
    PROVE  Foresees(p)'
<1> DEFINE j == job[p]
           k == job'[p]
<1>1. /\ Advances(j, kobo, local) /\ j.at \in {"scan", "read files"} /\ k.at = "read files"
      /\ UNCHANGED <<kind, kobo, local, tree>>
    BY DEF Foresees, Reckons
<1>2. Whole(k, kobo) = Whole(j, kobo)
    BY DEF Whole
<1>3. Advances(k, kobo', local') /\ k.rows = NoRows
    BY <1>1, <1>2 DEF Advances, Working
<1>4. CASE ~j.command.apply
    <2>1. Rehearses(k, kobo', kind', local', tree')
        BY <1>1 DEF Rehearses
    <2> QED
        BY <1>3, <1>4, <2>1 DEF Foresees, Reckons, Applies, IsSync
<1>5. CASE j.command.apply
    <2>1. Foretells(j, kobo, kind, local, tree)
        BY <1>5 DEF Foresees, Reckons
    <2>2. Inventory(k, tree') = Inventory(j, tree) /\ k.at # "dry"
        BY <1>1 DEF Inventory
    <2>3. Foretells(k, kobo', kind', local', tree')
        BY <1>1, <1>2, <2>1, <2>2 DEF Foretells
    <2>4. AsForetold(p)'
        BY <1>3, DeliveryAssumption DEF AsForetold, NoRows
    <2> QED
        BY <1>3, <1>5, <2>3, <2>4 DEF Foresees, Reckons, Applies, IsSync
<1> QED
    BY <1>4, <1>5

LEMMA IdleForesees ==
    ASSUME NEW p \in Procs, job'[p] = Idle
    PROVE  Foresees(p)'
<1>1. Idle.command = None /\ Idle.foretold = NoRows
    BY DEF Idle
<1>2. None \notin SyncCommands
    BY DeliveryAssumption DEF SyncCommands
<1> QED
    BY <1>1, <1>2 DEF Foresees, IsSync

LEMMA ListFilesForesees ==
    ASSUME TypeOK, NEW p \in Procs, IsSync(p), Foresees(p), Undisturbed(p), ListFiles(p)
    PROVE  Foresees(p)'
<1> DEFINE j == job[p]
           listed == Files(tree).listed
           unread == Files(tree).unread
           k == [j EXCEPT !.at = "read files", !.seen = listed, !.unread = unread]
<1>1. /\ job \in [Procs -> Jobs] /\ j \in Jobs /\ j.at = "scan"
      /\ UNCHANGED <<kind, kobo, local, tree>>
    BY JobTypes DEF ListFiles, disk
<1>2. job'[p] = k \/ job'[p] = Idle
    BY <1>1 DEF ListFiles, Jobs
<1> HIDE DEF listed, unread
<1>3. /\ k.at = "read files" /\ k.command = j.command /\ k.todo = j.todo
      /\ k.planned = j.planned /\ k.rows = j.rows /\ k.foretold = j.foretold
    BY <1>1 DEF Jobs
<1> HIDE DEF k
<1> QED
    BY <1>1, <1>2, <1>3, ScanForesees, IdleForesees

(* The inventory is complete: the run begins with the first book. *)
LEMMA ReadForesees ==
    ASSUME TypeOK, NEW p \in Procs, IsSync(p), Foresees(p), Undisturbed(p),
           job[p].at = "read files", job[p].seen = tree, job'[p] = Proceed(job[p]),
           UNCHANGED <<kind, kobo, local, tree>>
    PROVE  Foresees(p)'
<1> DEFINE j == job[p]
           k == job'[p]
           books == Whole(j, kobo)
<1>1. /\ j \in Jobs /\ Advances(j, kobo, local)
      /\ UNCHANGED <<kind, kobo, local, tree>>
    BY JobTypes DEF Foresees, Reckons
<1>2. j.todo = books /\ j.rows = NoRows /\ j.planned = {}
    BY <1>1 DEF Advances
<1>3. /\ k.at \in {"idle", "plan"} /\ k.command = j.command /\ k.rows = NoRows
      /\ k.planned = {} /\ k.seen = tree /\ k.foretold = j.foretold
    BY <1>1, <1>2, ProceedTypes
<1>4. /\ Whole(k, kobo) = books /\ books \in SUBSET Ids
    BY <1>1, <1>2, <1>3 DEF Whole, Jobs
<1> HIDE DEF books
<1>5. /\ Left(k) = books
      /\ k.at = "plan" => \A x \in k.todo : ByTitle[k.origin] < ByTitle[x]
    <2>1. CASE books = {}
        <3>1. k.at = "idle"
            BY <1>1, <1>2, <2>1 DEF Proceed, Jobs
        <3> QED
            BY <2>1, <3>1 DEF Left
    <2>2. CASE books # {}
        <3> DEFINE first == First(books)
                   rest == books \ {first}
        <3>1. k = [j EXCEPT !.at = "plan", !.origin = first, !.todo = rest]
            BY <1>2, <2>2 DEF Proceed
        <3>2. first \in books /\ \A x \in rest : ByTitle[first] < ByTitle[x]
            BY <1>4, <2>2, FirstIsOne
        <3> HIDE DEF first
        <3>3. k.at = "plan" /\ k.origin = first /\ k.todo = rest
            BY <1>1, <3>1 DEF Jobs
        <3> QED
            BY <3>2, <3>3 DEF Left
    <2> QED
        BY <2>1, <2>2
<1>6. \A o \in Ids : k.rows[o] = None
    BY <1>3, DeliveryAssumption DEF NoRows
<1>7. k.planned = Brings(kobo, k.rows, Ids)
    BY <1>3, <1>6, SomeStatuses DEF Brings
<1>8. Advances(k, kobo', local')
    BY <1>1, <1>3, <1>4, <1>5, <1>6, <1>7 DEF Advances, Working
<1>9. CASE ~j.command.apply
    <2>1. Rehearses(k, kobo', kind', local', tree')
        BY <1>1, <1>3, <1>6 DEF Rehearses, Reasoned
    <2> QED
        BY <1>3, <1>8, <1>9, <2>1 DEF Foresees, Reckons, Applies, IsSync
<1>10. CASE j.command.apply
    <2>1. Foretells(j, kobo, kind, local, tree)
        BY <1>10 DEF Foresees, Reckons
    <2>2. Inventory(k, tree') = Inventory(j, tree) /\ k.at # "dry"
        BY <1>1, <1>3 DEF Inventory
    <2>3. Foretells(k, kobo', kind', local', tree')
        BY <1>1, <1>3, <1>4, <2>1, <2>2 DEF Foretells, books
    <2>4. AsForetold(p)'
        BY <1>6 DEF AsForetold
    <2> QED
        BY <1>3, <1>8, <1>10, <2>3, <2>4 DEF Foresees, Reckons, Applies, IsSync
<1> QED
    BY <1>9, <1>10

LEMMA ReadFileForesees ==
    ASSUME TypeOK, NEW p \in Procs, IsSync(p), SyncHolds(p), Foresees(p), Undisturbed(p), ReadFile(p)
    PROVE  Foresees(p)'
<1> DEFINE j == job[p]
<1>1. /\ job \in [Procs -> Jobs] /\ j \in Jobs /\ j.at = "read files"
      /\ UNCHANGED <<kind, kobo, local, tree>> /\ tree \in [Places -> Entries]
    BY JobTypes, TreeTypes DEF ReadFile, disk, Around
<1>2. ASSUME NEW read \in j.unread,
             job' = [job EXCEPT ![p].seen[read] = tree[read], ![p].unread = @ \ {read}]
      PROVE  Foresees(p)'
    <2> DEFINE seen == [j.seen EXCEPT ![read] = tree[read]]
               unread == j.unread \ {read}
               k == [j EXCEPT !.seen = seen, !.unread = unread]
    <2>1. job'[p] = k
        BY <1>1, <1>2 DEF Jobs
    <2> HIDE DEF seen, unread
    <2>2. /\ k.at = "read files" /\ k.command = j.command /\ k.todo = j.todo
          /\ k.planned = j.planned /\ k.rows = j.rows /\ k.foretold = j.foretold
        BY <1>1 DEF Jobs
    <2> HIDE DEF k
    <2> QED
        BY <1>1, <2>1, <2>2, ScanForesees
<1>3. CASE job' = [job EXCEPT ![p] = Idle]
    <2>1. job'[p] = Idle
        BY <1>1, <1>3
    <2> QED
        BY <2>1, IdleForesees
<1>4. CASE j.unread = {} /\ job' = [job EXCEPT ![p] = Proceed(j)]
    <2>1. job'[p] = Proceed(j)
        BY <1>1, <1>4
    <2>2. SeenAs(j, tree)
        BY DEF SyncHolds, Undisturbed, Knows
    <2>3. \A place \in Places : tree[place] = j.seen[place]
        BY <1>1, <1>4, <2>2 DEF SeenAs
    <2>4. j.seen \in [Places -> Entries]
        BY <1>1 DEF Jobs
    <2>5. j.seen = tree
        <3> DEFINE seen == j.seen
        <3>1. seen \in [Places -> Entries] /\ \A place \in Places : tree[place] = seen[place]
            BY <2>3, <2>4
        <3> HIDE DEF seen
        <3>2. seen = [place \in Places |-> seen[place]] /\ tree = [place \in Places |-> tree[place]]
            BY <1>1, <3>1
        <3>3. [place \in Places |-> seen[place]] = [place \in Places |-> tree[place]]
            BY <3>1
        <3>4. seen = tree
            BY <3>2, <3>3
        <3> QED
            BY <3>4 DEF seen
    <2> QED
        BY <1>1, <2>1, <2>5, ReadForesees
<1> QED
    BY <1>2, <1>3, <1>4 DEF ReadFile

-----------------------------------------------------------------------------
(* A command begins: an apply run after a dry run that nothing came        *)
(* between has before it what the dry run had.                             *)
LEMMA ForetoldFollows ==
    ASSUME TypeOK, NEW p \in Procs, Foresees(p), NEW command \in Commands, Origins # {},
           Foretold(job[p], command, p) # NoRows
    PROVE  /\ command.apply
           /\ \A x \in Ids : Foretold(job[p], command, p)[x] # None <=> x \in Chosen(Books(kobo), command)
           /\ Reasoned(kobo, kind, local, tree, command.repair, Foretold(job[p], command, p))
<1> DEFINE last == job[p]
<1>1. /\ last.at = "idle" /\ last.command \in SyncCommands
      /\ ~last.command.apply /\ excused[p] = {}
      /\ command = [last.command EXCEPT !.apply = TRUE]
      /\ Foretold(last, command, p) = last.rows
    BY DEF Foretold
<1>2. command.apply /\ command.exclude = last.command.exclude /\ command.repair = last.command.repair
    BY <1>1, DeliveryAssumption DEF SyncCommands
<1>3. Reckons(p)
    BY <1>1 DEF Foresees, IsSync, Undisturbed
<1>4. Advances(last, kobo, local) /\ Rehearses(last, kobo, kind, local, tree)
    BY <1>1, <1>3 DEF Reckons
<1>5. \A x \in Ids : last.rows[x] # None <=> x \in Whole(last, kobo)
    BY <1>1, <1>4 DEF Advances, Left, Working
<1>6. last.seen = tree /\ Reasoned(kobo, kind, local, last.seen, last.command.repair, last.rows)
    BY <1>1, <1>4 DEF Rehearses
<1>7. Whole(last, kobo) = Chosen(Books(kobo), command)
    BY <1>2 DEF Whole, Chosen
<1> QED
    BY <1>1, <1>2, <1>5, <1>6, <1>7

LEMMA StartForesees ==
    ASSUME TypeOK, NEW p \in Procs, Foresees(p), Command(p)
    PROVE  Foresees(p)'
<1>1. job \in [Procs -> Jobs] /\ Idle \in Jobs
    BY JobTypes, IdleTypes
<1>2. PICK command \in Commands :
        \/ command \in SyncCommands /\ StartSync(p, command)
        \/ StartImport(p, command)
        \/ StartGet(p, command)
        \/ StartRequest(p, command)
        \/ StartSend(p, command)
    BY DEF Command
<1>3. CASE command \in SyncCommands /\ StartSync(p, command)
    <2> DEFINE todo == Chosen(Books(kobo), command)
               foretold == Foretold(job[p], command, p)
               k == [Idle EXCEPT !.command = command, !.at = "scan", !.todo = todo, !.foretold = foretold]
    <2>1. /\ job'[p] = k /\ UNCHANGED <<kind, kobo, local, tree>>
        BY <1>1, <1>3 DEF StartSync, Begin, disk
    <2>2. Idle.rows = NoRows /\ Idle.planned = {}
        BY DEF Idle
    <2>3. foretold # NoRows /\ Origins # {} =>
            /\ command.apply
            /\ \A x \in Ids : foretold[x] # None <=> x \in todo
            /\ Reasoned(kobo, kind, local, tree, command.repair, foretold)
        BY ForetoldFollows
    <2>4. foretold # NoRows => command.apply
        BY <1>2, DeliveryAssumption DEF Foretold, SyncCommands
    <2>5. Chosen(Books(kobo), command) = todo
        OBVIOUS
    <2> HIDE DEF todo, foretold
    <2>6. /\ k.at = "scan" /\ k.command = command /\ k.todo = todo /\ k.foretold = foretold
          /\ k.rows = NoRows /\ k.planned = {}
        BY <1>1, <2>2 DEF Jobs
    <2> HIDE DEF k
    <2>7. Whole(k, kobo) = todo
        BY <2>5, <2>6 DEF Whole
    <2>8. Advances(k, kobo', local')
        BY <2>1, <2>6, <2>7 DEF Advances, Working
    <2>9. command.apply /\ Origins # {} => Foretells(k, kobo', kind', local', tree')
        BY <2>1, <2>3, <2>6, <2>7 DEF Foretells, Inventory
    <2>10. Rehearses(k, kobo', kind', local', tree')
        BY <2>6 DEF Rehearses
    <2>11. AsForetold(p)'
        BY <2>1, <2>6, DeliveryAssumption DEF AsForetold, NoRows
    <2>12. foretold # NoRows => Applies(p)'
        BY <1>3, <2>1, <2>4, <2>6 DEF Applies, IsSync
    <2> QED
        BY <2>1, <2>6, <2>8, <2>9, <2>10, <2>11, <2>12 DEF Foresees, Reckons, Undisturbed
<1>4. ASSUME NEW at, NEW data, Start(p, command, at, data), command.name # "sync"
      PROVE  Foresees(p)'
    <2> DEFINE k == [Idle EXCEPT !.command = command, !.at = at,
                                 !.origin = command.origin, !.data = data]
    <2>1. job'[p] = k
        BY <1>1, <1>4 DEF Start, Begin
    <2>2. k.command = command /\ k.foretold = Idle.foretold
        BY <1>1 DEF Jobs
    <2> HIDE DEF k
    <2>3. command \notin SyncCommands /\ Idle.foretold = NoRows
        BY <1>4 DEF SyncCommands, Idle
    <2> QED
        BY <2>1, <2>2, <2>3 DEF Foresees, IsSync
<1>5. StartImport(p, command) => \E at, data : Start(p, command, at, data) /\ command.name = "import"
    BY DEF StartImport
<1>6. StartGet(p, command) => \E at, data : Start(p, command, at, data) /\ command.name = "get"
    BY DEF StartGet
<1>7. StartRequest(p, command) =>
        \E at, data : Start(p, command, at, data) /\ command.name \in {"acsm", "import"}
    BY DEF StartRequest
<1>8. StartSend(p, command) => \E at, data : Start(p, command, at, data) /\ command.name = "send"
    BY DEF StartSend
<1> QED
    BY <1>2, <1>3, <1>4, <1>5, <1>6, <1>7, <1>8

-----------------------------------------------------------------------------
(* What a run foresees stays true, or it is disturbed. *)
LEMMA StepForesees ==
    ASSUME TypeOK, NEW p \in Procs, SyncHolds(p), Foresees(p),
           Command(p) \/ SyncStep(p) \/ ImportStep(p) \/ Deliver(p) \/ Fault(p) \/ Stop(p)
    PROVE  Foresees(p)'
<1>1. CASE Command(p)
    BY <1>1, StartForesees
<1>2. CASE ~Command(p) /\ job'[p] = Idle
    BY <1>2, IdleForesees
<1>3. CASE ~Command(p) /\ KeepsCommand(job[p], job'[p])
    <2>1. job'[p].foretold # NoRows => Applies(p)'
        BY <1>3 DEF Foresees, KeepsCommand, Applies, IsSync
    <2>2. SUFFICES ASSUME IsSync(p), Undisturbed(p)'
                   PROVE  Foresees(p)'
        BY <1>3, <2>1 DEF Foresees, KeepsCommand, IsSync
    <2>3. CASE Fault(p)
        <3>1. job[p].origin \in Origins /\ excused \in [Procs -> SUBSET Origins]
            BY <2>3, JobTypes DEF Fault, TypeOK
        <3>2. excused'[p] # {}
            BY <2>2, <2>3, <3>1 DEF Fault, Undisturbed
        <3> QED
            BY <2>2, <3>2 DEF Undisturbed
    <2>4. CASE AnswerLost(p)
        BY <2>2, <2>4 DEF AnswerLost, Undisturbed
    <2>5. CASE Stop(p)
        <3>1. job'[p] = Idle
            BY <2>5, JobTypes DEF Stop
        <3> QED
            BY <3>1, IdleForesees
    <2>6. CASE ImportStep(p)
        <3>1. Syncs(job[p])
            BY <2>2 DEF SyncHolds
        <3> QED
            BY <2>6, <3>1 DEF Syncs, Working, ImportStep, SaveImport, SaveDownload, SaveFulfilled,
                              Fulfil, Archive, ReadBack
    <2>7. CASE SyncStep(p)
        <3>1. excused'[p] = excused[p]
            BY <2>7, JobTypes DEF TypeOK, SyncStep, ListFiles, ReadFile, Plan, DryRun, LookLocal, Keep, Verify,
                        SaveAs, SaveTaken, Disturb
        <3>2. Undisturbed(p)
            BY <2>2, <3>1 DEF Undisturbed
        <3> QED
            BY <2>2, <2>7, <3>2, ListFilesForesees, ReadFileForesees, PlanForesees, DryRunForesees,
               LookLocalForesees, KeepForesees
            DEF SyncStep
    <2>8. CASE Deliver(p) /\ ~AnswerLost(p)
        <3>1. excused'[p] = excused[p]
            BY <2>8 DEF Deliver, FindFolder, MakeFolder, Look, SetAside, Create, Disturb
        <3>2. Undisturbed(p)
            BY <2>2, <3>1 DEF Undisturbed
        <3> QED
            BY <2>2, <2>8, <3>2, FindFolderForesees, LookForesees, SetAsideForesees, CreateForesees
            DEF Deliver
    <2> QED
        BY <1>3, <2>3, <2>4, <2>5, <2>6, <2>7, <2>8
<1> QED
    BY <1>1, <1>2, <1>3, CommandStays

(* What another process, or the owner, does. *)
LEMMA OthersForesee ==
    ASSUME NEW q \in Procs, Foresees(q), job'[q] = job[q], aside \subseteq aside',
           excused'[q] = Origins \/ (UNCHANGED <<kind, kobo, tree, local>> /\ excused'[q] = excused[q])
    PROVE  Foresees(q)'
<1>1. job[q].foretold # NoRows => Applies(q)'
    BY DEF Foresees, Applies, IsSync
<1>2. SUFFICES ASSUME IsSync(q), Undisturbed(q)'
               PROVE  Reckons(q)'
    BY <1>1 DEF Foresees, IsSync
<1>3. UNCHANGED <<kind, kobo, tree, local>> /\ excused'[q] = excused[q]
    BY <1>2 DEF Undisturbed
<1>4. Reckons(q)
    BY <1>2, <1>3 DEF Foresees, Undisturbed
<1>5. AsForetold(q) => AsForetold(q)'
    <2> SUFFICES ASSUME AsForetold(q), job'[q].foretold # NoRows, \A o \in Ids : ~Unforeseen(q, o)',
                        NEW o \in Ids, job'[q].rows[o] # None
                 PROVE  job'[q].rows[o] = Foreseen(job'[q].foretold[o])
        BY DEF AsForetold
    <2>1. \A x \in Ids : ~Unforeseen(q, x)
        BY <1>3, UnforeseenStays
    <2> QED
        BY <2>1 DEF AsForetold
<1> QED
    BY <1>3, <1>4, <1>5 DEF Reckons

LEMMA AsideGrows ==
    ASSUME NEW p \in Procs,
           Command(p) \/ SyncStep(p) \/ ImportStep(p) \/ Deliver(p) \/ Fault(p) \/ Stop(p)
    PROVE  aside \subseteq aside'
<1>1. MakeFolder(p) \/ SetAside(p) \/ Create(p) \/ AnswerLost(p) => aside \subseteq aside'
    BY DEF MakeFolder, SetAside, Create, AnswerLost
<1> QED
    BY <1>1, StepsLookOn

LEMMA ForesightInductive == Spec => [](TypeOK /\ SyncInv /\ ForesightInv)
<1>1. Init => ForesightInv
    <2> SUFFICES ASSUME Init, NEW p \in Procs
                 PROVE  Foresees(p)
        BY DEF ForesightInv
    <2>1. job[p].command = None /\ job[p].foretold = NoRows
        BY DEF Init, Idle
    <2>2. None \notin SyncCommands
        BY DeliveryAssumption DEF SyncCommands
    <2> QED
        BY <2>1, <2>2 DEF Foresees, IsSync
<1>2. TypeOK /\ SyncInv /\ ForesightInv /\ [Next]_vars => ForesightInv'
    <2> SUFFICES ASSUME TypeOK, SyncInv, ForesightInv, [Next]_vars, NEW q \in Procs
                 PROVE  Foresees(q)'
        BY DEF ForesightInv
    <2>1. SyncHolds(q) /\ Foresees(q)
        BY DEF SyncInv, ForesightInv
    <2>2. ASSUME NEW p \in Procs,
                 Command(p) \/ SyncStep(p) \/ ImportStep(p) \/ Deliver(p) \/ Fault(p) \/ Stop(p)
          PROVE  Foresees(q)'
        <3>1. CASE p = q
            BY <2>1, <2>2, <3>1, StepForesees
        <3>2. CASE p # q
            <4>1. job'[q] = job[q]
                BY <2>2, <3>2, StepTypes, MovedKeeps
            <4> QED
                BY <2>1, <2>2, <3>2, <4>1, StepsDisturb, AsideGrows, OthersForesee
        <3> QED
            BY <3>1, <3>2
    <2>3. CASE Owner
        BY <2>1, <2>3, OthersForesee DEF Owner
    <2>4. CASE UNCHANGED vars
        BY <2>1, <2>4, OthersForesee DEF vars, disk
    <2> QED
        BY <2>2, <2>3, <2>4 DEF Next
<1> QED
    BY <1>1, <1>2, SyncInductive, PTL DEF Spec

(* What a dry run said of a book is what the apply run after it does, when *)
(* nothing came between (sync.rs:229): both decide from what is there, and *)
(* from what they decided about the books that come earlier by title.      *)
THEOREM ForetoldIsDone == Spec => []DryRunForetells
<1>1. ForesightInv => DryRunForetells
    <2> SUFFICES ASSUME ForesightInv, NEW p \in Procs, excused[p] = {}, \A o \in Ids : ~Unforeseen(p, o),
                        NEW o \in Ids, job[p].foretold[o] # None, job[p].rows[o] # None
                 PROVE  job[p].rows[o] = Foreseen(job[p].foretold[o])
        BY DEF DryRunForetells
    <2>1. o \in Origins
        BY DeliveryAssumption
    <2>2. job[p].foretold # NoRows
        BY <2>1 DEF NoRows
    <2>3. Applies(p) /\ Reckons(p)
        BY <2>1, <2>2 DEF ForesightInv, Foresees, Applies, Undisturbed
    <2>4. AsForetold(p)
        BY <2>3 DEF Reckons, Applies
    <2> QED
        BY <2>2, <2>4 DEF AsForetold
<1> QED
    BY <1>1, ForesightInductive, PTL

-----------------------------------------------------------------------------
(* Dry runs may decrypt and optimize, but never publish files or change a  *)
(* device (sync.rs:59): whatever a dry run does next, and however it ends, *)
(* no file changes.                                                        *)
DryRunsTouchNothing ==
    [][\A p \in Procs :
        IsSync(p) /\ ~job[p].command.apply /\ job'[p] # job[p] => UNCHANGED disk]_vars

(* A dry run never gets to a step that changes a file. *)
Looking == {"idle", "scan", "read files", "plan", "dry"}
LooksOn(j) == j.command \in SyncCommands /\ ~j.command.apply => j.at \in Looking
DryInv == \A p \in Procs : LooksOn(job[p])

LEMMA StartLooksOn ==
    ASSUME TypeOK, NEW p \in Procs, Command(p)
    PROVE  LooksOn(job'[p])
<1>1. job \in [Procs -> Jobs] /\ Idle \in Jobs
    BY JobTypes, IdleTypes
<1>2. PICK command \in Commands :
        \/ StartSync(p, command)
        \/ StartImport(p, command)
        \/ StartGet(p, command)
        \/ StartRequest(p, command)
        \/ StartSend(p, command)
    BY DEF Command
<1>3. CASE StartSync(p, command)
    <2> DEFINE todo == Chosen(Books(kobo), command)
               foretold == Foretold(job[p], command, p)
               k == [Idle EXCEPT !.command = command, !.at = "scan", !.todo = todo, !.foretold = foretold]
    <2>1. job'[p] = k
        BY <1>1, <1>3 DEF StartSync, Begin
    <2> HIDE DEF todo, foretold
    <2>2. k.at = "scan"
        BY <1>1 DEF Jobs
    <2> HIDE DEF k
    <2> QED
        BY <2>1, <2>2 DEF LooksOn, Looking
<1>4. ASSUME NEW at, NEW data, Start(p, command, at, data), command.name # "sync"
      PROVE  LooksOn(job'[p])
    <2> DEFINE k == [Idle EXCEPT !.command = command, !.at = at,
                                 !.origin = command.origin, !.data = data]
    <2>1. job'[p] = k
        BY <1>1, <1>4 DEF Start, Begin
    <2>2. k.command = command
        BY <1>1 DEF Jobs
    <2> HIDE DEF k
    <2> QED
        BY <1>4, <2>1, <2>2 DEF LooksOn, SyncCommands
<1>5. StartImport(p, command) => \E at, data : Start(p, command, at, data) /\ command.name = "import"
    BY DEF StartImport
<1>6. StartGet(p, command) => \E at, data : Start(p, command, at, data) /\ command.name = "get"
    BY DEF StartGet
<1>7. StartRequest(p, command) =>
        \E at, data : Start(p, command, at, data) /\ command.name \in {"acsm", "import"}
    BY DEF StartRequest
<1>8. StartSend(p, command) => \E at, data : Start(p, command, at, data) /\ command.name = "send"
    BY DEF StartSend
<1> QED
    BY <1>2, <1>3, <1>4, <1>5, <1>6, <1>7, <1>8

LEMMA StepLooksOn ==
    ASSUME TypeOK, NEW p \in Procs, LooksOn(job[p]),
           Command(p) \/ SyncStep(p) \/ ImportStep(p) \/ Deliver(p) \/ Fault(p) \/ Stop(p)
    PROVE  /\ LooksOn(job'[p])
           /\ IsSync(p) /\ ~job[p].command.apply => UNCHANGED disk
<1> DEFINE j == job[p]
<1>1. job \in [Procs -> Jobs] /\ j \in Jobs /\ Idle.at = "idle"
    BY JobTypes DEF Idle
<1>2. CASE Command(p)
    BY <1>2, StartLooksOn
    DEF Command, StartSync, StartImport, StartGet, StartRequest, StartSend, Start, Begin
<1>3. CASE ~Command(p)
    <2>1. job'[p] = Idle \/ KeepsCommand(j, job'[p])
        BY <1>3, CommandStays
    <2>2. CASE ~(j.command \in SyncCommands /\ ~j.command.apply)
        <3>1. None \notin SyncCommands /\ Idle.command = None
            BY DeliveryAssumption DEF SyncCommands, Idle
        <3> QED
            BY <2>1, <2>2, <3>1 DEF KeepsCommand, LooksOn, IsSync
    <2>3. CASE j.command \in SyncCommands /\ ~j.command.apply
        <3>1. j.at \in Looking
            BY <2>3 DEF LooksOn
        <3>2. ListFiles(p) \/ ReadFile(p) \/ Plan(p) \/ DryRun(p) \/ Fault(p) \/ Stop(p)
            BY <1>3, <3>1 DEF Looking, SyncStep, LookLocal, Keep, Verify, ImportStep, SaveImport, SaveDownload,
                       SaveFulfilled, Fulfil, Archive, ReadBack, Deliver, FindFolder, MakeFolder,
                       Look, SetAside, Create, AnswerLost
        <3>3. UNCHANGED disk
            BY <3>2 DEF ListFiles, ReadFile, Plan, DryRun, Fault, Stop
        <3> SUFFICES job'[p].at \in Looking
            BY <3>3 DEF LooksOn
        <3>4. ASSUME j.origin \in Origins, Fail(p)
              PROVE  job'[p].at \in Looking
            BY <1>1, <3>4, FailIs, FailedTypes DEF Looking
        <3>5. CASE Fault(p)
            BY <3>4, <3>5, JobTypes DEF Fault
        <3>6. CASE Stop(p)
            BY <1>1, <3>6 DEF Stop, Looking
        <3>7. CASE ListFiles(p)
            <4> DEFINE listed == Files(tree).listed
                       unread == Files(tree).unread
            <4>1. \/ job'[p] = [j EXCEPT !.at = "read files", !.seen = listed, !.unread = unread]
                  \/ job'[p] = Idle
                BY <1>1, <3>7 DEF ListFiles, Jobs
            <4> HIDE DEF listed, unread
            <4> QED
                BY <1>1, <4>1 DEF Jobs, Looking
        <3>8. CASE ReadFile(p)
            <4>1. ASSUME NEW place \in j.unread,
                         job' = [job EXCEPT ![p].seen[place] = tree[place], ![p].unread = @ \ {place}]
                  PROVE  job'[p].at \in Looking
                <5> DEFINE seen == [j.seen EXCEPT ![place] = tree[place]]
                           unread == j.unread \ {place}
                <5>1. job'[p] = [j EXCEPT !.seen = seen, !.unread = unread]
                    BY <1>1, <4>1 DEF Jobs
                <5> HIDE DEF seen, unread
                <5> QED
                    BY <1>1, <3>1, <5>1 DEF Jobs, Looking
            <4>2. CASE job' = [job EXCEPT ![p] = Idle]
                BY <1>1, <4>2 DEF Looking
            <4>3. CASE job' = [job EXCEPT ![p] = Proceed(j)]
                BY <1>1, <4>3, ProceedTypes DEF Looking
            <4> QED
                BY <3>8, <4>1, <4>2, <4>3 DEF ReadFile
        <3>9. CASE Plan(p)
            <4> DEFINE c == Considered(p)
                       at == IF c.command.apply THEN "import" ELSE "dry"
                       repair == c.seen[Target(c)] # None
            <4>1. c \in Jobs /\ c.origin \in Origins /\ c.command = j.command
                BY <3>9, ConsideredTypes DEF Plan
            <4>2. PICK status \in Decide(c) :
                    job'[p] = IF status = "Go" THEN [c EXCEPT !.at = at, !.repair = repair]
                              ELSE Proceed(Reported(c, status))
                BY <1>1, <3>9, PlanStep DEF Going
            <4>3. at = "dry"
                BY <2>3, <4>1
            <4> HIDE DEF c, at, repair
            <4>4. [c EXCEPT !.at = at, !.repair = repair].at = "dry"
                BY <4>1, <4>3 DEF Jobs
            <4>5. status # "Go" => Reported(c, status) \in Jobs
                BY <4>1, <4>2, DecideTypes, ReportedTypes DEF Statuses
            <4>6. status # "Go" => Proceed(Reported(c, status)).at \in {"idle", "plan"}
                BY <4>5, ProceedTypes
            <4> QED
                BY <4>2, <4>4, <4>6 DEF Looking
        <3>10. CASE DryRun(p)
            <4> DEFINE status == IF j.repair THEN "Repair" ELSE "Transfer"
            <4>1. j.origin \in Origins /\ j.data \in Contents /\ status \in Statuses
                BY <3>10, JobTypes DEF DryRun, Statuses
            <4>2. Fail(p) \/ job'[p] = Proceed(Reported(Planned(j), status))
                BY <1>1, <3>10 DEF DryRun
            <4> HIDE DEF status
            <4>3. Planned(j) \in Jobs /\ Planned(j).origin \in Origins
                BY <1>1, <4>1, PlannedTypes
            <4>4. Reported(Planned(j), status) \in Jobs
                BY <4>1, <4>3, ReportedTypes
            <4> QED
                BY <3>4, <4>1, <4>2, <4>4, ProceedTypes DEF Looking
        <3> QED
            BY <3>2, <3>5, <3>6, <3>7, <3>8, <3>9, <3>10
    <2> QED
        BY <2>2, <2>3
<1> QED
    BY <1>2, <1>3

(* A dry run never gets as far as a step that publishes, sends, sets aside *)
(* or archives (sync.rs:59, sync.rs:229).                                  *)
THEOREM DryRunsOnlyLookOn == Spec => DryRunsTouchNothing
<1>1. Init => DryInv
    <2> SUFFICES ASSUME Init, NEW p \in Procs
                 PROVE  LooksOn(job[p])
        BY DEF DryInv
    <2>1. job[p].at = "idle"
        BY DEF Init, Idle
    <2> QED
        BY <2>1 DEF LooksOn, Looking
<1>2. TypeOK /\ DryInv /\ [Next]_vars =>
        /\ DryInv'
        /\ [\A p \in Procs :
                IsSync(p) /\ ~job[p].command.apply /\ job'[p] # job[p] => UNCHANGED disk]_vars
    <2> SUFFICES ASSUME TypeOK, DryInv, [Next]_vars, NEW q \in Procs
                 PROVE  /\ LooksOn(job'[q])
                        /\ IsSync(q) /\ ~job[q].command.apply /\ job'[q] # job[q] => UNCHANGED disk
        BY DEF DryInv, LooksOn
    <2>1. LooksOn(job[q])
        BY DEF DryInv
    <2>2. ASSUME NEW p \in Procs,
                 Command(p) \/ SyncStep(p) \/ ImportStep(p) \/ Deliver(p) \/ Fault(p) \/ Stop(p)
          PROVE  p = q \/ job'[q] = job[q]
        BY <2>2, StepTypes, MovedKeeps
    <2>3. ASSUME Command(q) \/ SyncStep(q) \/ ImportStep(q) \/ Deliver(q) \/ Fault(q) \/ Stop(q)
          PROVE  /\ LooksOn(job'[q])
                 /\ IsSync(q) /\ ~job[q].command.apply => UNCHANGED disk
        BY <2>1, <2>3, StepLooksOn
    <2>4. Owner \/ UNCHANGED vars => job' = job
        BY DEF Owner, vars
    <2> QED
        BY <2>1, <2>2, <2>3, <2>4 DEF Next
<1> QED
    BY <1>1, <1>2, TypeCorrect, PTL DEF Spec, DryRunsTouchNothing

-----------------------------------------------------------------------------
(* What every command brings to the reader is the copy made of what the    *)
(* import folder has at that moment (sync.rs:178 and cli.rs:398 read the   *)
(* import back before it is passed on), however late the file gets its     *)
(* name - unless somebody came between.                                    *)
SendsWhatWasImported ==
    [][\A p \in Procs, path \in Paths :
        /\ job'[p] # job[p] /\ excused[p] # Origins
        /\ tree'[path] # tree[path] /\ tree'[path] \in Contents
        => /\ job[p].origin \in Origins
           /\ local[job[p].origin] \in Contents
           /\ tree'[path] = DeviceCopy[local[job[p].origin]]]_vars

(* From the reading back to the last step of a transfer. *)
Passing(j) == j.at \in {"folder", "mkdir", "look", "backup", "create"}

HasImport(p) == Passing(job[p]) /\ excused[p] # Origins => local[job[p].origin] = job[p].data
PassingInv == \A p \in Procs : HasImport(p)

(* What is about to be saved in the import folder is a whole book. *)
Saving(j) == j.at \in {"import", "keep", "save"}
SavesWhole == \A p \in Procs : Saving(job[p]) => job[p].data \in Readable

(* A book is passed on when it was read back, and is saved when it passed  *)
(* validation; until then it stays the one in hand.                        *)
Holding(j) == Passing(j) \/ Saving(j)

PassesOn(p) ==
    /\ Passing(job'[p]) =>
        /\ local' = local
        /\ \/ local[job'[p].origin] = job'[p].data
           \/ /\ Passing(job[p]) /\ excused'[p] = excused[p]
              /\ job'[p].origin = job[p].origin /\ job'[p].data = job[p].data
    /\ Saving(job'[p]) =>
        \/ job'[p].data \in Readable
        \/ Saving(job[p]) /\ job'[p].data = job[p].data

LEMMA CommandPasses ==
    ASSUME TypeOK, NEW p \in Procs, Command(p)
    PROVE  ~Passing(job'[p]) /\ PassesOn(p)
<1>1. job \in [Procs -> Jobs] /\ Idle \in Jobs
    BY JobTypes, IdleTypes
<1>2. ASSUME NEW command, NEW at \in {"save", "fulfil", "read"}, NEW data, Start(p, command, at, data),
             at = "save" => data \in Readable
      PROVE  ~Passing(job'[p]) /\ PassesOn(p)
    <2> DEFINE k == [Idle EXCEPT !.command = command, !.at = at,
                                 !.origin = command.origin, !.data = data]
    <2>1. job'[p] = k
        BY <1>1, <1>2 DEF Start, Begin
    <2>2. k.at = at /\ k.data = data
        BY <1>1 DEF Jobs
    <2> HIDE DEF k
    <2> QED
        BY <1>2, <2>1, <2>2 DEF Passing, Saving, PassesOn
<1>3. ASSUME NEW command, StartSync(p, command)
      PROVE  ~Passing(job'[p]) /\ PassesOn(p)
    <2> DEFINE todo == Chosen(Books(kobo), command)
               said == Foretold(job[p], command, p)
    <2>1. job'[p] = [Idle EXCEPT !.command = command, !.at = "scan", !.todo = todo, !.foretold = said]
        BY <1>1, <1>3 DEF StartSync, Begin
    <2> HIDE DEF todo, said
    <2>2. job'[p].at = "scan"
        BY <1>1, <2>1 DEF Jobs
    <2> QED
        BY <2>2 DEF Passing, Saving, PassesOn
<1>4. ASSUME NEW command, StartImport(p, command)
      PROVE  ~Passing(job'[p]) /\ PassesOn(p)
    <2>1. Import(kobo, command.origin) \in Readable
        BY <1>4 DEF StartImport, Import
    <2> QED
        BY <1>2, <1>4, <2>1 DEF StartImport
<1> QED
    BY <1>2, <1>3, <1>4 DEF Command, StartGet, StartRequest, StartSend

(* A book that failed or is done is in nobody's hands. *)
LEMMA DonePasses ==
    ASSUME TypeOK, NEW p \in Procs, job[p].origin \in Origins,
           \/ Fail(p)
           \/ job' = [job EXCEPT ![p] = Failed(job[p])]
           \/ job' = [job EXCEPT ![p] = PassOn(job[p])]
           \/ job[p].data \in Contents /\ job' = [job EXCEPT ![p] = Delivered(job[p])]
    PROVE  ~Holding(job'[p])
<1>1. job \in [Procs -> Jobs] /\ job[p] \in Jobs
    BY JobTypes
<1>2. ASSUME NEW k, job' = [job EXCEPT ![p] = k]
      PROVE  job'[p] = k
    BY <1>1, <1>2
<1>3. job'[p].at \in {"idle", "plan", "read"}
    <2>1. CASE Fail(p) \/ job' = [job EXCEPT ![p] = Failed(job[p])]
        BY <1>1, <1>2, <2>1, FailIs, FailedTypes
    <2>2. CASE job' = [job EXCEPT ![p] = PassOn(job[p])]
        BY <1>1, <1>2, <2>2, PassOnTypes
    <2>3. CASE job[p].data \in Contents /\ job' = [job EXCEPT ![p] = Delivered(job[p])]
        <3>1. job'[p] = Delivered(job[p])
            BY <1>2, <2>3
        <3> QED
            BY <1>1, <2>3, <3>1, DeliveredTypes
    <2> QED
        BY <2>1, <2>2, <2>3
<1> QED
    BY <1>3 DEF Holding, Passing, Saving

LEMMA SyncPasses ==
    ASSUME TypeOK, NEW p \in Procs, SyncStep(p)
    PROVE  PassesOn(p)
<1> DEFINE j == job[p]
<1>1. job \in [Procs -> Jobs] /\ j \in Jobs /\ Idle.at = "idle"
    BY JobTypes DEF Idle
<1>2. \A k : job' = [job EXCEPT ![p] = k] => job'[p] = k
    BY <1>1
<1>3. CASE ListFiles(p)
    <2> DEFINE files == Files(tree)
    <2>1. \/ job'[p] = [j EXCEPT !.at = "read files", !.seen = files.listed, !.unread = files.unread]
          \/ job'[p] = Idle
        BY <1>1, <1>3 DEF ListFiles, Jobs
    <2> HIDE DEF files
    <2> QED
        BY <1>1, <2>1 DEF Jobs, Passing, Saving, PassesOn
<1>4. CASE ReadFile(p)
    <2>1. ASSUME NEW place \in j.unread,
                 job' = [job EXCEPT ![p].seen[place] = tree[place], ![p].unread = @ \ {place}]
          PROVE  ~Holding(job'[p])
        <3> DEFINE seen == [j.seen EXCEPT ![place] = tree[place]]
                   unread == j.unread \ {place}
        <3>1. job'[p] = [j EXCEPT !.seen = seen, !.unread = unread]
            BY <1>1, <2>1 DEF Jobs
        <3> HIDE DEF seen, unread
        <3> QED
            BY <1>1, <1>4, <3>1 DEF ReadFile, Jobs, Holding, Passing, Saving
    <2> QED
        BY <1>1, <1>2, <1>4, <2>1, ProceedTypes DEF ReadFile, Holding, Passing, Saving, PassesOn
<1>5. CASE Plan(p)
    <2> DEFINE c == Considered(p)
               at == IF c.command.apply THEN "import" ELSE "dry"
               repair == c.seen[Target(c)] # None
    <2>1. c \in Jobs /\ c.origin \in Origins
        BY <1>5, ConsideredTypes DEF Plan
    <2>2. PICK status \in Decide(c) :
            job'[p] = IF status = "Go" THEN [c EXCEPT !.at = at, !.repair = repair]
                      ELSE Proceed(Reported(c, status))
        BY <1>1, <1>5, PlanStep DEF Going
    <2>3. at \in {"import", "dry"}
        OBVIOUS
    <2>7. status = "Go" => c.data \in Readable
        <3>1. c.data = Import(kobo, j.origin) /\ c.at = "plan"
            BY <1>5, ConsideredTypes DEF Plan
        <3>2. status = "Go" => c.data # None
            BY <2>1, <2>2, DecideGo
        <3> QED
            BY <3>1, <3>2 DEF Import
    <2> HIDE DEF c, at, repair
    <2>4. /\ [c EXCEPT !.at = at, !.repair = repair].at = at
          /\ [c EXCEPT !.at = at, !.repair = repair].data = c.data
        BY <2>1 DEF Jobs
    <2>5. status # "Go" => Reported(c, status) \in Jobs
        BY <2>1, <2>2, DecideTypes, ReportedTypes DEF Statuses
    <2>6. status # "Go" => Proceed(Reported(c, status)).at \in {"idle", "plan"}
        BY <2>5, ProceedTypes
    <2> QED
        BY <2>2, <2>3, <2>4, <2>6, <2>7 DEF Passing, Saving, PassesOn
<1>6. CASE DryRun(p)
    <2> DEFINE status == IF j.repair THEN "Repair" ELSE "Transfer"
    <2>1. j.origin \in Origins /\ j.data \in Contents /\ status \in Statuses
        BY <1>6, JobTypes DEF DryRun, Statuses
    <2>2. Fail(p) \/ job'[p] = Proceed(Reported(Planned(j), status))
        BY <1>1, <1>6 DEF DryRun
    <2> HIDE DEF status
    <2>3. Planned(j) \in Jobs /\ Planned(j).origin \in Origins
        BY <1>1, <2>1, PlannedTypes
    <2>4. Reported(Planned(j), status) \in Jobs
        BY <2>1, <2>3, ReportedTypes
    <2> QED
        BY <2>1, <2>2, <2>4, ProceedTypes, DonePasses DEF Holding, Passing, Saving, PassesOn
<1>7. CASE LookLocal(p)
    <2>1. j.origin \in Origins /\ "keep" \in Steps /\ "verify" \in Steps
        BY <1>7, JobTypes DEF LookLocal
    <2> QED
        BY <1>7, <2>1, GotoIs, DonePasses DEF LookLocal, Holding, Passing, Saving, PassesOn
<1>8. CASE Keep(p)
    <2>1. j.origin \in Origins /\ [j EXCEPT !.at = "verify"].at = "verify"
        BY <1>1, <1>8, JobTypes DEF Keep, Jobs
    <2> QED
        BY <1>2, <1>8, <2>1, DonePasses DEF Keep, SaveAs, SaveTaken, Holding, Passing, Saving, PassesOn
<1>9. CASE Verify(p)
    <2>1. j.origin \in Origins /\ "folder" \in Steps
        BY <1>9, JobTypes DEF Verify
    <2> QED
        BY <1>9, <2>1, GotoIs, DonePasses DEF Verify, Holding, Saving, PassesOn, disk
<1> QED
    BY <1>3, <1>4, <1>5, <1>6, <1>7, <1>8, <1>9 DEF SyncStep

LEMMA ImportPasses ==
    ASSUME TypeOK, NEW p \in Procs, ImportStep(p)
    PROVE  PassesOn(p)
<1> DEFINE j == job[p]
<1>1. job \in [Procs -> Jobs] /\ j \in Jobs
    BY JobTypes
<1>2. j.origin \in Origins
    BY <1>1, JobTypes
    DEF ImportStep, SaveImport, SaveDownload, SaveFulfilled, Fulfil, Archive, ReadBack
<1>3. CASE SaveImport(p) \/ SaveDownload(p) \/ Archive(p)
    BY <1>2, <1>3, DonePasses
    DEF SaveImport, SaveDownload, Archive, SaveAs, SaveTaken, Holding, PassesOn
<1>4. CASE SaveFulfilled(p)
    <2> DEFINE k == [j EXCEPT !.at = "archive"]
    <2>1. k.at = "archive"
        BY <1>1 DEF Jobs
    <2>2. job' = [job EXCEPT ![p] = k] \/ job' = [job EXCEPT ![p] = Failed(j)]
        BY <1>4 DEF SaveFulfilled, SaveAs, SaveTaken
    <2>3. job' = [job EXCEPT ![p] = k] => job'[p] = k
        BY <1>1
    <2> QED
        BY <1>2, <2>1, <2>2, <2>3, DonePasses DEF Holding, Passing, Saving, PassesOn
<1>5. CASE Fulfil(p)
    <2> DEFINE book == Ordered[j.origin]
               k == [j EXCEPT !.at = "save", !.data = book]
    <2>1. Fail(p) \/ (book \in Readable /\ job'[p] = k)
        BY <1>1, <1>5 DEF Fulfil
    <2> HIDE DEF book
    <2>2. k.at = "save" /\ k.data = book
        BY <1>1 DEF Jobs
    <2> QED
        BY <1>2, <2>1, <2>2, DonePasses DEF Holding, Passing, PassesOn
<1>6. CASE ReadBack(p)
    <2> DEFINE k == [j EXCEPT !.at = "folder", !.data = local[j.origin]]
    <2>1. Fail(p) \/ job'[p] = k
        BY <1>1, <1>6 DEF ReadBack
    <2>2. k.at = "folder" /\ k.origin = j.origin /\ k.data = local[j.origin]
        BY <1>1 DEF Jobs
    <2>3. local' = local
        BY <1>6 DEF ReadBack, disk
    <2> QED
        BY <1>2, <2>1, <2>2, <2>3, DonePasses DEF Holding, Saving, PassesOn
<1> QED
    BY <1>3, <1>4, <1>5, <1>6 DEF ImportStep

LEMMA DeliverPasses ==
    ASSUME TypeOK, NEW p \in Procs, Deliver(p)
    PROVE  PassesOn(p)
<1> DEFINE j == job[p]
<1>1. job \in [Procs -> Jobs] /\ j \in Jobs /\ excused \in [Procs -> SUBSET Origins]
    BY JobTypes DEF TypeOK
<1>2. j.origin \in Origins /\ j.data \in Contents /\ Passing(j)
    BY JobTypes DEF Deliver, FindFolder, MakeFolder, Look, SetAside, Create, AnswerLost, Passing
<1>3. local' = local
    BY DEF Deliver, FindFolder, MakeFolder, Look, SetAside, Create, AnswerLost, disk
<1>4. {"look", "mkdir", "create"} \subseteq Steps
    OBVIOUS
<1>5. ASSUME NEW at \in {"look", "mkdir", "create"}, Goto(p, at), excused'[p] = excused[p]
      PROVE  PassesOn(p)
    BY <1>2, <1>3, <1>4, <1>5, GotoIs DEF Saving, PassesOn
<1>6. Fail(p) \/ job' = [job EXCEPT ![p] = Delivered(j)] => PassesOn(p)
    BY <1>2, DonePasses DEF Holding, PassesOn
<1>7. CASE FindFolder(p)
    BY <1>5, <1>6, <1>7 DEF FindFolder
<1>8. CASE MakeFolder(p)
    BY <1>1, <1>5, <1>6, <1>8 DEF MakeFolder, Disturb
<1>9. CASE Look(p)
    <2> DEFINE seen == [j.seen EXCEPT ![Target(j)] = tree[Target(j)]]
               k == [j EXCEPT !.at = "backup", !.seen = seen]
    <2>1. excused'[p] = excused[p]
        BY <1>9 DEF Look
    <2>2. CASE job' = [job EXCEPT ![p] = [j EXCEPT !.at = "backup", !.seen[Target(j)] = tree[Target(j)]]]
        <3>1. job'[p] = k
            BY <1>1, <2>2 DEF Jobs
        <3> HIDE DEF seen
        <3>2. k.at = "backup" /\ k.origin = j.origin /\ k.data = j.data
            BY <1>1 DEF Jobs
        <3> QED
            BY <1>2, <1>3, <2>1, <3>1, <3>2 DEF Saving, PassesOn
    <2> QED
        BY <1>5, <1>6, <1>9, <2>1, <2>2 DEF Look
<1>10. CASE SetAside(p)
    BY <1>1, <1>5, <1>6, <1>10 DEF SetAside, Disturb
<1>11. CASE Create(p)
    <2>1. Fail(p) \/ job' = [job EXCEPT ![p] = Delivered(j)]
        BY <1>1, <1>11 DEF Create
    <2> QED
        BY <1>6, <2>1
<1>12. CASE AnswerLost(p)
    BY <1>6, <1>12 DEF AnswerLost
<1> QED
    BY <1>7, <1>8, <1>9, <1>10, <1>11, <1>12 DEF Deliver

LEMMA StepPasses ==
    ASSUME TypeOK, NEW p \in Procs,
           Command(p) \/ SyncStep(p) \/ ImportStep(p) \/ Deliver(p) \/ Fault(p) \/ Stop(p)
    PROVE  /\ PassesOn(p)
           /\ HasImport(p) => HasImport(p)'
<1>1. CASE Command(p)
    BY <1>1, CommandPasses DEF HasImport, Passing
<1>2. CASE Fault(p) \/ Stop(p)
    <2>1. Fault(p) => Fail(p) /\ job[p].origin \in Origins
        BY JobTypes DEF Fault
    <2>2. Stop(p) => job'[p].at = "idle"
        <3>1. job \in [Procs -> Jobs] /\ Idle.at = "idle"
            BY JobTypes DEF Idle
        <3> QED
            BY <3>1 DEF Stop
    <2>3. ~Holding(job'[p])
        BY <1>2, <2>1, <2>2, DonePasses DEF Holding, Passing, Saving
    <2> QED
        BY <2>3 DEF HasImport, Holding, Passing, PassesOn
<1>3. CASE SyncStep(p) \/ ImportStep(p) \/ Deliver(p)
    <2>1. PassesOn(p)
        BY <1>3, SyncPasses, ImportPasses, DeliverPasses
    <2> QED
        BY <2>1 DEF PassesOn, HasImport, Passing
<1> QED
    BY <1>1, <1>2, <1>3

(* What reaches the reader was read back from the import folder, and stays *)
(* there as it was read until the file on the reader has its name.         *)
THEOREM SentIsImported == Spec => SendsWhatWasImported
<1> DEFINE Puts(p, path) ==
        /\ job'[p] # job[p] /\ excused[p] # Origins
        /\ tree'[path] # tree[path] /\ tree'[path] \in Contents
<1>1. Init => PassingInv
    BY DEF Init, Idle, PassingInv, HasImport, Passing
<1>2. TypeOK /\ PassingInv /\ [Next]_vars => PassingInv'
    <2> SUFFICES ASSUME TypeOK, PassingInv, [Next]_vars, NEW q \in Procs
                 PROVE  HasImport(q)'
        BY DEF PassingInv
    <2>1. ASSUME job'[q] = job[q],
                 excused'[q] = Origins \/ (UNCHANGED <<kind, kobo, tree, local>> /\ excused'[q] = excused[q])
          PROVE  HasImport(q)'
        BY <2>1 DEF PassingInv, HasImport, Passing
    <2>2. ASSUME NEW p \in Procs,
                 Command(p) \/ SyncStep(p) \/ ImportStep(p) \/ Deliver(p) \/ Fault(p) \/ Stop(p)
          PROVE  HasImport(q)'
        <3>1. CASE p = q
            BY <2>2, <3>1, StepPasses DEF PassingInv
        <3>2. CASE p # q
            <4>1. job'[q] = job[q]
                BY <2>2, <3>2, StepTypes, MovedKeeps
            <4> QED
                BY <2>1, <2>2, <3>2, <4>1, StepsDisturb
        <3> QED
            BY <3>1, <3>2
    <2>3. CASE Owner
        BY <2>1, <2>3 DEF Owner
    <2>4. CASE UNCHANGED vars
        BY <2>1, <2>4 DEF vars, disk
    <2> QED
        BY <2>2, <2>3, <2>4 DEF Next
<1>3. TypeOK /\ PassingInv /\ [Next]_vars =>
        [\A p \in Procs, path \in Paths :
            /\ job'[p] # job[p] /\ excused[p] # Origins
            /\ tree'[path] # tree[path] /\ tree'[path] \in Contents
            => /\ job[p].origin \in Origins
               /\ local[job[p].origin] \in Contents
               /\ tree'[path] = DeviceCopy[local[job[p].origin]]]_vars
    <2> SUFFICES ASSUME TypeOK, PassingInv, [Next]_vars,
                        NEW p \in Procs, NEW path \in Paths, Puts(p, path)
                 PROVE  /\ job[p].origin \in Origins
                        /\ local[job[p].origin] \in Contents
                        /\ tree'[path] = DeviceCopy[local[job[p].origin]]
        OBVIOUS
    <2> DEFINE j == job[p]
    <2>1. PICK q \in Procs :
            Command(q) \/ SyncStep(q) \/ ImportStep(q) \/ Deliver(q) \/ Fault(q) \/ Stop(q)
        BY DEF Next, Owner, vars
    <2>2. q = p
        BY <2>1, StepTypes, MovedKeeps
    <2>3. j.at = "create" /\ path = Target(j)
        BY <2>1, <2>2, OnlyCreatesPut
    <2>4. local[j.origin] = j.data /\ j.origin \in Origins /\ j.data \in Contents
        BY <2>3, JobTypes DEF PassingInv, HasImport, Passing
    <2>5. tree \in [Places -> Entries] /\ path \in Places
        BY TreeTypes DEF TypeOK, Places
    <2>6. Create(p) \/ AnswerLost(p)
        <3>1. MakeFolder(p) \/ SetAside(p) \/ Create(p) \/ AnswerLost(p)
            BY <2>1, <2>2, StepsLookOn
        <3> QED
            BY <2>3, <3>1 DEF MakeFolder, SetAside
    <2>7. tree'[path] = DeviceCopy[j.data]
        BY <2>3, <2>5, <2>6 DEF Create, AnswerLost, Prepared
    <2> QED
        BY <2>4, <2>7
<1> QED
    BY <1>1, <1>2, <1>3, TypeCorrect, PTL DEF Spec, SendsWhatWasImported

-----------------------------------------------------------------------------
(* The import folder. *)

LEMMA FolderInit == Init => Imported!Init
<1> SUFFICES ASSUME Init
             PROVE  Imported!Init
    OBVIOUS
<1>1. local \in [Origins -> Contents \union {None}]
    BY InitTypes DEF TypeOK
<1> QED
    BY <1>1 DEF Init, Imported!Init, Imported!States

(* What the step of a process does to the import folder and its requests. *)
LEMMA StepsSave ==
    ASSUME NEW p \in Procs,
           Command(p) \/ SyncStep(p) \/ ImportStep(p) \/ Deliver(p) \/ Fault(p) \/ Stop(p)
    PROVE  \/ UNCHANGED <<local, published, spent, owner>>
           \/ /\ Saving(job[p])
              /\ local[job[p].origin] = None
              /\ local' = [local EXCEPT ![job[p].origin] = job[p].data]
              /\ published' = published \union {job[p].origin}
              /\ UNCHANGED <<spent, owner>>
           \/ Archive(p)
<1>1. CASE Command(p)
    BY <1>1 DEF Command, StartSync, StartImport, StartGet, StartRequest, StartSend, Start, Begin, disk
<1>2. CASE SyncStep(p)
    BY <1>2 DEF SyncStep, ListFiles, ReadFile, Plan, DryRun, LookLocal, Keep, Verify,
                SaveAs, SaveTaken, Saving, disk, bounds
<1>3. CASE ImportStep(p)
    BY <1>3 DEF ImportStep, SaveImport, SaveDownload, SaveFulfilled, Fulfil, ReadBack,
                SaveAs, SaveTaken, Saving, disk, bounds
<1>4. CASE Deliver(p)
    BY <1>4 DEF Deliver, FindFolder, MakeFolder, Look, SetAside, Create, AnswerLost, disk, bounds
<1>5. CASE Fault(p) \/ Stop(p)
    BY <1>5 DEF Fault, Stop, disk
<1> QED
    BY <1>1, <1>2, <1>3, <1>4, <1>5

LEMMA FolderNext ==
    ASSUME SpentInv, SavesWhole, [Next]_vars
    PROVE  [Imported!Next]_(Imported!vars)
<1>1. local \in [Origins -> Contents \union {None}] /\ TypeOK
    BY DEF SpentInv, TypeOK
<1>2. CASE UNCHANGED <<local, published, spent, owner>>
    BY <1>2 DEF Imported!vars
<1>3. ASSUME NEW p \in Procs, Saving(job[p]), local[job[p].origin] = None,
             local' = [local EXCEPT ![job[p].origin] = job[p].data],
             published' = published \union {job[p].origin},
             UNCHANGED <<spent, owner>>
      PROVE  Imported!Next
    <2>1. PICK name \in Origins : name = job[p].origin
        BY <1>1, <1>3, JobTypes DEF Saving
    <2>2. job[p].data \in Readable
        BY <1>3 DEF SavesWhole
    <2>3. Imported!Publish(name)
        BY <1>3, <2>1, <2>2 DEF Imported!Publish
    <2> QED
        BY <2>1, <2>3, Zenon DEF Imported!Next
<1>4. ASSUME NEW p \in Procs, Archive(p)
      PROVE  [Imported!Next]_(Imported!vars)
    <2>1. PICK name \in Origins : name = job[p].origin
        BY <1>1, <1>4, JobTypes DEF Archive
    <2>2. name \in published
        BY <1>4, <2>1 DEF Archive, SpentInv, ArchivesWhatIsSaved
    <2>3. UNCHANGED <<local, published, owner>> /\ spent' \in {spent, spent \union {name}}
        BY <1>4, <2>1 DEF Archive, bounds
    <2>4. CASE spent' = spent
        BY <2>3, <2>4 DEF Imported!vars
    <2>5. CASE spent' = spent \union {name}
        <3>1. Imported!Spend(name)
            BY <2>2, <2>3, <2>5 DEF Imported!Spend
        <3> QED
            BY <2>1, <3>1, Zenon DEF Imported!Next
    <2> QED
        BY <2>3, <2>4, <2>5
<1>5. CASE Owner
    <2>1. local' \in [Origins -> Contents \union {None}]
        BY <1>1, <1>5, OwnerTypes DEF TypeOK
    <2>2. owner' = owner + 1 /\ UNCHANGED <<published, spent>>
        BY <1>5 DEF Owner
    <2> QED
        BY <2>1, <2>2 DEF Imported!Next, Imported!Owner, Imported!States
<1>6. UNCHANGED vars => UNCHANGED <<local, published, spent, owner>>
    BY DEF vars, disk, bounds
<1> QED
    BY <1>2, <1>3, <1>4, <1>5, <1>6, StepsSave DEF Next

(* Whatever processes do beside each other, and wherever they are killed:  *)
(* a name in the import folder is only ever given to one whole book, when  *)
(* it is free, and a request is put away only after its book was published.*)
THEOREM CommandsImplementImports == Spec => ImplementsImports
<1>1. Init => Imported!Init /\ SavesWhole
    BY FolderInit DEF Init, Idle, SavesWhole, Saving
<1>2. SpentInv /\ SavesWhole /\ [Next]_vars => SavesWhole'
    <2> SUFFICES ASSUME SpentInv, SavesWhole, [Next]_vars, NEW q \in Procs, Saving(job'[q])
                 PROVE  job'[q].data \in Readable
        BY DEF SavesWhole, Saving
    <2>1. ASSUME NEW p \in Procs,
                 Command(p) \/ SyncStep(p) \/ ImportStep(p) \/ Deliver(p) \/ Fault(p) \/ Stop(p)
          PROVE  job'[q] = job[q] \/ PassesOn(q)
        BY <2>1, StepTypes, MovedKeeps, StepPasses DEF SpentInv
    <2>2. Owner \/ UNCHANGED vars => job' = job
        BY DEF Owner, vars
    <2>3. job'[q] = job[q] \/ PassesOn(q)
        BY <2>1, <2>2 DEF Next
    <2> QED
        BY <2>3 DEF SavesWhole, PassesOn
<1>3. SpentInv /\ SavesWhole /\ [Next]_vars => [Imported!Next]_(Imported!vars)
    BY FolderNext
<1> QED
    BY <1>1, <1>2, <1>3, SpentInductive, PTL DEF Spec, ImplementsImports, Imported!Spec
=============================================================================
