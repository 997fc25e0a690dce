------------------------ MODULE CrossPointSend_proofs ------------------------
(***************************************************************************)
(* Proofs about CrossPointSend, for any number of processes, books, places *)
(* and sends.                                                              *)
(***************************************************************************)
EXTENDS CrossPointSend, SequenceTheorems, TLAPS

(* A process never writes into the staging file of another: this follows   *)
(* from the assumption that a random name is a new one (StartUpload), and  *)
(* is what the argument needs of it.                                       *)
StagingIsPrivate ==
    \A c, d \in Clients :
        /\ pc[c] \in {"window", "verify", "publish"} => stage[c] \in taken
        /\ c # d /\ {pc[c], pc[d]} \subseteq {"window", "verify", "publish"}
              => stage[c] # stage[d]

(* What a process has verified stays as it was verified until it is given  *)
(* its name: nobody else writes into that staging file.                    *)
Verified ==
    \A c \in Clients :
        pc[c] = "publish" => stages[stage[c]] \in {Data[job[c].book], Absent}

(* The inductive invariant.  A whole book appears because a process only   *)
(* publishes what it verified (Verified), and that stays verified because  *)
(* no other process uses its staging name (StagingIsPrivate).              *)
IInv == TypeOK /\ StagingIsPrivate /\ Verified

LEMMA RequestTypes ==
    ASSUME NEW r \in Requests
    PROVE  /\ r.book \in Books
           /\ r.slot \in Slots
           /\ FolderOf(r) \in Folders
           /\ Data[r.book] \in Contents
           /\ Size(r) \in Nat
BY RequestsAssumption, DataAssumption DEF Slots, FolderOf, Size, Contents

LEMMA InitIInv == Init => IInv
<1> SUFFICES ASSUME Init PROVE IInv
  OBVIOUS
<1>1. TypeOK
  <2>1. books \in [Slots -> Contents \union {Absent, Directory}]
    BY DataAssumption DEF Init
  <2>2. job \in [Clients -> Requests]
    BY RequestsAssumption DEF Init
  <2> QED
    BY <2>1, <2>2 DEF Init, TypeOK, Places
<1>2. StagingIsPrivate /\ Verified
  BY DEF Init, StagingIsPrivate, Verified
<1> QED
  BY <1>1, <1>2 DEF IInv

LEMMA NextTypeOK == IInv /\ [Next]_vars => TypeOK'
<1> SUFFICES ASSUME IInv, [Next]_vars PROVE TypeOK'
  OBVIOUS
<1> USE DEF IInv, TypeOK, Goto, End, Answered, Places
<1>1. ASSUME NEW c \in Clients, NEW r \in Requests, Begin(c, r) PROVE TypeOK'
  BY <1>1 DEF Begin, reader
<1>2. ASSUME NEW c \in Clients, AuthorFolder(c) PROVE TypeOK'
  BY <1>2 DEF AuthorFolder, reader
<1>3. ASSUME NEW c \in Clients, MakeFolder(c) PROVE TypeOK'
  BY <1>3 DEF MakeFolder
<1>4. ASSUME NEW c \in Clients, CheckFolder(c) PROVE TypeOK'
  BY <1>4 DEF CheckFolder, reader
<1>5. ASSUME NEW c \in Clients, List(c) PROVE TypeOK'
  <2>1. job[c].slot \in Slots
    BY RequestTypes
  <2>2. listed' \in [Clients -> Nat]
    BY <1>5, <2>1 DEF List, Contents
  <2>3. pc' \in [Clients -> Places] /\ result' \in [Clients -> {"none", "sent", "present", "refused", "failed"}]
    BY <1>5 DEF List
  <2> QED
    BY <1>5, <2>2, <2>3 DEF List, reader
<1>6. ASSUME NEW c \in Clients, Compare(c) PROVE TypeOK'
  BY <1>6 DEF Compare, reader
<1>7. ASSUME NEW c \in Clients, ReadPrefix(c) PROVE TypeOK'
  BY <1>7 DEF ReadPrefix, reader
<1>8. ASSUME NEW c \in Clients, SetAside(c) PROVE TypeOK'
  <2>1. job[c].slot \in Slots /\ BackupName(c) \in Folders \X Books \X Nat
    BY RequestTypes DEF BackupName
  <2> QED
    BY <1>8, <2>1 DEF SetAside
<1>9. ASSUME NEW c \in Clients, StartUpload(c) PROVE TypeOK'
  <2>1. <<>> \in Contents
    BY DEF Contents
  <2>2. stages' \in [Staging -> Contents \union {Absent}] /\ taken' \subseteq Staging
    BY <1>9, <2>1 DEF StartUpload
  <2>3. stage' \in [Clients -> Staging \union {Absent}]
    BY <1>9 DEF StartUpload
  <2>4. pc' \in [Clients -> Places] /\ result' \in [Clients -> {"none", "sent", "present", "refused", "failed"}]
    BY <1>9 DEF StartUpload
  <2> QED
    BY <1>9, <2>2, <2>3, <2>4 DEF StartUpload
<1>10. ASSUME NEW c \in Clients, UploadWindow(c) PROVE TypeOK'
  <2>1. Data[job[c].book][acked[c] + 1] \in Blocks
    BY <1>10, RequestTypes DEF UploadWindow, Contents, Size
  <2>2. stage[c] \in Staging
    BY <1>10 DEF UploadWindow, StagingIsPrivate
  <2>3. stages[stage[c]] \in Contents
    BY <1>10, <2>2 DEF UploadWindow
  <2>4. \A block \in Blocks : Append(stages[stage[c]], block) \in Contents
    BY <2>3 DEF Contents
  <2>5. stages' \in [Staging -> Contents \union {Absent}]
    <3>1. PICK block \in {Data[job[c].book][acked[c] + 1], Damaged} :
              stages' = [stages EXCEPT ![stage[c]] = Append(stages[stage[c]], block)]
      BY <1>10 DEF UploadWindow
    <3>2. Append(stages[stage[c]], block) \in Contents
      BY <2>1, <2>4, DataAssumption
    <3> QED
      BY <3>1, <3>2
  <2>6. calm' \subseteq Clients
    BY <1>10 DEF UploadWindow
  <2> QED
    <3>1. acked' \in [Clients -> Nat]
      BY <1>10 DEF UploadWindow
    <3>2. pc' \in [Clients -> Places] /\ result' \in [Clients -> {"none", "sent", "present", "refused", "failed"}]
      BY <1>10 DEF UploadWindow
    <3> QED
      BY <1>10, <2>5, <2>6, <3>1, <3>2 DEF UploadWindow
<1>11. ASSUME NEW c \in Clients, UploadDone(c) PROVE TypeOK'
  BY <1>11 DEF UploadDone, reader
<1>12. ASSUME NEW c \in Clients, Verify(c) PROVE TypeOK'
  BY <1>12 DEF Verify, reader
<1>13. ASSUME NEW c \in Clients, Publish(c) PROVE TypeOK'
  <2>1. stage[c] \in Staging /\ job[c].slot \in Slots
    BY <1>13, RequestTypes DEF Publish, StagingIsPrivate
  <2> QED
    BY <1>13, <2>1 DEF Publish
<1>14. ASSUME NEW c \in Clients, Fail(c) PROVE TypeOK'
  BY <1>14 DEF Fail, reader
<1>15. ASSUME Owner PROVE TypeOK'
  BY <1>15, DataAssumption DEF Owner, OwnerPuts, OwnerDeletes, OwnerDeletesStage, local
<1>16. CASE UNCHANGED vars
  BY <1>16 DEF vars, reader, local
<1> QED
  BY <1>1, <1>2, <1>3, <1>4, <1>5, <1>6, <1>7, <1>8, <1>9, <1>10, <1>11, <1>12,
     <1>13, <1>14, <1>15, <1>16 DEF Next, Request

(* The steps that do not touch staging files or names leave both facts     *)
(* alone unless they bring a process to its upload.                        *)
LEMMA NextStaging == IInv /\ [Next]_vars => StagingIsPrivate' /\ Verified'
<1> SUFFICES ASSUME IInv, [Next]_vars PROVE StagingIsPrivate' /\ Verified'
  OBVIOUS
<1> USE DEF IInv, TypeOK, StagingIsPrivate, Verified
<1>1. ASSUME NEW c \in Clients, NEW r \in Requests, Begin(c, r)
      PROVE  StagingIsPrivate' /\ Verified'
  BY <1>1 DEF Begin, reader
<1>2. ASSUME NEW c \in Clients,
             pc'[c] \notin {"window", "verify", "publish"},
             \A d \in Clients : d # c => pc'[d] = pc[d],
             UNCHANGED <<stages, stage, job, taken>>
      PROVE  StagingIsPrivate' /\ Verified'
  BY <1>2
<1>3. ASSUME NEW c \in Clients,
             \/ AuthorFolder(c) \/ MakeFolder(c) \/ CheckFolder(c) \/ List(c) \/ Compare(c)
             \/ ReadPrefix(c) \/ SetAside(c) \/ Fail(c)
      PROVE  StagingIsPrivate' /\ Verified'
  <2>1. UNCHANGED <<stages, stage, job, taken>>
    BY <1>3 DEF AuthorFolder, MakeFolder, CheckFolder, List, Compare, ReadPrefix, SetAside,
       Fail, reader
  <2>2. /\ pc'[c] \notin {"window", "verify", "publish"}
        /\ \A d \in Clients : d # c => pc'[d] = pc[d]
    BY <1>3 DEF AuthorFolder, MakeFolder, CheckFolder, List, Compare, ReadPrefix, SetAside,
       Fail, Answered, Goto, End
  <2> QED
    BY <1>2, <2>1, <2>2
<1>4. ASSUME NEW c \in Clients, StartUpload(c) PROVE StagingIsPrivate' /\ Verified'
  BY <1>4 DEF StartUpload, Answered, Goto, End
<1>5. ASSUME NEW c \in Clients, UploadWindow(c) PROVE StagingIsPrivate' /\ Verified'
  BY <1>5 DEF UploadWindow, Answered, Goto, End
<1>6. ASSUME NEW c \in Clients, UploadDone(c) PROVE StagingIsPrivate' /\ Verified'
  BY <1>6 DEF UploadDone, Goto, reader
<1>7. ASSUME NEW c \in Clients, Verify(c) PROVE StagingIsPrivate' /\ Verified'
  BY <1>7 DEF Verify, Goto, End, reader
<1>8. ASSUME NEW c \in Clients, Publish(c) PROVE StagingIsPrivate' /\ Verified'
  BY <1>8 DEF Publish, End
<1>9. ASSUME Owner PROVE StagingIsPrivate' /\ Verified'
  BY <1>9 DEF Owner, OwnerPuts, OwnerDeletes, OwnerDeletesStage, local
<1>10. CASE UNCHANGED vars
  BY <1>10 DEF vars, reader, local
<1> QED
  BY <1>1, <1>3, <1>4, <1>5, <1>6, <1>7, <1>8, <1>9, <1>10 DEF Next, Request

LEMMA Inductive == Spec => []IInv
<1>1. IInv /\ [Next]_vars => IInv'
  BY NextTypeOK, NextStaging DEF IInv
<1> QED
  BY InitIInv, <1>1, PTL DEF Spec

(* Every variable keeps its type, for any number of processes and sends.   *)
THEOREM TypeCorrect == Spec => []TypeOK
<1>1. IInv => TypeOK
  BY DEF IInv
<1> QED
  BY Inductive, <1>1, PTL

-----------------------------------------------------------------------------
(* Only a verified staging file is given a book's name.                    *)
LEMMA PublishesWhole ==
    ASSUME IInv, NEW c \in Clients, Publish(c)
    PROVE  \/ UNCHANGED <<books, backups>>
           \/ /\ books[job[c].slot] = Absent
              /\ books' = [books EXCEPT ![job[c].slot] = Data[job[c].book]]
              /\ UNCHANGED backups
BY DEF Publish, IInv, Verified

(* What crossload does to the files under a book's name, whole and for     *)
(* every step: nothing, publishing a whole book, or moving a file aside.   *)
LEMMA BookSteps ==
    ASSUME IInv, NEW c \in Clients,
           Request(c) \/ \E r \in Requests : Begin(c, r)
    PROVE  \/ UNCHANGED <<books, backups>>
           \/ /\ books[job[c].slot] = Absent
              /\ books' = [books EXCEPT ![job[c].slot] = Data[job[c].book]]
              /\ UNCHANGED backups
           \/ /\ books[job[c].slot] \notin {Absent, Directory}
              /\ books' = [books EXCEPT ![job[c].slot] = Absent]
              /\ backups' = backups \union {[name |-> BackupName(c), file |-> books[job[c].slot]]}
<1>1. CASE \E r \in Requests : Begin(c, r)
  BY <1>1 DEF Begin, reader
<1>2. CASE \/ AuthorFolder(c) \/ MakeFolder(c) \/ CheckFolder(c) \/ List(c) \/ Compare(c)
           \/ ReadPrefix(c) \/ StartUpload(c) \/ UploadWindow(c) \/ UploadDone(c)
           \/ Verify(c) \/ Fail(c)
  BY <1>2 DEF AuthorFolder, MakeFolder, CheckFolder, List, Compare, ReadPrefix, StartUpload,
     UploadWindow, UploadDone, Verify, Fail, reader
<1>3. CASE SetAside(c)
  BY <1>3 DEF SetAside
<1>4. CASE Publish(c)
  BY <1>4, PublishesWhole
<1> QED
  BY <1>1, <1>2, <1>3, <1>4 DEF Request

(* No crash, lost answer, damaged block, retry or second process makes a   *)
(* book's name show a part of a book or a damaged one.                     *)
THEOREM WholeBooksOnly == Spec => []OnlyWholeBooks
<1>1. Init => OnlyWholeBooks
  BY DEF Init, OnlyWholeBooks
<1>2. IInv /\ OnlyWholeBooks /\ [Next]_vars => OnlyWholeBooks'
  <2> SUFFICES ASSUME IInv, OnlyWholeBooks, [Next]_vars PROVE OnlyWholeBooks'
    OBVIOUS
  <2> USE DEF OnlyWholeBooks
  <2>1. ASSUME NEW c \in Clients, Request(c) \/ \E r \in Requests : Begin(c, r)
        PROVE  OnlyWholeBooks'
    <3>1. job[c].book \in Books /\ job[c].slot \in Slots
      BY RequestTypes DEF IInv, TypeOK
    <3>2. books \in [Slots -> Contents \union {Absent, Directory}]
      BY DEF IInv, TypeOK
    <3> QED
      BY <2>1, <3>1, <3>2, BookSteps
  <2>2. ASSUME Owner PROVE OnlyWholeBooks'
    BY <2>2 DEF Owner, OwnerPuts, OwnerDeletes, OwnerDeletesStage, IInv, TypeOK
  <2>3. CASE UNCHANGED vars
    BY <2>3 DEF vars, reader
  <2> QED
    BY <2>1, <2>2, <2>3 DEF Next
<1> QED
  BY <1>1, <1>2, Inductive, PTL DEF Spec

(* Sending implements ReaderShelf: no step of crossload replaces a file,   *)
(* shows a part of one, or loses contents, whatever goes wrong.            *)
THEOREM SendImplementsShelf == Spec => ImplementsShelf
<1>1. Init => Shelf!Init
  BY DataAssumption DEF Init, Shelf!Init, Shelf!Entries
<1>2. IInv /\ [Next]_vars => [Shelf!Next]_(Shelf!vars)
  <2> SUFFICES ASSUME IInv, [Next]_vars PROVE [Shelf!Next]_(Shelf!vars)
    OBVIOUS
  <2>1. ASSUME NEW c \in Clients, Request(c) \/ \E r \in Requests : Begin(c, r)
        PROVE  [Shelf!Next]_(Shelf!vars)
    <3>1. job[c].book \in Books /\ job[c].slot \in Slots
      BY RequestTypes DEF IInv, TypeOK
    <3>2. ownerMoves' = ownerMoves
      BY <2>1 DEF Request, Begin, AuthorFolder, MakeFolder, CheckFolder, List, Compare,
         ReadPrefix, SetAside, StartUpload, UploadWindow, UploadDone, Verify, Publish, Fail
    <3>3. CASE UNCHANGED <<books, backups>>
      BY <3>2, <3>3 DEF Shelf!vars
    <3>4. CASE /\ books[job[c].slot] = Absent
               /\ books' = [books EXCEPT ![job[c].slot] = Data[job[c].book]]
               /\ UNCHANGED backups
      BY <3>1, <3>2, <3>4 DEF Shelf!Next, Shelf!Publish
    <3>5. CASE /\ books[job[c].slot] \notin {Absent, Directory}
               /\ books' = [books EXCEPT ![job[c].slot] = Absent]
               /\ backups' = backups \union {[name |-> BackupName(c), file |-> books[job[c].slot]]}
      <4>1. books[job[c].slot] \in Contents
        BY <3>1, <3>5 DEF IInv, TypeOK
      <4>2. {x.file : x \in backups'} = {x.file : x \in backups} \union {books[job[c].slot]}
        <5>1. PICK new : new.file = books[job[c].slot] /\ backups' = backups \union {new}
          BY <3>5
        <5>2. \A f : (\E x \in backups' : f = x.file) <=>
                        (\E x \in backups : f = x.file) \/ f = books[job[c].slot]
          BY <5>1
        <5> QED
          BY <5>2
      <4> QED
        BY <3>1, <3>2, <3>5, <4>1, <4>2 DEF Shelf!Next, Shelf!MoveAside
    <3> QED
      BY <2>1, <3>3, <3>4, <3>5, BookSteps
  <2>2. ASSUME Owner PROVE [Shelf!Next]_(Shelf!vars)
    <3>1. books' \in [Slots -> Contents \union {Directory, Absent}]
      BY NextTypeOK DEF TypeOK
    <3> QED
      BY <2>2, <3>1 DEF Owner, Shelf!Next, Shelf!Owner, Shelf!Entries
  <2>3. CASE UNCHANGED vars
    BY <2>3 DEF vars, reader, Shelf!vars
  <2> QED
    BY <2>1, <2>2, <2>3 DEF Next
<1> QED
  BY <1>1, <1>2, Inductive, PTL DEF Spec, Shelf!Spec, ImplementsShelf
-----------------------------------------------------------------------------
(* A process at work has not reported anything yet. *)
Unreported == \A c \in Clients : pc[c] # "idle" => result[c] = "none"

LEMMA NextUnreported == Unreported /\ TypeOK /\ [Next]_vars => Unreported'
<1> SUFFICES ASSUME Unreported, TypeOK, [Next]_vars PROVE Unreported'
  OBVIOUS
<1> USE DEF Unreported, TypeOK
<1>1. ASSUME NEW c \in Clients, Request(c)
      PROVE  /\ \A d \in Clients : d # c => pc'[d] = pc[d] /\ result'[d] = result[d]
             /\ pc[c] # "idle" /\ (pc'[c] = "idle" \/ result'[c] = result[c])
  BY <1>1 DEF Request, AuthorFolder, MakeFolder, CheckFolder, List, Compare, ReadPrefix, SetAside,
     StartUpload, UploadWindow, UploadDone, Verify, Publish, Fail, Answered, Goto, End
<1>2. ASSUME NEW c \in Clients, NEW r \in Requests, Begin(c, r) PROVE Unreported'
  BY <1>2 DEF Begin
<1>3. CASE Owner \/ UNCHANGED vars
  BY <1>3 DEF Owner, vars, local
<1> QED
  BY <1>1, <1>2, <1>3 DEF Next

LEMMA UnreportedHolds == Spec => []Unreported
<1>1. Init => Unreported
  BY DEF Init, Unreported
<1>2. TypeOK /\ Unreported /\ [Next]_vars => Unreported'
  BY NextUnreported
<1> QED
  BY <1>1, <1>2, TypeCorrect, PTL DEF Spec

(* A report that a book was sent, or is there already, is never wrong at   *)
(* the moment it is made: what was compared or verified is what has the    *)
(* name (crosspoint.rs, send_with_progress).                               *)
THEOREM ReportsAreTrue == Spec => ReportIsTrue
<1> DEFINE True ==
      \A c \in Clients :
        pc[c] # "idle" /\ result'[c] \in {"sent", "present"} =>
            books'[job[c].slot] = Data[job[c].book]
<1>1. IInv /\ Unreported /\ [Next]_vars => True
  <2> SUFFICES ASSUME IInv, Unreported, [Next]_vars, NEW c \in Clients,
                      pc[c] # "idle", result'[c] \in {"sent", "present"}
               PROVE  books'[job[c].slot] = Data[job[c].book]
    OBVIOUS
  <2>1. result[c] = "none"
    BY DEF Unreported
  <2>2. job[c].slot \in Slots
    BY RequestTypes DEF IInv, TypeOK
  <2>3. PICK d \in Clients : Request(d) \/ \E r \in Requests : Begin(d, r)
    BY <2>1 DEF Next, Owner, vars, local
  <2>4. d = c
    BY <2>1, <2>3 DEF Request, Begin, AuthorFolder, MakeFolder, CheckFolder, List, Compare,
       ReadPrefix, SetAside, StartUpload, UploadWindow, UploadDone, Verify, Publish, Fail,
       Answered, Goto, End, IInv, TypeOK
  <2>5. Compare(c) \/ Publish(c)
    BY <2>1, <2>3, <2>4 DEF Request, Begin, AuthorFolder, MakeFolder, CheckFolder, List,
       ReadPrefix, SetAside, StartUpload, UploadWindow, UploadDone, Verify, Fail,
       Answered, Goto, End, IInv, TypeOK
  <2>6. CASE Compare(c)
    BY <2>2, <2>6 DEF Compare, End, IInv, TypeOK, reader
  <2>7. CASE Publish(c)
    BY <2>2, <2>7 DEF Publish, End, IInv, TypeOK, Verified
  <2> QED
    BY <2>5, <2>6, <2>7
<1>2. IInv /\ Unreported /\ [Next]_vars => [True]_vars
  BY <1>1
<1> QED
  BY <1>2, Inductive, UnreportedHolds, PTL DEF Spec, ReportIsTrue

-----------------------------------------------------------------------------
(* Undisturbed sends. *)

(* The name has an incomplete copy that may be set aside. *)
Repairable(c) ==
    LET file == books[job[c].slot] IN
    /\ job[c].repair
    /\ Incomplete(file, job[c])
    /\ ~NameTaken(<<FolderOf(job[c]), job[c].book, Len(file)>>)

(* What was staged so far is the beginning of the book. *)
Staged(c) ==
    LET file == stages[stage[c]] IN
    /\ file \in Contents /\ Len(file) = acked[c]
    /\ acked[c] <= Size(job[c])
    /\ \A i \in 1..acked[c] : file[i] = Data[job[c].book][i]

Uploading == {"window", "verify", "publish"}

(* What the next request of a send that nobody disturbed finds. *)
Ready(c) ==
    LET file == books[job[c].slot] IN
    /\ pc[c] = "author" => dirs[FolderOf(job[c])] \in {"dir", "none"}
    /\ pc[c] = "mkdir" => dirs[FolderOf(job[c])] = "none"
    /\ pc[c] = "folder" => dirs[FolderOf(job[c])] = "dir"
    /\ pc[c] \in {"author", "mkdir", "folder", "list"} =>
            file \in {Absent, Data[job[c].book]} \/ Repairable(c)
    /\ pc[c] = "compare" => file = Data[job[c].book]
    /\ pc[c] \in {"prefix", "backup"} => Repairable(c) /\ listed[c] = Len(file)
    /\ pc[c] \in {"start", "window", "verify", "publish"} => file = Absent
    /\ pc[c] \notin Uploading \union {"idle"} => acked[c] = 0
    /\ pc[c] = "window" => Staged(c)
    /\ pc[c] \in {"verify", "publish"} => stages[stage[c]] = Data[job[c].book]

CalmInv == \A c \in calm : Ready(c)

(* Whoever else does something to a send leaves it alone, or it is not calm. *)
LEMMA OthersStayOut ==
    ASSUME IInv, NEW c \in Clients, NEW d \in Clients, c # d, c \in calm',
           Request(d) \/ \E r \in Requests : Begin(d, r)
    PROVE  /\ c \in calm
           /\ UNCHANGED <<books, backups, dirs>>
           /\ pc'[c] = pc[c] /\ job'[c] = job[c] /\ listed'[c] = listed[c]
           /\ stage'[c] = stage[c] /\ acked'[c] = acked[c]
           /\ pc[c] \in Uploading => stages'[stage[c]] = stages[stage[c]]
<1> USE DEF IInv, TypeOK, Answered, Goto, End
<1>1. pc[c] \in Uploading => stage[c] \in taken /\ stage[c] \in Staging
  BY DEF StagingIsPrivate, Uploading
<1>2. CASE \E r \in Requests : Begin(d, r)
  BY <1>2 DEF Begin, reader
<1>3. CASE \/ AuthorFolder(d) \/ CheckFolder(d) \/ List(d) \/ Compare(d)
           \/ ReadPrefix(d) \/ UploadDone(d) \/ Verify(d) \/ Fail(d)
  BY <1>3 DEF AuthorFolder, CheckFolder, List, Compare, ReadPrefix, UploadDone, Verify, Fail, reader
<1>4. CASE MakeFolder(d) \/ SetAside(d) \/ Publish(d)
  BY <1>4 DEF MakeFolder, SetAside, Publish
<1>5. CASE StartUpload(d)
  BY <1>1, <1>5 DEF StartUpload
<1>6. CASE UploadWindow(d)
  <2>1. pc[c] \in Uploading => stage[c] # stage[d]
    BY <1>6 DEF UploadWindow, StagingIsPrivate, Uploading
  <2> QED
    BY <1>1, <1>6, <2>1 DEF UploadWindow
<1> QED
  BY <1>2, <1>3, <1>4, <1>5, <1>6 DEF Request

LEMMA OthersKeepReady ==
    ASSUME IInv, NEW c \in Clients, NEW d \in Clients, c # d, c \in calm', Ready(c),
           Request(d) \/ \E r \in Requests : Begin(d, r)
    PROVE  Ready(c)'
<1>1. /\ UNCHANGED <<books, backups, dirs>>
      /\ pc'[c] = pc[c] /\ job'[c] = job[c] /\ listed'[c] = listed[c]
      /\ stage'[c] = stage[c] /\ acked'[c] = acked[c]
      /\ pc[c] \in Uploading => stages'[stage[c]] = stages[stage[c]]
  BY OthersStayOut
<1>2. Repairable(c)' <=> Repairable(c)
  BY <1>1 DEF Repairable, Incomplete, NameTaken, FolderOf, Size
<1>3. pc[c] = "window" => Staged(c)'
  BY <1>1 DEF Ready, Staged, Size, Uploading
<1> QED
  BY <1>1, <1>2, <1>3 DEF Ready, FolderOf, Uploading

(* A send's own request finds what it needs, and prepares the next. *)
LEMMA OwnKeepsReady ==
    ASSUME IInv, NEW c \in calm, Ready(c), Request(c), c \in calm', Unreported
    PROVE  Ready(c)' /\ result'[c] # "refused"
<1> USE DEF IInv, TypeOK, Answered, Goto, End, Uploading
<1>0. /\ c \in Clients /\ result[c] # "refused"
      /\ job[c] \in Requests /\ job[c].slot \in Slots /\ FolderOf(job[c]) \in Folders
      /\ Data[job[c].book] \in Contents /\ Size(job[c]) \in Nat
  <2>1. pc[c] # "idle"
    BY DEF Request, AuthorFolder, MakeFolder, CheckFolder, List, Compare, ReadPrefix, SetAside,
       StartUpload, UploadWindow, UploadDone, Verify, Publish, Fail
  <2> QED
    BY <2>1, RequestTypes DEF Unreported
<1>1. CASE AuthorFolder(c)
  BY <1>0, <1>1 DEF AuthorFolder, Ready, Repairable, Incomplete, NameTaken, FolderOf, Size, reader
<1>2. CASE MakeFolder(c)
  BY <1>0, <1>2 DEF MakeFolder, Ready, Repairable, Incomplete, NameTaken, FolderOf, Size
<1>3. CASE CheckFolder(c)
  BY <1>0, <1>3 DEF CheckFolder, Ready, Repairable, Incomplete, NameTaken, FolderOf, Size, reader
<1>4. CASE List(c)
  <2>1. UNCHANGED <<books, backups, job, acked>> /\ acked[c] = 0
    BY <1>4 DEF List, Ready, reader
  <2>2. books[job[c].slot] \in {Absent, Data[job[c].book]} \/ Repairable(c)
    BY <1>4 DEF List, Ready
  <2>3. CASE books[job[c].slot] = Absent
    BY <1>0, <1>4, <2>1, <2>3, AbsentAssumption DEF List, Ready
  <2>4. CASE books[job[c].slot] = Data[job[c].book]
    <3>1. pc'[c] = "compare" /\ result'[c] = result[c]
      BY <1>0, <1>4, <2>4, AbsentAssumption DEF List, Size
    <3> QED
      BY <1>0, <2>1, <2>4, <3>1 DEF Ready
  <2>5. CASE Repairable(c)
    <3>1. /\ books[job[c].slot] \in Contents
          /\ Len(books[job[c].slot]) < Size(job[c]) /\ job[c].repair
      BY <1>0, <2>5 DEF Repairable, Incomplete
    <3>2. /\ pc'[c] = "prefix" /\ result'[c] = result[c]
          /\ listed'[c] = Len(books[job[c].slot])
      BY <1>0, <1>4, <3>1, AbsentAssumption DEF List, Contents
    <3>3. Repairable(c)'
      BY <2>1, <2>5 DEF Repairable, Incomplete, NameTaken, FolderOf, Size
    <3> QED
      BY <1>0, <2>1, <3>2, <3>3 DEF Ready
  <2> QED
    BY <2>2, <2>3, <2>4, <2>5
<1>5. CASE Compare(c)
  BY <1>0, <1>5 DEF Compare, Ready
<1>6. CASE ReadPrefix(c)
  BY <1>0, <1>6 DEF ReadPrefix, Ready, Repairable, Incomplete, NameTaken, FolderOf, Size, reader
<1>7. CASE SetAside(c)
  <2>1. ~NameTaken(BackupName(c)) /\ books[job[c].slot] \notin {Absent, Directory}
    BY <1>7 DEF SetAside, Ready, Repairable, BackupName, Incomplete
  <2> QED
    BY <1>0, <1>7, <2>1 DEF SetAside, Ready
<1>8. CASE StartUpload(c)
  <2>1. PICK s \in Staging : stage'[c] = s /\ stages'[s] = <<>> /\ UNCHANGED <<books, job, acked>>
    BY <1>0, <1>8 DEF StartUpload
  <2>2. acked[c] = 0
    BY <1>8 DEF StartUpload, Ready
  <2>3. stages'[stage'[c]] = <<>> /\ books' = books /\ job' = job /\ acked' = acked
    BY <2>1
  <2>4. Staged(c)'
    BY <1>0, <2>2, <2>3 DEF Staged, Contents, Size
  <2>5. books[job[c].slot] = Absent /\ pc'[c] \in {"window", "idle"} /\ result'[c] # "refused"
    BY <1>0, <1>8 DEF StartUpload, Ready
  <2> QED
    BY <2>3, <2>4, <2>5 DEF Ready
<1>9. CASE UploadWindow(c)
  <2> DEFINE file == stages[stage[c]]
             book == Data[job[c].book]
  <2>1. /\ Staged(c) /\ acked[c] < Size(job[c]) /\ stage[c] \in Staging
        /\ UNCHANGED <<books, job, stage>> /\ acked'[c] = acked[c] + 1
        /\ pc'[c] \in {"window", "idle"} /\ result'[c] # "refused"
        /\ books[job[c].slot] = Absent
    BY <1>0, <1>9 DEF UploadWindow, Ready, StagingIsPrivate
  <2>2. PICK block \in {book[acked[c] + 1], Damaged} :
            /\ stages' = [stages EXCEPT ![stage[c]] = Append(file, block)]
            /\ calm' = IF block = Damaged THEN calm \ {c} ELSE calm
    BY <1>9 DEF UploadWindow
  <2>3. block = book[acked[c] + 1] /\ block \in Blocks
    BY <1>0, <2>1, <2>2 DEF Contents, Size
  <2>4. file \in Seq(Blocks) /\ Len(file) = acked[c]
    BY <2>1 DEF Staged, Contents
  <2> DEFINE next == Append(file, block)
  <2>5. stages'[stage[c]] = next
    BY <2>1, <2>2
  <2>6. /\ next \in Contents /\ Len(next) = acked[c] + 1
        /\ \A i \in 1..acked[c] : next[i] = file[i]
        /\ next[acked[c] + 1] = block
    BY <2>3, <2>4 DEF Contents
  <2>7. \A i \in 1..(acked[c] + 1) : next[i] = book[i]
    BY <2>1, <2>3, <2>6 DEF Staged
  <2> HIDE DEF next
  <2>8. Staged(c)'
    BY <1>0, <2>1, <2>5, <2>6, <2>7 DEF Staged, Size
  <2> QED
    BY <2>1, <2>8 DEF Ready
<1>10. CASE UploadDone(c)
  <2> DEFINE file == stages[stage[c]]
             book == Data[job[c].book]
  <2>1. /\ Staged(c) /\ acked[c] = Size(job[c])
        /\ UNCHANGED <<books, stages, job, stage>>
        /\ pc'[c] = "verify" /\ result'[c] # "refused"
        /\ books[job[c].slot] = Absent
    BY <1>0, <1>10 DEF UploadDone, Ready, reader
  <2>2. /\ file \in Seq(Blocks) /\ book \in Seq(Blocks) /\ Len(file) = Len(book)
        /\ \A i \in 1..Len(book) : file[i] = book[i]
    BY <1>0, <2>1 DEF Staged, Contents, Size
  <2>3. file = book
    BY <2>2, SeqEqual
  <2> QED
    BY <2>1, <2>3 DEF Ready
<1>11. CASE Verify(c)
  BY <1>0, <1>11 DEF Verify, Ready, reader
<1>12. CASE Publish(c)
  BY <1>0, <1>12, AbsentAssumption DEF Publish, Ready
<1>13. CASE Fail(c)
  BY <1>0, <1>13 DEF Fail, Ready
<1> QED
  BY <1>1, <1>2, <1>3, <1>4, <1>5, <1>6, <1>7, <1>8, <1>9, <1>10, <1>11, <1>12, <1>13 DEF Request

LEMMA NextCalm == IInv /\ Unreported /\ CalmInv /\ [Next]_vars => CalmInv'
<1> SUFFICES ASSUME IInv, Unreported, CalmInv, [Next]_vars, NEW c \in calm'
             PROVE  Ready(c)'
  BY DEF CalmInv
<1>1. ASSUME NEW d \in Clients, Request(d) PROVE Ready(c)'
  <2>1. c \in calm /\ c \in Clients
    BY <1>1 DEF Request, AuthorFolder, MakeFolder, CheckFolder, List, Compare, ReadPrefix,
       SetAside, StartUpload, UploadWindow, UploadDone, Verify, Publish, Fail, IInv, TypeOK
  <2>2. Ready(c)
    BY <2>1 DEF CalmInv
  <2> QED
    BY <1>1, <2>1, <2>2, OwnKeepsReady, OthersKeepReady
<1>2. ASSUME NEW d \in Clients, NEW r \in Requests, Begin(d, r) PROVE Ready(c)'
  <2>1. CASE c = d
    <3>1. Fit(r)
      BY <1>2, <2>1 DEF Begin
    <3>2. /\ UNCHANGED <<books, backups, dirs>> /\ job'[c] = r /\ acked'[c] = 0
          /\ pc'[c] = IF r.flat THEN "folder" ELSE "author"
      BY <1>2, <2>1 DEF Begin, reader, IInv, TypeOK
    <3> QED
      BY <3>1, <3>2 DEF Fit, Ready, Repairable, Incomplete, NameTaken, FolderOf, Size, Uploading
  <2>2. CASE c # d
    <3>1. c \in calm /\ c \in Clients
      BY <1>2, <2>2 DEF Begin, IInv, TypeOK
    <3>2. Ready(c)
      BY <3>1 DEF CalmInv
    <3> QED
      BY <1>2, <2>2, <3>1, <3>2, OthersKeepReady
  <2> QED
    BY <2>1, <2>2
<1>3. CASE Owner
  BY <1>3 DEF Owner
<1>4. CASE UNCHANGED vars
  BY <1>4 DEF vars, reader, local, CalmInv, Ready, Repairable, Staged, Incomplete, NameTaken,
     FolderOf, Size
<1> QED
  BY <1>1, <1>2, <1>3, <1>4 DEF Next

LEMMA CalmHolds == Spec => []CalmInv
<1>1. Init => CalmInv
  BY DEF Init, CalmInv
<1>2. IInv /\ Unreported /\ CalmInv /\ [Next]_vars => CalmInv'
  BY NextCalm
<1> QED
  BY <1>1, <1>2, Inductive, UnreportedHolds, PTL DEF Spec

(* A send that nobody comes between is never refused when the name is      *)
(* free, holds the book, or may be repaired, whatever earlier sends left   *)
(* behind: failing, it can always be tried again (crosspoint.rs, for_author *)
(* and send_with_progress).                                                *)
THEOREM TryingAgainHelps == Spec => UndisturbedSucceeds
<1> DEFINE Succeeds == \A c \in Clients : c \in calm /\ pc[c] # "idle" => result'[c] # "refused"
<1>1. IInv /\ Unreported /\ CalmInv /\ [Next]_vars => Succeeds
  <2> SUFFICES ASSUME IInv, Unreported, CalmInv, [Next]_vars, NEW c \in Clients,
                      c \in calm, pc[c] # "idle", result'[c] = "refused"
               PROVE  FALSE
    OBVIOUS
  <2>1. result[c] = "none" /\ Ready(c)
    BY DEF Unreported, CalmInv
  <2>2. PICK d \in Clients : Request(d) \/ \E r \in Requests : Begin(d, r)
    BY <2>1 DEF Next, Owner, vars, local
  <2>3. d = c /\ Request(c)
    BY <2>1, <2>2 DEF Request, Begin, AuthorFolder, MakeFolder, CheckFolder, List, Compare,
       ReadPrefix, SetAside, StartUpload, UploadWindow, UploadDone, Verify, Publish, Fail,
       Answered, Goto, End, IInv, TypeOK
  <2>4. c \in calm'
    BY <2>1, <2>3 DEF Request, AuthorFolder, MakeFolder, CheckFolder, List, Compare,
       ReadPrefix, SetAside, StartUpload, UploadWindow, UploadDone, Verify, Publish, Fail,
       Answered, Goto, End, IInv, TypeOK
  <2> QED
    BY <2>1, <2>3, <2>4, OwnKeepsReady
<1>2. IInv /\ Unreported /\ CalmInv /\ [Next]_vars => [Succeeds]_vars
  BY <1>1
<1> QED
  BY <1>2, Inductive, UnreportedHolds, CalmHolds, PTL DEF Spec, UndisturbedSucceeds
=============================================================================
