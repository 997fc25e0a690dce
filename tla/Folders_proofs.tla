--------------------------- MODULE Folders_proofs ---------------------------
(***************************************************************************)
(* Proofs about copying into folders and deleting from the card, for any   *)
(* number of processes, names and contents.                                *)
(***************************************************************************)
EXTENDS Folders, TLAPS

USE DEF Places, Copies

(* What a process knows of a copy is what it knows of its file. *)
LEMMA CatalogMember ==
    ASSUME TypeOK, NEW p \in Procs, NEW c \in Catalog(known[p])
    PROVE  /\ c \in Copies
           /\ c.content = known[p][c.place][c.name]
<1>1. PICK place \in Places, name \in Names : c = Copy(place, name, known[p][place][name])
    BY DEF Catalog
<1>2. c.content # None
    BY DEF Catalog
<1>3. known[p][place][name] \in Contents \union {None}
    BY DEF TypeOK, Entries
<1> QED BY <1>1, <1>2, <1>3 DEF Copy

(* A dialog's book is as the list has it, if the list has the copy. *)
LEMMA CurrentBook ==
    ASSUME TypeOK, NEW p \in Procs, NEW book \in Current(p), NEW c \in book
    PROVE  /\ book \in SUBSET Copies
           /\ c \in Catalog(known[p]) => book = CopiesOf(known[p], BookOf[c.content])
<1> DEFINE same == {b \in BooksOf(known[p]) : \E x \in b, d \in dialog[p] :
                       x.place = d.place /\ x.name = d.name}
<1>1. CASE same = {}
    <2>1. book = dialog[p]
        BY <1>1 DEF Current
    <2>2. book \in SUBSET Copies
        BY <2>1 DEF TypeOK
    <2>3. ASSUME c \in Catalog(known[p])
          PROVE  FALSE
        <3> DEFINE b == CopiesOf(known[p], BookOf[c.content])
        <3>1. b \in BooksOf(known[p]) /\ c \in b
            BY <2>3 DEF BooksOf, CopiesOf
        <3> HIDE DEF b
        <3>2. b \in same
            BY <2>1, <3>1
        <3> QED BY <1>1, <3>2
    <2> QED BY <2>2, <2>3
<1>2. CASE same # {}
    <2>1. book \in BooksOf(known[p])
        BY <1>2 DEF Current
    <2>2. PICK x \in Catalog(known[p]) : book = CopiesOf(known[p], BookOf[x.content])
        BY <2>1 DEF BooksOf
    <2>3. \A d \in book : d \in Catalog(known[p]) /\ BookOf[d.content] = BookOf[x.content]
        BY <2>2 DEF CopiesOf
    <2>4. book \in SUBSET Copies
        BY <2>3, CatalogMember
    <2> QED BY <2>2, <2>3, <2>4
<1> QED BY <1>1, <1>2

LEMMA InitInv == Init => IInv
<1> SUFFICES ASSUME Init PROVE IInv
    OBVIOUS
<1> USE FoldersAssumption DEF Init
<1>1. Idle \in Jobs /\ Fits(Idle)
    BY DEF Idle, Jobs, Fits
<1>2. TypeOK
    BY <1>1 DEF TypeOK, Entries
<1>3. CardFolds(files)
    OBVIOUS
<1>4. Remembered /\ JobsAreKnown
    BY DEF Remembered, JobsAreKnown, Idle
<1> QED BY <1>2, <1>3, <1>4 DEF IInv

(* Ending a job, or changing nothing, keeps every job known. *)
LEMMA JobEnds ==
    ASSUME TypeOK, JobsAreKnown, UNCHANGED known, NEW p \in Procs,
           job' = [job EXCEPT ![p] = Idle],
           \A q \in Procs \ {p} : listed'[q] = listed[q]
    PROVE  /\ job' \in [Procs -> Jobs]
           /\ \A q \in Procs : Fits(job'[q])
           /\ JobsAreKnown'
<1>1. Idle \in Jobs /\ Fits(Idle) /\ Idle.at = "idle"
    BY FoldersAssumption DEF Idle, Jobs, Fits
<1>2. job' \in [Procs -> Jobs] /\ \A q \in Procs : Fits(job'[q])
    BY <1>1 DEF TypeOK
<1>3. ASSUME NEW q \in Procs, job'[q].at # "idle"
      PROVE  q # p /\ job'[q] = job[q] /\ listed'[q] = listed[q]
    BY <1>1, <1>3 DEF TypeOK
<1>4. JobsAreKnown'
    BY <1>3 DEF JobsAreKnown
<1> QED BY <1>2, <1>4

(* A step of a process on files that it only reads. *)
LEMMA JobStarts ==
    ASSUME TypeOK, JobsAreKnown, NEW p \in Procs, NEW j \in Jobs, Fits(j),
           job' = [job EXCEPT ![p] = j], UNCHANGED <<known, listed>>,
           j.at \notin {"idle", "edit", "save"} =>
               listed[p] = Places /\ HasItsBook(known[p], j)
    PROVE  /\ job' \in [Procs -> Jobs]
           /\ \A q \in Procs : Fits(job'[q])
           /\ JobsAreKnown'
<1>1. job' \in [Procs -> Jobs] /\ \A q \in Procs : Fits(job'[q])
    BY DEF TypeOK
<1>2. ASSUME NEW q \in Procs
      PROVE  \/ q # p /\ job'[q] = job[q]
             \/ q = p /\ job'[q] = j
    BY DEF TypeOK
<1>3. JobsAreKnown'
    BY <1>2 DEF JobsAreKnown
<1> QED BY <1>1, <1>3

(* Memory stays right when no file is lost and no more is called read. *)
LEMMA MemoryStays ==
    ASSUME TypeOK, Remembered, UNCHANGED <<known, disturbed>>,
           \A q \in Procs : listed'[q] \subseteq listed[q],
           \A place \in Places, name \in Names :
               files[place][name] # None => files'[place][name] = files[place][name]
    PROVE  Remembered'
<1>1. SUFFICES ASSUME NEW p \in Procs, NEW place \in listed'[p] \ disturbed[p], NEW name \in Names,
                      known[p][place][name] # None
               PROVE  files'[place][name] = known[p][place][name]
    BY DEF Remembered
<1>2. place \in listed[p] \ disturbed[p] /\ place \in Places
    BY DEF TypeOK
<1>3. files[place][name] = known[p][place][name]
    BY <1>1, <1>2 DEF Remembered
<1> QED BY <1>1, <1>2, <1>3

(* A file goes away, and whoever had read its folder is disturbed, but for *)
(* a process that calls nothing read any more.                             *)
LEMMA MemoryIsDisturbed ==
    ASSUME TypeOK, Remembered, UNCHANGED known, NEW but \in SUBSET Procs,
           NEW lost \in Places, Disturb(lost, but),
           \A q \in Procs : listed'[q] \subseteq listed[q],
           \A q \in but : listed'[q] = {},
           \A place \in Places \ {lost} : files'[place] = files[place]
    PROVE  /\ Remembered'
           /\ disturbed' \in [Procs -> SUBSET Places]
<1>1. disturbed' \in [Procs -> SUBSET Places]
    BY DEF Disturb, TypeOK
<1>2. ASSUME NEW p \in Procs, NEW place \in listed'[p] \ disturbed'[p], NEW name \in Names,
             known'[p][place][name] # None
      PROVE  files'[place][name] = known'[p][place][name]
    <2>1. p \notin but /\ place \in listed[p] /\ place \in Places
        BY DEF TypeOK
    <2>2. place # lost /\ place \notin disturbed[p]
        BY <2>1, <1>2 DEF Disturb
    <2> QED BY <2>1, <2>2, <1>2 DEF Remembered
<1> QED BY <1>1, <1>2 DEF Remembered

(* Writing a file under a name that is free. *)
LEMMA FileAdded ==
    ASSUME TypeOK, CardFolds(files), NEW target \in Places, NEW name \in Names,
           NEW content \in Contents, Free(target, name),
           files' = [files EXCEPT ![target][name] = content]
    PROVE  /\ files' \in Entries
           /\ CardFolds(files')
           /\ \A place \in Places, n \in Names :
                  files[place][n] # None => files'[place][n] = files[place][n]
<1>1. /\ files' \in Entries
      /\ \A place \in Places, n \in Names :
             files'[place][n] = IF place = target /\ n = name THEN content ELSE files[place][n]
    BY DEF TypeOK, Entries
<1>2. files[target][name] = None
    BY DEF Free
<1>3. CardFolds(files')
    <2> SUFFICES ASSUME NEW n \in Names, NEW m \in Names, n # m, Fold[n] = Fold[m],
                        files'["Card"][n] # None, files'["Card"][m] # None
                 PROVE  FALSE
        BY DEF CardFolds
    <2>1. CASE target = "Card" /\ name \in {n, m}
        <3>1. Folded("Card", name) = {}
            BY <2>1 DEF Free
        <3>2. PICK other \in {n, m} : other # name
            OBVIOUS
        <3>3. files["Card"][other] # None /\ Fold[other] = Fold[name] /\ other \in Names
            BY <1>1, <2>1, <3>2
        <3> QED BY <3>1, <3>3 DEF Folded
    <2>2. CASE ~(target = "Card" /\ name \in {n, m})
        BY <2>2, <1>1 DEF CardFolds
    <2> QED BY <2>1, <2>2
<1> QED BY <1>1, <1>2, <1>3

-----------------------------------------------------------------------------
LEMMA ListInv ==
    ASSUME IInv, NEW p \in Procs, NEW place \in Places, List(p, place)
    PROVE  IInv'
<1> USE DEF IInv
<1>1. /\ UNCHANGED <<files, dialog, job, jobs, owner>> /\ job[p].at \in {"idle", "edit", "save"}
      /\ listed' = [listed EXCEPT ![p] = @ \union {place}]
      /\ disturbed' = [disturbed EXCEPT ![p] = @ \ {place}]
    BY DEF List
<1>2. PICK f \in [Names -> Contents \union {None}] :
          /\ known' = [known EXCEPT ![p][place] = f]
          /\ \A name \in Names : f[name] # None => f[name] = files[place][name]
    <2>1. CASE known' = [known EXCEPT ![p][place] = files[place]]
        <3>1. files[place] \in [Names -> Contents \union {None}]
            BY DEF TypeOK, Entries
        <3> DEFINE f == files[place]
        <3>2. known' = [known EXCEPT ![p][place] = f]
            BY <2>1
        <3> HIDE DEF f
        <3>3. \A name \in Names : f[name] # None => f[name] = files[place][name]
            BY DEF f
        <3>4. f \in [Names -> Contents \union {None}]
            BY <3>1 DEF f
        <3> QED BY <3>2, <3>3, <3>4
    <2>2. CASE known' = [known EXCEPT ![p][place] = [n \in Names |-> None]]
        <3> DEFINE f == [n \in Names |-> None]
        <3>1. f \in [Names -> Contents \union {None}] /\ \A name \in Names : f[name] = None
            OBVIOUS
        <3>2. known' = [known EXCEPT ![p][place] = f]
            BY <2>2
        <3> HIDE DEF f
        <3> QED BY <3>1, <3>2
    <2> QED BY <2>1, <2>2 DEF List
<1>3. TypeOK'
    <2>1. known' \in [Procs -> Entries]
        BY <1>2 DEF TypeOK, Entries
    <2>2. listed' \in [Procs -> SUBSET Places] /\ disturbed' \in [Procs -> SUBSET Places]
        BY <1>1 DEF TypeOK
    <2> QED BY <1>1, <2>1, <2>2 DEF TypeOK
<1>4. \A q \in Procs \ {p} : known'[q] = known[q] /\ listed'[q] = listed[q] /\ disturbed'[q] = disturbed[q]
    BY <1>1, <1>2 DEF TypeOK
<1>5. Remembered'
    <2> SUFFICES ASSUME NEW q \in Procs, NEW where \in listed'[q] \ disturbed'[q], NEW name \in Names,
                        known'[q][where][name] # None
                 PROVE  files[where][name] = known'[q][where][name]
        BY <1>1 DEF Remembered
    <2>1. CASE q # p
        BY <2>1, <1>4 DEF Remembered
    <2>2. CASE q = p /\ where = place
        <3>1. known'[q][where] = f
            BY <2>2, <1>2 DEF TypeOK, Entries
        <3> QED BY <3>1, <2>2, <1>2
    <2>3. CASE q = p /\ where # place
        <3>1. where \in Places /\ where \in listed[q] \ disturbed[q]
            BY <2>3, <1>1 DEF TypeOK
        <3>2. known'[q][where] = known[q][where]
            BY <2>3, <1>2 DEF TypeOK, Entries
        <3> QED BY <3>1, <3>2 DEF Remembered
    <2> QED BY <2>1, <2>2, <2>3
<1>6. JobsAreKnown'
    BY <1>1, <1>4 DEF JobsAreKnown
<1>7. CardFolds(files)'
    BY <1>1 DEF CardFolds
<1> QED BY <1>3, <1>5, <1>6, <1>7

(* A job that goes on, or starts, changes only itself. *)
LEMMA GoesOn ==
    ASSUME IInv, NEW p \in Procs, NEW j \in Jobs, Fits(j),
           job' = [job EXCEPT ![p] = j],
           UNCHANGED <<files, known, listed, owner, disturbed>>, jobs' \in 0..MaxJobs,
           dialog' \in [Procs -> SUBSET Copies],
           j.at \notin {"idle", "edit", "save"} =>
               listed[p] = Places /\ HasItsBook(known[p], j)
    PROVE  IInv'
<1> USE DEF IInv
<1>1. /\ job' \in [Procs -> Jobs]
      /\ \A q \in Procs : Fits(job'[q])
      /\ JobsAreKnown'
    BY JobStarts
<1>2. TypeOK'
    BY <1>1 DEF TypeOK
<1>3. Remembered' /\ CardFolds(files)'
    BY MemoryStays DEF CardFolds
<1> QED BY <1>1, <1>2, <1>3

(* A copy or deletion that runs has what it is about. *)
LEMMA Running ==
    ASSUME IInv, NEW p \in Procs, job[p].at \notin {"idle", "edit", "save"}
    PROVE  /\ job[p] \in Jobs /\ Fits(job[p])
           /\ job[p].copy \in Copies
           /\ listed[p] = Places
           /\ HasItsBook(known[p], job[p])
<1>1. job[p] \in Jobs /\ Fits(job[p])
    BY DEF IInv, TypeOK
<1> QED BY <1>1 DEF IInv, JobsAreKnown, Fits, Jobs

(* A dialog opens or closes. *)
LEMMA DialogInv ==
    ASSUME IInv, NEW p \in Procs, OpenDialog(p) \/ CloseDialog(p)
    PROVE  IInv'
<1> USE DEF IInv
<1>1. UNCHANGED <<files, known, listed, job, jobs, owner, disturbed>>
    BY DEF OpenDialog, CloseDialog
<1>2. dialog' \in [Procs -> SUBSET Copies]
    <2>1. CASE OpenDialog(p)
        <3>1. PICK book \in BooksOf(known[p]) : dialog' = [dialog EXCEPT ![p] = book]
            BY <2>1 DEF OpenDialog
        <3>2. book \in SUBSET Copies
            BY CatalogMember DEF BooksOf, CopiesOf
        <3> QED BY <3>1, <3>2 DEF TypeOK
    <2>2. CASE CloseDialog(p)
        BY <2>2 DEF CloseDialog, TypeOK
    <2> QED BY <2>1, <2>2
<1>3. TypeOK'
    BY <1>1, <1>2 DEF TypeOK
<1> QED BY <1>1, <1>3 DEF CardFolds, Remembered, JobsAreKnown

LEMMA StartInv ==
    ASSUME IInv, NEW p \in Procs, StartCopy(p) \/ StartRemove(p)
    PROVE  IInv'
<1>1. TypeOK /\ FoldersAssumption
    BY FoldersAssumption DEF IInv
<1>2. jobs' \in 0..MaxJobs /\ dialog' \in [Procs -> SUBSET Copies]
    <2>1. jobs' = jobs + 1 /\ jobs < MaxJobs /\ dialog' = [dialog EXCEPT ![p] = {}]
        BY DEF StartCopy, StartRemove, MayStart, MoreJobs
    <2>2. jobs \in 0..MaxJobs /\ MaxJobs \in Nat /\ dialog \in [Procs -> SUBSET Copies]
        BY <1>1 DEF TypeOK, FoldersAssumption
    <2> QED BY <2>1, <2>2
<1>3. listed[p] = Places
    BY DEF StartCopy, StartRemove, MayStart
<1>4. ASSUME NEW book \in Current(p), NEW c \in book, NEW j, job' = [job EXCEPT ![p] = j],
             j \in [at : {"read", "check"}, book : {book}, copy : {c},
                    target : Places \union {None}, found : {None}],
             j.at = "read" => j.target \in Places \ {c.place} /\ c \in Preferred(book),
             j.at = "check" => c.place = "Card" /\ book \ {c} # {} /\ j.target = None
      PROVE  IInv'
    <2>1. /\ book \in SUBSET Copies
          /\ c \in Catalog(known[p]) => book = CopiesOf(known[p], BookOf[c.content])
        BY <1>1, CurrentBook
    <2>2. j \in Jobs /\ Fits(j)
        BY <1>1, <1>4, <2>1 DEF Jobs, Fits, FoldersAssumption
    <2>3. UNCHANGED <<files, known, listed, owner, disturbed>>
        BY DEF StartCopy, StartRemove
    <2>4. HasItsBook(known[p], j)
        BY <1>4, <2>1 DEF HasItsBook
    <2> QED BY <1>2, <1>3, <1>4, <2>2, <2>3, <2>4, GoesOn
<1>5. CASE StartCopy(p)
    <2>1. PICK book \in Current(p), target \in Places :
              \E c \in Preferred(book) :
                  /\ c.place # target
                  /\ job' = [job EXCEPT ![p] =
                        [at |-> "read", book |-> book, copy |-> c, target |-> target, found |-> None]]
        BY <1>5 DEF StartCopy
    <2>2. PICK c \in Preferred(book) :
              /\ c.place # target
              /\ job' = [job EXCEPT ![p] =
                    [at |-> "read", book |-> book, copy |-> c, target |-> target, found |-> None]]
        BY <2>1
    <2>3. c \in book
        BY DEF Preferred
    <2> QED BY <2>2, <2>3, <1>4
<1>6. CASE StartRemove(p)
    <2>1. PICK book \in Current(p) : \E c \in book :
              /\ c.place = "Card"
              /\ book \ {c} # {}
              /\ job' = [job EXCEPT ![p] =
                    [at |-> "check", book |-> book, copy |-> c, target |-> None, found |-> None]]
        BY <1>6 DEF StartRemove
    <2> QED BY <2>1, <1>4
<1> QED BY <1>5, <1>6

LEMMA LooksInv ==
    ASSUME IInv, NEW p \in Procs, ReadSource(p) \/ Look(p) \/ Check(p)
    PROVE  IInv'
<1>1. job[p].at \in {"read", "look", "check"}
    BY DEF ReadSource, Look, Check
<1>2. /\ job[p] \in Jobs /\ Fits(job[p])
      /\ job[p].copy \in Copies
      /\ listed[p] = Places
      /\ HasItsBook(known[p], job[p])
    BY <1>1, Running
<1>3. /\ UNCHANGED <<files, known, listed, owner, disturbed>> /\ jobs' \in 0..MaxJobs
      /\ dialog' \in [Procs -> SUBSET Copies]
    BY DEF ReadSource, Look, Check, IInv, TypeOK
<1>4. job[p].copy # None /\ job \in [Procs -> Jobs]
    BY <1>2, FoldersAssumption DEF FoldersAssumption, IInv, TypeOK
<1>5. ASSUME NEW at \in {"look", "create", "delete"}, NEW found \in Names \union {None},
             job' = [job EXCEPT ![p] = [job[p] EXCEPT !.at = at, !.found = found]],
             at = "delete" <=> job[p].at = "check"
      PROVE  IInv'
    <2> DEFINE j == [job[p] EXCEPT !.at = at, !.found = found]
    <2>1. /\ j \in Jobs /\ j.at = at /\ j.copy = job[p].copy
          /\ j.target = job[p].target /\ j.book = job[p].book
        BY <1>2, <1>5 DEF Jobs
    <2>4. HasItsBook(known[p], j)
        BY <1>2, <1>5, <2>1 DEF HasItsBook
    <2>2. Fits(j)
        BY <1>1, <1>2, <1>4, <1>5, <2>1 DEF Fits
    <2>3. job' = [job EXCEPT ![p] = j]
        BY <1>5
    <2> HIDE DEF j
    <2> QED BY <1>2, <1>3, <1>5, <2>1, <2>4, <2>2, <2>3, GoesOn
<1>6. ASSUME NEW n \in Names, job[p].at = "look",
             job' = [job EXCEPT ![p] = [job[p] EXCEPT !.at = "compare", !.found = n]]
      PROVE  IInv'
    <2> DEFINE j == [job[p] EXCEPT !.at = "compare", !.found = n]
    <2>1. /\ j \in Jobs /\ j.at = "compare" /\ j.copy = job[p].copy
          /\ j.target = job[p].target /\ j.found = n /\ j.book = job[p].book
        BY <1>2, <1>6 DEF Jobs
    <2>4. HasItsBook(known[p], j)
        BY <1>2, <1>6, <2>1 DEF HasItsBook
    <2>2. Fits(j)
        BY <1>2, <1>4, <1>6, <2>1 DEF Fits
    <2>3. job' = [job EXCEPT ![p] = j]
        BY <1>6
    <2> HIDE DEF j
    <2> QED BY <1>2, <1>3, <1>6, <2>1, <2>4, <2>2, <2>3, GoesOn
<1>7. ASSUME NEW at, Goto(p, at)
      PROVE  job' = [job EXCEPT ![p] = [job[p] EXCEPT !.at = at, !.found = job[p].found]]
    <2>1. [job[p] EXCEPT !.at = at] = [job[p] EXCEPT !.at = at, !.found = job[p].found]
        BY <1>2 DEF Jobs
    <2> QED BY <1>4, <1>7, <2>1 DEF Goto
<1>8. job[p].found \in Names \union {None}
    BY <1>2 DEF Jobs
<1>9. CASE ReadSource(p)
    BY <1>5, <1>7, <1>8, <1>9 DEF ReadSource
<1>10. CASE Check(p)
    BY <1>5, <1>7, <1>8, <1>10 DEF Check
<1>11. CASE Look(p)
    <2>1. CASE Goto(p, "create")
        BY <1>5, <1>7, <1>8, <1>11, <2>1 DEF Look
    <2>2. CASE \E n \in Folded(job[p].target, NameOf[job[p].copy.content]) :
                   job' = [job EXCEPT ![p].at = "compare", ![p].found = n]
        <3>1. PICK n \in Names : job' = [job EXCEPT ![p].at = "compare", ![p].found = n]
            BY <2>2 DEF Folded
        <3>2. job' = [job EXCEPT ![p] = [job[p] EXCEPT !.at = "compare", !.found = n]]
            BY <1>4, <3>1
        <3> QED BY <1>6, <1>11, <3>2 DEF Look
    <2> QED BY <1>11, <2>1, <2>2 DEF Look
<1> QED BY <1>9, <1>10, <1>11

(* A correction, until it is saved. *)
LEMMA CorrectsInv ==
    ASSUME IInv, NEW p \in Procs, StartCorrect(p) \/ Edit(p) \/ TryNext(p)
    PROVE  IInv'
<1>1. TypeOK /\ FoldersAssumption
    BY FoldersAssumption DEF IInv
<1>2. /\ UNCHANGED <<files, known, listed, owner, disturbed>> /\ jobs' \in 0..MaxJobs
      /\ dialog' \in [Procs -> SUBSET Copies]
    <2>1. /\ UNCHANGED <<files, known, listed, dialog, owner, disturbed>>
          /\ jobs' = jobs \/ (jobs' = jobs + 1 /\ jobs < MaxJobs)
        BY DEF StartCorrect, Edit, TryNext, MoreJobs
    <2>2. jobs \in 0..MaxJobs /\ MaxJobs \in Nat /\ dialog \in [Procs -> SUBSET Copies]
        BY <1>1 DEF TypeOK, FoldersAssumption
    <2> QED BY <2>1, <2>2
<1>3. ASSUME NEW j \in Jobs, job' = [job EXCEPT ![p] = j], j.at \in {"edit", "save"},
             j.copy # None, j.at = "save" => j.found \in Names
      PROVE  IInv'
    <2>1. Fits(j)
        BY <1>3 DEF Fits
    <2> QED BY <1>2, <1>3, <2>1, GoesOn
<1>4. CASE StartCorrect(p)
    <2>1. PICK c \in Catalog(known[p]) :
              job' = [job EXCEPT ![p] = [Idle EXCEPT !.at = "edit", !.copy = c]]
        BY <1>4 DEF StartCorrect
    <2> DEFINE j == [Idle EXCEPT !.at = "edit", !.copy = c]
    <2>2. c \in Copies /\ c # None
        BY <1>1, CatalogMember DEF FoldersAssumption
    <2>3. j \in Jobs /\ j.at = "edit" /\ j.copy # None
        BY <2>2 DEF Jobs, Idle
    <2>4. job' = [job EXCEPT ![p] = j]
        BY <2>1
    <2> HIDE DEF j
    <2> QED BY <1>3, <2>3, <2>4
<1>5. CASE Edit(p)
    <2> DEFINE name == job[p].copy.name
               made == Corrected[files["Local"][name]]
               j == [job[p] EXCEPT !.at = "save", !.copy = Copy("Local", name, made),
                                   !.found = Later[name][name]]
    <2>1. /\ job[p].at = "edit" /\ files["Local"][name] # None /\ made # None
          /\ job' = [job EXCEPT ![p].at = "save", ![p].copy = Copy("Local", name, made),
                                ![p].found = Later[name][name]]
        BY <1>5 DEF Edit
    <2>2. job[p] \in Jobs /\ job[p].copy # None
        BY <1>1, <2>1 DEF TypeOK, Fits
    <2>3. name \in Names
        BY <2>2 DEF Jobs
    <2>4. made \in Contents /\ Later[name][name] \in Names
        BY <1>1, <2>1, <2>3 DEF TypeOK, Entries, FoldersAssumption
    <2> HIDE DEF name, made
    <2>5. Copy("Local", name, made) \in Copies
        BY <2>3, <2>4 DEF Copy
    <2>6. Copy("Local", name, made) # None
        BY <1>1, <2>5 DEF FoldersAssumption
    <2>7. j \in Jobs /\ j.at = "save" /\ j.copy # None /\ j.found \in Names
        BY <2>2, <2>4, <2>5, <2>6 DEF Jobs
    <2>8. job' = [job EXCEPT ![p] = j]
        BY <1>1, <2>1 DEF TypeOK
    <2> HIDE DEF j
    <2> QED BY <1>3, <2>7, <2>8
<1>6. CASE TryNext(p)
    <2> DEFINE next == Later[job[p].copy.name][job[p].found]
               j == [job[p] EXCEPT !.found = next]
    <2>1. job[p].at = "save" /\ next # None /\ job' = [job EXCEPT ![p].found = next]
        BY <1>6 DEF TryNext
    <2>2. job[p] \in Jobs /\ job[p].copy # None /\ job[p].found \in Names
        BY <1>1, <2>1 DEF TypeOK, Fits
    <2>3. job[p].copy.name \in Names
        BY <2>2 DEF Jobs
    <2>4. next \in Names
        BY <1>1, <2>1, <2>2, <2>3 DEF FoldersAssumption
    <2> HIDE DEF next
    <2>5. job' = [job EXCEPT ![p] = j]
        BY <1>1, <2>1 DEF TypeOK
    <2>6. j \in Jobs /\ j.at = "save" /\ j.copy # None /\ j.found \in Names
        BY <2>1, <2>2, <2>4 DEF Jobs
    <2> HIDE DEF j
    <2> QED BY <1>3, <2>5, <2>6
<1> QED BY <1>4, <1>5, <1>6

(* The data of a corrected book that is about to get its name.             *)
LEMMA Saved ==
    ASSUME IInv, NEW p \in Procs, Save(p)
    PROVE  /\ job[p].at = "save" /\ job[p].found \in Names /\ job[p].copy.content \in Contents
           /\ Free("Local", job[p].found)
           /\ files' = [files EXCEPT !["Local"][job[p].found] = job[p].copy.content]
           /\ job' = [job EXCEPT ![p] = Idle]
<1>1. job[p] \in Jobs /\ Fits(job[p]) /\ job[p].at = "save"
    BY DEF IInv, TypeOK, Save
<1>2. job[p].copy # None /\ job[p].found \in Names
    BY <1>1 DEF Fits
<1>3. job[p].copy.content \in Contents
    BY <1>1, <1>2 DEF Jobs
<1> QED BY <1>1, <1>2, <1>3 DEF Save, Done

(* Steps that end the job of a process. *)
LEMMA EndsInv ==
    ASSUME IInv, NEW p \in Procs, Compare(p) \/ Create(p) \/ Delete(p) \/ Save(p) \/ Fail(p)
    PROVE  IInv'
<1> USE DEF IInv
<1>1. /\ UNCHANGED <<known, dialog, jobs, owner>>
      /\ job' = [job EXCEPT ![p] = Idle]
      /\ listed' = [listed EXCEPT ![p] = {}] \/ listed' = listed
    BY DEF Compare, Create, Delete, Save, Fail, Done
<1>2. /\ \A q \in Procs \ {p} : listed'[q] = listed[q]
      /\ \A q \in Procs : listed'[q] \subseteq listed[q]
      /\ listed' \in [Procs -> SUBSET Places]
    BY <1>1 DEF TypeOK
<1>3. /\ job' \in [Procs -> Jobs]
      /\ \A q \in Procs : Fits(job'[q])
      /\ JobsAreKnown'
    BY <1>1, <1>2, JobEnds
<1>4. ASSUME files' \in Entries, disturbed' \in [Procs -> SUBSET Places], Remembered', CardFolds(files')
      PROVE  IInv'
    BY <1>1, <1>2, <1>3, <1>4 DEF TypeOK
<1>5. CASE Compare(p) \/ Fail(p)
    <2>1. UNCHANGED <<files, disturbed>>
        BY <1>5 DEF Compare, Fail
    <2>2. Remembered'
        BY <1>1, <1>2, <2>1, MemoryStays
    <2> QED BY <1>4, <2>1, <2>2 DEF TypeOK
<1>6. CASE Create(p)
    <2>1. job[p].at \notin {"idle", "edit", "save"} /\ job[p].at = "create"
        BY <1>6 DEF Create
    <2>2. job[p].copy \in Copies /\ Fits(job[p])
        BY <2>1, Running
    <2> DEFINE content == Prepared(job[p].copy.content, job[p].target)
    <2>3. /\ job[p].target \in Places
          /\ NameOf[job[p].copy.content] \in Names
          /\ content \in Contents
        BY <2>1, <2>2, FoldersAssumption DEF Fits, Prepared, FoldersAssumption
    <2>4. /\ Free(job[p].target, NameOf[job[p].copy.content])
          /\ files' = [files EXCEPT ![job[p].target][NameOf[job[p].copy.content]] = content]
          /\ UNCHANGED disturbed
        BY <1>6 DEF Create
    <2>5. /\ files' \in Entries
          /\ CardFolds(files')
          /\ \A place \in Places, n \in Names :
                 files[place][n] # None => files'[place][n] = files[place][n]
        <3> HIDE DEF content
        <3> QED BY <2>3, <2>4, FileAdded
    <2>6. Remembered'
        BY <1>1, <1>2, <2>4, <2>5, MemoryStays
    <2> QED BY <1>4, <2>4, <2>5, <2>6 DEF TypeOK
<1>7. CASE Delete(p)
    <2>1. /\ files' = [files EXCEPT !["Card"][job[p].copy.name] = None]
          /\ Disturb("Card", {p}) /\ listed' = [listed EXCEPT ![p] = {}]
        BY <1>7 DEF Delete, Done
    <2>2. files' \in Entries /\ CardFolds(files') /\ files'["Local"] = files["Local"]
        BY <2>1 DEF CardFolds, TypeOK, Entries
    <2>3. Remembered' /\ disturbed' \in [Procs -> SUBSET Places]
        <3>1. listed'[p] = {}
            BY <2>1 DEF TypeOK
        <3> QED BY <1>1, <1>2, <2>1, <2>2, <3>1, MemoryIsDisturbed
    <2> QED BY <1>4, <2>2, <2>3
<1>8. CASE Save(p)
    <2>1. /\ job[p].found \in Names /\ job[p].copy.content \in Contents
          /\ Free("Local", job[p].found)
          /\ files' = [files EXCEPT !["Local"][job[p].found] = job[p].copy.content]
          /\ UNCHANGED disturbed
        BY <1>8, Saved DEF Save
    <2>2. /\ files' \in Entries
          /\ CardFolds(files')
          /\ \A place \in Places, n \in Names :
                 files[place][n] # None => files'[place][n] = files[place][n]
        BY <2>1, FileAdded
    <2>3. Remembered'
        BY <1>1, <1>2, <2>1, <2>2, MemoryStays
    <2> QED BY <1>4, <2>1, <2>2, <2>3 DEF TypeOK
<1> QED BY <1>5, <1>6, <1>7, <1>8

LEMMA RefreshInv ==
    ASSUME IInv, NEW p \in Procs, Refresh(p)
    PROVE  IInv'
<1> USE DEF IInv
<1>1. /\ UNCHANGED <<files, known, job, jobs, owner, disturbed>> /\ job[p].at = "idle"
      /\ listed' = [listed EXCEPT ![p] = {}] /\ dialog' = [dialog EXCEPT ![p] = {}]
    BY DEF Refresh
<1>2. /\ \A q \in Procs \ {p} : listed'[q] = listed[q]
      /\ \A q \in Procs : listed'[q] \subseteq listed[q]
      /\ listed' \in [Procs -> SUBSET Places]
    BY <1>1 DEF TypeOK
<1>3. TypeOK'
    BY <1>1, <1>2 DEF TypeOK
<1>4. Remembered'
    BY <1>1, <1>2, MemoryStays
<1>5. JobsAreKnown'
    BY <1>1, <1>2 DEF JobsAreKnown
<1> QED BY <1>1, <1>3, <1>4, <1>5 DEF CardFolds

LEMMA OwnerInv ==
    ASSUME IInv, NEW place \in Places, NEW name \in Names, NEW content \in Contents \union {None},
           Owner(place, name, content)
    PROVE  IInv'
<1> USE DEF IInv
<1>1. /\ UNCHANGED <<known, listed, dialog, job, jobs>>
      /\ files' = [files EXCEPT ![place][name] = content]
      /\ owner' = owner + 1 /\ owner < MaxOwner
    BY DEF Owner
<1>2. /\ files' \in Entries
      /\ \A q \in Places, n \in Names :
             files'[q][n] = IF q = place /\ n = name THEN content ELSE files[q][n]
      /\ \A q \in Places \ {place} : files'[q] = files[q]
    BY <1>1 DEF TypeOK, Entries
<1>3. owner' \in 0..MaxOwner
    BY <1>1, FoldersAssumption DEF TypeOK, FoldersAssumption
<1>4. CardFolds(files')
    <2> SUFFICES ASSUME NEW n \in Names, NEW m \in Names, n # m, Fold[n] = Fold[m],
                        files'["Card"][n] # None, files'["Card"][m] # None
                 PROVE  FALSE
        BY DEF CardFolds
    <2>1. CASE place = "Card" /\ name \in {n, m}
        <3>1. PICK other \in {n, m} : other # name
            OBVIOUS
        <3>2. content # None
            BY <1>2, <2>1
        <3>3. Folded("Card", name) \subseteq {name}
            BY <2>1, <3>2 DEF Owner
        <3>4. other \in Folded("Card", name)
            BY <1>2, <2>1, <3>1 DEF Folded
        <3> QED BY <3>1, <3>3, <3>4
    <2>2. CASE ~(place = "Card" /\ name \in {n, m})
        BY <2>2, <1>2 DEF CardFolds
    <2> QED BY <2>1, <2>2
<1>5. Remembered' /\ disturbed' \in [Procs -> SUBSET Places]
    <2>1. CASE files[place][name] = None
        <3>1. UNCHANGED disturbed
            BY <2>1 DEF Owner
        <3>2. Remembered'
            BY <1>1, <1>2, <2>1, <3>1, MemoryStays
        <3> QED BY <3>1, <3>2 DEF TypeOK
    <2>2. CASE files[place][name] # None
        <3>1. Disturb(place, {})
            BY <2>2 DEF Owner
        <3>2. \A q \in Procs : listed'[q] \subseteq listed[q]
            BY <1>1
        <3> QED BY <1>1, <1>2, <3>1, <3>2, MemoryIsDisturbed
    <2> QED BY <2>1, <2>2
<1>6. JobsAreKnown'
    BY <1>1 DEF JobsAreKnown
<1> QED BY <1>1, <1>2, <1>3, <1>4, <1>5, <1>6 DEF TypeOK

LEMMA StepInv == IInv /\ [Next]_vars => IInv'
<1> SUFFICES ASSUME IInv, [Next]_vars PROVE IInv'
    OBVIOUS
<1>1. ASSUME NEW p \in Procs, Step(p) PROVE IInv'
    BY <1>1, ListInv, DialogInv, StartInv, LooksInv, CorrectsInv, EndsInv, RefreshInv DEF Step
<1>2. ASSUME NEW place \in Places, NEW name \in Names, NEW content \in Contents \union {None},
             Owner(place, name, content)
      PROVE  IInv'
    BY <1>2, OwnerInv
<1>3. CASE UNCHANGED vars
    BY <1>3 DEF vars, IInv, TypeOK, CardFolds, Remembered, JobsAreKnown
<1> QED BY <1>1, <1>2, <1>3 DEF Next

(* Every variable keeps its type, and every job has the data of its step:  *)
(* a copy that books::remove deletes is on the card, and one that          *)
(* books::transferred makes goes to another place than its source's.       *)
THEOREM TypeCorrect == Spec => []TypeOK
<1>1. IInv => TypeOK
    BY DEF IInv
<1> QED BY <1>1, InitInv, StepInv, PTL DEF Spec

(* What a process changes: one new file, or one file of the card less.     *)
LEMMA Changes ==
    ASSUME IInv, [Next]_vars, ~OwnersStep
    PROVE  \/ files' = files
           \/ \E p \in Procs : Create(p)
           \/ \E p \in Procs : Save(p)
           \/ \E p \in Procs : Delete(p)
<1>1. CASE UNCHANGED vars
    BY <1>1 DEF vars
<1>2. ASSUME NEW p \in Procs, Step(p)
      PROVE  files' = files \/ Create(p) \/ Save(p) \/ Delete(p)
    BY <1>2 DEF Step, List, OpenDialog, CloseDialog, StartCopy, ReadSource, Look, Compare, StartRemove, Check, Refresh, Fail,
                StartCorrect, Edit, TryNext
<1>3. ASSUME NEW place \in Places, NEW name \in Names, NEW content \in Contents \union {None},
             Owner(place, name, content)
      PROVE  FALSE
    <2>1. owner' = owner + 1 /\ owner \in Nat
        BY <1>3, FoldersAssumption DEF Owner, IInv, TypeOK, FoldersAssumption
    <2> QED BY <2>1 DEF OwnersStep
<1> QED BY <1>1, <1>2, <1>3 DEF Next

(* The data of a copy that is about to get its name (copy::copy).          *)
LEMMA Created ==
    ASSUME IInv, NEW p \in Procs, Create(p)
    PROVE  LET j == job[p]  name == NameOf[j.copy.content]  content == Prepared(j.copy.content, j.target) IN
           /\ j.at = "create" /\ j.target \in Places /\ name \in Names /\ content \in Contents
           /\ Free(j.target, name)
           /\ files' = [files EXCEPT ![j.target][name] = content]
           /\ j.copy \in Preferred(j.book)
           /\ job' = [job EXCEPT ![p] = Idle]
<1>1. job[p].at \notin {"idle", "edit", "save"} /\ job[p].at = "create"
    BY DEF Create
<1>2. job[p].copy \in Copies /\ Fits(job[p]) /\ HasItsBook(known[p], job[p])
    BY <1>1, Running
<1>3. /\ job[p].target \in Places
      /\ NameOf[job[p].copy.content] \in Names
      /\ Prepared(job[p].copy.content, job[p].target) \in Contents
    BY <1>1, <1>2, FoldersAssumption DEF Fits, Prepared, FoldersAssumption
<1>4. job[p].copy \in Preferred(job[p].book)
    BY <1>2, <1>3, FoldersAssumption DEF HasItsBook, FoldersAssumption
<1> QED BY <1>1, <1>2, <1>3, <1>4 DEF Create, Done

(* Crossload never replaces nor changes a file, and never takes one from   *)
(* the computer (copy::copy, books::remove).                               *)
THEOREM NothingIsReplaced == Spec => FoldersOnlyGain
<1>1. ASSUME IInv, [Next]_vars
      PROVE  [OwnersStep \/ OnlyGain]_vars
    <2> SUFFICES ASSUME ~OwnersStep PROVE OnlyGain
        OBVIOUS
    <2>1. CardFolds(files')
        BY <1>1, StepInv DEF IInv, CardFolds
    <2>2. CASE files' = files
        BY <2>1, <2>2 DEF OnlyGain
    <2>3. ASSUME NEW p \in Procs, Create(p)
          PROVE  OnlyGain
        <3>1. /\ Free(job[p].target, NameOf[job[p].copy.content])
              /\ NameOf[job[p].copy.content] \in Names /\ job[p].target \in Places
              /\ files' = [files EXCEPT ![job[p].target][NameOf[job[p].copy.content]] =
                                            Prepared(job[p].copy.content, job[p].target)]
              /\ Prepared(job[p].copy.content, job[p].target) \in Contents
            BY <1>1, <2>3, Created
        <3>2. \A place \in Places, n \in Names :
                  files[place][n] # None => files'[place][n] = files[place][n]
            BY <1>1, <3>1, FileAdded DEF IInv
        <3> QED BY <2>1, <3>2 DEF OnlyGain
    <2>4. ASSUME NEW p \in Procs, Delete(p)
          PROVE  OnlyGain
        <3>1. files' = [files EXCEPT !["Card"][job[p].copy.name] = None]
            BY <2>4 DEF Delete
        <3>2. files'["Local"] = files["Local"]
            BY <3>1
        <3>3. \A n \in Names : files'["Card"][n] \in {files["Card"][n], None}
            BY <1>1, <3>1 DEF IInv, TypeOK, Entries
        <3> QED BY <2>1, <3>2, <3>3 DEF OnlyGain
    <2>5. ASSUME NEW p \in Procs, Save(p)
          PROVE  OnlyGain
        <3>1. /\ job[p].found \in Names /\ job[p].copy.content \in Contents
              /\ Free("Local", job[p].found)
              /\ files' = [files EXCEPT !["Local"][job[p].found] = job[p].copy.content]
            BY <1>1, <2>5, Saved
        <3>2. \A place \in Places, n \in Names :
                  files[place][n] # None => files'[place][n] = files[place][n]
            BY <1>1, <3>1, FileAdded DEF IInv
        <3> QED BY <2>1, <3>2 DEF OnlyGain
    <2> QED BY <1>1, <2>2, <2>3, <2>4, <2>5, Changes
<1> QED BY <1>1, InitInv, StepInv, PTL DEF Spec, FoldersOnlyGain

(* A new file is a copy of what was recorded of a preferred copy of the    *)
(* book the user chose, whatever became of it since (books::transferred).  *)
THEOREM CopiesAreOfTheChoice == Spec => CopiedAsRecorded
<1>1. ASSUME IInv, [Next]_vars
      PROVE  [OwnersStep \/ AsRecorded]_vars
    <2> SUFFICES ASSUME ~OwnersStep, NEW p \in Procs, NEW place \in Places, NEW name \in Names,
                        job[p].at = "create", job'[p].at = "idle",
                        files'[place][name] # files[place][name]
                 PROVE  \E c \in Preferred(job[p].book) :
                            files'[place][name] = Prepared(c.content, place)
        BY DEF AsRecorded
    <2>1. CASE \E q \in Procs : Create(q)
        <3>1. PICK q \in Procs : Create(q)
            BY <2>1
        <3>2. /\ files' = [files EXCEPT ![job[q].target][NameOf[job[q].copy.content]] =
                               Prepared(job[q].copy.content, job[q].target)]
              /\ job[q].copy \in Preferred(job[q].book)
              /\ job' = [job EXCEPT ![q] = Idle]
            BY <1>1, <3>1, Created
        <3>3. q = p
            BY <1>1, <3>2 DEF IInv, TypeOK
        <3>4. place = job[p].target /\ name = NameOf[job[p].copy.content]
            <4> DEFINE target == job[p].target
                       new == NameOf[job[p].copy.content]
                       data == Prepared(job[p].copy.content, job[p].target)
            <4>1. files \in Entries
                BY <1>1 DEF IInv, TypeOK
            <4>2. files' = [files EXCEPT ![target][new] = data]
                BY <3>2, <3>3
            <4> HIDE DEF target, new, data
            <4>3. place = target /\ name = new
                BY <1>1, <4>1, <4>2 DEF Entries
            <4> QED
                BY <4>3 DEF target, new
        <3> QED BY <1>1, <3>2, <3>3, <3>4 DEF IInv, TypeOK, Entries
    <2>2. CASE \E q \in Procs : Delete(q)
        <3>1. PICK q \in Procs : job[q].at = "delete" /\ job' = [job EXCEPT ![q] = Idle]
            BY <2>2 DEF Delete, Done
        <3> QED BY <1>1, <3>1 DEF IInv, TypeOK
    <2>3. CASE \E q \in Procs : Save(q)
        <3>1. PICK q \in Procs : job[q].at = "save" /\ job' = [job EXCEPT ![q] = Idle]
            BY <2>3 DEF Save, Done
        <3> QED BY <1>1, <3>1 DEF IInv, TypeOK
    <2> QED BY <1>1, <2>1, <2>2, <2>3, Changes
<1> QED BY <1>1, InitInv, StepInv, PTL DEF Spec, CopiedAsRecorded

(* A deletion leaves a copy of the book as long as no folder lost a file   *)
(* to someone else since the process read it, and the copy is one that it  *)
(* last read there, whichever list its dialog was opened on                *)
(* (books::remove, Model::current).                                        *)
THEOREM DeletionsLeaveACopy == Spec => UndisturbedKeepsACopy
<1>1. ASSUME IInv, [Next]_vars
      PROVE  [OwnersStep \/ LeavesACopy]_vars
    <2> SUFFICES ASSUME ~OwnersStep, NEW p \in Procs, job[p].at = "delete", disturbed[p] = {},
                        files' # files, job'[p].at = "idle", job[p].copy \in Catalog(known[p])
                 PROVE  Exists(files', BookOf[job[p].copy.content])
        BY DEF LeavesACopy
    <2> DEFINE c == job[p].copy
    <2>1. /\ c \in Copies /\ listed[p] = Places /\ c.place = "Card"
          /\ c.content = known[p]["Card"][c.name]
          /\ CopiesOf(known[p], BookOf[c.content]) \ {c} # {}
        <3>1. Fits(job[p]) /\ c \in Copies /\ listed[p] = Places /\ HasItsBook(known[p], job[p])
            BY <1>1, Running
        <3>2. c.place = "Card"
            BY <3>1 DEF Fits
        <3>3. c.content = known[p]["Card"][c.name]
            BY <1>1, <3>2, CatalogMember DEF IInv
        <3>4. CopiesOf(known[p], BookOf[c.content]) \ {c} # {}
            BY <3>1 DEF HasItsBook
        <3> QED BY <3>1, <3>2, <3>3, <3>4
    <2>2. Delete(p)
        <3>1. CASE \E q \in Procs : Create(q)
            <4>1. PICK q \in Procs : job[q].at = "create" /\ job' = [job EXCEPT ![q] = Idle]
                BY <3>1 DEF Create, Done
            <4> QED BY <1>1, <4>1 DEF IInv, TypeOK
        <3>2. CASE \E q \in Procs : Delete(q)
            <4>1. PICK q \in Procs : Delete(q) /\ job' = [job EXCEPT ![q] = Idle]
                BY <3>2 DEF Delete, Done
            <4> QED BY <1>1, <4>1 DEF IInv, TypeOK
        <3>3. CASE \E q \in Procs : Save(q)
            <4>1. PICK q \in Procs : job[q].at = "save" /\ job' = [job EXCEPT ![q] = Idle]
                BY <3>3 DEF Save, Done
            <4> QED BY <1>1, <4>1 DEF IInv, TypeOK
        <3> QED BY <1>1, <3>1, <3>2, <3>3, Changes
    <2>3. files' = [files EXCEPT !["Card"][c.name] = None]
        BY <2>2 DEF Delete
    <2>4. PICK d \in Catalog(known[p]) : d # c /\ BookOf[d.content] = BookOf[c.content]
        BY <2>1 DEF CopiesOf
    <2>5. d \in Copies /\ d.content = known[p][d.place][d.name]
        BY <1>1, <2>4, CatalogMember DEF IInv
    <2>6. ~(d.place = "Card" /\ d.name = c.name)
        BY <2>1, <2>4, <2>5
    <2>7. files[d.place][d.name] = d.content
        <3>1. d.place \in listed[p] \ disturbed[p] /\ d.name \in Names /\ d.content # None
            BY <2>1, <2>5, FoldersAssumption DEF FoldersAssumption
        <3>2. Remembered
            BY <1>1 DEF IInv
        <3> HIDE DEF c
        <3> QED BY <2>5, <3>1, <3>2 DEF Remembered
    <2>8. files'[d.place][d.name] = d.content
        BY <1>1, <2>3, <2>5, <2>6, <2>7 DEF IInv, TypeOK, Entries
    <2>9. d.place \in Places /\ d.name \in Names /\ d.content \in Contents
        BY <2>5
    <2>10. Exists(files', BookOf[c.content])
        BY <2>4, <2>8, <2>9 DEF Exists
    <2> QED BY <2>1, <2>10
<1> QED BY <1>1, InitInv, StepInv, PTL DEF Spec, UndisturbedKeepsACopy
=============================================================================
