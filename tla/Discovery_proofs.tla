-------------------------- MODULE Discovery_proofs --------------------------
(* What a discovery guarantees for any copies, sizes, places and numbers   *)
(* of readers.  The invariants of the budget and of the catalog are        *)
(* inductive by themselves, once each copy is handed on as it should be:   *)
(* from the listing to the queue, to one task, to the catalog.             *)
EXTENDS Discovery, ReadBudget_proofs, Catalog_proofs

(* Where a copy can be: a copy of a place that is not listed is nowhere;   *)
(* one that waits has no task; one that was read neither waits nor has a   *)
(* task any more.                                                          *)
HandedOn ==
    /\ listing \in [Places -> {"running", "listed", "unavailable"}]
    /\ queue \subseteq At("none")
    /\ \A c \in Copies : listing[PlaceOf[c]] = "running" => task[c] = "none" /\ c \notin queue
    /\ \A r \in arrived :
        /\ r.name \in Copies
        /\ listing[PlaceOf[r.name]] # "running"
        /\ task[r.name] \in {"none", "over"}
        /\ r.name \notin queue

IInv == BudgetInv /\ CatalogInv /\ HandedOn

(* Starting tasks takes copies from the queue and nothing from the budget. *)
LEMMA ReadMoreHandsOn ==
    ASSUME NEW p \in Places, NEW waiting \in SUBSET At("none"), NEW done \in SUBSET At("sent"),
           BudgetInv, ReadMore(p, waiting, done), free' = free
    PROVE  /\ BudgetInv'
           /\ queue' \subseteq At("none")'
           /\ queue' \subseteq waiting
           /\ \A c \in done : task'[c] = "over"
           /\ \A c \in Copies : c \notin waiting /\ c \notin done => task'[c] = task[c]
  <1>1. PICK batch \in SUBSET waiting :
            /\ queue' = waiting \ batch
            /\ task' = [c \in Copies |-> IF c \in batch THEN "claiming"
                                         ELSE IF c \in done THEN "over"
                                         ELSE task[c]]
    BY DEF ReadMore, NextToRead, Of
  <1>2. task \in [Copies -> TaskStates]
    BY DEF BudgetInv
  <1>3. \A c \in Copies : c \in waiting => task[c] = "none"
    BY DEF At
  <1>4. \A c \in Copies : c \in done => task[c] = "sent"
    BY DEF At
  <1>5. task' \in [Copies -> TaskStates]
    BY <1>1, <1>2 DEF TaskStates
  <1>6. At("reading")' = At("reading") /\ At("sleeping")' = At("sleeping")
    BY <1>1, <1>2, <1>3, <1>4 DEF At
  <1>7. BudgetInv'
    BY <1>5, <1>6, OthersKeepAccount
  <1>8. queue' \subseteq At("none")'
    BY <1>1, <1>3, <1>4 DEF At
  <1>9. \A c \in done : task'[c] = "over"
    BY <1>1, <1>3, <1>4 DEF At
  <1>10. \A c \in Copies : c \notin waiting /\ c \notin done => task'[c] = task[c]
    BY <1>1
  <1> QED
    BY <1>1, <1>7, <1>8, <1>9, <1>10

LEMMA ListedKeeps ==
    ASSUME IInv, NEW p \in Places, Listed(p)
    PROVE  IInv'
  <1>1. PICK known \in SUBSET Of(p, Copies) :
            /\ Bring({Reading(c) : c \in known})
            /\ ReadMore(p, queue \union (Of(p, Copies) \ known), {})
    BY DEF Listed, Listings
  <1> DEFINE waiting == queue \union (Of(p, Copies) \ known)
             readings == {Reading(c) : c \in known}
  <1>2. /\ Idle /\ listing[p] = "running" /\ free' = free
        /\ listing' = [listing EXCEPT ![p] = "listed"]
    BY DEF Listed
  <1>3. known \subseteq Copies /\ \A c \in known : PlaceOf[c] = p
    BY DEF Of
  <1>4. \A c \in Copies : PlaceOf[c] = p => task[c] = "none" /\ c \notin queue
    BY <1>2 DEF IInv, HandedOn
  <1>5. waiting \in SUBSET At("none") /\ waiting \in SUBSET Copies
    BY <1>4 DEF IInv, HandedOn, Of, At
  <1>6. /\ BudgetInv'
        /\ queue' \subseteq At("none")'
        /\ queue' \subseteq waiting
        /\ \A c \in Copies : c \notin waiting => task'[c] = task[c]
    <2> HIDE DEF waiting
    <2>1. ReadMore(p, waiting, {})
      BY <1>1 DEF waiting
    <2>2. {} \in SUBSET At("sent")
      OBVIOUS
    <2> QED
      BY <1>2, <1>5, <2>1, <2>2, ReadMoreHandsOn DEF IInv
  <1>7. \A r \in readings : r.name \in known /\ r = Reading(r.name)
    BY DEF Reading
  <1>8. readings \in SUBSET Readings
    BY <1>3, DiscoveryAssumption DEF Reading, Readings
  <1>9. \A r \in arrived : r.name \notin known
    BY <1>2, <1>3 DEF IInv, HandedOn
  <1>10. CatalogInv'
    <2>1. \A r \in readings, s \in readings \union arrived : r.name = s.name => r = s
      BY <1>7, <1>9
    <2>2. readings \intersect arrived = {}
      BY <1>7, <1>9
    <2>3. Bring(readings)
      BY <1>1
    <2> HIDE DEF readings
    <2> QED
      BY <1>2, <1>8, <2>1, <2>2, <2>3, BringKeepsCatalog DEF IInv
  <1>11. HandedOn'
    <2>1. listing' \in [Places -> {"running", "listed", "unavailable"}]
      BY <1>2 DEF IInv, HandedOn
    <2>2. \A c \in Copies : PlaceOf[c] # p => c \notin waiting \/ c \in queue
      BY DEF Of
    <2>3. \A c \in Copies :
            listing'[PlaceOf[c]] = "running" => task'[c] = "none" /\ c \notin queue'
      <3> SUFFICES ASSUME NEW c \in Copies, listing'[PlaceOf[c]] = "running"
                   PROVE  task'[c] = "none" /\ c \notin queue'
        OBVIOUS
      <3>1. PlaceOf[c] \in Places
        BY DiscoveryAssumption
      <3>2. PlaceOf[c] # p /\ listing[PlaceOf[c]] = "running"
        BY <1>2, <3>1 DEF IInv, HandedOn
      <3>3. task[c] = "none" /\ c \notin waiting
        BY <2>2, <3>2 DEF IInv, HandedOn
      <3> QED
        BY <1>6, <3>3
    <2>4. arrived' = arrived \union readings
      BY <1>1 DEF Bring
    <2>5. \A r \in arrived' :
            /\ r.name \in Copies
            /\ listing'[PlaceOf[r.name]] # "running"
            /\ task'[r.name] \in {"none", "over"}
            /\ r.name \notin queue'
      <3> SUFFICES ASSUME NEW r \in arrived'
                   PROVE  /\ r.name \in Copies
                          /\ listing'[PlaceOf[r.name]] # "running"
                          /\ task'[r.name] \in {"none", "over"}
                          /\ r.name \notin queue'
        OBVIOUS
      <3>1. r.name \in Copies /\ PlaceOf[r.name] \in Places
        BY <2>4, <1>3, <1>7, DiscoveryAssumption DEF IInv, HandedOn
      <3>2. CASE r \in arrived
        <4>1. PlaceOf[r.name] # p /\ listing[PlaceOf[r.name]] # "running"
              /\ task[r.name] \in {"none", "over"} /\ r.name \notin queue
          BY <1>2, <3>2 DEF IInv, HandedOn
        <4>2. r.name \notin waiting
          BY <2>2, <3>1, <4>1
        <4> QED
          BY <1>2, <1>6, <3>1, <4>1, <4>2 DEF IInv, HandedOn
      <3>3. CASE r \in readings
        <4>1. r.name \in known /\ PlaceOf[r.name] = p
          BY <1>3, <1>7, <3>3
        <4>2. r.name \notin waiting /\ task[r.name] = "none"
          BY <1>4, <3>1, <4>1
        <4>3. listing'[p] = "listed"
          BY <1>2 DEF IInv, HandedOn
        <4> QED
          BY <1>6, <3>1, <4>1, <4>2, <4>3
      <3> QED
        BY <2>4, <3>2, <3>3
    <2> QED
      BY <1>6, <2>1, <2>3, <2>5 DEF HandedOn
  <1> QED
    BY <1>6, <1>10, <1>11 DEF IInv

LEMMA ReadKeeps ==
    ASSUME IInv, NEW c \in Copies, Read(c)
    PROVE  IInv'
  <1>1. PICK readings \in {{Reading(c)}, {Unreadable(c)}, {}} : Bring(readings)
    BY DEF Read, Outcomes
  <1>2. /\ Idle /\ task[c] = "sent" /\ free' = free /\ listing' = listing
        /\ ReadMore(PlaceOf[c], queue, {c})
    BY DEF Read
  <1>3. /\ BudgetInv'
        /\ queue' \subseteq At("none")'
        /\ queue' \subseteq queue
        /\ task'[c] = "over"
        /\ \A d \in Copies : d \notin queue /\ d # c => task'[d] = task[d]
    <2>1. {c} \in SUBSET At("sent") /\ queue \in SUBSET At("none")
      BY <1>2 DEF At, IInv, HandedOn
    <2>2. PlaceOf[c] \in Places
      BY DiscoveryAssumption
    <2> QED
      BY <1>2, <2>1, <2>2, ReadMoreHandsOn DEF IInv
  <1>4. \A r \in readings : r.name = c
    BY <1>1 DEF Reading, Unreadable
  <1>5. readings \in SUBSET Readings
    BY <1>1, DiscoveryAssumption DEF Reading, Unreadable, Readings
  <1>6. \A r \in arrived : r.name # c
    BY <1>2 DEF IInv, HandedOn
  <1>7. CatalogInv'
    <2>1. \A r \in readings, s \in readings \union arrived : r.name = s.name => r = s
      BY <1>1, <1>4, <1>6
    <2>2. readings \intersect arrived = {}
      BY <1>4, <1>6
    <2> QED
      BY <1>1, <1>2, <1>5, <2>1, <2>2, BringKeepsCatalog DEF IInv
  <1>8. c \notin queue /\ listing[PlaceOf[c]] # "running"
    BY <1>2 DEF IInv, HandedOn, At
  <1>9. HandedOn'
    <2>1. listing' \in [Places -> {"running", "listed", "unavailable"}]
      BY <1>2 DEF IInv, HandedOn
    <2>2. \A d \in Copies :
            listing'[PlaceOf[d]] = "running" => task'[d] = "none" /\ d \notin queue'
      BY <1>2, <1>3, <1>8 DEF IInv, HandedOn
    <2>3. arrived' = arrived \union readings
      BY <1>1 DEF Bring
    <2>4. \A r \in arrived' :
            /\ r.name \in Copies
            /\ listing'[PlaceOf[r.name]] # "running"
            /\ task'[r.name] \in {"none", "over"}
            /\ r.name \notin queue'
      <3> SUFFICES ASSUME NEW r \in arrived'
                   PROVE  /\ r.name \in Copies
                          /\ listing'[PlaceOf[r.name]] # "running"
                          /\ task'[r.name] \in {"none", "over"}
                          /\ r.name \notin queue'
        OBVIOUS
      <3>1. CASE r \in arrived
        <4>1. /\ r.name \in Copies /\ r.name # c
              /\ listing[PlaceOf[r.name]] # "running"
              /\ task[r.name] \in {"none", "over"} /\ r.name \notin queue
          BY <1>6, <3>1 DEF IInv, HandedOn
        <4> QED
          BY <1>2, <1>3, <4>1
      <3>2. CASE r \in readings
        BY <1>2, <1>3, <1>4, <1>8, <3>2
      <3> QED
        BY <2>3, <3>1, <3>2
    <2> QED
      BY <1>3, <2>1, <2>2, <2>4 DEF HandedOn
  <1> QED
    BY <1>3, <1>7, <1>9 DEF IInv

(* A step of the tasks that hands nothing on. *)
LEMMA ThreadKeeps ==
    ASSUME IInv, NEW c \in Copies, Thread(c) \/ Spurious(c)
    PROVE  IInv'
  <1>1. UNCHANGED <<catalogVars, listing, queue>>
    BY DEF Thread, Spurious
  <1>2. CatalogInv'
    BY <1>1, UnchangedCatalogKeeps DEF IInv
  <1>3. Claim(c) \/ Sleep(c) \/ Release(c) \/ WakeForNothing(c)
    BY DEF Thread, Spurious
  <1>4. BudgetInv'
    BY <1>3, ClaimKeepsAccount, SleepKeepsAccount, ReleaseKeepsAccount, WakingKeepsAccount
       DEF IInv
  <1>5. \A d \in Copies : task[d] \in {"none", "over"} => task'[d] = task[d]
    BY <1>3 DEF Claim, Sleep, Release, WakeForNothing, IInv, BudgetInv
  <1>6. queue \subseteq At("none")'
    BY <1>5 DEF IInv, HandedOn, At
  <1>7. HandedOn'
    BY <1>1, <1>5, <1>6 DEF IInv, HandedOn, catalogVars
  <1> QED
    BY <1>2, <1>4, <1>7 DEF IInv

LEMMA MergingKeeps ==
    ASSUME IInv, Merging
    PROVE  IInv'
  <1>1. UNCHANGED <<free, task, listing, queue>> /\ arrived' = arrived
    BY DEF Merging, Merge, Absorb, Push, budgetVars
  <1>2. CatalogInv'
    BY MergeKeepsCatalog, AbsorbKeepsCatalog, PushKeepsCatalog DEF Merging, IInv
  <1>3. BudgetInv'
    BY <1>1 DEF IInv, BudgetInv, Claimed, At, Amount, Tripled
  <1>4. HandedOn'
    BY <1>1 DEF IInv, HandedOn, At
  <1> QED
    BY <1>2, <1>3, <1>4 DEF IInv

LEMMA NotListedKeeps ==
    ASSUME IInv, NEW p \in Places, NotListed(p)
    PROVE  IInv'
  <1>1. /\ UNCHANGED <<free, task, catalogVars, queue>>
        /\ listing' = [listing EXCEPT ![p] = "unavailable"]
    BY DEF NotListed, budgetVars
  <1>2. CatalogInv'
    BY <1>1, UnchangedCatalogKeeps DEF IInv
  <1>3. BudgetInv'
    BY <1>1 DEF IInv, BudgetInv, Claimed, At, Amount, Tripled
  <1>4. \A q \in Places : listing'[q] = "running" => listing[q] = "running"
    BY <1>1 DEF IInv, HandedOn
  <1>5. HandedOn'
    BY <1>1, <1>4, DiscoveryAssumption DEF IInv, HandedOn, At, catalogVars
  <1> QED
    BY <1>2, <1>3, <1>5 DEF IInv

LEMMA NothingKeeps ==
    ASSUME IInv, UNCHANGED vars
    PROVE  IInv'
  <1>1. UNCHANGED <<free, task, catalogVars, listing, queue>> /\ arrived' = arrived
    BY DEF vars, budgetVars, catalogVars
  <1>2. CatalogInv'
    BY <1>1, UnchangedCatalogKeeps DEF IInv
  <1>3. BudgetInv'
    BY <1>1 DEF IInv, BudgetInv, Claimed, At, Amount, Tripled
  <1>4. HandedOn'
    BY <1>1 DEF IInv, HandedOn, At
  <1> QED
    BY <1>2, <1>3, <1>4 DEF IInv

LEMMA InitHolds ==
    ASSUME Init
    PROVE  IInv
  <1>1. BudgetInv /\ CatalogInv
    BY InitKeepsAccount, InitKeepsCatalog DEF Init
  <1>2. HandedOn
    BY DEF Init, BudgetInit, CatalogInit, HandedOn, At
  <1> QED
    BY <1>1, <1>2 DEF IInv

LEMMA StepKeeps ==
    ASSUME IInv, [Next]_vars
    PROVE  IInv'
  <1>1. CASE \E p \in Places : Listed(p) \/ NotListed(p)
    BY <1>1, ListedKeeps, NotListedKeeps
  <1>2. CASE \E c \in Copies : Read(c)
    BY <1>2, ReadKeeps
  <1>3. CASE Merging
    BY <1>3, MergingKeeps
  <1>4. CASE \E c \in Copies : Thread(c) \/ Spurious(c)
    BY <1>4, ThreadKeeps
  <1>5. CASE Done \/ UNCHANGED vars
    BY <1>5, NothingKeeps DEF Done
  <1> QED
    BY <1>1, <1>2, <1>3, <1>4, <1>5 DEF Next, App

LEMMA Invariance == Spec => []IInv
  BY InitHolds, StepKeeps, PTL DEF Spec

-----------------------------------------------------------------------------
(* Every variable keeps its type. *)
THEOREM TypeCorrect == Spec => []TypeOK
  <1>1. IInv => TypeOK
    BY AccountWakesSleepers DEF IInv, HandedOn, BudgetInv, CatalogInv, TypeOK
  <1> QED
    BY <1>1, Invariance, PTL

(* The books that are read at once never hold more than the budget, for    *)
(* any sizes and any number of tasks (Budget::claim, Claim::drop).         *)
THEOREM MemoryIsBounded == Spec => []InBudget
  <1>1. IInv => InBudget
    BY AccountBoundsMemory DEF IInv
  <1> QED
    BY <1>1, Invariance, PTL

(* No task sleeps while there is enough for it, and none sleeps when       *)
(* nobody reads: the readings never wait for each other in a circle.       *)
THEOREM NobodyOversleeps == Spec => []SleepersAreShort
  <1>1. IInv => SleepersAreShort
    BY AccountWakesSleepers DEF IInv
  <1> QED
    BY <1>1, Invariance, PTL

(* Two copies with a digest in common are never left in two books, even    *)
(* when it takes a third copy, read later, to show that two books are one  *)
(* (LibraryCatalog::add with merge).                                       *)
THEOREM TwinsAreTogether == Spec => []TwinsAreOneBook
  <1>1. IInv => TwinsAreOneBook
    BY CatalogPromises DEF IInv
  <1> QED
    BY <1>1, Invariance, PTL

(* And nothing else is put together: the copies of a book are linked by    *)
(* chains of shared digests, whatever order they were read in.             *)
THEOREM BooksAreGroups == Spec => []BooksHangTogether
  <1>1. IInv => BooksHangTogether
    BY CatalogPromises DEF IInv
  <1> QED
    BY <1>1, Invariance, PTL

(* Each copy that was handed to the catalog is in one of its books or in   *)
(* the merge under way, once.                                              *)
THEOREM NoReadingIsLost == Spec => []NothingIsLost
  <1>1. IInv => NothingIsLost
    BY CatalogPromises DEF IInv
  <1> QED
    BY <1>1, Invariance, PTL
=============================================================================
