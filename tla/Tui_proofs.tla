----------------------------- MODULE Tui_proofs -----------------------------
(***************************************************************************)
(* Proofs about crossload's terminal interface.                            *)
(*                                                                         *)
(* What the interface waits for is what is in flight: an id of the model   *)
(* that is not 0 has its task, and there are no other tasks.  From that    *)
(* follow the clean end and, with an account of what a discovery has seen, *)
(* that the list is current and that a last copy stays.                    *)
(***************************************************************************)
EXTENDS Tui, FiniteSetTheorems, FunctionTheorems, TLAPS

-----------------------------------------------------------------------------
(* The inductive invariants.  m, s, j, t and d are the model, the          *)
(* discovery, the job, the tasks and the disk.                             *)

Of(t, kinds) == {k \in t : k.kind \in kinds}

(* There is one task with this id, or none and the id is 0. *)
Slot(id, S) ==
    \/ id = 0 /\ S = {}
    \/ id # 0 /\ \E k \in S : S = {k} /\ k.id = id

Works == {"copy", "remove"}
Panels == {"correct", "settings", "test"}

WorkInv(busy, j, t) ==
    /\ Slot(busy, Of(t, Works))
    /\ \A k \in Of(t, Works) : k.about \in Copies
    /\ \/ j.id = 0 /\ Of(t, {"copy"}) = {}
       \/ /\ j.id # 0 /\ j.id = busy /\ Of(t, {"copy"}) # {}
          /\ j.target \in Places
          /\ j.copied + j.failures + Cardinality(j.pending) + 1 = j.total

PanelInv(busy, configuring, correcting, t) ==
    /\ Slot(configuring, Of(t, Panels))
    /\ correcting # None => busy = 0
    /\ \A k \in Of(t, {"correct"}) : correcting # None /\ k.about \in Copies

Lists(t, p) == {k \in t : k.kind = "list" /\ k.place = p}
Reads(t, p) == {k \in t : k.kind = "read" /\ k.about.place = p}

(* A location waits for its listing, or for readings, or it is done. *)
PlaceInv(s, t, p) ==
    /\ s.running[p] = Cardinality(Reads(t, p))
    /\ s.running[p] <= Readers[p]
    /\ s.queue[p] # {} => s.running[p] = Readers[p]
    /\ \A c \in s.queue[p] : c.place = p /\ Task("read", s.id, c) \notin t
    /\ \/ s.done[p] /\ s.running[p] = 0 /\ Lists(t, p) = {}
       \/ /\ ~s.done[p] /\ s.running[p] = 0 /\ s.queue[p] = {}
          /\ \E k \in Lists(t, p) : Lists(t, p) = {k}
       \/ ~s.done[p] /\ s.running[p] > 0 /\ Lists(t, p) = {}

OfPlace(k) ==
    /\ k.place \in Places
    /\ k.result = "ok" => /\ k.found \in [known : SUBSET Copies, todo : SUBSET Copies]
                          /\ \A c \in k.found.todo : c.place = k.place

ScanInv(loading, s, t) ==
    \/ /\ s = NoScan
       /\ Slot(loading, Of(t, {"save"}))
       /\ Of(t, {"index", "list", "read"}) = {}
    \/ /\ s.id # 0 /\ s.id = loading /\ s = NewScan(s.id)
       /\ Slot(loading, Of(t, {"index"}))
       /\ Of(t, {"list", "read", "save"}) = {}
    \/ /\ s.id # 0 /\ s.id = loading /\ s.indexed
       /\ Of(t, {"index", "save"}) = {}
       /\ \A k \in Of(t, {"list"}) : k.id = s.id /\ OfPlace(k)
       /\ \A k \in Of(t, {"read"}) : k.about \in Copies /\ k = Task("read", s.id, k.about)
       /\ \A p \in Places : PlaceInv(s, t, p)
       /\ \E p \in Places : ~s.done[p]

Flight(m, s, j, t) ==
    /\ WorkInv(m.busy, j, t)
    /\ PanelInv(m.busy, m.configuring, m.correcting, t)
    /\ ScanInv(m.loading, s, t)

IInv ==
    /\ TypeOK
    /\ Flight(ui, scanning, job, tasks)
    /\ QuitIsClean

(* What is asked for and has to wait, waits for something; e is whether    *)
(* crossload has quit.                                                     *)
Waits(m) == m.pendingRefresh => m.busy # 0 \/ m.loading # 0 \/ m.pendingQuit
WaitInv(m, e) ==
    /\ Waits(m)
    /\ m.pendingQuit => Working(m) \/ e

(* Only a list that was empty is replaced by a part of the next one. *)
KeptInv(m, s) ==
    /\ ~m.retaining => m.pendingCatalog = None
    /\ s.id # 0 /\ ~m.retaining => m.catalog.copies \subseteq s.found

(* A place may have changed since the list was made, and it will be made    *)
(* again, unless crossload quits before.                                   *)
Dirty(m, j, t) ==
    \/ m.pendingRefresh \/ m.pendingQuit
    \/ j.id # 0 /\ j.copied > 0
    \/ \E k \in Of(t, {"copy", "remove", "correct"}) : k.result = "ok"

At(S, p) == {c \in S : c.place = p}

(* What a list says of the places is so. *)
Accurate(list, d) ==
    \A p \in Places :
        LET listed == At(list.copies \union list.unreadable, p)
        IN  IF list.status[p] = "ready" THEN listed = At(d, p) ELSE listed \subseteq d

(* What a discovery has of a place, in whatever hands. *)
Seen(s, t, d, p) ==
    LET known == At(s.found \union s.unreadable, p) IN
    \/ s.status[p] = "unavailable" /\ known = {} /\ Lists(t, p) = {} /\ s.done[p]
    \/ /\ s.status[p] = "checking" /\ known = {}
       /\ \E k \in Lists(t, p) :
            k.result = "ok" => k.found.known \union k.found.todo = At(d, p)
    \/ /\ s.status[p] # "unavailable" /\ Lists(t, p) = {}
       /\ s.status[p] = "ready" <=> s.done[p]
       /\ known \union s.queue[p] \union {k.about : k \in Reads(t, p)} = At(d, p)

Shown(m) == IF m.pendingCatalog = None THEN m.catalog ELSE m.pendingCatalog

CurrentInv(m, s, j, t, d) ==
    Dirty(m, j, t)
    \/ /\ s.id # 0 /\ s.indexed => \A p \in Places : Seen(s, t, d, p)
       /\ s.id = 0 => Accurate(Shown(m), d)
       /\ m.loading = 0 => m.pendingCatalog = None

(* A deletion under way leaves a copy, if the place could be listed. *)
RemoveInv(m, t, d) ==
    \A k \in Of(t, {"remove"}) :
        /\ m.loading = 0
        /\ k.result = "running" /\ k.about \in d /\ m.catalog.status[k.about.place] = "ready"
           => \E c \in d : c # k.about /\ c.book = k.about.book

RestInv(m, s, j, t, d, e) ==
    /\ WaitInv(m, e) /\ KeptInv(m, s)
    /\ CurrentInv(m, s, j, t, d)
    /\ RemoveInv(m, t, d)

(* What a failed book left is a copy of a book that is kept elsewhere than  *)
(* on a reader, from where nothing is deleted.                             *)
LeftInv ==
    \A x \in left : \E y \in disk : y # x /\ y.book = x.book /\ y.place # "CrossPoint"

ListInv ==
    /\ IInv
    /\ RestInv(ui, scanning, job, tasks, Noted, ended)
    /\ LeftInv

-----------------------------------------------------------------------------
(* What the functions of the model return. *)

QuitEffect == [kind |-> "quit"]
LoadEffect == [kind |-> "load"]

(* What settling, refreshing or quitting makes of a model m: it rests, it   *)
(* quits because nothing works, or it starts a discovery because nothing   *)
(* else changes the places.                                                *)
Rests(m, n) ==
    /\ n.effect = NoEffect
    /\ n.loading = m.loading /\ n.retaining = m.retaining
    /\ n.pendingCatalog = m.pendingCatalog
    /\ m.pendingRefresh => n.pendingRefresh
    /\ n.pendingRefresh => m.pendingRefresh \/ n.busy # 0 \/ n.loading # 0
    /\ n.pendingQuit => Working(n)
Quits(m, n) ==
    /\ n.effect = QuitEffect /\ ~Working(n)
    /\ n.loading = m.loading /\ n.retaining = m.retaining
    /\ n.pendingCatalog = m.pendingCatalog
    /\ n.pendingRefresh = m.pendingRefresh
Loads(m, n) ==
    /\ n.effect = LoadEffect
    /\ m.loading = 0 /\ m.busy = 0 /\ n.loading # 0
    /\ ~n.pendingRefresh /\ ~n.pendingQuit
    /\ n.pendingCatalog = None /\ (n.retaining <=> m.catalog.copies \union m.catalog.unreadable # {})

Outcome(m, n) ==
    /\ n \in Models
    /\ n.busy = m.busy /\ n.configuring = m.configuring
    /\ n.correcting = m.correcting /\ n.catalog = m.catalog
    /\ m.pendingQuit => n.pendingQuit
    /\ Rests(m, n) \/ Quits(m, n) \/ Loads(m, n)

(* The effects without arguments are effects, and differ. *)
LEMMA PlainEffects ==
  /\ NoEffect \in Effects /\ QuitEffect \in Effects /\ LoadEffect \in Effects
  /\ NoEffect.kind = "none" /\ QuitEffect.kind = "quit" /\ LoadEffect.kind = "load"
BY DEF NoEffect, Effects, QuitEffect, LoadEffect

(* A quit now, or later. *)
LEMMA QuitOutcome ==
  ASSUME NEW m \in Models, m.effect = NoEffect
  PROVE  Outcome(m, Quit(m))
BY PlainEffects DEF Outcome, Rests, Quits, Quit, Models, Working, QuitEffect

(* A quit that had to wait. *)
LEMMA SettledOutcome ==
  ASSUME NEW m \in Models, m.effect = NoEffect
  PROVE  Outcome(m, Settled(m))
BY PlainEffects DEF Outcome, Rests, Quits, Settled, Quit, Models, Working, QuitEffect

(* A refresh now, or later, or never if crossload quits. *)
LEMMA RefreshOutcome ==
  ASSUME NEW m \in Models, m.effect = NoEffect
  PROVE  Outcome(m, Refresh(m))
<1>1. CASE m.pendingQuit
  BY <1>1, SettledOutcome DEF Refresh
<1>2. CASE ~m.pendingQuit /\ (m.loading # 0 \/ m.busy # 0)
  BY <1>2 DEF Outcome, Rests, Refresh, Models, Working
<1>3. CASE ~m.pendingQuit /\ ~(m.loading # 0 \/ m.busy # 0)
  <2> DEFINE shown == (m.catalog.copies \union m.catalog.unreadable # {})
             id == m.nextId + 1
             k == [m EXCEPT !.pendingRefresh = FALSE, !.action = {}, !.copies = {},
                            !.confirm = None]
             l == [k EXCEPT !.retaining = shown, !.pendingCatalog = None]
             h == [l EXCEPT !.nextId = id]
             o == [h EXCEPT !.loading = id]
             n == [o EXCEPT !.effect = LoadEffect]
  <2>1. Refresh(m) = n
    BY <1>3 DEF Refresh, LoadEffect
  <2>2. shown \in BOOLEAN /\ (shown <=> m.catalog.copies \union m.catalog.unreadable # {}) /\ id \in Nat \ {0}
    BY DEF Models
  <2> HIDE DEF shown, id
  <2>3. /\ k \in Models /\ ~k.pendingRefresh /\ ~k.pendingQuit
        /\ k.busy = m.busy /\ k.configuring = m.configuring
        /\ k.correcting = m.correcting /\ k.catalog = m.catalog
    BY <1>3 DEF Models
  <2> HIDE DEF k
  <2>4. /\ l \in Models /\ ~l.pendingRefresh /\ ~l.pendingQuit
        /\ l.busy = m.busy /\ l.configuring = m.configuring
        /\ l.correcting = m.correcting /\ l.catalog = m.catalog
        /\ l.retaining = shown /\ l.pendingCatalog = None
    BY <2>2, <2>3 DEF Models
  <2> HIDE DEF l
  <2>5. /\ h \in Models /\ ~h.pendingRefresh /\ ~h.pendingQuit
        /\ h.busy = m.busy /\ h.configuring = m.configuring
        /\ h.correcting = m.correcting /\ h.catalog = m.catalog
        /\ h.retaining = shown /\ h.pendingCatalog = None
    BY <2>2, <2>4 DEF Models
  <2> HIDE DEF h
  <2>6. /\ o \in Models /\ ~o.pendingRefresh /\ ~o.pendingQuit
        /\ o.busy = m.busy /\ o.configuring = m.configuring
        /\ o.correcting = m.correcting /\ o.catalog = m.catalog
        /\ o.retaining = shown /\ o.pendingCatalog = None
        /\ o.loading = id
    BY <2>2, <2>5 DEF Models
  <2> HIDE DEF o
  <2>7. /\ n \in Models /\ ~n.pendingRefresh /\ ~n.pendingQuit
        /\ n.busy = m.busy /\ n.configuring = m.configuring
        /\ n.correcting = m.correcting /\ n.catalog = m.catalog
        /\ n.retaining = shown /\ n.pendingCatalog = None
        /\ n.loading = id /\ n.effect = LoadEffect
    BY <2>6, PlainEffects DEF Models
  <2> HIDE DEF n
  <2>8. Outcome(m, n)
    BY <1>3, <2>2, <2>7 DEF Outcome, Loads
  <2> QED
    BY <2>1, <2>8
<1> QED
  BY <1>1, <1>2, <1>3

(* A refresh that had to wait. *)
LEMMA DeferredOutcome ==
  ASSUME NEW m \in Models, m.effect = NoEffect
  PROVE  Outcome(m, DeferredRefresh(m))
BY SettledOutcome, RefreshOutcome DEF DeferredRefresh

-----------------------------------------------------------------------------
(* Tasks that come and go. *)

LEMMA OfAdd ==
  ASSUME NEW t, NEW k, NEW kinds
  PROVE  /\ k.kind \in kinds => Of(t \union {k}, kinds) = Of(t, kinds) \union {k}
         /\ k.kind \notin kinds => Of(t \union {k}, kinds) = Of(t, kinds)
BY DEF Of

LEMMA OfDrop ==
  ASSUME NEW t, NEW k, NEW kinds
  PROVE  /\ Of(t \ {k}, kinds) = Of(t, kinds) \ {k}
         /\ k.kind \notin kinds => Of(t \ {k}, kinds) = Of(t, kinds)
BY DEF Of

LEMMA SlotDrop ==
  ASSUME NEW id, NEW S, NEW k \in S, Slot(id, S)
  PROVE  id # 0 /\ k.id = id /\ S = {k} /\ Slot(0, S \ {k})
BY DEF Slot

LEMMA SlotSwap ==
  ASSUME NEW id, NEW S, NEW k \in S, NEW l, Slot(id, S), l.id = k.id
  PROVE  Slot(id, (S \ {k}) \union {l})
BY DEF Slot

(* Each invariant is about tasks of its own kinds. *)
LEMMA WorkFrame ==
  ASSUME NEW busy, NEW j, NEW t, NEW u, Of(t, Works) = Of(u, Works), WorkInv(busy, j, t)
  PROVE  WorkInv(busy, j, u)
<1>1. Of(t, {"copy"}) = Of(u, {"copy"})
  <2>1. \A v : Of(v, {"copy"}) = {k \in Of(v, Works) : k.kind = "copy"}
    BY DEF Of, Works
  <2> QED
    BY <2>1
<1> QED
  BY <1>1 DEF WorkInv

LEMMA PanelFrame ==
  ASSUME NEW busy, NEW configuring, NEW correcting, NEW t, NEW u,
         Of(t, Panels) = Of(u, Panels), PanelInv(busy, configuring, correcting, t)
  PROVE  PanelInv(busy, configuring, correcting, u)
<1>1. Of(t, {"correct"}) = Of(u, {"correct"})
  <2>1. \A v : Of(v, {"correct"}) = {k \in Of(v, Panels) : k.kind = "correct"}
    BY DEF Of, Panels
  <2> QED
    BY <2>1
<1> QED
  BY <1>1 DEF PanelInv

LEMMA ScanFrame ==
  ASSUME NEW loading, NEW s, NEW t, NEW u,
         Of(t, ScanKinds) = Of(u, ScanKinds), ScanInv(loading, s, t)
  PROVE  ScanInv(loading, s, u)
<1>1. ASSUME NEW kinds \in SUBSET ScanKinds
      PROVE  Of(t, kinds) = Of(u, kinds)
  <2>1. \A v : Of(v, kinds) = {k \in Of(v, ScanKinds) : k.kind \in kinds}
    BY <1>1 DEF Of
  <2> QED
    BY <2>1
<1>2. /\ Of(t, {"save"}) = Of(u, {"save"}) /\ Of(t, {"index"}) = Of(u, {"index"})
      /\ Of(t, {"index", "list", "read"}) = Of(u, {"index", "list", "read"})
      /\ Of(t, {"list", "read", "save"}) = Of(u, {"list", "read", "save"})
      /\ Of(t, {"index", "save"}) = Of(u, {"index", "save"})
      /\ Of(t, {"list"}) = Of(u, {"list"}) /\ Of(t, {"read"}) = Of(u, {"read"})
  BY <1>1 DEF ScanKinds
<1>3. \A p : Lists(t, p) = Lists(u, p) /\ Reads(t, p) = Reads(u, p)
  <2>1. \A v, p : /\ Lists(v, p) = {k \in Of(v, {"list"}) : k.place = p}
                  /\ Reads(v, p) = {k \in Of(v, {"read"}) : k.about.place = p}
    BY DEF Of, Lists, Reads
  <2> QED
    BY <1>2, <2>1
<1>4. \A id, c : Task("read", id, c) \in t <=> Task("read", id, c) \in u
  <2>1. \A id, c : Task("read", id, c).kind = "read"
    BY DEF Task
  <2>2. \A v, id, c : Task("read", id, c) \in v <=> Task("read", id, c) \in Of(v, {"read"})
    BY <2>1 DEF Of
  <2> QED
    BY <1>2, <2>2
<1>5. \A p \in Places : PlaceInv(s, t, p) => PlaceInv(s, u, p)
  BY <1>3, <1>4 DEF PlaceInv
<1> QED
  BY <1>2, <1>5 DEF ScanInv

-----------------------------------------------------------------------------
(* The app, once the model has answered. *)

(* The types of what a message makes. *)
Typed(m, s, j, t) ==
    /\ m \in Models
    /\ s \in Scans /\ \A p \in Places : s.running[p] <= Readers[p]
    /\ j \in Jobs
    /\ t \subseteq Tasks

LEMMA TypeIs ==
  TypeOK <=> /\ Typed(ui, scanning, job, tasks) /\ ui.effect = NoEffect
             /\ disk \subseteq Copies /\ left \subseteq disk /\ ended \in BOOLEAN
BY DEF TypeOK, Typed

(* A model without its effect. *)
LEMMA WithoutEffect ==
  ASSUME NEW m \in Models
  PROVE  /\ [m EXCEPT !.effect = NoEffect] \in Models
         /\ [m EXCEPT !.effect = NoEffect].effect = NoEffect
         /\ \A f \in {"busy", "loading", "configuring", "correcting", "catalog",
                      "pendingCatalog", "pendingRefresh", "pendingQuit", "retaining"} :
              [m EXCEPT !.effect = NoEffect][f] = m[f]
BY PlainEffects DEF Models

LEMMA NewScanIs ==
  ASSUME NEW id \in Nat
  PROVE  /\ NewScan(id) \in Scans /\ NewScan(id).id = id /\ ~NewScan(id).indexed
         /\ NewScan(id).found = {} /\ NewScan(id).unreadable = {}
         /\ \A p \in Places : /\ NewScan(id).running[p] = 0 /\ NewScan(id).queue[p] = {}
                              /\ ~NewScan(id).done[p] /\ NewScan(id).status[p] = "checking"
                              /\ NewScan(id).running[p] <= Readers[p]
<1>1. /\ [p \in Places |-> {}] \in [Places -> SUBSET Copies]
      /\ [p \in Places |-> 0] \in [Places -> Nat]
      /\ [p \in Places |-> FALSE] \in [Places -> BOOLEAN]
      /\ [p \in Places |-> "checking"] \in [Places -> {"checking", "ready", "unavailable"}]
  OBVIOUS
<1>2. \A p \in Places : 0 <= Readers[p]
  BY ReadersAssumption
<1> QED
  BY <1>1, <1>2 DEF NewScan, Scans

LEMMA TaskIs ==
  ASSUME NEW kind \in {"index", "list", "read", "save", "copy", "remove", "correct",
                       "settings", "test"},
         NEW id \in Nat, NEW about \in Copies \union {None}
  PROVE  /\ Task(kind, id, about) \in Tasks
         /\ Task(kind, id, about).kind = kind /\ Task(kind, id, about).id = id
         /\ Task(kind, id, about).about = about
         /\ Task(kind, id, about).result = "running"
BY DEF Task, Tasks

LEMMA EveryKind ==
  ASSUME NEW t \in SUBSET Tasks, Of(t, Works) = {}, Of(t, Panels) = {}, Of(t, ScanKinds) = {}
  PROVE  t = {}
BY DEF Of, Works, Panels, ScanKinds, Tasks

(* No discovery is under way. *)
LEMMA NoScanTasks ==
  ASSUME NEW s \in Scans, NEW t, ScanInv(0, s, t)
  PROVE  s = NoScan /\ Of(t, ScanKinds) = {}
<1>1. s = NoScan /\ Of(t, {"save"}) = {} /\ Of(t, {"index", "list", "read"}) = {}
  BY DEF ScanInv, Slot
<1> QED
  BY <1>1 DEF Of, ScanKinds

(* The invariant goes with four fields of the model. *)
LEMMA FlightFrame ==
  ASSUME NEW m, NEW n, NEW s, NEW j, NEW t, Flight(m, s, j, t),
         n.busy = m.busy, n.configuring = m.configuring,
         n.correcting = m.correcting, n.loading = m.loading
  PROVE  Flight(n, s, j, t)
BY DEF Flight

(* Performing the effect of an outcome. *)
LEMMA PerformKeeps ==
  ASSUME NEW m, NEW n, NEW s, NEW j, NEW t,
         Typed(m, s, j, t), Flight(m, s, j, t), Outcome(m, n),
         ended = FALSE, Perform(n, s, j, t)
  PROVE  /\ Typed(ui', scanning', job', tasks') /\ ui'.effect = NoEffect
         /\ Flight(ui', scanning', job', tasks')
         /\ ended' \in BOOLEAN /\ (ended' => tasks' = {})
<1> DEFINE k == [n EXCEPT !.effect = NoEffect]
<1>1. ui' = k /\ n \in Models
  BY DEF Perform, Outcome
<1>2. /\ k \in Models /\ k.effect = NoEffect
      /\ k.busy = n.busy /\ k.loading = n.loading
      /\ k.configuring = n.configuring /\ k.correcting = n.correcting
  BY <1>1, WithoutEffect
<1> HIDE DEF k
<1>3. CASE Rests(m, n)
  <2>1. scanning' = s /\ job' = j /\ tasks' = t /\ ended' = ended
    BY <1>3, PlainEffects DEF Perform, Rests
  <2>2. Flight(k, s, j, t)
    BY <1>2, <1>3, FlightFrame DEF Rests, Outcome
  <2> QED
    BY <1>1, <1>2, <2>1, <2>2 DEF Typed
<1>4. CASE Quits(m, n)
  <2>1. scanning' = s /\ job' = j /\ tasks' = t /\ ended'
    BY <1>4, PlainEffects DEF Perform, Quits
  <2>2. Flight(k, s, j, t)
    BY <1>2, <1>4, FlightFrame DEF Quits, Outcome
  <2>3. k.busy = 0 /\ k.loading = 0 /\ k.configuring = 0
    BY <1>2, <1>4 DEF Quits, Working
  <2>4. t = {}
    <3>1. Of(t, Works) = {} /\ Of(t, Panels) = {}
      BY <2>2, <2>3 DEF Flight, WorkInv, PanelInv, Slot
    <3>2. Of(t, ScanKinds) = {}
      BY <2>2, <2>3, NoScanTasks DEF Flight, Typed
    <3> QED
      BY <3>1, <3>2, EveryKind DEF Typed
  <2> QED
    BY <1>1, <1>2, <2>1, <2>2, <2>4 DEF Typed, Perform
<1>5. CASE Loads(m, n)
  <2> DEFINE x == Task("index", n.loading, None)
             z == NewScan(n.loading)
  <2>1. scanning' = z /\ job' = j /\ tasks' = t \union {x} /\ ended' = ended
    BY <1>5, PlainEffects DEF Perform, Loads
  <2>2. n.loading \in Nat \ {0} /\ m.loading = 0
    BY <1>1, <1>5 DEF Loads, Models
  <2>3. x \in Tasks /\ x.kind = "index" /\ x.id = n.loading
    BY <2>2, TaskIs
  <2>4. z \in Scans /\ z.id = n.loading /\ \A p \in Places : z.running[p] <= Readers[p]
    BY <2>2, NewScanIs
  <2>5. z = NewScan(z.id)
    BY <2>4
  <2> HIDE DEF x, z
  <2>6. Of(t, ScanKinds) = {}
    BY <2>2, NoScanTasks DEF Flight, Typed
  <2>7. /\ Of(t \union {x}, {"index"}) = {x}
        /\ Of(t \union {x}, {"list", "read", "save"}) = {}
    BY <2>3, <2>6 DEF Of, ScanKinds
  <2>8. ScanInv(k.loading, z, t \union {x})
    BY <1>2, <2>2, <2>3, <2>4, <2>5, <2>7 DEF ScanInv, Slot
  <2>9. WorkInv(k.busy, j, t \union {x})
    <3>1. WorkInv(k.busy, j, t)
      BY <1>2 DEF Flight, Outcome
    <3>2. x.kind \notin Works
      BY <2>3 DEF Works
    <3>3. Of(t \union {x}, Works) = Of(t, Works)
      BY <3>2 DEF Of
    <3> QED
      BY <3>1, <3>3, WorkFrame
  <2>10. PanelInv(k.busy, k.configuring, k.correcting, t \union {x})
    <3>1. PanelInv(k.busy, k.configuring, k.correcting, t)
      BY <1>2 DEF Flight, Outcome
    <3>2. x.kind \notin Panels
      BY <2>3 DEF Panels
    <3>3. Of(t \union {x}, Panels) = Of(t, Panels)
      BY <3>2 DEF Of
    <3> QED
      BY <3>1, <3>3, PanelFrame
  <2> QED
    BY <1>1, <1>2, <2>1, <2>3, <2>4, <2>8, <2>9, <2>10 DEF Typed, Flight
<1> QED
  BY <1>3, <1>4, <1>5 DEF Outcome

-----------------------------------------------------------------------------
(* Books, and the copy of one that is read. *)

(* A library is finite. *)
LEMMA CopiesFinite == IsFiniteSet(Copies)
<1> DEFINE S == Books \X (Places \X Forms)
           f == [x \in S |-> [book |-> x[1], place |-> x[2][1], form |-> x[2][2]]]
<1>1. IsFiniteSet(Places) /\ IsFiniteSet(Forms)
  <2>1. IsFiniteSet({"Local", "Kobo", "CrossPoint"})
    <3>1. {"Local", "Kobo", "CrossPoint"} = (({} \union {"Local"}) \union {"Kobo"}) \union {"CrossPoint"}
      OBVIOUS
    <3>2. IsFiniteSet(({} \union {"Local"}) \union {"Kobo"})
      BY FS_EmptySet, FS_AddElement
    <3> QED
      BY <3>1, <3>2, FS_AddElement
  <2>2. Forms = ((({} \union {"epub"}) \union {"corrected"}) \union {"poor"}) \union {"device"}
    BY DEF Forms
  <2>3. IsFiniteSet(Forms)
    BY <2>2, FS_EmptySet, FS_AddElement
  <2> QED
    BY <2>1, <2>3, FS_Subset, PlacesAssumption
<1>2. IsFiniteSet(S)
  BY <1>1, FS_Product, BooksAssumption
<1>3. f \in Surjection(S, Copies)
  <2>1. f \in [S -> Copies]
    BY DEF Copies
  <2>2. ASSUME NEW c \in Copies
        PROVE  \E x \in S : f[x] = c
    <3>1. <<c.book, <<c.place, c.form>>>> \in S
      BY DEF Copies
    <3>2. f[<<c.book, <<c.place, c.form>>>>] = c
      BY <3>1 DEF Copies
    <3> QED
      BY <3>1, <3>2
  <2> QED
    BY <2>1, <2>2, Fun_IsSurj
<1> QED
  BY <1>2, <1>3, FS_Surjection

(* Some element of a set has the least of three values. *)
LEMMA Least ==
  ASSUME NEW S, S # {}, NEW f \in [S -> {0, 1, 2}]
  PROVE  \E c \in S : \A d \in S : f[c] <= f[d]
<1>1. CASE \E c \in S : f[c] = 0
  BY <1>1
<1>2. CASE (\A c \in S : f[c] # 0) /\ \E c \in S : f[c] = 1
  BY <1>2
<1>3. CASE \A c \in S : f[c] = 2
  BY <1>3
<1> QED
  BY <1>1, <1>2, <1>3

(* Copies can be ordered, so there is one to prefer. *)
LEMMA PreferredIs ==
  ASSUME NEW S \in SUBSET Copies, S # {}
  PROVE  Preferred(S) \in S
<1> DEFINE r(i) == [c \in S |-> Rank(c)[i]]
<1>1. \A c \in S : /\ Rank(c)[1] \in {0, 1, 2} /\ Rank(c)[2] \in {0, 1, 2}
                   /\ Rank(c)[3] \in {0, 1, 2}
  BY DEF Rank
<1>2. PICK a \in S : \A d \in S : Rank(a)[1] <= Rank(d)[1]
  <2>1. r(1) \in [S -> {0, 1, 2}]
    BY <1>1
  <2>2. \E a \in S : \A d \in S : r(1)[a] <= r(1)[d]
    BY <2>1, Least
  <2> QED
    BY <2>2
<1> DEFINE S2 == {c \in S : Rank(c)[1] = Rank(a)[1]}
<1>3. PICK b \in S2 : \A d \in S2 : Rank(b)[2] <= Rank(d)[2]
  <2> DEFINE g == [c \in S2 |-> Rank(c)[2]]
  <2>1. g \in [S2 -> {0, 1, 2}] /\ S2 # {}
    BY <1>1
  <2>2. \E x \in S2 : \A d \in S2 : g[x] <= g[d]
    <3> HIDE DEF g, S2
    <3> QED
      BY <2>1, Least
  <2> QED
    BY <2>2
<1> DEFINE S3 == {c \in S2 : Rank(c)[2] = Rank(b)[2]}
<1>4. PICK e \in S3 : \A d \in S3 : Rank(e)[3] <= Rank(d)[3]
  <2> DEFINE h == [c \in S3 |-> Rank(c)[3]]
  <2>1. h \in [S3 -> {0, 1, 2}] /\ S3 # {}
    BY <1>1
  <2>2. \E x \in S3 : \A d \in S3 : h[x] <= h[d]
    <3> HIDE DEF h, S3
    <3> QED
      BY <2>1, Least
  <2> QED
    BY <2>2
<1>5. e \in S /\ \A d \in S : Before(e, d)
  <2> SUFFICES ASSUME NEW d \in S
               PROVE  e \in S /\ Before(e, d)
    BY <1>4
  <2>1. e \in S /\ Rank(e)[1] = Rank(a)[1] /\ Rank(e)[2] = Rank(b)[2]
    BY <1>4
  <2>2. /\ Rank(a)[1] <= Rank(d)[1]
        /\ Rank(d)[1] = Rank(a)[1] => Rank(b)[2] <= Rank(d)[2]
        /\ Rank(d)[1] = Rank(a)[1] /\ Rank(d)[2] = Rank(b)[2] => Rank(e)[3] <= Rank(d)[3]
    BY <1>2, <1>3, <1>4
  <2> HIDE DEF S2, S3
  <2> QED
    BY <2>1, <2>2, <1>1 DEF Before
<1> QED
  BY <1>5 DEF Preferred

(* The list's version of a book is a book. *)
LEMMA ListedAre ==
  ASSUME NEW m \in Models
  PROVE  Listed(m) \subseteq (SUBSET m.catalog.copies) \ {{}} /\ m.catalog.copies \subseteq Copies
BY DEF Listed, Models, Snapshots

LEMMA CurrentIs ==
  ASSUME NEW m \in Models, NEW book \in SUBSET Copies, book # {}
  PROVE  Current(m, book) \in SUBSET Copies /\ Current(m, book) # {}
<1>1. CASE book \intersect m.catalog.copies # {}
  <2>1. PICK c \in book \intersect m.catalog.copies : TRUE
    BY <1>1
  <2>2. \E now \in Listed(m) : now \intersect book # {}
    <3>1. c \in {x \in m.catalog.copies : x.book = c.book}
      BY <2>1
    <3>2. {x \in m.catalog.copies : x.book = c.book} \in Listed(m)
      BY <2>1 DEF Listed
    <3> QED
      BY <2>1, <3>1, <3>2
  <2>3. Current(m, book) \in Listed(m)
    BY <1>1, <2>2 DEF Current
  <2> QED
    BY <2>3, ListedAre
<1>2. CASE book \intersect m.catalog.copies = {} /\ book \intersect m.catalog.unreadable # {}
  <2> DEFINE c == CHOOSE x \in book : x \in m.catalog.unreadable
  <2>1. c \in book
    BY <1>2
  <2>2. Current(m, book) = {c}
    BY <1>2 DEF Current
  <2> QED
    BY <2>1, <2>2
<1>3. CASE book \intersect m.catalog.copies = {} /\ book \intersect m.catalog.unreadable = {}
  BY <1>3 DEF Current
<1> QED
  BY <1>1, <1>2, <1>3

-----------------------------------------------------------------------------
(* Keys. *)

(* A key whose answer is an outcome: a quit or a refresh. *)
LEMMA KeyOutcome ==
  ASSUME IInv, ended = FALSE, NEW n, Outcome(ui, n), Key(n)
  PROVE  IInv'
<1>1. Typed(ui, scanning, job, tasks) /\ Flight(ui, scanning, job, tasks)
  BY TypeIs DEF IInv
<1>2. Perform(n, scanning, job, tasks) /\ disk' = disk /\ left' = left
  BY DEF Key
<1>3. /\ Typed(ui', scanning', job', tasks') /\ ui'.effect = NoEffect
      /\ Flight(ui', scanning', job', tasks')
      /\ ended' \in BOOLEAN /\ (ended' => tasks' = {})
  BY <1>1, <1>2, PerformKeeps
<1>4. TypeOK' <=> /\ Typed(ui', scanning', job', tasks') /\ ui'.effect = NoEffect
                  /\ disk' \subseteq Copies /\ left' \subseteq disk' /\ ended' \in BOOLEAN
  BY DEF TypeOK, Typed
<1> QED
  BY <1>2, <1>3, <1>4 DEF IInv, TypeOK, QuitIsClean

(* A key that only changes what is on screen. *)
LEMMA RestIs ==
  ASSUME NEW n \in Models, n.effect = NoEffect, Key(n)
  PROVE  ui' = n /\ UNCHANGED <<scanning, job, tasks, disk, left, ended>>
<1>1. [n EXCEPT !.effect = NoEffect] = n
  BY DEF Models
<1> QED
  BY <1>1, PlainEffects DEF Key, Perform

LEMMA KeyRests ==
  ASSUME IInv, NEW n \in Models, n.effect = NoEffect, Key(n),
         n.busy = ui.busy, n.loading = ui.loading, n.configuring = ui.configuring,
         PanelInv(n.busy, n.configuring, n.correcting, tasks)
  PROVE  IInv'
<1>1. ui' = n /\ UNCHANGED <<scanning, job, tasks, disk, left, ended>>
  BY RestIs
<1>2. Flight(n, scanning, job, tasks)
  BY DEF IInv, Flight
<1> QED
  BY <1>1, <1>2 DEF IInv, TypeOK, QuitIsClean

(* The model between keys. *)
LEMMA UiIs ==
  ASSUME IInv
  PROVE  /\ ui \in Models /\ ui.effect = NoEffect
         /\ PanelInv(ui.busy, ui.configuring, ui.correcting, tasks)
BY DEF IInv, TypeOK, Flight

(* A model with a dialog opened or closed. *)
LEMMA Dialogs ==
  ASSUME NEW m \in Models
  PROVE  /\ \A v \in SUBSET ((SUBSET Copies) \ {{}}) : [m EXCEPT !.action = v] \in Models
         /\ \A v \in SUBSET Copies : [m EXCEPT !.copies = v] \in Models
         /\ \A v \in Copies \union {None} : [m EXCEPT !.confirm = v] \in Models
         /\ \A v \in {"closed", "first", "open"} : [m EXCEPT !.settings = v] \in Models
         /\ \A v \in [target : Places, about : SUBSET Copies] \union {None} :
              [m EXCEPT !.ask = v] \in Models
         /\ \A v \in Books \union {None} : [m EXCEPT !.correcting = v] \in Models
BY DEF Models

LEMMA DialogKeeps ==
  ASSUME IInv, NEW v,
         NEW n \in {[ui EXCEPT !.action = v], [ui EXCEPT !.copies = v], [ui EXCEPT !.confirm = v],
                    [ui EXCEPT !.settings = v], [ui EXCEPT !.ask = v]},
         n \in Models, Key(n)
  PROVE  IInv'
<1>1. /\ n.busy = ui.busy /\ n.loading = ui.loading /\ n.configuring = ui.configuring
      /\ n.correcting = ui.correcting /\ n.effect = NoEffect
  <2>1. ui \in Models /\ ui.effect = NoEffect
    BY UiIs
  <2> QED
    BY <2>1 DEF Models
<1>2. PanelInv(n.busy, n.configuring, n.correcting, tasks)
  BY <1>1, UiIs
<1> QED
  BY <1>1, <1>2, KeyRests

(* Starting to copy: the first book's task and the account of all. *)
StartsCopying(n, target, chosen) ==
    /\ n \in Models
    /\ n.busy # 0 /\ n.loading = ui.loading /\ n.configuring = ui.configuring
    /\ n.correcting = ui.correcting /\ n.catalog = ui.catalog
    /\ n.pendingCatalog = ui.pendingCatalog /\ n.retaining = ui.retaining
    /\ n.pendingRefresh = ui.pendingRefresh /\ n.pendingQuit = ui.pendingQuit
    /\ n.effect = [kind |-> "work", target |-> target, copies |-> chosen]

LEMMA StartCopyingIs ==
  ASSUME IInv, NEW target \in Places, NEW n, n = StartCopying(ui, target)
  PROVE  \/ n = [ui EXCEPT !.ask = None]
         \/ ui.busy = 0 /\ \E chosen \in SUBSET Copies : StartsCopying(n, target, chosen)
<1> DEFINE chosen == {Preferred(Current(ui, book)) : book \in Copyable(ui, target)}
           effect == [kind |-> "work", target |-> target, copies |-> chosen]
           id == ui.nextId + 1
           k == [ui EXCEPT !.ask = None, !.action = {}]
           l == [k EXCEPT !.nextId = id, !.busy = id, !.effect = effect]
<1>1. CASE Copyable(ui, target) = {}
  BY <1>1 DEF StartCopying
<1>2. CASE Copyable(ui, target) # {}
  <2>1. n = l
    BY <1>2 DEF StartCopying
  <2>2. ui \in Models /\ ui.action \subseteq (SUBSET Copies) \ {{}}
    BY UiIs DEF Models
  <2>3. chosen \in SUBSET Copies
    <3> SUFFICES ASSUME NEW book \in Copyable(ui, target)
                 PROVE  Preferred(Current(ui, book)) \in Copies
      OBVIOUS
    <3>1. book \in SUBSET Copies /\ book # {}
      BY <2>2 DEF Copyable
    <3>2. Current(ui, book) \in SUBSET Copies /\ Current(ui, book) # {}
      BY <2>2, <3>1, CurrentIs
    <3> QED
      BY <3>2, PreferredIs
  <2>4. ui.busy = 0
    <3>1. PICK book \in ui.action : Destination(ui, book, target) # "blocked"
      BY <1>2 DEF Copyable
    <3> QED
      BY <3>1 DEF Destination
  <2> HIDE DEF chosen
  <2>5. effect \in Effects /\ effect.kind = "work"
    BY <2>3 DEF Effects
  <2>6. id \in Nat \ {0}
    BY <2>2 DEF Models
  <2>7. /\ k \in Models /\ k.loading = ui.loading /\ k.configuring = ui.configuring
        /\ k.correcting = ui.correcting /\ k.catalog = ui.catalog
        /\ k.pendingCatalog = ui.pendingCatalog /\ k.retaining = ui.retaining
        /\ k.pendingRefresh = ui.pendingRefresh /\ k.pendingQuit = ui.pendingQuit
    BY <2>2 DEF Models
  <2> HIDE DEF k, id, effect
  <2>8. /\ l \in Models /\ l.loading = ui.loading /\ l.configuring = ui.configuring
        /\ l.correcting = ui.correcting /\ l.catalog = ui.catalog
        /\ l.pendingCatalog = ui.pendingCatalog /\ l.retaining = ui.retaining
        /\ l.pendingRefresh = ui.pendingRefresh /\ l.pendingQuit = ui.pendingQuit
        /\ l.busy # 0 /\ l.effect = effect
    BY <2>5, <2>6, <2>7 DEF Models
  <2> QED
    BY <2>1, <2>3, <2>4, <2>8 DEF StartsCopying, effect
<1> QED
  BY <1>1, <1>2

LEMMA CopyingKeeps ==
  ASSUME IInv, NEW target \in Places, ui.correcting = None, ui.busy = 0, ended = FALSE,
         NEW chosen \in SUBSET Copies, NEW n, StartsCopying(n, target, chosen), Key(n)
  PROVE  IInv'
<1>1. PICK c \in chosen :
        /\ job' = Begun(NewJob(n.busy, target, chosen), c)
        /\ tasks' = tasks \union {Task("copy", n.busy, c)}
        /\ scanning' = scanning /\ ended' = ended /\ disk' = disk /\ left' = left
        /\ ui' = [n EXCEPT !.effect = NoEffect]
  BY DEF Key, Perform, StartsCopying
<1> DEFINE x == Task("copy", n.busy, c)
           k == [n EXCEPT !.effect = NoEffect]
<1>2. /\ k \in Models /\ k.effect = NoEffect
      /\ k.busy = n.busy /\ k.loading = ui.loading
      /\ k.configuring = ui.configuring /\ k.correcting = ui.correcting
  BY WithoutEffect DEF StartsCopying
<1>3. c \in Copies /\ n.busy \in Nat \ {0}
  BY DEF StartsCopying, Models
<1>4. x \in Tasks /\ x.kind = "copy" /\ x.id = n.busy /\ x.about = c
  BY <1>3, TaskIs
<1> HIDE DEF k, x
<1>5. /\ job' \in Jobs /\ job'.id = n.busy /\ job'.target = target
      /\ job'.copied + job'.failures + Cardinality(job'.pending) + 1 = job'.total
  <2>1. /\ IsFiniteSet(chosen) /\ Cardinality(chosen) \in Nat
        /\ Cardinality(chosen \ {c}) = Cardinality(chosen) - 1
        /\ Cardinality(chosen \ {c}) \in Nat
    BY CopiesFinite, FS_Subset, FS_RemoveElement, FS_CardinalityType
  <2>2. job' = [id |-> n.busy, target |-> target, pending |-> chosen \ {c}, cancel |-> FALSE,
                total |-> Cardinality(chosen), copied |-> 0, failures |-> 0]
    BY <1>1 DEF Begun, NewJob
  <2> QED
    BY <1>3, <2>1, <2>2 DEF Jobs
<1>6. Of(tasks, Works) = {}
  BY DEF IInv, Flight, WorkInv, Slot
<1>7. /\ Of(tasks \union {x}, Works) = {x}
      /\ Of(tasks \union {x}, {"copy"}) = {x}
  BY <1>4, <1>6 DEF Of, Works
<1>8. WorkInv(k.busy, job', tasks \union {x})
  BY <1>2, <1>3, <1>4, <1>5, <1>7 DEF WorkInv, Slot
<1>9. PanelInv(k.busy, k.configuring, k.correcting, tasks \union {x})
  <2>1. PanelInv(k.busy, k.configuring, k.correcting, tasks)
    <3>1. PanelInv(ui.busy, ui.configuring, ui.correcting, tasks)
      BY UiIs
    <3> QED
      BY <1>2, <3>1 DEF PanelInv
  <2>2. Of(tasks \union {x}, Panels) = Of(tasks, Panels)
    <3>1. x.kind \notin Panels
      BY <1>4 DEF Panels
    <3> QED
      BY <3>1 DEF Of
  <2> QED
    BY <2>1, <2>2, PanelFrame
<1>10. ScanInv(k.loading, scanning, tasks \union {x})
  <2>1. ScanInv(k.loading, scanning, tasks)
    BY <1>2 DEF IInv, Flight
  <2>2. Of(tasks \union {x}, ScanKinds) = Of(tasks, ScanKinds)
    <3>1. x.kind \notin ScanKinds
      BY <1>4 DEF ScanKinds
    <3> QED
      BY <3>1, OfAdd
  <2> QED
    BY <2>1, <2>2, ScanFrame
<1>11. ui' = k /\ tasks' = tasks \union {x}
  BY <1>1 DEF k, x
<1>12. Flight(ui', scanning', job', tasks')
  BY <1>1, <1>8, <1>9, <1>10, <1>11 DEF Flight
<1>13. TypeOK'
  BY <1>1, <1>2, <1>4, <1>5, <1>11 DEF IInv, TypeOK
<1>14. QuitIsClean'
  BY <1>1 DEF QuitIsClean
<1> QED
  BY <1>12, <1>13, <1>14 DEF IInv

(* Starting to delete: one task more. *)
StartsRemoval(n, c) ==
    /\ n \in Models
    /\ n.busy # 0 /\ n.loading = ui.loading /\ n.configuring = ui.configuring
    /\ n.correcting = ui.correcting /\ n.catalog = ui.catalog
    /\ n.pendingCatalog = ui.pendingCatalog /\ n.retaining = ui.retaining
    /\ n.pendingRefresh = ui.pendingRefresh /\ n.pendingQuit = ui.pendingQuit
    /\ n.effect = [kind |-> "remove", copy |-> c]

LEMMA ConfirmIs ==
  ASSUME IInv, ui.confirm # None, NEW n, n = ConfirmRemoval(ui)
  PROVE  \/ n = [ui EXCEPT !.confirm = None]
         \/ /\ ui.busy = 0 /\ ui.loading = 0 /\ ui.confirm \in Copies
            /\ ui.confirm \in Current(ui, ui.copies) /\ Current(ui, ui.copies) # {ui.confirm}
            /\ StartsRemoval(n, ui.confirm)
<1> DEFINE effect == [kind |-> "remove", copy |-> ui.confirm]
           id == ui.nextId + 1
           k == [ui EXCEPT !.confirm = None, !.copies = {}]
           l == [k EXCEPT !.nextId = id, !.busy = id, !.effect = effect]
           may == /\ ui.confirm \in Current(ui, ui.copies)
                  /\ Removable(ui, Current(ui, ui.copies), ui.confirm)
<1>1. CASE ~may
  BY <1>1 DEF ConfirmRemoval
<1>2. CASE may
  <2>1. n = l
    BY <1>2 DEF ConfirmRemoval
  <2>2. ui \in Models /\ ui.confirm \in Copies
    BY UiIs DEF Models
  <2>3. effect \in Effects /\ effect.kind = "remove"
    BY <2>2 DEF Effects
  <2>4. id \in Nat \ {0}
    BY <2>2 DEF Models
  <2>5. /\ k \in Models /\ k.loading = ui.loading /\ k.configuring = ui.configuring
        /\ k.correcting = ui.correcting /\ k.catalog = ui.catalog
        /\ k.pendingCatalog = ui.pendingCatalog /\ k.retaining = ui.retaining
        /\ k.pendingRefresh = ui.pendingRefresh /\ k.pendingQuit = ui.pendingQuit
    BY <2>2 DEF Models
  <2> HIDE DEF k, id, effect
  <2>6. /\ l \in Models /\ l.loading = ui.loading /\ l.configuring = ui.configuring
        /\ l.correcting = ui.correcting /\ l.catalog = ui.catalog
        /\ l.pendingCatalog = ui.pendingCatalog /\ l.retaining = ui.retaining
        /\ l.pendingRefresh = ui.pendingRefresh /\ l.pendingQuit = ui.pendingQuit
        /\ l.busy # 0 /\ l.effect = effect
    BY <2>3, <2>4, <2>5 DEF Models
  <2> QED
    BY <1>2, <2>1, <2>2, <2>6 DEF StartsRemoval, effect, Removable
<1> QED
  BY <1>1, <1>2

LEMMA RemovalKeeps ==
  ASSUME IInv, ui.correcting = None, ui.busy = 0, ended = FALSE,
         NEW c \in Copies, NEW n, StartsRemoval(n, c), Key(n)
  PROVE  IInv'
<1> DEFINE x == Task("remove", n.busy, c)
           k == [n EXCEPT !.effect = NoEffect]
<1>1. /\ job' = job /\ tasks' = tasks \union {x}
      /\ scanning' = scanning /\ ended' = ended /\ disk' = disk /\ left' = left /\ ui' = k
  BY DEF Key, Perform, StartsRemoval
<1>2. /\ k \in Models /\ k.effect = NoEffect
      /\ k.busy = n.busy /\ k.loading = ui.loading
      /\ k.configuring = ui.configuring /\ k.correcting = ui.correcting
  BY WithoutEffect DEF StartsRemoval
<1>3. n.busy \in Nat \ {0}
  BY DEF StartsRemoval, Models
<1>4. x \in Tasks /\ x.kind = "remove" /\ x.id = n.busy /\ x.about = c
  BY <1>3, TaskIs
<1> HIDE DEF k, x
<1>5. Of(tasks, Works) = {} /\ job.id = 0 /\ Of(tasks, {"copy"}) = {}
  BY DEF IInv, Flight, WorkInv, Slot
<1>6. /\ Of(tasks \union {x}, Works) = {x}
      /\ Of(tasks \union {x}, {"copy"}) = {}
  BY <1>4, <1>5 DEF Of, Works
<1>7. WorkInv(k.busy, job, tasks \union {x})
  BY <1>2, <1>3, <1>4, <1>5, <1>6 DEF WorkInv, Slot
<1>8. PanelInv(k.busy, k.configuring, k.correcting, tasks \union {x})
  <2>1. PanelInv(k.busy, k.configuring, k.correcting, tasks)
    <3>1. PanelInv(ui.busy, ui.configuring, ui.correcting, tasks)
      BY UiIs
    <3> QED
      BY <1>2, <3>1 DEF PanelInv
  <2>2. Of(tasks \union {x}, Panels) = Of(tasks, Panels)
    <3>1. x.kind \notin Panels
      BY <1>4 DEF Panels
    <3> QED
      BY <3>1 DEF Of
  <2> QED
    BY <2>1, <2>2, PanelFrame
<1>9. ScanInv(k.loading, scanning, tasks \union {x})
  <2>1. ScanInv(k.loading, scanning, tasks)
    BY <1>2 DEF IInv, Flight
  <2>2. Of(tasks \union {x}, ScanKinds) = Of(tasks, ScanKinds)
    <3>1. x.kind \notin ScanKinds
      BY <1>4 DEF ScanKinds
    <3> QED
      BY <3>1, OfAdd
  <2> QED
    BY <2>1, <2>2, ScanFrame
<1>10. Flight(ui', scanning', job', tasks')
  BY <1>1, <1>7, <1>8, <1>9 DEF Flight
<1>11. TypeOK'
  BY <1>1, <1>2, <1>4 DEF IInv, TypeOK
<1>12. QuitIsClean'
  BY <1>1 DEF QuitIsClean
<1> QED
  BY <1>10, <1>11, <1>12 DEF IInv

(* A panel's task. *)
LEMMA PanelKeeps ==
  ASSUME IInv, ended = FALSE, ui.configuring = 0,
         NEW kind \in Panels, NEW about \in Copies \union {None},
         kind = "correct" => ui.correcting # None /\ about \in Copies,
         ui' = [ui EXCEPT !.nextId = ui.nextId + 1, !.configuring = ui.nextId + 1],
         tasks' = tasks \union {Task(kind, ui.nextId + 1, about)},
         UNCHANGED <<scanning, job, disk, left, ended>>
  PROVE  IInv'
<1> DEFINE id == ui.nextId + 1
           x == Task(kind, id, about)
           k == [ui EXCEPT !.nextId = id, !.configuring = id]
<1>1. id \in Nat \ {0} /\ ui \in Models
  BY UiIs DEF Models
<1>2. ui' = k /\ tasks' = tasks \union {x}
  OBVIOUS
<1>3. x \in Tasks /\ x.kind = kind /\ x.id = id /\ x.about = about
  BY <1>1, TaskIs DEF Panels
<1> HIDE DEF id, x
<1>4. /\ k \in Models /\ k.effect = NoEffect
      /\ k.busy = ui.busy /\ k.loading = ui.loading
      /\ k.configuring = id /\ k.correcting = ui.correcting
  BY <1>1, UiIs DEF Models
<1> HIDE DEF k
<1>5. PanelInv(k.busy, k.configuring, k.correcting, tasks \union {x})
  <2>1. /\ Of(tasks, Panels) = {}
        /\ ui.correcting # None => ui.busy = 0
    <3>1. PanelInv(ui.busy, ui.configuring, ui.correcting, tasks)
      BY UiIs
    <3> QED
      BY <3>1 DEF PanelInv, Slot
  <2>2. Of(tasks \union {x}, Panels) = {x}
    BY <1>3, <2>1 DEF Of
  <2>3. \A l \in Of(tasks \union {x}, {"correct"}) : l = x
    BY <2>2 DEF Of, Panels
  <2>4. \A l \in Of(tasks \union {x}, {"correct"}) : l.kind = "correct"
    BY DEF Of
  <2> QED
    BY <1>1, <1>3, <1>4, <2>1, <2>2, <2>3, <2>4 DEF PanelInv, Slot
<1>6. WorkInv(k.busy, job, tasks \union {x})
  <2>1. WorkInv(k.busy, job, tasks)
    BY <1>4 DEF IInv, Flight
  <2>2. Of(tasks \union {x}, Works) = Of(tasks, Works)
    <3>1. x.kind \notin Works
      BY <1>3 DEF Panels, Works
    <3> QED
      BY <3>1, OfAdd
  <2> QED
    BY <2>1, <2>2, WorkFrame
<1>7. ScanInv(k.loading, scanning, tasks \union {x})
  <2>1. ScanInv(k.loading, scanning, tasks)
    BY <1>4 DEF IInv, Flight
  <2>2. Of(tasks \union {x}, ScanKinds) = Of(tasks, ScanKinds)
    <3>1. x.kind \notin ScanKinds
      BY <1>3 DEF Panels, ScanKinds
    <3> QED
      BY <3>1, OfAdd
  <2> QED
    BY <2>1, <2>2, ScanFrame
<1>8. Flight(ui', scanning', job', tasks')
  BY <1>2, <1>5, <1>6, <1>7 DEF Flight
<1>9. TypeOK'
  BY <1>2, <1>3, <1>4 DEF IInv, TypeOK
<1>10. QuitIsClean'
  BY DEF QuitIsClean
<1> QED
  BY <1>8, <1>9, <1>10 DEF IInv

LEMMA KeysKeep ==
  ASSUME IInv, Keys
  PROVE  IInv'
<1> USE DEF Listens
<1>0. /\ ui \in Models /\ ui.effect = NoEffect
      /\ PanelInv(ui.busy, ui.configuring, ui.correcting, tasks)
  BY UiIs
<1>1. CASE Interrupt \/ AskToQuit
  BY <1>0, <1>1, QuitOutcome, KeyOutcome DEF Interrupt, AskToQuit, IInv, TypeOK
<1>2. CASE StopCopying
  <2>1. /\ job' = [job EXCEPT !.cancel = TRUE] /\ job \in Jobs
        /\ UNCHANGED <<ui, scanning, tasks, disk, left, ended>>
    BY <1>2 DEF StopCopying, IInv, TypeOK
  <2>2. /\ job' \in Jobs /\ job'.id = job.id /\ job'.target = job.target
        /\ job'.copied = job.copied /\ job'.failures = job.failures
        /\ job'.pending = job.pending /\ job'.total = job.total
    BY <2>1 DEF Jobs
  <2>3. WorkInv(ui.busy, job', tasks)
    BY <2>2 DEF IInv, Flight, WorkInv
  <2> QED
    BY <2>1, <2>2, <2>3 DEF IInv, Flight, TypeOK, QuitIsClean
<1>3. CASE AskRefresh
  BY <1>0, <1>3, RefreshOutcome, KeyOutcome DEF AskRefresh, IInv, TypeOK
<1>4. CASE OpenCopyDialog
  <2>1. PICK books \in (SUBSET Listed(ui)) \ {{}} : Key([ui EXCEPT !.action = books])
    BY <1>4 DEF OpenCopyDialog
  <2>2. books \in SUBSET ((SUBSET Copies) \ {{}})
    BY <1>0, <2>1, ListedAre
  <2>3. [ui EXCEPT !.action = books] \in Models
    BY <1>0, <2>2, Dialogs
  <2> QED
    BY <2>1, <2>3, DialogKeeps
<1>5. CASE OpenCopies
  <2>1. PICK book \in Listed(ui) : Key([ui EXCEPT !.copies = book])
    BY <1>5 DEF OpenCopies
  <2>2. book \in SUBSET Copies
    BY <1>0, <2>1, ListedAre
  <2>3. [ui EXCEPT !.copies = book] \in Models
    BY <1>0, <2>2, Dialogs
  <2> QED
    BY <2>1, <2>3, DialogKeeps
<1>6. CASE OpenCorrection
  <2>1. PICK c \in ui.catalog.copies : Key([ui EXCEPT !.correcting = c.book])
    BY <1>6 DEF OpenCorrection
  <2>2. ui.busy = 0 /\ ui.correcting = None
    BY <1>6 DEF OpenCorrection, Focus
  <2>3. c.book \in Books
    BY <1>0, <2>1, ListedAre DEF Copies
  <2> DEFINE n == [ui EXCEPT !.correcting = c.book]
  <2>4. n \in Models
    BY <1>0, <2>3, Dialogs
  <2>5. /\ n.busy = ui.busy /\ n.loading = ui.loading /\ n.configuring = ui.configuring
        /\ n.effect = NoEffect
    BY <1>0 DEF Models
  <2> HIDE DEF n
  <2>6. PanelInv(n.busy, n.configuring, n.correcting, tasks)
    BY <1>0, <2>2, <2>5 DEF PanelInv
  <2>7. Key(n)
    BY <2>1 DEF n
  <2> QED
    BY <2>4, <2>5, <2>6, <2>7, KeyRests
<1>7. CASE OpenSettings
  <2>1. [ui EXCEPT !.settings = "open"] \in Models
    BY <1>0, Dialogs
  <2> QED
    BY <1>7, <2>1, DialogKeeps DEF OpenSettings
<1>8. CASE PressTarget
  <2>1. PICK target \in Places : \E m \in ChooseTarget(ui, target) : Key(m)
    BY <1>8 DEF PressTarget
  <2>2. PICK m \in ChooseTarget(ui, target) : Key(m)
    BY <2>1
  <2>3. ended = FALSE /\ ui.correcting = None
    BY <1>8 DEF PressTarget, Focus, IInv, TypeOK
  <2>4. CASE m = StartCopying(ui, target)
    <3>1. CASE m = [ui EXCEPT !.ask = None]
      <4>1. m \in Models
        BY <1>0, <3>1, Dialogs
      <4> QED
        BY <2>2, <3>1, <4>1, DialogKeeps
    <3>2. CASE ui.busy = 0 /\ \E chosen \in SUBSET Copies : StartsCopying(m, target, chosen)
      BY <2>2, <2>3, <3>2, CopyingKeeps
    <3> QED
      BY <2>4, <3>1, <3>2, StartCopyingIs
  <2>5. CASE \E book \in Questions(ui, target) :
               m = [ui EXCEPT !.ask = [target |-> target, about |-> book]]
    <3>1. PICK book \in Questions(ui, target) :
            m = [ui EXCEPT !.ask = [target |-> target, about |-> book]]
      BY <2>5
    <3>2. [target |-> target, about |-> book] \in [target : Places, about : SUBSET Copies]
      BY <1>0 DEF Questions, Models
    <3>3. m \in Models
      BY <1>0, <3>1, <3>2, Dialogs
    <3> QED
      BY <2>2, <3>1, <3>3, DialogKeeps
  <2> QED
    BY <2>2, <2>4, <2>5 DEF ChooseTarget
<1>9. CASE PressYes
  <2> DEFINE n == StartCopying(ui, ui.ask.target)
  <2>1. Key(n) /\ ended = FALSE /\ ui.correcting = None /\ ui.ask # None
    BY <1>9 DEF PressYes, Focus, IInv, TypeOK
  <2>2. ui.ask.target \in Places
    BY <1>0, <2>1 DEF Models
  <2>3. CASE n = [ui EXCEPT !.ask = None]
    <3>1. [ui EXCEPT !.ask = None] \in Models
      BY <1>0, Dialogs
    <3> QED
      BY <2>1, <2>3, <3>1, DialogKeeps
  <2>4. CASE ui.busy = 0 /\ \E chosen \in SUBSET Copies : StartsCopying(n, ui.ask.target, chosen)
    <3> HIDE DEF n
    <3> QED
      BY <2>1, <2>2, <2>4, CopyingKeeps
  <2> QED
    BY <2>2, <2>3, <2>4, StartCopyingIs
<1>10. CASE CloseAsk
  <2>1. [ui EXCEPT !.ask = None] \in Models
    BY <1>0, Dialogs
  <2> QED
    BY <1>10, <2>1, DialogKeeps DEF CloseAsk
<1>11. CASE CloseAction
  <2>1. [ui EXCEPT !.action = {}] \in Models
    BY <1>0, Dialogs
  <2> QED
    BY <1>11, <2>1, DialogKeeps DEF CloseAction
<1>12. CASE CloseCopies
  <2>1. [ui EXCEPT !.copies = {}] \in Models
    BY <1>0, Dialogs
  <2> QED
    BY <1>12, <2>1, DialogKeeps DEF CloseCopies
<1>13. CASE CloseCorrection
  <2> DEFINE n == [ui EXCEPT !.correcting = None]
  <2>1. Key(n) /\ ui.configuring = 0
    BY <1>13 DEF CloseCorrection
  <2>2. n \in Models
    BY <1>0, Dialogs
  <2>3. /\ n.busy = ui.busy /\ n.loading = ui.loading /\ n.configuring = ui.configuring
        /\ n.effect = NoEffect /\ n.correcting = None
    BY <1>0 DEF Models
  <2> HIDE DEF n
  <2>4. Of(tasks, Panels) = {}
    BY <1>0, <2>1 DEF PanelInv, Slot
  <2>5. Of(tasks, {"correct"}) = {}
    BY <2>4 DEF Of, Panels
  <2>6. PanelInv(n.busy, n.configuring, n.correcting, tasks)
    BY <1>0, <2>3, <2>5 DEF PanelInv
  <2> QED
    BY <2>1, <2>2, <2>3, <2>6, KeyRests
<1>14. CASE CloseSettings
  <2> DEFINE n == [ui EXCEPT !.settings = "closed"]
  <2>1. ended = FALSE /\ (Key(Refresh(n)) \/ Key(n))
    BY <1>14 DEF CloseSettings, IInv, TypeOK
  <2>2. n \in Models
    BY <1>0, Dialogs
  <2>3. CASE Key(n)
    BY <2>2, <2>3, DialogKeeps
  <2>4. CASE Key(Refresh(n))
    <3>1. /\ n.effect = NoEffect /\ n.busy = ui.busy /\ n.loading = ui.loading
          /\ n.configuring = ui.configuring /\ n.correcting = ui.correcting
          /\ n.catalog = ui.catalog /\ n.retaining = ui.retaining
          /\ n.pendingCatalog = ui.pendingCatalog /\ n.pendingQuit = ui.pendingQuit
          /\ n.pendingRefresh = ui.pendingRefresh
      BY <1>0 DEF Models
    <3> HIDE DEF n
    <3>2. Outcome(n, Refresh(n))
      BY <2>2, <3>1, RefreshOutcome
    <3>3. Outcome(ui, Refresh(n))
      BY <3>1, <3>2 DEF Outcome, Rests, Quits, Loads
    <3> QED
      BY <2>1, <2>4, <3>3, KeyOutcome
  <2> QED
    BY <2>1, <2>3, <2>4
<1>15. CASE AskRemoval
  <2>1. PICK c \in Current(ui, ui.copies) : Key([ui EXCEPT !.confirm = c])
    BY <1>15 DEF AskRemoval
  <2>2. ui.copies \in SUBSET Copies /\ ui.copies # {}
    BY <1>0, <1>15 DEF AskRemoval, Focus, Models
  <2>3. c \in Copies
    BY <1>0, <2>1, <2>2, CurrentIs
  <2>4. [ui EXCEPT !.confirm = c] \in Models
    BY <1>0, <2>3, Dialogs
  <2> QED
    BY <2>1, <2>4, DialogKeeps
<1>16. CASE PressConfirm
  <2> DEFINE n == ConfirmRemoval(ui)
  <2>1. Key(n) /\ ended = FALSE /\ ui.correcting = None /\ ui.confirm # None
    BY <1>16 DEF PressConfirm, Focus, IInv, TypeOK
  <2>2. CASE n = [ui EXCEPT !.confirm = None]
    <3>1. [ui EXCEPT !.confirm = None] \in Models
      BY <1>0, Dialogs
    <3> QED
      BY <2>1, <2>2, <3>1, DialogKeeps
  <2>3. CASE ui.busy = 0 /\ ui.confirm \in Copies /\ StartsRemoval(n, ui.confirm)
    <3> HIDE DEF n
    <3> QED
      BY <2>1, <2>3, RemovalKeeps
  <2> QED
    BY <2>1, <2>2, <2>3, ConfirmIs
<1>17. CASE RefuseRemoval
  <2>1. [ui EXCEPT !.confirm = None] \in Models
    BY <1>0, Dialogs
  <2> QED
    BY <1>17, <2>1, DialogKeeps DEF RefuseRemoval
<1>18. CASE RunCorrection
  <2>1. /\ ended = FALSE /\ ui.configuring = 0 /\ ui.correcting # None
        /\ ui' = [ui EXCEPT !.nextId = ui.nextId + 1, !.configuring = ui.nextId + 1]
        /\ tasks' = tasks \union {Task("correct", ui.nextId + 1, CorrectedCopy(ui.correcting))}
        /\ UNCHANGED <<scanning, job, disk, left, ended>>
    BY <1>18 DEF RunCorrection, Focus, IInv, TypeOK
  <2>2. CorrectedCopy(ui.correcting) \in Copies
    BY <1>0, <2>1, PlacesAssumption DEF CorrectedCopy, Copies, Forms, Models
  <2> QED
    BY <2>1, <2>2, PanelKeeps DEF Panels
<1>19. CASE RunSettings
  <2>1. /\ ended = FALSE /\ ui.configuring = 0
        /\ ui' = [ui EXCEPT !.nextId = ui.nextId + 1, !.configuring = ui.nextId + 1]
        /\ UNCHANGED <<scanning, job, disk, left, ended>>
    BY <1>19 DEF RunSettings, IInv, TypeOK
  <2>2. PICK kind \in {"settings", "test"} :
          tasks' = tasks \union {Task(kind, ui.nextId + 1, None)}
    BY <1>19 DEF RunSettings
  <2> QED
    BY <2>1, <2>2, PanelKeeps DEF Panels
<1> QED
  BY <1>1, <1>2, <1>3, <1>4, <1>5, <1>6, <1>7, <1>8, <1>9, <1>10, <1>11, <1>12, <1>13, <1>14,
     <1>15, <1>16, <1>17, <1>18, <1>19 DEF Keys

-----------------------------------------------------------------------------
(* Threads. *)

(* What a thread finds or does ends its task, which stays in flight. *)
LEMMA SwapKeeps ==
  ASSUME NEW m, NEW s, NEW j, NEW t, Flight(m, s, j, t),
         NEW k \in t, NEW l, k.kind \in {"list", "copy", "remove", "correct"},
         l.kind = k.kind, l.id = k.id, l.about = k.about, l.place = k.place,
         k.kind = "list" => OfPlace(l)
  PROVE  Flight(m, s, j, (t \ {k}) \union {l})
<1> DEFINE u == (t \ {k}) \union {l}
<1>1. ASSUME NEW kinds
      PROVE  /\ k.kind \in kinds => Of(u, kinds) = (Of(t, kinds) \ {k}) \union {l}
             /\ k.kind \notin kinds => Of(u, kinds) = Of(t, kinds)
  BY DEF Of
<1>2. \A p : /\ Reads(u, p) = Reads(t, p)
             /\ p # k.place \/ k.kind # "list" => Lists(u, p) = Lists(t, p)
             /\ p = k.place /\ k.kind = "list" => Lists(u, p) = (Lists(t, p) \ {k}) \union {l}
  BY DEF Reads, Lists
<1>3. \A id, c : Task("read", id, c) \in u <=> Task("read", id, c) \in t
  <2>1. \A id, c : Task("read", id, c).kind = "read"
    BY DEF Task
  <2>2. \A id, c : Task("read", id, c) # k /\ Task("read", id, c) # l
    BY <2>1
  <2> QED
    BY <2>2
<1> HIDE DEF u
<1>4. WorkInv(m.busy, j, u)
  <2>1. CASE k.kind \notin Works
    BY <1>1, <2>1, WorkFrame DEF Flight
  <2>2. CASE k.kind \in Works
    <3>1. k \in Of(t, Works) /\ Of(u, Works) = (Of(t, Works) \ {k}) \union {l}
      BY <1>1, <2>2 DEF Of
    <3>2. Slot(m.busy, Of(u, Works))
      BY <3>1, SlotSwap DEF Flight, WorkInv
    <3>3. \A x \in Of(u, Works) : x.about \in Copies
      BY <3>1 DEF Flight, WorkInv
    <3>4. Of(u, {"copy"}) = {} <=> Of(t, {"copy"}) = {}
      BY <1>1 DEF Of
    <3> QED
      BY <3>2, <3>3, <3>4 DEF Flight, WorkInv
  <2> QED
    BY <2>1, <2>2
<1>5. PanelInv(m.busy, m.configuring, m.correcting, u)
  <2>1. CASE k.kind \notin Panels
    BY <1>1, <2>1, PanelFrame DEF Flight
  <2>2. CASE k.kind \in Panels
    <3>1. /\ k \in Of(t, Panels) /\ Of(u, Panels) = (Of(t, Panels) \ {k}) \union {l}
          /\ k \in Of(t, {"correct"})
      BY <1>1, <2>2 DEF Of, Panels
    <3>2. Of(u, {"correct"}) = (Of(t, {"correct"}) \ {k}) \union {l}
      BY <1>1, <3>1 DEF Of
    <3>3. Slot(m.configuring, Of(u, Panels))
      BY <3>1, SlotSwap DEF Flight, PanelInv
    <3> QED
      BY <3>1, <3>2, <3>3 DEF Flight, PanelInv
  <2> QED
    BY <2>1, <2>2
<1>6. ScanInv(m.loading, s, u)
  <2>1. CASE k.kind \notin ScanKinds
    BY <1>1, <2>1, ScanFrame DEF Flight
  <2>2. CASE k.kind \in ScanKinds
    <3>1. k.kind = "list" /\ k \in Of(t, {"list"})
      BY <2>2 DEF ScanKinds, Of
    <3>2. /\ s.id # 0 /\ s.id = m.loading /\ s.indexed
          /\ Of(t, {"index", "save"}) = {}
          /\ \A x \in Of(t, {"list"}) : x.id = s.id /\ OfPlace(x)
          /\ \A x \in Of(t, {"read"}) : x.about \in Copies /\ x = Task("read", s.id, x.about)
          /\ \A p \in Places : PlaceInv(s, t, p)
          /\ \E p \in Places : ~s.done[p]
      <4>1. Of(t, {"index", "list", "read"}) # {} /\ Of(t, {"list", "read", "save"}) # {}
        BY <3>1 DEF Of
      <4> QED
        BY <4>1 DEF Flight, ScanInv
    <3>3. /\ Of(u, {"index", "save"}) = {} /\ Of(u, {"read"}) = Of(t, {"read"})
          /\ Of(u, {"list"}) = (Of(t, {"list"}) \ {k}) \union {l}
      BY <1>1, <3>1, <3>2
    <3>4. ASSUME NEW p \in Places
          PROVE  PlaceInv(s, u, p)
      <4>1. PlaceInv(s, t, p)
        BY <3>2
      <4>2. CASE p # k.place
        BY <1>2, <1>3, <4>1, <4>2 DEF PlaceInv
      <4>3. CASE p = k.place
        <5>1. k \in Lists(t, p)
          BY <3>1, <4>3 DEF Lists
        <5>2. Lists(u, p) = (Lists(t, p) \ {k}) \union {l}
          BY <1>2, <3>1, <4>3
        <5>3. /\ ~s.done[p] /\ s.running[p] = 0 /\ s.queue[p] = {}
              /\ \E x \in Lists(t, p) : Lists(t, p) = {x}
          BY <4>1, <5>1 DEF PlaceInv
        <5>4. l \in Lists(u, p) /\ Lists(u, p) = {l}
          BY <5>1, <5>2, <5>3
        <5> QED
          BY <1>2, <4>1, <5>3, <5>4 DEF PlaceInv
      <4> QED
        BY <4>2, <4>3
    <3> QED
      BY <3>1, <3>2, <3>3, <3>4 DEF ScanInv
  <2> QED
    BY <2>1, <2>2
<1> QED
  BY <1>4, <1>5, <1>6 DEF Flight, u

LEMMA ThreadsKeep ==
  ASSUME IInv, Threads
  PROVE  IInv'
<1>1. PICK k \in tasks :
        /\ k.result = "running"
        /\ ListPlace(k) \/ CopyBook(k) \/ RemoveCopy(k) \/ CorrectBook(k)
        /\ UNCHANGED <<ui, scanning, job, ended>> /\ ~ended
  BY DEF Threads
<1>2. /\ k \in Tasks /\ disk \subseteq Copies /\ left \subseteq disk
      /\ Flight(ui, scanning, job, tasks)
  BY DEF IInv, TypeOK
<1>3. ASSUME NEW l \in Tasks, l.kind = k.kind, l.id = k.id, l.about = k.about, l.place = k.place,
             k.kind \in {"list", "copy", "remove", "correct"},
             k.kind = "list" => OfPlace(l),
             tasks' = (tasks \ {k}) \union {l}, disk' \subseteq Copies, left' \subseteq disk'
      PROVE  IInv'
  <2>1. Flight(ui, scanning, job, tasks')
    BY <1>2, <1>3, SwapKeeps
  <2>2. Flight(ui', scanning', job', tasks')
    BY <1>1, <2>1
  <2>3. TypeOK'
    BY <1>1, <1>3 DEF IInv, TypeOK
  <2> QED
    BY <1>1, <2>2, <2>3 DEF IInv, QuitIsClean
<1>4. CASE ListPlace(k)
  <2> DEFINE here == {c \in disk : c.place = k.place}
  <2>1. k.kind = "list" /\ disk' \subseteq Copies /\ left' \subseteq disk'
    BY <1>2, <1>4 DEF ListPlace
  <2>2. k.place \in Places
    <3>1. k \in Of(tasks, {"list"})
      BY <2>1 DEF Of
    <3>2. Of(tasks, {"index", "list", "read"}) # {} /\ Of(tasks, {"list", "read", "save"}) # {}
      BY <2>1 DEF Of
    <3> QED
      BY <1>2, <3>1, <3>2 DEF Flight, ScanInv, OfPlace
  <2>3. CASE tasks' = (tasks \ {k}) \union {Ended(k, "failed")}
    <3>1. /\ Ended(k, "failed") \in Tasks /\ Ended(k, "failed").kind = k.kind
          /\ Ended(k, "failed").id = k.id /\ Ended(k, "failed").about = k.about
          /\ Ended(k, "failed").place = k.place /\ Ended(k, "failed").result = "failed"
      BY <1>2 DEF Ended, Tasks
    <3>2. OfPlace(Ended(k, "failed"))
      BY <2>2, <3>1 DEF OfPlace
    <3> QED
      BY <1>2, <1>3, <2>1, <2>3, <3>1, <3>2
  <2>4. ASSUME NEW known \in SUBSET here,
               tasks' = (tasks \ {k}) \union
                        {[Ended(k, "ok") EXCEPT !.found = [known |-> known, todo |-> here \ known]]}
        PROVE  IInv'
    <3> DEFINE found == [known |-> known, todo |-> here \ known]
               l == [Ended(k, "ok") EXCEPT !.found = found]
    <3>1. found \in [known : SUBSET Copies, todo : SUBSET Copies]
      BY <1>2
    <3>3. \A c \in found.todo : c.place = k.place
      OBVIOUS
    <3>4. tasks' = (tasks \ {k}) \union {l}
      BY <2>4
    <3> HIDE DEF found
    <3>2. /\ l \in Tasks /\ l.kind = k.kind /\ l.id = k.id /\ l.about = k.about
          /\ l.place = k.place /\ l.result = "ok" /\ l.found = found
      BY <1>2, <3>1 DEF Ended, Tasks
    <3> HIDE DEF l
    <3>5. OfPlace(l)
      BY <2>2, <3>1, <3>2, <3>3 DEF OfPlace
    <3> QED
      BY <1>2, <1>3, <2>1, <3>2, <3>4, <3>5
  <2> QED
    BY <1>4, <2>3, <2>4 DEF ListPlace
<1>5. /\ Ended(k, "ok") \in Tasks /\ Ended(k, "ok").kind = k.kind /\ Ended(k, "ok").id = k.id
      /\ Ended(k, "ok").about = k.about /\ Ended(k, "ok").place = k.place
      /\ Ended(k, "failed") \in Tasks /\ Ended(k, "failed").kind = k.kind
      /\ Ended(k, "failed").id = k.id
      /\ Ended(k, "failed").about = k.about /\ Ended(k, "failed").place = k.place
  BY <1>2 DEF Ended, Tasks
<1>6. CASE CopyBook(k)
  <2>1. k.kind = "copy"
    BY <1>6 DEF CopyBook
  <2>2. job.target \in Places
    <3>1. Of(tasks, {"copy"}) # {}
      BY <2>1 DEF Of
    <3> QED
      BY <1>2, <3>1 DEF Flight, WorkInv
  <2>3. \A c \in Copies :
           /\ Added(c, job.target) \subseteq Copies
           /\ \A some \in LeftBehind(c, job.target) : some \subseteq Copies
    <3>1. ASSUME NEW c \in Copies
          PROVE  /\ Made(c) \subseteq Copies
                 /\ [c EXCEPT !.place = job.target] \in Copies
                 /\ [c EXCEPT !.place = job.target, !.form = "device"] \in Copies
      BY <2>2, PlacesAssumption DEF Made, Copies, Forms
    <3>2. \A c \in Copies : Added(c, job.target) \subseteq Copies
      BY <3>1 DEF Added
    <3>3. ASSUME NEW c \in Copies, NEW some \in LeftBehind(c, job.target)
          PROVE  some \subseteq Copies
      <4>1. some \in {{}, Made(c), Added(c, job.target)}
        BY <3>3 DEF LeftBehind
      <4> QED
        BY <3>1, <3>2, <4>1
    <3> QED
      BY <3>2, <3>3
  <2>4. disk' \subseteq Copies /\ left' \subseteq disk'
    <3>1. ASSUME NEW some \in SUBSET Copies, disk' = disk \union some,
                 left' \subseteq left \union (some \ disk)
          PROVE  disk' \subseteq Copies /\ left' \subseteq disk'
      BY <1>2, <3>1
    <3>2. CASE /\ k.about \in disk /\ disk' = disk \union Added(k.about, job.target)
               /\ left' = left
      BY <1>2, <2>3, <3>1, <3>2
    <3>3. CASE disk' = disk \union {} /\ left' = left \union ({} \ disk)
      BY <1>2, <3>3
    <3>4. ASSUME k.about \in disk, NEW some \in LeftBehind(k.about, job.target),
                 disk' = disk \union some, left' = left \union (some \ disk)
          PROVE  disk' \subseteq Copies /\ left' \subseteq disk'
      BY <1>2, <2>3, <3>1, <3>4
    <3> QED
      BY <1>6, <3>2, <3>3, <3>4 DEF CopyBook
  <2> QED
    BY <1>3, <1>5, <1>6, <2>1, <2>4 DEF CopyBook
<1>7. CASE RemoveCopy(k)
  <2>1. k.kind = "remove" /\ disk' \subseteq Copies /\ left' \subseteq disk'
    BY <1>2, <1>7 DEF RemoveCopy
  <2> QED
    BY <1>3, <1>5, <1>7, <2>1 DEF RemoveCopy
<1>8. CASE CorrectBook(k)
  <2>1. k \in Of(tasks, {"correct"}) /\ k.kind = "correct"
    BY <1>8 DEF CorrectBook, Of
  <2>2. k.about \in Copies
    BY <1>2, <2>1 DEF Flight, PanelInv
  <2>3. disk' \subseteq Copies /\ left' \subseteq disk'
    BY <1>2, <1>8, <2>2 DEF CorrectBook
  <2> QED
    BY <1>3, <1>5, <1>8, <2>1, <2>3 DEF CorrectBook
<1> QED
  BY <1>1, <1>4, <1>6, <1>7, <1>8

-----------------------------------------------------------------------------
(* Messages of a discovery. *)

(* A discovery at work, whether a location is left or not. *)
ScanWorks(s, t) ==
    /\ s.id # 0 /\ s.indexed
    /\ Of(t, {"index", "save"}) = {}
    /\ \A k \in Of(t, {"list"}) : k.id = s.id /\ OfPlace(k)
    /\ \A k \in Of(t, {"read"}) : k.about \in Copies /\ k = Task("read", s.id, k.about)

LEMMA ScanIs ==
  ASSUME NEW loading, NEW s, NEW t, ScanInv(loading, s, t),
         Of(t, {"list", "read"}) # {} \/ (s.id # 0 /\ s.indexed)
  PROVE  /\ ScanWorks(s, t) /\ s.id = loading
         /\ \A p \in Places : PlaceInv(s, t, p)
         /\ \E p \in Places : ~s.done[p]
<1>1. Of(t, {"list", "read"}) # {} => Of(t, {"index", "list", "read"}) # {}
                                      /\ Of(t, {"list", "read", "save"}) # {}
  BY DEF Of
<1>2. NoScan.id = 0
  BY DEF NoScan, NewScan
<1>3. ~NewScan(s.id).indexed
  BY DEF NewScan
<1> QED
  BY <1>1, <1>2, <1>3 DEF ScanInv, ScanWorks

LEMMA ScanBack ==
  ASSUME NEW loading, NEW s, NEW t, ScanWorks(s, t), s.id = loading,
         \A p \in Places : PlaceInv(s, t, p), \E p \in Places : ~s.done[p]
  PROVE  ScanInv(loading, s, t)
BY DEF ScanInv, ScanWorks

(* Copies that are read: as many tasks as copies. *)
LEMMA ReadsOf ==
  ASSUME NEW batch \in SUBSET Copies, NEW id,
         NEW new, new = {Task("read", id, c) : c \in batch}
  PROVE  IsFiniteSet(new) /\ Cardinality(new) = Cardinality(batch)
<1> DEFINE f == [c \in batch |-> Task("read", id, c)]
<1>1. IsFiniteSet(batch)
  BY CopiesFinite, FS_Subset
<1>2. \A c : Task("read", id, c).about = c
  BY DEF Task
<1>3. f \in Bijection(batch, new)
  <2>1. f \in [batch -> new]
    OBVIOUS
  <2>2. \A c, d \in batch : f[c] = f[d] => c = d
    BY <1>2
  <2>3. \A y \in new : \E c \in batch : f[c] = y
    OBVIOUS
  <2> HIDE DEF f
  <2> QED
    BY <2>1, <2>2, <2>3, Fun_IsBij
<1> QED
  BY <1>1, <1>3, FS_Bijection DEF ExistsBijection

(* There are only so many readings. *)
LEMMA ReadsFinite ==
  ASSUME NEW s \in Scans, NEW t, ScanWorks(s, t), NEW p
  PROVE  IsFiniteSet(Reads(t, p)) /\ Cardinality(Reads(t, p)) \in Nat
<1> DEFINE all == {Task("read", s.id, c) : c \in Copies}
<1>1. Reads(t, p) \subseteq all
  BY DEF Reads, ScanWorks, Of
<1>2. IsFiniteSet(all)
  BY ReadsOf
<1> QED
  BY <1>1, <1>2, FS_Subset, FS_CardinalityType

(* The first message of a discovery. *)
LEMMA ListingIs ==
  ASSUME NEW id \in Nat, NEW p \in Places
  PROVE  LET k == Listing(id, p)
         IN  /\ k \in Tasks /\ k.kind = "list" /\ k.id = id /\ k.place = p
             /\ k.result = "running" /\ OfPlace(k)
BY DEF Listing, Task, Tasks, OfPlace

LEMMA IndexedKeeps ==
  ASSUME IInv, ~ended, NEW k \in tasks, Indexed(k)
  PROVE  IInv'
<1> DEFINE new == {Listing(k.id, p) : p \in Places}
           t == tasks \ {k}
           s == [scanning EXCEPT !.indexed = TRUE]
<1>1. /\ k.kind = "index" /\ scanning.id = k.id /\ scanning' = s
      /\ tasks' = t \union new /\ UNCHANGED <<ui, job, disk, left, ended>>
  BY DEF Indexed
<1>2. k \in Of(tasks, {"index"}) /\ k \in Tasks
  BY <1>1 DEF Of, IInv, TypeOK
<1>3. /\ scanning.id # 0 /\ scanning.id = ui.loading /\ scanning = NewScan(k.id)
      /\ Of(tasks, {"index"}) = {k} /\ Of(tasks, {"list", "read", "save"}) = {}
  <2>1. Of(tasks, {"index", "list", "read"}) # {} /\ Of(tasks, {"index", "save"}) # {}
    BY <1>2 DEF Of
  <2> QED
    BY <1>1, <1>2, <2>1, SlotDrop DEF IInv, Flight, ScanInv
<1>4. k.id \in Nat
  BY <1>2 DEF Tasks
<1>5. \A l \in new : l \in Tasks /\ l.kind = "list" /\ l.id = k.id /\ OfPlace(l)
  BY <1>4, ListingIs
<1>6. /\ s \in Scans /\ s.id = k.id /\ s.indexed
      /\ \A p \in Places : /\ s.running[p] = 0 /\ s.queue[p] = {} /\ ~s.done[p]
                           /\ s.running[p] <= Readers[p]
  <2>1. /\ scanning \in Scans /\ scanning.id = k.id
        /\ \A p \in Places : /\ scanning.running[p] = 0 /\ scanning.queue[p] = {}
                             /\ ~scanning.done[p] /\ scanning.running[p] <= Readers[p]
    BY <1>3, <1>4, NewScanIs
  <2>2. /\ s \in Scans /\ s.id = scanning.id /\ s.indexed = TRUE /\ s.running = scanning.running
        /\ s.queue = scanning.queue /\ s.done = scanning.done
    BY <2>1 DEF Scans
  <2> QED
    BY <2>1, <2>2
<1> HIDE DEF s
<1>7. /\ Of(t \union new, {"index", "save"}) = {}
      /\ Of(t \union new, {"list"}) = new
      /\ Of(t \union new, {"read"}) = {}
  <2>1. \A l \in t : l.kind \notin {"index", "list", "read", "save"}
    BY <1>3 DEF Of
  <2> HIDE DEF t, new
  <2> QED
    BY <2>1, <1>5 DEF Of
<1>8. ASSUME NEW p \in Places
      PROVE  PlaceInv(s, t \union new, p)
  <2>1. Reads(t \union new, p) = {}
    BY <1>7 DEF Reads, Of
  <2>2. Lists(t \union new, p) = {Listing(k.id, p)}
    <3>1. Lists(t \union new, p) = {l \in new : l.place = p}
      BY <1>7 DEF Lists, Of
    <3>2. \A q \in Places : Listing(k.id, q).place = q
      BY <1>4, ListingIs
    <3> QED
      BY <3>1, <3>2
  <2> HIDE DEF t, new
  <2>3. \E l \in Lists(t \union new, p) : Lists(t \union new, p) = {l}
    BY <2>2
  <2>4. Cardinality(Reads(t \union new, p)) = 0
    BY <2>1, FS_EmptySet
  <2> QED
    BY <1>6, <2>3, <2>4 DEF PlaceInv
<1>9. ScanInv(ui.loading, s, t \union new)
  <2>1. \E p \in Places : ~s.done[p]
    BY <1>6, PlacesAssumption
  <2>2. /\ \A l \in Of(t \union new, {"list"}) : l.id = s.id /\ OfPlace(l)
        /\ \A l \in Of(t \union new, {"read"}) : l.about \in Copies /\ l = Task("read", s.id, l.about)
    BY <1>5, <1>6, <1>7
  <2> HIDE DEF t, new
  <2>3. ScanWorks(s, t \union new)
    BY <1>1, <1>3, <1>6, <1>7, <2>2 DEF ScanWorks
  <2>4. s.id = ui.loading
    BY <1>1, <1>3, <1>6
  <2> QED
    BY <1>8, <2>1, <2>3, <2>4, ScanBack
<1>10. \A l \in {k} \union new : l.kind \notin Works /\ l.kind \notin Panels
  BY <1>1, <1>5 DEF Works, Panels
<1>11. Of(tasks, Works) = Of(t \union new, Works) /\ Of(tasks, Panels) = Of(t \union new, Panels)
  <2> HIDE DEF new
  <2> QED
    BY <1>10 DEF Of
<1>12. WorkInv(ui.busy, job, t \union new)
  BY <1>11, WorkFrame DEF IInv, Flight
<1>13. PanelInv(ui.busy, ui.configuring, ui.correcting, t \union new)
  BY <1>11, PanelFrame DEF IInv, Flight
<1>14. t \union new \subseteq Tasks
  BY <1>5 DEF IInv, TypeOK
<1> HIDE DEF t, new
<1>15. Flight(ui', scanning', job', tasks')
  BY <1>1, <1>9, <1>12, <1>13 DEF Flight
<1>16. TypeOK'
  BY <1>1, <1>6, <1>14 DEF IInv, TypeOK
<1> QED
  BY <1>1, <1>15, <1>16 DEF IInv, QuitIsClean


(* What is performed for a model without an effect. *)
LEMMA RestPerform ==
  ASSUME NEW n \in Models, n.effect = NoEffect, NEW s, NEW j, NEW t, Perform(n, s, j, t)
  PROVE  ui' = n /\ scanning' = s /\ job' = j /\ tasks' = t /\ ended' = ended
<1>1. [n EXCEPT !.effect = NoEffect] = n
  BY DEF Models
<1>2. n.effect.kind = "none"
  BY PlainEffects
<1> QED
  BY <1>1, <1>2 DEF Perform

(* Showing the library so far changes what is shown, and nothing else. *)
LEMMA CatalogIs ==
  ASSUME NEW m \in Models, m.effect = NoEffect, m.loading # 0, NEW x \in Snapshots
  PROVE  LET n == Catalog(m, m.loading, x)
         IN  /\ n \in Models /\ n.effect = NoEffect
             /\ n.busy = m.busy /\ n.loading = m.loading
             /\ n.configuring = m.configuring /\ n.correcting = m.correcting
             /\ n.pendingRefresh = m.pendingRefresh /\ n.pendingQuit = m.pendingQuit
             /\ n.retaining = m.retaining
             /\ IF m.retaining THEN n.pendingCatalog = x /\ n.catalog = m.catalog
                ELSE n.catalog = x /\ n.pendingCatalog = m.pendingCatalog
BY DEF Catalog, Models

(* When every location is done, nothing is listed or read. *)
LEMMA AllDone ==
  ASSUME NEW s \in Scans, NEW t, ScanWorks(s, t),
         \A p \in Places : PlaceInv(s, t, p) /\ s.done[p]
  PROVE  Of(t, {"index", "list", "read", "save"}) = {}
<1>1. \A p \in Places : Lists(t, p) = {} /\ Reads(t, p) = {}
  <2> TAKE p \in Places
  <2>1. s.running[p] = 0 /\ Lists(t, p) = {}
    BY DEF PlaceInv
  <2>2. Cardinality(Reads(t, p)) = 0
    BY <2>1 DEF PlaceInv
  <2> QED
    BY <2>1, <2>2, ReadsFinite, FS_EmptySet
<1>2. \A k \in t : k.kind # "list"
  BY <1>1 DEF ScanWorks, OfPlace, Of, Lists
<1>3. \A k \in t : k.kind # "read"
  BY <1>1 DEF ScanWorks, Of, Reads, Copies
<1>4. \A k \in t : k.kind \notin {"index", "save"}
  BY DEF ScanWorks, Of
<1> QED
  BY <1>2, <1>3, <1>4 DEF Of

LEMMA ReportKeeps ==
  ASSUME IInv, ~ended, disk' = disk /\ left' = left, NEW s \in Scans, NEW before, NEW t \in SUBSET Tasks,
         \A p \in Places : s.running[p] <= Readers[p],
         s.id = ui.loading, ScanWorks(s, t), \A p \in Places : PlaceInv(s, t, p),
         (\E p \in Places : ~s.done[p]) \/ s.done # before.done,
         WorkInv(ui.busy, job, t),
         PanelInv(ui.busy, ui.configuring, ui.correcting, t),
         Report(s, before, t)
  PROVE  IInv'
<1>1. PICK due \in BOOLEAN :
        LET shows == due \/ s.done # before.done
            over == s.done # before.done /\ \A p \in Places : s.done[p]
            next == [s EXCEPT !.shown = @ \/ shows]
        IN  Perform(IF shows THEN Catalog(ui, s.id, Snapshot(s)) ELSE ui,
                    IF over THEN NoScan ELSE next,
                    job,
                    IF over THEN t \union {Task("save", s.id, None)} ELSE t)
  BY DEF Report
<1> DEFINE shows == due \/ s.done # before.done
           over == s.done # before.done /\ \A p \in Places : s.done[p]
           flag == s.shown \/ shows
           next == [s EXCEPT !.shown = flag]
           n == IF shows THEN Catalog(ui, s.id, Snapshot(s)) ELSE ui
           save == Task("save", s.id, None)
<1>2. Perform(n, IF over THEN NoScan ELSE next, job, IF over THEN t \union {save} ELSE t)
  BY <1>1
<1>3. ui \in Models /\ ui.effect = NoEffect /\ s.id # 0 /\ s.id \in Nat
  BY DEF IInv, TypeOK, ScanWorks, Scans
<1>4. Snapshot(s) \in Snapshots
  BY DEF Snapshot, Snapshots, Scans
<1>5. /\ n \in Models /\ n.effect = NoEffect
      /\ n.busy = ui.busy /\ n.loading = ui.loading
      /\ n.configuring = ui.configuring /\ n.correcting = ui.correcting
  BY <1>3, <1>4, CatalogIs
<1>6. flag \in BOOLEAN
  BY DEF Scans
<1> HIDE DEF flag, n
<1>7. next \in Scans /\ next.id = s.id /\ next.indexed = s.indexed /\ next.queue = s.queue
      /\ next.running = s.running /\ next.done = s.done
  BY <1>6 DEF Scans
<1>8. save \in Tasks /\ save.kind = "save" /\ save.id = s.id
  BY <1>3, TaskIs
<1> HIDE DEF next, save
<1>9. /\ ui' = n /\ scanning' = (IF over THEN NoScan ELSE next) /\ job' = job
      /\ tasks' = (IF over THEN t \union {save} ELSE t) /\ ended' = ended
  BY <1>2, <1>5, RestPerform
<1>10. CASE over
  <2>1. scanning' = NoScan /\ tasks' = t \union {save}
    BY <1>9, <1>10
  <2>2. Of(t, {"index", "list", "read", "save"}) = {}
    BY <1>10, AllDone
  <2>3. Of(t \union {save}, {"save"}) = {save} /\ Of(t \union {save}, {"index", "list", "read"}) = {}
    BY <1>8, <2>2 DEF Of
  <2>4. ScanInv(ui.loading, NoScan, t \union {save})
    BY <1>3, <1>8, <2>3 DEF ScanInv, Slot
  <2>5. save.kind \notin Works /\ save.kind \notin Panels
    BY <1>8 DEF Works, Panels
  <2>11. Of(t \union {save}, Works) = Of(t, Works) /\ Of(t \union {save}, Panels) = Of(t, Panels)
    BY <2>5, OfAdd
  <2>6. WorkInv(ui.busy, job, t \union {save})
    BY <2>11, WorkFrame
  <2>7. PanelInv(ui.busy, ui.configuring, ui.correcting, t \union {save})
    BY <2>11, PanelFrame
  <2>8. Flight(ui', scanning', job', tasks')
    BY <1>5, <1>9, <2>1, <2>4, <2>6, <2>7 DEF Flight
  <2>9. scanning' \in Scans /\ \A p \in Places : scanning'.running[p] <= Readers[p]
    BY <2>1, NewScanIs DEF NoScan
  <2>10. TypeOK'
    BY <1>5, <1>8, <1>9, <2>1, <2>9 DEF IInv, TypeOK
  <2> QED
    BY <1>9, <2>8, <2>10 DEF IInv, QuitIsClean
<1>11. CASE ~over
  <2>1. scanning' = next /\ tasks' = t
    BY <1>9, <1>11
  <2>2. \E p \in Places : ~next.done[p]
    BY <1>7, <1>11
  <2>3. ScanWorks(next, t)
    BY <1>7 DEF ScanWorks
  <2>4. \A p \in Places : PlaceInv(next, t, p)
    BY <1>7 DEF PlaceInv
  <2>5. ScanInv(ui.loading, next, t)
    BY <1>7, <2>2, <2>3, <2>4, ScanBack
  <2>6. Flight(ui', scanning', job', tasks')
    BY <1>5, <1>9, <2>1, <2>5 DEF Flight
  <2>7. TypeOK'
    BY <1>5, <1>7, <1>9, <2>1 DEF IInv, TypeOK
  <2> QED
    BY <1>9, <2>6, <2>7 DEF IInv, QuitIsClean
<1> QED
  BY <1>10, <1>11


-----------------------------------------------------------------------------
(* Reading more of a location. *)

(* As many copies as may be read, and all of them if they are fewer. *)
LEMMA BatchIs ==
  ASSUME NEW s \in Scans, NEW p \in Places, s.running[p] <= Readers[p], NEW batch \in Batches(s, p)
  PROVE  LET n == Cardinality(batch)
         IN  /\ batch \subseteq s.queue[p] /\ n \in Nat
             /\ s.running[p] + n <= Readers[p]
             /\ s.queue[p] \ batch # {} => s.running[p] + n = Readers[p]
<1> DEFINE a == Readers[p] - s.running[p]
           b == Cardinality(s.queue[p])
           room == Min({a, b})
<1>1. batch \subseteq s.queue[p] /\ Cardinality(batch) = room
  BY DEF Batches
<1>2. s.running[p] \in Nat /\ s.queue[p] \subseteq Copies
  BY DEF Scans
<1>3. IsFiniteSet(s.queue[p]) /\ b \in Nat
  BY <1>2, CopiesFinite, FS_Subset, FS_CardinalityType
<1>4. a \in Nat /\ Readers[p] \in Nat /\ s.running[p] + a = Readers[p]
  <2>1. Readers[p] \in Nat
    BY ReadersAssumption
  <2> QED
    BY <1>2, <2>1
<1> HIDE DEF a, b
<1>5. room \in {a, b} /\ room <= a /\ room <= b
  <2>1. \E x \in {a, b} : \A y \in {a, b} : x <= y
    BY <1>3, <1>4
  <2> QED
    BY <2>1 DEF Min
<1> HIDE DEF room
<1>6. CASE room = a
  BY <1>1, <1>2, <1>4, <1>6
<1>7. CASE room = b
  <2>1. batch = s.queue[p]
    BY <1>1, <1>3, <1>7, FS_Subset DEF b
  <2> QED
    BY <1>1, <1>2, <1>3, <1>4, <1>5, <1>7, <2>1
<1> QED
  BY <1>5, <1>6, <1>7

(* A location is settled, or it is as it was. *)
LEMMA SettleIs ==
  ASSUME NEW s \in Scans, NEW p \in Places, ~s.done[p]
  PROVE  LET z == Settle(s, p)
         IN  /\ z \in Scans /\ z.id = s.id /\ z.indexed = s.indexed
             /\ z.running = s.running /\ z.queue = s.queue
             /\ z.done[p] <=> s.running[p] = 0 /\ s.queue[p] = {}
             /\ \A q \in Places \ {p} : z.done[q] = s.done[q]
             /\ z.found = s.found /\ z.unreadable = s.unreadable
             /\ z.status[p] = IF z.done[p] THEN "ready" ELSE s.status[p]
             /\ \A q \in Places \ {p} : z.status[q] = s.status[q]
<1>1. s.running[p] \in Nat
  BY DEF Scans
<1>2. CASE s.running[p] > 0 \/ s.queue[p] # {}
  BY <1>1, <1>2 DEF Settle
<1>3. CASE ~(s.running[p] > 0 \/ s.queue[p] # {})
  <2> DEFINE d == [s.done EXCEPT ![p] = TRUE]
             st == [s.status EXCEPT ![p] = "ready"]
             z == [s EXCEPT !.done = d, !.status = st]
  <2>1. /\ d \in [Places -> BOOLEAN] /\ d[p] /\ \A q \in Places \ {p} : d[q] = s.done[q]
        /\ st \in [Places -> {"checking", "ready", "unavailable"}] /\ st[p] = "ready"
        /\ \A q \in Places \ {p} : st[q] = s.status[q]
    BY DEF Scans
  <2>2. Settle(s, p) = z
    BY <1>3 DEF Settle
  <2> HIDE DEF d, st
  <2>3. /\ z \in Scans /\ z.id = s.id /\ z.indexed = s.indexed
        /\ z.running = s.running /\ z.queue = s.queue /\ z.done = d /\ z.status = st
        /\ z.found = s.found /\ z.unreadable = s.unreadable
    BY <2>1 DEF Scans
  <2> HIDE DEF z
  <2>4. s.running[p] = 0 /\ s.queue[p] = {}
    BY <1>1, <1>3
  <2> QED
    BY <2>1, <2>2, <2>3, <2>4
<1> QED
  BY <1>2, <1>3


(* The batch went from what waits to be read to what is being read, the     *)
(* location is ready when that was all, and elsewhere nothing changed.     *)
Begins(z, s, u, t, p, batch) ==
    /\ Of(u, {"copy", "remove", "correct"}) = Of(t, {"copy", "remove", "correct"})
    /\ z.found = s.found /\ z.unreadable = s.unreadable
    /\ z.queue[p] = s.queue[p] \ batch
    /\ {k.about : k \in Reads(u, p)} = {k.about : k \in Reads(t, p)} \union batch
    /\ z.status[p] = IF z.done[p] THEN "ready" ELSE s.status[p]
    /\ \A q \in Places : Lists(u, q) = Lists(t, q)
    /\ \A q \in Places \ {p} : /\ z.queue[q] = s.queue[q] /\ Reads(u, q) = Reads(t, q)
                               /\ z.done[q] = s.done[q] /\ z.status[q] = s.status[q]

(* A message about a location: more of it is read, until it is done. *)
LEMMA ContinueIs ==
  ASSUME NEW s \in Scans, NEW p \in Places, NEW t \in SUBSET Tasks,
         \A q \in Places : s.running[q] <= Readers[q],
         ScanWorks(s, t),
         \A q \in Places \ {p} : PlaceInv(s, t, q),
         Lists(t, p) = {}, ~s.done[p], s.running[p] = Cardinality(Reads(t, p)),
         \A c \in s.queue[p] : c.place = p /\ Task("read", s.id, c) \notin t,
         WorkInv(ui.busy, job, t),
         PanelInv(ui.busy, ui.configuring, ui.correcting, t),
         Continue(s, p, t)
  PROVE  \E z \in Scans, u \in SUBSET Tasks, batch \in SUBSET s.queue[p] :
            /\ Report(z, s, u) /\ ScanWorks(z, u) /\ z.id = s.id
            /\ (\E q \in Places : ~z.done[q]) \/ z.done # s.done
            /\ \A q \in Places : PlaceInv(z, u, q) /\ z.running[q] <= Readers[q]
            /\ WorkInv(ui.busy, job, u)
            /\ PanelInv(ui.busy, ui.configuring, ui.correcting, u)
            /\ Begins(z, s, u, t, p, batch)
<1>1. PICK batch \in Batches(s, p) :
        LET more == [s EXCEPT !.queue[p] = @ \ batch, !.running[p] = @ + Cardinality(batch)]
        IN  Report(Settle(more, p), s, t \union {Task("read", s.id, c) : c \in batch})
  BY DEF Continue
<1> DEFINE n == Cardinality(batch)
           more == [s EXCEPT !.queue[p] = @ \ batch, !.running[p] = @ + n]
           z == Settle(more, p)
           new == {Task("read", s.id, c) : c \in batch}
           u == t \union new
<1>2. Report(z, s, u)
  BY <1>1
<1>3. /\ batch \subseteq s.queue[p] /\ n \in Nat /\ s.running[p] + n <= Readers[p]
      /\ s.queue[p] \ batch # {} => s.running[p] + n = Readers[p]
  BY BatchIs
<1>4. batch \subseteq Copies /\ s.id \in Nat /\ s.id # 0
  BY <1>3 DEF Scans, ScanWorks
<1>5. IsFiniteSet(new) /\ Cardinality(new) = n
  <2>1. batch \in SUBSET Copies /\ new = {Task("read", s.id, c) : c \in batch}
    BY <1>4
  <2> HIDE DEF new
  <2> QED
    BY <2>1, ReadsOf
<1> HIDE DEF n
<1>6. /\ more \in Scans /\ more.id = s.id /\ more.indexed = s.indexed /\ more.done = s.done
      /\ more.queue[p] = s.queue[p] \ batch /\ more.running[p] = s.running[p] + n
      /\ \A q \in Places \ {p} : /\ more.queue[q] = s.queue[q]
                                 /\ more.running[q] = s.running[q]
      /\ more.found = s.found /\ more.unreadable = s.unreadable /\ more.status = s.status
  <2> DEFINE qu == [s.queue EXCEPT ![p] = s.queue[p] \ batch]
             ru == [s.running EXCEPT ![p] = s.running[p] + n]
  <2>1. /\ qu \in [Places -> SUBSET Copies] /\ qu[p] = s.queue[p] \ batch
        /\ \A q \in Places \ {p} : qu[q] = s.queue[q]
        /\ ru \in [Places -> Nat] /\ ru[p] = s.running[p] + n
        /\ \A q \in Places \ {p} : ru[q] = s.running[q]
    BY <1>3 DEF Scans
  <2>2. more = [s EXCEPT !.queue = qu, !.running = ru]
    OBVIOUS
  <2> HIDE DEF qu, ru, more
  <2> QED
    BY <2>1, <2>2 DEF Scans
<1> HIDE DEF more
<1>7. /\ z \in Scans /\ z.id = s.id /\ z.indexed = s.indexed
      /\ z.queue[p] = s.queue[p] \ batch /\ z.running[p] = s.running[p] + n
      /\ \A q \in Places \ {p} : /\ z.queue[q] = s.queue[q] /\ z.running[q] = s.running[q]
                                 /\ z.done[q] = s.done[q] /\ z.status[q] = s.status[q]
      /\ z.done[p] <=> z.running[p] = 0 /\ z.queue[p] = {}
      /\ z.found = s.found /\ z.unreadable = s.unreadable
      /\ z.status[p] = IF z.done[p] THEN "ready" ELSE s.status[p]
  BY <1>6, SettleIs
<1> HIDE DEF z
<1>8. \A k \in new : \E c \in batch : k = Task("read", s.id, c) /\ k.kind = "read" /\ k \in Tasks
                                      /\ k.about = c
  BY <1>4, TaskIs
<1>9. \A c \in batch : Task("read", s.id, c) \in new
  OBVIOUS
<1>10. \A c : Task("read", s.id, c) \in new => c \in batch
  <2>1. \A c : Task("read", s.id, c).about = c
    BY DEF Task
  <2> QED
    BY <1>8, <2>1
<1> HIDE DEF new
<1>11. new \intersect t = {}
  BY <1>3, <1>8
<1>12. /\ Of(u, {"index", "save"}) = Of(t, {"index", "save"})
       /\ Of(u, {"list"}) = Of(t, {"list"})
       /\ Of(u, {"read"}) = Of(t, {"read"}) \union new
       /\ Of(u, Works) = Of(t, Works) /\ Of(u, Panels) = Of(t, Panels)
  BY <1>8 DEF Of, Works, Panels
<1>13. ScanWorks(z, u)
  <2>1. \A k \in new : k.about \in Copies /\ k = Task("read", s.id, k.about)
    BY <1>4, <1>8
  <2> HIDE DEF u
  <2> QED
    BY <1>7, <1>12, <2>1 DEF ScanWorks
<1>14. \A q : Lists(u, q) = Lists(t, q)
  BY <1>8 DEF Lists
<1>15. ASSUME NEW q \in Places \ {p}
       PROVE  PlaceInv(z, u, q)
  <2>1. \A k \in new : k.about.place = p
    BY <1>3, <1>8
  <2>2. Reads(u, q) = Reads(t, q)
    BY <2>1 DEF Reads
  <2>3. \A c \in s.queue[q] : c.place = q /\ Task("read", s.id, c) \notin u
    <3>1. \A c \in s.queue[q] : c.place = q /\ Task("read", s.id, c) \notin t
      BY DEF PlaceInv
    <3>2. \A c \in s.queue[q] : Task("read", s.id, c) \notin new
      BY <1>3, <1>10, <3>1
    <3> QED
      BY <3>1, <3>2
  <2> HIDE DEF u
  <2> QED
    BY <1>7, <1>14, <2>2, <2>3 DEF PlaceInv
<1>16. PlaceInv(z, u, p)
  <2>1. Reads(u, p) = Reads(t, p) \union new /\ Reads(t, p) \intersect new = {}
    <3>1. \A k \in new : k.kind = "read" /\ k.about.place = p
      BY <1>3, <1>8
    <3> QED
      BY <1>11, <3>1 DEF Reads
  <2>2. Cardinality(Reads(u, p)) = s.running[p] + n
    <3>1. IsFiniteSet(Reads(t, p)) /\ Cardinality(Reads(t, p)) \in Nat
      BY ReadsFinite
    <3>2. Cardinality(Reads(t, p) \union new)
            = Cardinality(Reads(t, p)) + Cardinality(new) - Cardinality({})
      BY <1>5, <2>1, <3>1, FS_Union
    <3>3. Cardinality({}) = 0
      BY FS_EmptySet
    <3>4. Cardinality(Reads(u, p)) = Cardinality(Reads(t, p) \union new)
      BY <2>1
    <3> DEFINE a == Cardinality(Reads(t, p))
               b == Cardinality(new)
    <3>5. a \in Nat /\ b = n /\ Cardinality(Reads(u, p)) = a + b - 0
      BY <1>5, <3>1, <3>2, <3>3, <3>4
    <3>6. s.running[p] = a
      OBVIOUS
    <3> HIDE DEF a, b
    <3> QED
      BY <1>3, <3>5, <3>6
  <2>3. \A c \in z.queue[p] : c.place = p /\ Task("read", s.id, c) \notin u
    BY <1>7, <1>10
  <2>4. s.running[p] + n \in Nat
    BY <1>3 DEF Scans
  <2> HIDE DEF u
  <2>5. z.queue[p] # {} => z.running[p] = Readers[p]
    BY <1>3, <1>7
  <2>6. \/ z.done[p] /\ z.running[p] = 0
        \/ ~z.done[p] /\ z.running[p] > 0
    <3>1. Readers[p] \in Nat \ {0}
      BY ReadersAssumption
    <3> QED
      BY <1>7, <2>4, <2>5, <3>1
  <2> QED
    BY <1>3, <1>7, <1>14, <2>2, <2>3, <2>5, <2>6 DEF PlaceInv
<1>17. WorkInv(ui.busy, job, u)
  BY <1>12, WorkFrame
<1>18. PanelInv(ui.busy, ui.configuring, ui.correcting, u)
  BY <1>12, PanelFrame
<1>19. u \in SUBSET Tasks
  BY <1>8
<1> HIDE DEF u
<1>20. (\E q \in Places : ~z.done[q]) \/ z.done # s.done
  OBVIOUS
<1>21. \A q \in Places : z.running[q] <= Readers[q]
  BY <1>3, <1>7
<1>22. \A q \in Places : PlaceInv(z, u, q)
  BY <1>15, <1>16
<1>23. Begins(z, s, u, t, p, batch)
  <2>1. Of(u, {"copy", "remove", "correct"}) = Of(t, {"copy", "remove", "correct"})
    BY <1>8 DEF Of, u
  <2>2. \A k \in new : k.kind = "read" /\ k.about.place = p
    BY <1>3, <1>8
  <2>3. \A q \in Places \ {p} : Reads(u, q) = Reads(t, q)
    BY <2>2 DEF Reads, u
  <2>4. Reads(u, p) = Reads(t, p) \union new
    BY <2>2 DEF Reads, u
  <2>5. {k.about : k \in Reads(u, p)} = {k.about : k \in Reads(t, p)} \union batch
    <3>1. \A k \in new : k.about \in batch
      BY <1>8
    <3>2. \A c \in batch : \E k \in new : k.about = c
      <4>1. \A c : Task("read", s.id, c).about = c
        BY DEF Task
      <4> QED
        BY <1>9, <4>1
    <3>3. {k.about : k \in new} = batch
      BY <3>1, <3>2
    <3> QED
      BY <2>4, <3>3
  <2> QED
    BY <1>7, <1>14, <2>1, <2>3, <2>5 DEF Begins
<1> QED
  BY <1>2, <1>3, <1>7, <1>13, <1>17, <1>18, <1>19, <1>20, <1>21, <1>22, <1>23

LEMMA ContinueKeeps ==
  ASSUME IInv, ~ended, disk' = disk /\ left' = left, NEW s \in Scans, NEW p \in Places, NEW t \in SUBSET Tasks,
         \A q \in Places : s.running[q] <= Readers[q],
         s.id = ui.loading, ScanWorks(s, t),
         \A q \in Places \ {p} : PlaceInv(s, t, q),
         Lists(t, p) = {}, ~s.done[p], s.running[p] = Cardinality(Reads(t, p)),
         \A c \in s.queue[p] : c.place = p /\ Task("read", s.id, c) \notin t,
         WorkInv(ui.busy, job, t),
         PanelInv(ui.busy, ui.configuring, ui.correcting, t),
         Continue(s, p, t)
  PROVE  IInv'
<1>1. PICK z \in Scans, u \in SUBSET Tasks :
        /\ Report(z, s, u) /\ ScanWorks(z, u) /\ z.id = s.id
        /\ (\E q \in Places : ~z.done[q]) \/ z.done # s.done
        /\ \A q \in Places : PlaceInv(z, u, q) /\ z.running[q] <= Readers[q]
        /\ WorkInv(ui.busy, job, u)
        /\ PanelInv(ui.busy, ui.configuring, ui.correcting, u)
  BY ContinueIs
<1> QED
  BY <1>1, ReportKeeps


(* A message of a discovery at work: what holds without its task. *)
LEMMA ScanDrop ==
  ASSUME IInv, NEW k \in tasks, k.kind \in {"list", "read"}
  PROVE  /\ ScanWorks(scanning, tasks) /\ ScanWorks(scanning, tasks \ {k})
         /\ scanning.id = ui.loading /\ scanning \in Scans
         /\ \A p \in Places : PlaceInv(scanning, tasks, p) /\ scanning.running[p] <= Readers[p]
         /\ tasks \ {k} \in SUBSET Tasks
         /\ WorkInv(ui.busy, job, tasks \ {k})
         /\ PanelInv(ui.busy, ui.configuring, ui.correcting, tasks \ {k})
<1> DEFINE t == tasks \ {k}
<1>1. Of(tasks, {"list", "read"}) # {}
  BY DEF Of
<1>2. /\ ScanWorks(scanning, tasks) /\ scanning.id = ui.loading
      /\ \A p \in Places : PlaceInv(scanning, tasks, p)
  <2>1. ScanInv(ui.loading, scanning, tasks)
    BY DEF IInv, Flight
  <2> QED
    BY <1>1, <2>1, ScanIs
<1>3. \A kinds : Of(t, kinds) \subseteq Of(tasks, kinds)
  BY DEF Of
<1>4. k.kind \notin Works /\ k.kind \notin Panels
  BY DEF Works, Panels
<1>5. Of(t, Works) = Of(tasks, Works) /\ Of(t, Panels) = Of(tasks, Panels)
  BY <1>4, OfDrop
<1> HIDE DEF t
<1>6. ScanWorks(scanning, t)
  BY <1>2, <1>3 DEF ScanWorks
<1>7. WorkInv(ui.busy, job, t)
  BY <1>5, WorkFrame DEF IInv, Flight
<1>8. PanelInv(ui.busy, ui.configuring, ui.correcting, t)
  BY <1>5, PanelFrame DEF IInv, Flight
<1> QED
  BY <1>2, <1>6, <1>7, <1>8 DEF IInv, TypeOK, t

(* What a message about location p leaves of the discovery s and of the    *)
(* tasks t: at the other locations nothing changed.                        *)
Elsewhere(s, t, p) ==
    /\ s.id = ui.loading /\ s.id = scanning.id /\ ScanWorks(s, t)
    /\ \A q \in Places : s.running[q] <= Readers[q]
    /\ WorkInv(ui.busy, job, t) /\ PanelInv(ui.busy, ui.configuring, ui.correcting, t)
    /\ \A q \in Places \ {p} :
        /\ PlaceInv(s, t, q)
        /\ Lists(t, q) = Lists(tasks, q) /\ Reads(t, q) = Reads(tasks, q)
        /\ s.queue[q] = scanning.queue[q] /\ s.done[q] = scanning.done[q]
        /\ s.status[q] = scanning.status[q]

(* The location is done, without a book. *)
NotListed(s, t, p) ==
    /\ PlaceInv(s, t, p) /\ s.done[p] /\ ~scanning.done[p] /\ s.status[p] = "unavailable"
    /\ s.found = scanning.found /\ s.unreadable = scanning.unreadable

(* Books of the location are to be read. *)
HasBooks(s, t, p) ==
    /\ ~s.done[p] /\ s.running[p] = Cardinality(Reads(t, p)) /\ Lists(t, p) = {}
    /\ \A c \in s.queue[p] : c.place = p /\ Task("read", s.id, c) \notin t
    /\ s.status[p] = scanning.status[p]

LEMMA ListingInIs ==
  ASSUME IInv, NEW k \in tasks, ListingIn(k)
  PROVE  LET p == k.place
             t == tasks \ {k}
         IN  /\ p \in Places /\ t \in SUBSET Tasks /\ disk' = disk /\ left' = left
             /\ k.kind = "list" /\ Lists(tasks, p) = {k} /\ Lists(t, p) = {} /\ Reads(t, p) = {}
             /\ scanning.queue[p] = {}
             /\ \E s \in Scans :
                 /\ Elsewhere(s, t, p)
                 /\ \/ Report(s, scanning, t) /\ NotListed(s, t, p)
                    \/ /\ Continue(s, p, t) /\ HasBooks(s, t, p) /\ k.result = "ok"
                       /\ s.found = scanning.found \union k.found.known
                       /\ s.unreadable = scanning.unreadable
                       /\ s.queue[p] = k.found.todo
<1> DEFINE t == tasks \ {k}
           p == k.place
<1>1. /\ k.kind = "list" /\ k.result # "running" /\ disk' = disk /\ left' = left
      /\ k \in Tasks
  BY DEF ListingIn, IInv, TypeOK
<1>2. /\ ScanWorks(scanning, tasks) /\ ScanWorks(scanning, t)
      /\ scanning.id = ui.loading /\ scanning \in Scans
      /\ \A q \in Places : PlaceInv(scanning, tasks, q) /\ scanning.running[q] <= Readers[q]
      /\ t \in SUBSET Tasks
      /\ WorkInv(ui.busy, job, t)
      /\ PanelInv(ui.busy, ui.configuring, ui.correcting, t)
  BY <1>1, ScanDrop
<1>3. OfPlace(k) /\ p \in Places /\ k \in Lists(tasks, p)
  BY <1>1, <1>2 DEF ScanWorks, Of, OfPlace, Lists
<1>4. /\ ~scanning.done[p] /\ scanning.running[p] = 0 /\ scanning.queue[p] = {}
      /\ Lists(tasks, p) = {k} /\ Cardinality(Reads(tasks, p)) = 0
  BY <1>2, <1>3 DEF PlaceInv
<1>5. /\ Lists(t, p) = {}
      /\ \A q \in Places \ {p} : Lists(t, q) = Lists(tasks, q)
      /\ \A q \in Places : Reads(t, q) = Reads(tasks, q)
      /\ \A c : Task("read", scanning.id, c) \notin tasks => Task("read", scanning.id, c) \notin t
  BY <1>1, <1>4 DEF Lists, Reads
<1>6. Reads(tasks, p) = {}
  BY <1>2, <1>4, ReadsFinite, FS_EmptySet
<1> HIDE DEF t, p
<1>7. CASE k.result = "failed"
  <2> DEFINE d == [scanning.done EXCEPT ![p] = TRUE]
             st == [scanning.status EXCEPT ![p] = "unavailable"]
             s == [scanning EXCEPT !.done = d, !.status = st]
  <2>1. /\ d \in [Places -> BOOLEAN] /\ d[p] /\ \A q \in Places \ {p} : d[q] = scanning.done[q]
        /\ st \in [Places -> {"checking", "ready", "unavailable"}] /\ st[p] = "unavailable"
        /\ \A q \in Places \ {p} : st[q] = scanning.status[q]
    BY <1>2, <1>3 DEF Scans
  <2>2. Report(s, scanning, t)
    BY <1>7 DEF ListingIn, t, p
  <2> HIDE DEF d, st
  <2>3. /\ s \in Scans /\ s.id = scanning.id /\ s.indexed = scanning.indexed
        /\ s.running = scanning.running /\ s.queue = scanning.queue /\ s.done = d
        /\ s.status = st /\ s.found = scanning.found /\ s.unreadable = scanning.unreadable
    BY <1>2, <2>1 DEF Scans
  <2> HIDE DEF s
  <2>4. ScanWorks(s, t)
    BY <1>2, <2>3 DEF ScanWorks
  <2>5. ASSUME NEW q \in Places
        PROVE  PlaceInv(s, t, q)
    <3>1. PlaceInv(scanning, tasks, q)
      BY <1>2
    <3>2. CASE q = p
      BY <1>4, <1>5, <1>6, <2>1, <2>3, <3>1, <3>2 DEF PlaceInv
    <3>3. CASE q # p
      <4>1. s.done[q] = scanning.done[q] /\ Lists(t, q) = Lists(tasks, q)
            /\ Reads(t, q) = Reads(tasks, q)
        BY <1>5, <2>1, <2>3, <3>3
      <4> QED
        BY <1>5, <2>3, <3>1, <4>1 DEF PlaceInv
    <3> QED
      BY <3>2, <3>3
  <2>6. NotListed(s, t, p)
    BY <1>3, <1>4, <2>1, <2>3, <2>5 DEF NotListed
  <2>7. Elsewhere(s, t, p)
    BY <1>2, <1>5, <2>1, <2>3, <2>4, <2>5 DEF Elsewhere
  <2> QED
    BY <1>1, <1>2, <1>3, <1>4, <1>5, <1>6, <2>2, <2>3, <2>6, <2>7 DEF t, p
<1>8. CASE k.result # "failed"
  <2>1. k.found \in [known : SUBSET Copies, todo : SUBSET Copies]
        /\ \A c \in k.found.todo : c.place = p
    BY <1>1, <1>3, <1>8 DEF OfPlace, Tasks, p
  <2> DEFINE fo == scanning.found \union k.found.known
             qu == [scanning.queue EXCEPT ![p] = scanning.queue[p] \union k.found.todo]
             s == [scanning EXCEPT !.found = fo, !.queue = qu]
  <2>2. Continue(s, p, t)
    BY <1>8 DEF ListingIn, t, p
  <2>3. /\ fo \in SUBSET Copies /\ qu \in [Places -> SUBSET Copies] /\ qu[p] = k.found.todo
        /\ \A q \in Places \ {p} : qu[q] = scanning.queue[q]
    BY <1>2, <1>3, <1>4, <2>1 DEF Scans
  <2> HIDE DEF fo, qu
  <2>4. /\ s \in Scans /\ s.id = scanning.id /\ s.indexed = scanning.indexed
        /\ s.running = scanning.running /\ s.queue = qu /\ s.done = scanning.done
        /\ s.status = scanning.status /\ s.unreadable = scanning.unreadable /\ s.found = fo
    BY <1>2, <2>3 DEF Scans
  <2> HIDE DEF s
  <2>5. ScanWorks(s, t)
    BY <1>2, <2>4 DEF ScanWorks
  <2>6. ASSUME NEW q \in Places \ {p}
        PROVE  PlaceInv(s, t, q)
    <3>1. PlaceInv(scanning, tasks, q)
      BY <1>2
    <3>2. s.queue[q] = scanning.queue[q] /\ Lists(t, q) = Lists(tasks, q)
          /\ Reads(t, q) = Reads(tasks, q)
      BY <1>5, <2>3, <2>4
    <3> QED
      BY <1>5, <2>4, <3>1, <3>2 DEF PlaceInv
  <2>7. \A c \in s.queue[p] : c.place = p /\ Task("read", s.id, c) \notin t
    <3>1. \A c : Task("read", s.id, c).kind = "read" /\ Task("read", s.id, c).about = c
      BY DEF Task
    <3>2. \A c \in s.queue[p] : c.place = p
      BY <2>1, <2>3, <2>4
    <3>3. \A c \in s.queue[p] : Task("read", s.id, c) \in t => Task("read", s.id, c) \in Reads(t, p)
      BY <3>1, <3>2 DEF Reads
    <3> QED
      BY <1>3, <1>5, <1>6, <3>2, <3>3
  <2>8. ~s.done[p] /\ s.running[p] = Cardinality(Reads(t, p))
    BY <1>3, <1>4, <1>5, <2>4
  <2>9. HasBooks(s, t, p)
    BY <1>5, <2>4, <2>7, <2>8 DEF HasBooks
  <2>10. Elsewhere(s, t, p)
    BY <1>2, <1>5, <2>3, <2>4, <2>5, <2>6 DEF Elsewhere
  <2>11. k.result = "ok"
    BY <1>1, <1>8 DEF Tasks
  <2>12. s.found = scanning.found \union k.found.known /\ s.queue[p] = k.found.todo
    BY <2>3, <2>4 DEF fo
  <2> QED
    BY <1>1, <1>2, <1>3, <1>4, <1>5, <1>6, <2>1, <2>2, <2>4, <2>9, <2>10, <2>11, <2>12 DEF t, p
<1> QED
  BY <1>7, <1>8

LEMMA ListingInKeeps ==
  ASSUME IInv, ~ended, NEW k \in tasks, ListingIn(k)
  PROVE  IInv'
<1> DEFINE t == tasks \ {k}
           p == k.place
<1>1. /\ p \in Places /\ t \in SUBSET Tasks /\ disk' = disk /\ left' = left
      /\ \E s \in Scans :
          /\ Elsewhere(s, t, p)
          /\ \/ Report(s, scanning, t) /\ NotListed(s, t, p)
             \/ Continue(s, p, t) /\ HasBooks(s, t, p)
  BY ListingInIs
<1>2. PICK s \in Scans :
        /\ Elsewhere(s, t, p)
        /\ \/ Report(s, scanning, t) /\ NotListed(s, t, p)
           \/ Continue(s, p, t) /\ HasBooks(s, t, p)
  BY <1>1
<1> HIDE DEF t, p
<1>3. CASE Report(s, scanning, t) /\ NotListed(s, t, p)
  <2>1. \A q \in Places : PlaceInv(s, t, q)
    BY <1>2, <1>3 DEF Elsewhere, NotListed
  <2>2. s.done # scanning.done
    BY <1>3 DEF NotListed
  <2> QED
    BY <1>1, <1>2, <1>3, <2>1, <2>2, ReportKeeps DEF Elsewhere
<1>4. CASE Continue(s, p, t) /\ HasBooks(s, t, p)
  BY <1>1, <1>2, <1>4, ContinueKeeps DEF Elsewhere, HasBooks
<1> QED
  BY <1>2, <1>3, <1>4

LEMMA ReadIs ==
  ASSUME IInv, NEW k \in tasks, Read(k)
  PROVE  LET p == k.about.place
             t == tasks \ {k}
         IN  /\ k.about \in Copies /\ p \in Places /\ t \in SUBSET Tasks /\ disk' = disk /\ left' = left
             /\ k.kind = "read" /\ k \in Reads(tasks, p) /\ Reads(t, p) = Reads(tasks, p) \ {k}
             /\ Lists(tasks, p) = {} /\ ~scanning.done[p]
             /\ \E s \in Scans :
                 /\ Elsewhere(s, t, p) /\ Continue(s, p, t) /\ HasBooks(s, t, p)
                 /\ s.queue = scanning.queue
                 /\ scanning.found \subseteq s.found
                 /\ s.found \union s.unreadable
                      = scanning.found \union scanning.unreadable \union {k.about}
<1> DEFINE t == tasks \ {k}
           p == k.about.place
           run == scanning.running[p] - 1
           ru == [scanning.running EXCEPT ![p] = run]
           more(f) == f \union {k.about}
<1>1. k.kind = "read" /\ disk' = disk /\ left' = left
  BY DEF Read
<1>2. /\ ScanWorks(scanning, tasks) /\ ScanWorks(scanning, t)
      /\ scanning.id = ui.loading /\ scanning \in Scans
      /\ \A q \in Places : PlaceInv(scanning, tasks, q) /\ scanning.running[q] <= Readers[q]
      /\ t \in SUBSET Tasks
      /\ WorkInv(ui.busy, job, t)
      /\ PanelInv(ui.busy, ui.configuring, ui.correcting, t)
  BY <1>1, ScanDrop
<1>3. k.about \in Copies /\ p \in Places /\ k \in Reads(tasks, p)
  BY <1>1, <1>2 DEF ScanWorks, Of, Reads, Copies
<1>4. IsFiniteSet(Reads(tasks, p)) /\ Cardinality(Reads(tasks, p)) \in Nat
  BY <1>2, ReadsFinite
<1>5. Cardinality(Reads(tasks, p)) # 0
  BY <1>3, <1>4, FS_EmptySet
<1>6. /\ ~scanning.done[p] /\ Lists(tasks, p) = {}
      /\ scanning.running[p] = Cardinality(Reads(tasks, p))
  BY <1>2, <1>3, <1>5 DEF PlaceInv
<1>7. /\ \A q : Lists(t, q) = Lists(tasks, q)
      /\ Reads(t, p) = Reads(tasks, p) \ {k}
      /\ \A q \in Places \ {p} : Reads(t, q) = Reads(tasks, q)
      /\ \A c : Task("read", scanning.id, c) \notin tasks => Task("read", scanning.id, c) \notin t
  BY <1>1 DEF Lists, Reads
<1>8. run \in Nat /\ run = Cardinality(Reads(t, p)) /\ run <= Readers[p]
  <2>1. Cardinality(Reads(t, p)) = Cardinality(Reads(tasks, p)) - 1
    <3>1. Cardinality(Reads(tasks, p) \ {k}) = Cardinality(Reads(tasks, p)) - 1
      BY <1>3, <1>4, FS_RemoveElement
    <3> QED
      BY <1>7, <3>1
  <2>2. Readers[p] \in Nat
    BY <1>3, ReadersAssumption
  <2> QED
    BY <1>2, <1>3, <1>4, <1>5, <1>6, <2>1, <2>2
<1>9. /\ ru \in [Places -> Nat] /\ ru[p] = run
      /\ \A q \in Places \ {p} : ru[q] = scanning.running[q]
  BY <1>2, <1>3, <1>8 DEF Scans
<1> HIDE DEF t, run
<1>10. ASSUME NEW s \in Scans, s.id = scanning.id, s.indexed = scanning.indexed,
              s.running = ru, s.queue = scanning.queue, s.done = scanning.done,
              s.status = scanning.status
       PROVE  Elsewhere(s, t, p) /\ HasBooks(s, t, p)
  <2> HIDE DEF ru
  <2>1. ScanWorks(s, t)
    BY <1>2, <1>10 DEF ScanWorks
  <2>2. ASSUME NEW q \in Places \ {p}
        PROVE  PlaceInv(s, t, q)
    <3>1. PlaceInv(scanning, tasks, q)
      BY <1>2
    <3>2. s.running[q] = scanning.running[q] /\ Lists(t, q) = Lists(tasks, q)
          /\ Reads(t, q) = Reads(tasks, q)
      BY <1>7, <1>9, <1>10
    <3> QED
      BY <1>7, <1>10, <3>1, <3>2 DEF PlaceInv
  <2>3. \A c \in s.queue[p] : c.place = p /\ Task("read", s.id, c) \notin t
    BY <1>2, <1>3, <1>7, <1>10 DEF PlaceInv
  <2>4. /\ ~s.done[p] /\ s.running[p] = Cardinality(Reads(t, p)) /\ Lists(t, p) = {}
        /\ \A q \in Places : s.running[q] <= Readers[q]
    BY <1>2, <1>6, <1>7, <1>8, <1>9, <1>10
  <2>5. s.id = ui.loading
    BY <1>2, <1>10
  <2> HIDE DEF p
  <2>6. Elsewhere(s, t, p)
    BY <1>2, <1>7, <1>10, <2>1, <2>2, <2>4, <2>5, <1>9 DEF Elsewhere
  <2>7. HasBooks(s, t, p)
    BY <1>10, <2>3, <2>4 DEF HasBooks
  <2> QED
    BY <2>6, <2>7
<1>11. \/ Continue([scanning EXCEPT !.running = ru, !.found = more(scanning.found)], p, t)
       \/ Continue([scanning EXCEPT !.running = ru, !.unreadable = more(scanning.unreadable)], p, t)
  BY DEF Read, t, run
<1>12. more(scanning.found) \in SUBSET Copies /\ more(scanning.unreadable) \in SUBSET Copies
  BY <1>2, <1>3 DEF Scans
<1>16. k.about \in Copies /\ p \in Places
  BY <1>3
<1> HIDE DEF ru, more, p
<1>13. ASSUME NEW x \in SUBSET Copies
       PROVE  /\ [scanning EXCEPT !.running = ru, !.found = x] \in Scans
              /\ [scanning EXCEPT !.running = ru, !.unreadable = x] \in Scans
  BY <1>2, <1>9 DEF Scans
<1> DEFINE Goal == \E s \in Scans :
                 /\ Elsewhere(s, t, p) /\ Continue(s, p, t) /\ HasBooks(s, t, p)
                 /\ s.queue = scanning.queue
                 /\ scanning.found \subseteq s.found
                 /\ s.found \union s.unreadable
                      = scanning.found \union scanning.unreadable \union {k.about}
<1>14. ASSUME Continue([scanning EXCEPT !.running = ru, !.found = more(scanning.found)], p, t)
       PROVE  Goal
  <2> DEFINE s == [scanning EXCEPT !.running = ru, !.found = more(scanning.found)]
  <2>1. /\ s \in Scans /\ s.id = scanning.id /\ s.indexed = scanning.indexed
        /\ s.running = ru /\ s.queue = scanning.queue /\ s.done = scanning.done
        /\ s.status = scanning.status
        /\ s.found = more(scanning.found) /\ s.unreadable = scanning.unreadable
    BY <1>2, <1>12, <1>13 DEF Scans
  <2>2. Continue(s, p, t)
    BY <1>14
  <2> HIDE DEF s
  <2>3. Elsewhere(s, t, p) /\ HasBooks(s, t, p)
    BY <1>10, <2>1
  <2>4. scanning.found \subseteq s.found
        /\ s.found \union s.unreadable = scanning.found \union scanning.unreadable \union {k.about}
    BY <2>1 DEF more
  <2> QED
    BY <2>1, <2>2, <2>3, <2>4
<1>15. ASSUME Continue([scanning EXCEPT !.running = ru, !.unreadable = more(scanning.unreadable)],
                       p, t)
       PROVE  Goal
  <2> DEFINE s == [scanning EXCEPT !.running = ru, !.unreadable = more(scanning.unreadable)]
  <2>1. /\ s \in Scans /\ s.id = scanning.id /\ s.indexed = scanning.indexed
        /\ s.running = ru /\ s.queue = scanning.queue /\ s.done = scanning.done
        /\ s.status = scanning.status
        /\ s.unreadable = more(scanning.unreadable) /\ s.found = scanning.found
    BY <1>2, <1>12, <1>13 DEF Scans
  <2>2. Continue(s, p, t)
    BY <1>15
  <2> HIDE DEF s
  <2>3. Elsewhere(s, t, p) /\ HasBooks(s, t, p)
    BY <1>10, <2>1
  <2>4. scanning.found \subseteq s.found
        /\ s.found \union s.unreadable = scanning.found \union scanning.unreadable \union {k.about}
    BY <2>1 DEF more
  <2> QED
    BY <2>1, <2>2, <2>3, <2>4
<1>17. Goal
  BY <1>11, <1>14, <1>15
<1> HIDE DEF Goal
<1>18. /\ t \in SUBSET Tasks /\ disk' = disk /\ left' = left /\ k.kind = "read" /\ k \in Reads(tasks, p)
       /\ Reads(t, p) = Reads(tasks, p) \ {k} /\ Lists(tasks, p) = {} /\ ~scanning.done[p]
  BY <1>1, <1>2, <1>3, <1>6, <1>7 DEF p
<1> QED
  BY <1>16, <1>17, <1>18 DEF Goal, p, t

LEMMA ReadKeeps ==
  ASSUME IInv, ~ended, NEW k \in tasks, Read(k)
  PROVE  IInv'
<1> DEFINE t == tasks \ {k}
           p == k.about.place
<1>1. /\ p \in Places /\ t \in SUBSET Tasks /\ disk' = disk /\ left' = left
      /\ \E s \in Scans : Elsewhere(s, t, p) /\ Continue(s, p, t) /\ HasBooks(s, t, p)
  BY ReadIs
<1> HIDE DEF t, p
<1> QED
  BY <1>1, ContinueKeeps DEF Elsewhere, HasBooks


-----------------------------------------------------------------------------
(* Messages that something is over. *)

(* Performing what a message makes of the model, once its task is gone. *)
LEMMA OverKeeps ==
  ASSUME IInv, ~ended, disk' = disk /\ left' = left, NEW m \in Models, NEW n, NEW j \in Jobs,
         NEW k \in tasks, Outcome(m, n),
         Flight(m, scanning, j, tasks \ {k}),
         Perform(n, scanning, j, tasks \ {k})
  PROVE  IInv'
<1> DEFINE t == tasks \ {k}
<1>1. Typed(m, scanning, j, t) /\ ended = FALSE
  BY DEF IInv, TypeOK, Typed
<1> HIDE DEF t
<1>2. /\ Typed(ui', scanning', job', tasks') /\ ui'.effect = NoEffect
      /\ Flight(ui', scanning', job', tasks')
      /\ ended' \in BOOLEAN /\ (ended' => tasks' = {})
  BY <1>1, PerformKeeps DEF t
<1>3. TypeOK'
  BY <1>2 DEF IInv, TypeOK, Typed
<1> QED
  BY <1>2, <1>3 DEF IInv, QuitIsClean

(* The library was read and the cache is saved. *)
LEMMA SavedKeeps ==
  ASSUME IInv, ~ended, NEW k \in tasks, Saved(k)
  PROVE  IInv'
<1> DEFINE t == tasks \ {k}
           shown == IF ui.pendingCatalog = None THEN ui.catalog ELSE ui.pendingCatalog
           m == [ui EXCEPT !.retaining = FALSE, !.loading = 0, !.pendingCatalog = None,
                           !.catalog = shown]
<1>0. ui \in Models /\ ui.effect = NoEffect
  BY DEF IInv, TypeOK
<1>1. k.kind = "save" /\ disk' = disk /\ left' = left /\ k \in Of(tasks, {"save"})
  BY DEF Saved, Of
<1>2. /\ scanning = NoScan /\ Slot(ui.loading, Of(tasks, {"save"}))
      /\ Of(tasks, {"index", "list", "read"}) = {}
  <2>1. Of(tasks, {"list", "read", "save"}) # {} /\ Of(tasks, {"index", "save"}) # {}
    BY <1>1 DEF Of
  <2> QED
    BY <2>1 DEF IInv, Flight, ScanInv
<1>3. ui.loading = k.id /\ ui.loading # 0 /\ Of(tasks, {"save"}) = {k}
  BY <1>1, <1>2, SlotDrop
<1>4. CatalogFinished(ui, k.id) = DeferredRefresh(m)
  BY <1>3 DEF CatalogFinished
<1>5. Perform(DeferredRefresh(m), scanning, job, t)
  BY <1>4 DEF Saved
<1>6. shown \in Snapshots
  BY <1>0 DEF Models
<1> HIDE DEF shown
<1>7. /\ m \in Models /\ m.effect = NoEffect /\ m.busy = ui.busy /\ m.loading = 0
      /\ m.configuring = ui.configuring /\ m.correcting = ui.correcting
  BY <1>0, <1>6 DEF Models
<1> HIDE DEF m
<1>8. Outcome(m, DeferredRefresh(m))
  BY <1>7, DeferredOutcome
<1>9. Of(t, {"save"}) = {} /\ Of(t, {"index", "list", "read"}) = {}
  BY <1>2, <1>3 DEF Of
<1>10. Of(t, Works) = Of(tasks, Works) /\ Of(t, Panels) = Of(tasks, Panels)
  BY <1>1 DEF Of, Works, Panels
<1> HIDE DEF t
<1>11. ScanInv(0, scanning, t)
  BY <1>2, <1>9 DEF ScanInv, Slot
<1>12. WorkInv(ui.busy, job, t)
  BY <1>10, WorkFrame DEF IInv, Flight
<1>13. PanelInv(ui.busy, ui.configuring, ui.correcting, t)
  BY <1>10, PanelFrame DEF IInv, Flight
<1>14. Flight(m, scanning, job, t)
  BY <1>7, <1>11, <1>12, <1>13 DEF Flight
<1>15. job \in Jobs
  BY DEF IInv, TypeOK
<1> QED
  BY <1>1, <1>5, <1>7, <1>8, <1>14, <1>15, OverKeeps DEF t

(* A job or a removal is over: nothing of its kind is in flight. *)
LEMMA FinishedKeeps ==
  ASSUME IInv, ~ended, disk' = disk /\ left' = left, NEW k \in tasks, k.kind \in Works,
         NEW ok \in BOOLEAN, NEW j \in Jobs, j.id = 0,
         Perform(Finished(ui, k.id, ok), scanning, j, tasks \ {k})
  PROVE  IInv'
<1> DEFINE t == tasks \ {k}
           again == ui.pendingRefresh \/ ok
           m == [ui EXCEPT !.busy = 0, !.pendingRefresh = again]
<1>0. ui \in Models /\ ui.effect = NoEffect
  BY DEF IInv, TypeOK
<1>1. k \in Of(tasks, Works) /\ Slot(ui.busy, Of(tasks, Works))
  BY DEF Of, IInv, Flight, WorkInv
<1>2. ui.busy = k.id /\ ui.busy # 0 /\ Of(tasks, Works) = {k}
  BY <1>1, SlotDrop
<1>3. Perform(DeferredRefresh(m), scanning, j, t)
  BY <1>2 DEF Finished
<1>4. again \in BOOLEAN
  BY <1>0 DEF Models
<1> HIDE DEF again
<1>5. /\ m \in Models /\ m.effect = NoEffect /\ m.busy = 0 /\ m.loading = ui.loading
      /\ m.configuring = ui.configuring /\ m.correcting = ui.correcting
  BY <1>0, <1>4 DEF Models
<1> HIDE DEF m
<1>6. Outcome(m, DeferredRefresh(m))
  BY <1>5, DeferredOutcome
<1>7. Of(t, Works) = {} /\ Of(t, {"copy"}) = {}
  BY <1>2 DEF Of, Works
<1>8. Of(t, Panels) = Of(tasks, Panels) /\ Of(t, ScanKinds) = Of(tasks, ScanKinds)
  BY DEF Of, Works, Panels, ScanKinds
<1> HIDE DEF t
<1>9. WorkInv(0, j, t)
  BY <1>7 DEF WorkInv, Slot
<1>10. PanelInv(ui.busy, ui.configuring, ui.correcting, t)
  BY <1>8, PanelFrame DEF IInv, Flight
<1>11. PanelInv(0, ui.configuring, ui.correcting, t)
  BY <1>10 DEF PanelInv
<1>12. ScanInv(ui.loading, scanning, t)
  BY <1>8, ScanFrame DEF IInv, Flight
<1>13. Flight(m, scanning, j, t)
  BY <1>5, <1>9, <1>11, <1>12 DEF Flight
<1> QED
  BY <1>3, <1>5, <1>6, <1>13, OverKeeps DEF t

(* A deletion is the only work, and no job is left. *)
LEMMA RemovesAlone ==
  ASSUME IInv, NEW k \in tasks, k.kind = "remove"
  PROVE  job \in Jobs /\ job.id = 0 /\ k.kind \in Works
<1>1. job \in Jobs /\ WorkInv(ui.busy, job, tasks)
  BY DEF IInv, TypeOK, Flight
<1>2. k \in Of(tasks, Works) /\ k \notin Of(tasks, {"copy"}) /\ k.kind \in Works
  BY DEF Of, Works
<1>3. Of(tasks, Works) = {k}
  <2>1. Slot(ui.busy, Of(tasks, Works))
    BY <1>1 DEF WorkInv
  <2> QED
    BY <1>2, <2>1 DEF Slot
<1>4. Of(tasks, {"copy"}) = {}
  <2>1. Of(tasks, {"copy"}) \subseteq Of(tasks, Works)
    BY DEF Of, Works
  <2> QED
    BY <1>2, <1>3, <2>1
<1> QED
  BY <1>1, <1>2, <1>4 DEF WorkInv

LEMMA RemovedKeeps ==
  ASSUME IInv, ~ended, NEW k \in tasks, Removed(k)
  PROVE  IInv'
<1>1. /\ k.kind = "remove" /\ disk' = disk /\ left' = left
      /\ Perform(Finished(ui, k.id, k.result = "ok"), scanning, job, tasks \ {k})
  BY DEF Removed
<1>2. job \in Jobs /\ job.id = 0 /\ k.kind \in Works
  BY <1>1, RemovesAlone
<1> DEFINE ok == k.result = "ok"
<1>3. ok \in BOOLEAN
  OBVIOUS
<1>4. Perform(Finished(ui, k.id, ok), scanning, job, tasks \ {k})
  BY <1>1
<1> HIDE DEF ok
<1> QED
  BY <1>1, <1>2, <1>3, <1>4, FinishedKeeps


(* A job without books. *)
LEMMA NoJobIs == NoJob \in Jobs /\ NoJob.id = 0
<1>1. Cardinality({}) = 0
  BY FS_EmptySet
<1> QED
  BY <1>1 DEF NoJob, NewJob, Jobs

(* One more book of the job is being copied. *)
LEMMA NextBookKeeps ==
  ASSUME IInv, ~ended, disk' = disk /\ left' = left, NEW k \in tasks, k.kind = "copy", k.id = job.id,
         NEW j \in Jobs, j.id = job.id, j.target = job.target, j.pending = job.pending,
         j.total = job.total, j.copied + j.failures = job.copied + job.failures + 1,
         NEW c \in job.pending,
         job' = Begun(j, c), tasks' = (tasks \ {k}) \union {Task("copy", j.id, c)},
         UNCHANGED <<ui, scanning, ended>>
  PROVE  IInv'
<1> DEFINE t == tasks \ {k}
           l == Task("copy", j.id, c)
           rest == job.pending \ {c}
           b == [j EXCEPT !.pending = rest]
<1>0. job \in Jobs /\ ui \in Models
  BY DEF IInv, TypeOK
<1>1. k \in Of(tasks, Works) /\ k \in Of(tasks, {"copy"})
  BY DEF Of, Works
<1>2. WorkInv(ui.busy, job, tasks)
  BY DEF IInv, Flight
<1>3. ui.busy = k.id /\ ui.busy # 0 /\ Of(tasks, Works) = {k}
  BY <1>1, <1>2, SlotDrop DEF WorkInv
<1>4. /\ job.target \in Places
      /\ job.copied + job.failures + Cardinality(job.pending) + 1 = job.total
  BY <1>1, <1>2 DEF WorkInv
<1>5. job.pending \subseteq Copies /\ c \in Copies /\ j.id \in Nat
  BY <1>0 DEF Jobs
<1>6. l \in Tasks /\ l.kind = "copy" /\ l.id = j.id /\ l.about = c
  BY <1>5, TaskIs
<1> HIDE DEF l
<1>7. Cardinality(rest) = Cardinality(job.pending) - 1 /\ Cardinality(job.pending) \in Nat
  <2>1. IsFiniteSet(job.pending)
    BY <1>5, CopiesFinite, FS_Subset
  <2> QED
    BY <2>1, FS_RemoveElement, FS_CardinalityType
<1>8. rest \in SUBSET Copies
  BY <1>5
<1>9. job' = b /\ tasks' = t \union {l}
  BY DEF Begun, l
<1>10. /\ b \in Jobs /\ b.id = j.id /\ b.target = j.target /\ b.pending = rest
       /\ b.total = j.total /\ b.copied = j.copied /\ b.failures = j.failures
  BY <1>8 DEF Jobs
<1> HIDE DEF b
<1>11. b.copied + b.failures + Cardinality(b.pending) + 1 = b.total
  <2> DEFINE was == Cardinality(job.pending)
             is == Cardinality(rest)
  <2>1. was \in Nat /\ is = was - 1 /\ b.copied + b.failures = job.copied + job.failures + 1
    BY <1>7, <1>10
  <2>2. job.copied + job.failures + was + 1 = b.total
    BY <1>4, <1>10
  <2>3. job.copied \in Nat /\ job.failures \in Nat /\ b.copied \in Nat /\ b.failures \in Nat
    BY <1>0, <1>10 DEF Jobs
  <2> HIDE DEF was, is
  <2>4. b.copied + b.failures + is + 1 = b.total
    BY <2>1, <2>2, <2>3
  <2> QED
    BY <1>10, <2>4 DEF is
<1>12. Of(t \union {l}, Works) = {l} /\ l \in Of(t \union {l}, {"copy"})
  BY <1>3, <1>6 DEF Of, Works
<1>13. Of(t \union {l}, Panels) = Of(tasks, Panels) /\ Of(t \union {l}, ScanKinds) = Of(tasks, ScanKinds)
  BY <1>6 DEF Of, Panels, ScanKinds
<1>14. t \union {l} \subseteq Tasks
  BY <1>6 DEF IInv, TypeOK
<1> HIDE DEF t, rest
<1>15. WorkInv(ui.busy, b, t \union {l})
  <2>1. Slot(ui.busy, Of(t \union {l}, Works))
    BY <1>3, <1>6, <1>12 DEF Slot
  <2>2. \A x \in Of(t \union {l}, Works) : x.about \in Copies
    BY <1>5, <1>6, <1>12
  <2>3. b.id # 0 /\ b.id = ui.busy /\ Of(t \union {l}, {"copy"}) # {} /\ b.target \in Places
    BY <1>3, <1>4, <1>10, <1>12
  <2> QED
    BY <1>11, <2>1, <2>2, <2>3 DEF WorkInv
<1>16. PanelInv(ui.busy, ui.configuring, ui.correcting, t \union {l})
  BY <1>13, PanelFrame DEF IInv, Flight
<1>17. ScanInv(ui.loading, scanning, t \union {l})
  BY <1>13, ScanFrame DEF IInv, Flight
<1>18. Flight(ui', scanning', job', tasks')
  BY <1>9, <1>15, <1>16, <1>17 DEF Flight
<1>19. TypeOK'
  BY <1>9, <1>10, <1>14 DEF IInv, TypeOK
<1> QED
  BY <1>18, <1>19 DEF IInv, QuitIsClean

LEMMA CopiedKeeps ==
  ASSUME IInv, ~ended, NEW k \in tasks, Copied(k)
  PROVE  IInv'
<1> DEFINE j == IF k.result = "ok" THEN [job EXCEPT !.copied = job.copied + 1]
                ELSE [job EXCEPT !.failures = job.failures + 1]
           ok == Succeeded(j)
<1>0. job \in Jobs
  BY DEF IInv, TypeOK
<1>1. /\ k.kind = "copy" /\ job.id = k.id /\ disk' = disk /\ left' = left
      /\ IF j.cancel \/ j.pending = {}
         THEN Perform(Finished(ui, j.id, ok), scanning, NoJob, tasks \ {k})
         ELSE \E c \in j.pending :
                /\ job' = Begun(j, c)
                /\ tasks' = (tasks \ {k}) \union {Task("copy", j.id, c)}
                /\ UNCHANGED <<ui, scanning, ended>>
  BY DEF Copied
<1>2. /\ j \in Jobs /\ j.id = job.id /\ j.target = job.target /\ j.pending = job.pending
      /\ j.total = job.total /\ j.copied + j.failures = job.copied + job.failures + 1
  BY <1>0 DEF Jobs
<1>3. ok \in BOOLEAN
  BY DEF Succeeded
<1> HIDE DEF ok, j
<1>4. CASE j.cancel \/ j.pending = {}
  <2>1. Perform(Finished(ui, k.id, ok), scanning, NoJob, tasks \ {k})
    BY <1>1, <1>2, <1>4
  <2> QED
    BY <1>1, <1>3, <2>1, NoJobIs, FinishedKeeps DEF Works
<1>5. CASE ~(j.cancel \/ j.pending = {})
  <2>1. PICK c \in j.pending :
          /\ job' = Begun(j, c)
          /\ tasks' = (tasks \ {k}) \union {Task("copy", j.id, c)}
          /\ UNCHANGED <<ui, scanning, ended>>
    BY <1>1, <1>5
  <2> QED
    BY <1>1, <1>2, <2>1, NextBookKeeps
<1> QED
  BY <1>4, <1>5

(* A panel's task is over. *)
LEMMA PanelOver ==
  ASSUME IInv, ~ended, disk' = disk /\ left' = left, NEW k \in tasks, k.kind \in Panels,
         NEW m \in Models, NEW n, Outcome(m, n),
         m.busy = ui.busy, m.loading = ui.loading, m.configuring = 0,
         m.correcting \in {ui.correcting, None},
         Perform(n, scanning, job, tasks \ {k})
  PROVE  IInv'
<1> DEFINE t == tasks \ {k}
<1>1. Of(t, Works) = Of(tasks, Works) /\ Of(t, ScanKinds) = Of(tasks, ScanKinds)
  BY DEF Of, Works, Panels, ScanKinds
<1>2. k \in Of(tasks, Panels) /\ PanelInv(ui.busy, ui.configuring, ui.correcting, tasks)
  BY DEF Of, IInv, Flight
<1>3. Of(tasks, Panels) = {k}
  BY <1>2, SlotDrop DEF PanelInv
<1>4. Of(t, Panels) = {} /\ Of(t, {"correct"}) = {}
  BY <1>3 DEF Of, Panels
<1> HIDE DEF t
<1>5. WorkInv(ui.busy, job, t)
  BY <1>1, WorkFrame DEF IInv, Flight
<1>6. PanelInv(m.busy, m.configuring, m.correcting, t)
  BY <1>2, <1>4 DEF PanelInv, Slot
<1>7. ScanInv(ui.loading, scanning, t)
  BY <1>1, ScanFrame DEF IInv, Flight
<1>8. Flight(m, scanning, job, t)
  BY <1>5, <1>6, <1>7 DEF Flight
<1>9. job \in Jobs
  BY DEF IInv, TypeOK
<1> QED
  BY <1>8, <1>9, OverKeeps DEF t

(* It was the panel's own task, which is not an earlier one's. *)
LEMMA PanelId ==
  ASSUME IInv, NEW k \in tasks, k.kind \in Panels
  PROVE  ui.configuring = k.id
<1>1. k \in Of(tasks, Panels) /\ Slot(ui.configuring, Of(tasks, Panels))
  BY DEF Of, IInv, Flight, PanelInv
<1> QED
  BY <1>1, SlotDrop

LEMMA CorrectionDoneKeeps ==
  ASSUME IInv, ~ended, NEW k \in tasks, CorrectionDone(k)
  PROVE  IInv'
<1> DEFINE ok == k.result = "ok"
           a == [ui EXCEPT !.configuring = 0]
           b == [ui EXCEPT !.configuring = 0, !.correcting = None]
<1>0. ui \in Models /\ ui.effect = NoEffect
  BY DEF IInv, TypeOK
<1>1. /\ k.kind = "correct" /\ k.kind \in Panels /\ disk' = disk /\ left' = left
      /\ Perform(Corrected(ui, k.id, ok), scanning, job, tasks \ {k})
  BY DEF CorrectionDone, Panels
<1>2. ui.configuring = k.id
  BY <1>1, PanelId
<1>3. Corrected(ui, k.id, ok) \in {Settled(a), Settled(b), Refresh(b)}
  BY <1>2 DEF Corrected
<1> HIDE DEF ok
<1>4. /\ a \in Models /\ a.effect = NoEffect /\ a.busy = ui.busy /\ a.loading = ui.loading
      /\ a.configuring = 0 /\ a.correcting = ui.correcting
  BY <1>0 DEF Models
<1>5. /\ b \in Models /\ b.effect = NoEffect /\ b.busy = ui.busy /\ b.loading = ui.loading
      /\ b.configuring = 0 /\ b.correcting = None
  BY <1>0 DEF Models
<1> HIDE DEF a, b
<1>6. Outcome(a, Settled(a)) /\ Outcome(b, Settled(b)) /\ Outcome(b, Refresh(b))
  BY <1>4, <1>5, SettledOutcome, RefreshOutcome
<1>7. CASE Corrected(ui, k.id, ok) = Settled(a)
  BY <1>1, <1>4, <1>6, <1>7, PanelOver
<1>8. CASE Corrected(ui, k.id, ok) = Settled(b)
  BY <1>1, <1>5, <1>6, <1>8, PanelOver
<1>9. CASE Corrected(ui, k.id, ok) = Refresh(b)
  BY <1>1, <1>5, <1>6, <1>9, PanelOver
<1> QED
  BY <1>3, <1>7, <1>8, <1>9

LEMMA SettingsDoneKeeps ==
  ASSUME IInv, ~ended, NEW k \in tasks, SettingsDone(k)
  PROVE  IInv'
<1> DEFINE a == [ui EXCEPT !.configuring = 0]
           b == [ui EXCEPT !.configuring = 0, !.settings = "closed", !.restart = TRUE]
<1>0. ui \in Models /\ ui.effect = NoEffect
  BY DEF IInv, TypeOK
<1>1. PICK saved \in BOOLEAN :
        Perform(Configured(ui, k.id, saved), scanning, job, tasks \ {k})
  BY DEF SettingsDone
<1>2. k.kind \in Panels /\ disk' = disk /\ left' = left
  BY DEF SettingsDone, Panels
<1>3. ui.configuring = k.id
  BY <1>2, PanelId
<1>4. Configured(ui, k.id, saved) \in {Settled(a), Quit(b)}
  BY <1>3 DEF Configured
<1>5. /\ a \in Models /\ a.effect = NoEffect /\ a.busy = ui.busy /\ a.loading = ui.loading
      /\ a.configuring = 0 /\ a.correcting = ui.correcting
  BY <1>0 DEF Models
<1>6. /\ b \in Models /\ b.effect = NoEffect /\ b.busy = ui.busy /\ b.loading = ui.loading
      /\ b.configuring = 0 /\ b.correcting = ui.correcting
  BY <1>0 DEF Models
<1> HIDE DEF a, b
<1>7. Outcome(a, Settled(a)) /\ Outcome(b, Quit(b))
  BY <1>5, <1>6, SettledOutcome, QuitOutcome
<1>8. CASE Configured(ui, k.id, saved) = Settled(a)
  BY <1>1, <1>2, <1>5, <1>7, <1>8, PanelOver
<1>9. CASE Configured(ui, k.id, saved) = Quit(b)
  BY <1>1, <1>2, <1>6, <1>7, <1>9, PanelOver
<1> QED
  BY <1>4, <1>8, <1>9


LEMMA MessagesKeep ==
  ASSUME IInv, Messages
  PROVE  IInv'
<1>1. ~ended
  BY DEF Messages
<1>2. PICK k \in tasks :
        \/ Indexed(k) \/ ListingIn(k) \/ Read(k) \/ Saved(k)
        \/ Copied(k) \/ Removed(k) \/ CorrectionDone(k) \/ SettingsDone(k)
  BY DEF Messages
<1> QED
  BY <1>1, <1>2, IndexedKeeps, ListingInKeeps, ReadKeeps, SavedKeeps, CopiedKeeps,
     RemovedKeeps, CorrectionDoneKeeps, SettingsDoneKeeps

-----------------------------------------------------------------------------
(* The invariant holds. *)

(* Before anything is read. *)
LEMMA NewModelIs ==
  ASSUME NEW first \in BOOLEAN
  PROVE  LET m == NewModel(first)
         IN  /\ m \in Models /\ m.effect = NoEffect
             /\ m.busy = 0 /\ m.loading = 0 /\ m.configuring = 0 /\ m.nextId = 0
             /\ m.correcting = None /\ ~m.pendingQuit /\ ~m.pendingRefresh /\ ~m.retaining
             /\ m.pendingCatalog = None /\ m.catalog.copies = {} /\ m.catalog.unreadable = {}
             /\ \A p \in Places : m.catalog.status[p] = "checking"
<1> DEFINE none == [copies |-> {}, unreadable |-> {}, status |-> [p \in Places |-> "checking"]]
<1>1. /\ none \in Snapshots /\ none.copies = {} /\ none.unreadable = {}
      /\ \A p \in Places : none.status[p] = "checking"
  BY DEF Snapshots
<1> HIDE DEF none
<1> DEFINE set == IF first THEN "first" ELSE "closed"
<1>2. set \in {"closed", "first", "open"}
  OBVIOUS
<1> HIDE DEF set
<1>3. NewModel(first) =
        [busy |-> 0, loading |-> 0, configuring |-> 0, nextId |-> 0,
         pendingRefresh |-> FALSE, pendingQuit |-> FALSE, retaining |-> FALSE, restart |-> FALSE,
         correcting |-> None, settings |-> set,
         action |-> {}, ask |-> None, copies |-> {}, confirm |-> None,
         catalog |-> none, pendingCatalog |-> None, effect |-> NoEffect]
  BY DEF NewModel, none, set
<1> QED
  BY <1>1, <1>2, <1>3, PlainEffects DEF Models

LEMMA InitIs == Init => IInv
<1> SUFFICES ASSUME Init
             PROVE  IInv
  OBVIOUS
<1>1. disk \subseteq Copies /\ left = {} /\ ended = FALSE /\ job = NoJob /\ job \in Jobs /\ job.id = 0
  BY DisksAssumption, NoJobIs DEF Init
<1>2. CASE ui = NewModel(TRUE) /\ scanning = NoScan /\ tasks = {}
  <2>1. /\ ui \in Models /\ ui.effect = NoEffect /\ ui.busy = 0 /\ ui.loading = 0
        /\ ui.configuring = 0 /\ ui.correcting = None
    BY <1>2, NewModelIs
  <2>2. scanning \in Scans /\ \A p \in Places : scanning.running[p] <= Readers[p]
    BY <1>2, NewScanIs DEF NoScan
  <2>3. \A kinds : Of(tasks, kinds) = {}
    BY <1>2 DEF Of
  <2>4. Flight(ui, scanning, job, tasks)
    BY <1>1, <1>2, <2>1, <2>3 DEF Flight, WorkInv, PanelInv, ScanInv, Slot
  <2> QED
    BY <1>1, <1>2, <2>1, <2>2, <2>4 DEF IInv, TypeOK, QuitIsClean
<1>3. CASE /\ ui = [Refresh(NewModel(FALSE)) EXCEPT !.effect = NoEffect]
           /\ scanning = NewScan(1) /\ tasks = {Task("index", 1, None)}
  <2> DEFINE m == NewModel(FALSE)
             n == Refresh(m)
             x == Task("index", 1, None)
  <2>1. /\ m \in Models /\ m.effect = NoEffect /\ m.busy = 0 /\ m.loading = 0 /\ m.nextId = 0
        /\ m.configuring = 0 /\ m.correcting = None /\ ~m.pendingQuit
    BY NewModelIs
  <2> HIDE DEF m
  <2>2. n \in Models /\ n.busy = 0 /\ n.configuring = 0 /\ n.correcting = None
    BY <2>1, RefreshOutcome DEF Outcome
  <2>3. n.loading = 1
    BY <2>1 DEF Refresh, Models
  <2> HIDE DEF n
  <2>4. /\ ui \in Models /\ ui.effect = NoEffect /\ ui.busy = 0 /\ ui.loading = 1
        /\ ui.configuring = 0 /\ ui.correcting = None
    BY <1>3, <2>2, <2>3, WithoutEffect DEF m, n
  <2>5. x \in Tasks /\ x.kind = "index" /\ x.id = 1
    BY TaskIs
  <2>6. /\ scanning \in Scans /\ scanning.id = 1
        /\ \A p \in Places : scanning.running[p] <= Readers[p]
    BY <1>3, NewScanIs
  <2>7. tasks = {x}
    BY <1>3
  <2> HIDE DEF x
  <2>8. /\ Of(tasks, Works) = {} /\ Of(tasks, {"copy"}) = {} /\ Of(tasks, Panels) = {}
        /\ Of(tasks, {"correct"}) = {} /\ Of(tasks, {"index"}) = {x}
        /\ Of(tasks, {"list", "read", "save"}) = {}
    BY <2>5, <2>7 DEF Of, Works, Panels
  <2>9. ScanInv(ui.loading, scanning, tasks)
    <3>1. scanning = NewScan(scanning.id)
      BY <1>3, <2>6
    <3>2. Slot(ui.loading, Of(tasks, {"index"}))
      BY <2>4, <2>5, <2>8 DEF Slot
    <3> QED
      BY <2>4, <2>6, <2>8, <3>1, <3>2 DEF ScanInv
  <2>10. Flight(ui, scanning, job, tasks)
    BY <1>1, <2>4, <2>8, <2>9 DEF Flight, WorkInv, PanelInv, Slot
  <2> QED
    BY <1>1, <2>4, <2>5, <2>6, <2>7, <2>10 DEF IInv, TypeOK, QuitIsClean
<1> QED
  BY <1>2, <1>3 DEF Init

LEMMA StutterKeeps == IInv /\ UNCHANGED vars => IInv'
BY DEF IInv, TypeOK, QuitIsClean, Flight, vars

(* Everything the interface waits for is in flight, and nothing else is. *)
THEOREM FlightHolds == Spec => []IInv
<1>1. Init => IInv
  BY InitIs
<1>2. IInv /\ [Next]_vars => IInv'
  BY KeysKeep, ThreadsKeep, MessagesKeep, StutterKeeps DEF Next
<1> QED
  BY <1>1, <1>2, PTL DEF Spec


(* Every field of the model, of the discovery, of the job and of the tasks *)
(* has its type, and no place is read by more readers than it allows.      *)
THEOREM TypeCorrect == Spec => []TypeOK
<1>1. IInv => TypeOK
  BY DEF IInv
<1> QED
  BY <1>1, FlightHolds, PTL

(* A slot's ids, and that it has one. *)
LEMMA SlotIds ==
  ASSUME NEW id, NEW S, Slot(id, S)
  PROVE  {k.id : k \in S} = {id} \ {0} /\ Cardinality(S) <= 1
<1>1. CASE S = {}
  <2>1. Cardinality(S) = 0
    BY <1>1, FS_EmptySet
  <2> QED
    BY <1>1, <2>1 DEF Slot
<1>2. CASE id # 0 /\ \E k \in S : S = {k} /\ k.id = id
  <2>1. PICK k \in S : S = {k} /\ k.id = id
    BY <1>2
  <2>2. Cardinality(S) = 1
    BY <2>1, FS_Singleton
  <2> QED
    BY <1>2, <2>1, <2>2
<1> QED
  BY <1>1, <1>2 DEF Slot

(* A discovery's tasks carry its id, and there is one until it is over. *)
LEMMA ScanIds ==
  ASSUME NEW loading, NEW s \in Scans, NEW t, ScanInv(loading, s, t)
  PROVE  /\ {k.id : k \in Of(t, ScanKinds)} = {loading} \ {0}
         /\ Of(t, {"save"}) # {} <=> loading # 0 /\ s.id = 0
         /\ s.id \in {0, loading}
<1>1. NoScan.id = 0
  BY NewScanIs DEF NoScan
<1>2. Of(t, ScanKinds) = Of(t, {"index"}) \union Of(t, {"list"}) \union Of(t, {"read"})
                         \union Of(t, {"save"})
  BY DEF Of, ScanKinds
<1>3. CASE /\ s = NoScan /\ Slot(loading, Of(t, {"save"}))
           /\ Of(t, {"index", "list", "read"}) = {}
  <2>1. Of(t, ScanKinds) = Of(t, {"save"})
    BY <1>3 DEF Of, ScanKinds
  <2>2. {k.id : k \in Of(t, {"save"})} = {loading} \ {0}
    BY <1>3, SlotIds
  <2>3. Of(t, {"save"}) # {} <=> loading # 0
    BY <1>3 DEF Slot
  <2> QED
    BY <1>1, <1>3, <2>1, <2>2, <2>3
<1>4. CASE /\ s.id # 0 /\ s.id = loading /\ s = NewScan(s.id)
           /\ Slot(loading, Of(t, {"index"}))
           /\ Of(t, {"list", "read", "save"}) = {}
  <2>1. Of(t, ScanKinds) = Of(t, {"index"}) /\ Of(t, {"save"}) = {}
    BY <1>4 DEF Of, ScanKinds
  <2>2. {k.id : k \in Of(t, {"index"})} = {loading} \ {0}
    BY <1>4, SlotIds
  <2> QED
    BY <1>4, <2>1, <2>2
<1>5. CASE s.id # 0 /\ s.id = loading /\ s.indexed
  <2>1. /\ ScanWorks(s, t) /\ \A p \in Places : PlaceInv(s, t, p)
        /\ \E p \in Places : ~s.done[p]
    BY <1>5, ScanIs
  <2>2. Of(t, {"index"}) = {} /\ Of(t, {"save"}) = {}
    BY <2>1 DEF ScanWorks, Of
  <2>3. \A k \in Of(t, {"list"}) \union Of(t, {"read"}) : k.id = loading
    <3>1. \A c : Task("read", s.id, c).id = s.id
      BY DEF Task
    <3> QED
      BY <1>5, <2>1, <3>1 DEF ScanWorks
  <2>4. Of(t, {"list"}) \union Of(t, {"read"}) # {}
    <3>1. PICK p \in Places : ~s.done[p]
      BY <2>1
    <3>2. CASE Lists(t, p) # {}
      BY <3>2 DEF Lists, Of
    <3>3. CASE Lists(t, p) = {}
      <4>1. s.running[p] > 0 /\ s.running[p] = Cardinality(Reads(t, p))
        BY <2>1, <3>1, <3>3 DEF PlaceInv
      <4>2. Reads(t, p) # {}
        BY <4>1, FS_EmptySet
      <4> QED
        BY <4>2 DEF Reads, Of
    <3> QED
      BY <3>2, <3>3
  <2>5. {k.id : k \in Of(t, ScanKinds)} = {loading}
    BY <1>2, <2>2, <2>3, <2>4
  <2> QED
    BY <1>5, <2>2, <2>5
<1> QED
  BY <1>3, <1>4, <1>5 DEF ScanInv

LEMMA FlightWaits == IInv => WaitsForWhatRuns
<1> SUFFICES ASSUME IInv
             PROVE  WaitsForWhatRuns
  OBVIOUS
<1>1. /\ WorkInv(ui.busy, job, tasks) /\ scanning \in Scans
      /\ PanelInv(ui.busy, ui.configuring, ui.correcting, tasks)
      /\ ScanInv(ui.loading, scanning, tasks)
  BY DEF IInv, TypeOK, Flight
<1>2. \A kinds : Flying(kinds) = Of(tasks, kinds)
  BY DEF Flying, Of
<1>3. /\ {k.id : k \in Of(tasks, Works)} = {ui.busy} \ {0}
      /\ Cardinality(Of(tasks, Works)) <= 1
  BY <1>1, SlotIds DEF WorkInv
<1>4. {k.id : k \in Of(tasks, Panels)} = {ui.configuring} \ {0}
  BY <1>1, SlotIds DEF PanelInv
<1>5. /\ {k.id : k \in Of(tasks, ScanKinds)} = {ui.loading} \ {0}
      /\ Of(tasks, {"save"}) # {} <=> ui.loading # 0 /\ scanning.id = 0
      /\ scanning.id \in {0, ui.loading}
  BY <1>1, ScanIds
<1>6. ASSUME NEW p \in Places
      PROVE  /\ scanning.running[p] = Cardinality({t \in Of(tasks, {"read"}) : t.about.place = p})
             /\ scanning.queue[p] # {} => scanning.running[p] = Readers[p]
  <2>1. {t \in Of(tasks, {"read"}) : t.about.place = p} = Reads(tasks, p)
    BY DEF Of, Reads
  <2>2. CASE scanning.indexed /\ scanning.id # 0
    <3>1. PlaceInv(scanning, tasks, p)
      BY <1>1, <2>2, ScanIs
    <3> QED
      BY <2>1, <3>1 DEF PlaceInv
  <2>3. CASE ~(scanning.indexed /\ scanning.id # 0)
    <3>1. Of(tasks, {"list", "read"}) = {}
      BY <1>1, <2>3, ScanIs DEF ScanWorks
    <3>2. Reads(tasks, p) = {}
      BY <3>1 DEF Reads, Of
    <3>3. Cardinality(Reads(tasks, p)) = 0
      BY <3>2, FS_EmptySet
    <3>4. scanning = NoScan \/ scanning = NewScan(scanning.id)
      BY <1>1, <2>3 DEF ScanInv
    <3>5. scanning.id \in Nat
      BY <1>1 DEF Scans
    <3>6. scanning.running[p] = 0 /\ scanning.queue[p] = {}
      BY <3>4, <3>5, NewScanIs DEF NoScan
    <3> QED
      BY <2>1, <3>3, <3>6
  <2> QED
    BY <2>2, <2>3
<1>7. Of(tasks, {"correct"}) # {} => ui.busy = 0
  BY <1>1 DEF PanelInv
<1> QED
  BY <1>2, <1>3, <1>4, <1>5, <1>6, <1>7 DEF WaitsForWhatRuns, Works, Panels

(* What the interface waits for is exactly what is in flight: no message   *)
(* of an earlier discovery or job can arrive (tui.rs and model.rs's ids).  *)
THEOREM NothingComesLate == Spec => []WaitsForWhatRuns
BY FlightHolds, FlightWaits, PTL

(* crossload never ends while something it began is under way: a quit      *)
(* waits (model.rs, Model::quit and the end of Model::update).              *)
THEOREM CleanEnd == Spec => []QuitIsClean
<1>1. IInv => QuitIsClean
  BY DEF IInv
<1> QED
  BY <1>1, FlightHolds, PTL

(* Every book of a copy job is accounted for until the job is over         *)
(* (tui.rs, Inner::Copied of update and Crossload::next_copy).              *)
THEOREM NoBookForgotten == Spec => []JobAddsUp
<1>1. IInv => JobAddsUp
  BY DEF IInv, Flight, WorkInv, JobAddsUp
<1> QED
  BY <1>1, FlightHolds, PTL


-----------------------------------------------------------------------------
(* The list, and what a copy or a deletion may rely on.                    *)

(* What a refresh that waited for a task is left with: nothing to wait for *)
(* without a reason.                                                       *)
LEMMA QuitWaits ==
  ASSUME NEW m \in Models, m.effect = NoEffect
  PROVE  /\ Waits(m) => Waits(Quit(m)) /\ Waits(Settled(m)) /\ Waits(Refresh(m))
         /\ Waits(DeferredRefresh(m))
<1>1. Outcome(m, Quit(m)) /\ Outcome(m, Settled(m)) /\ Outcome(m, Refresh(m))
  BY QuitOutcome, SettledOutcome, RefreshOutcome
<1>2. ASSUME NEW n, Outcome(m, n), Waits(m)
      PROVE  Waits(n)
  BY <1>2 DEF Outcome, Rests, Quits, Loads, Waits
<1>3. Waits(DeferredRefresh(m))
  <2>1. CASE m.pendingRefresh /\ m.busy = 0 /\ m.loading = 0 /\ ~m.pendingQuit
    <3>1. Refresh(m).effect = LoadEffect
      BY <2>1 DEF Refresh, LoadEffect, Models
    <3>2. NoEffect # LoadEffect /\ QuitEffect # LoadEffect
      BY PlainEffects
    <3>3. Loads(m, Refresh(m))
      BY <1>1, <3>1, <3>2 DEF Outcome, Rests, Quits
    <3> QED
      BY <2>1, <3>3 DEF DeferredRefresh, Loads, Waits
  <2>2. CASE ~(m.pendingRefresh /\ m.busy = 0 /\ m.loading = 0 /\ ~m.pendingQuit)
    <3>1. Waits(m)
      BY <2>2 DEF Waits
    <3> QED
      BY <1>1, <1>2, <2>2, <3>1 DEF DeferredRefresh
  <2> QED
    BY <2>1, <2>2
<1> QED
  BY <1>1, <1>2, <1>3

(* A refresh happens, or will, unless crossload quits. *)
LEMMA RefreshServes ==
  ASSUME NEW m \in Models, m.effect = NoEffect
  PROVE  LET n == Refresh(m)
         IN  n.pendingQuit \/ n.pendingRefresh \/ n.effect = LoadEffect
<1>1. Outcome(m, Settled(m))
  BY SettledOutcome
<1> QED
  BY <1>1 DEF Refresh, LoadEffect, Models, Outcome

LEMMA SeenFrame ==
  ASSUME NEW s, NEW t, NEW u, NEW d, NEW e, NEW p,
         Lists(t, p) = Lists(u, p), Reads(t, p) = Reads(u, p), At(d, p) = At(e, p),
         Seen(s, t, d, p)
  PROVE  Seen(s, u, e, p)
BY DEF Seen

(* The fields of a model that say what it waits for and what it shows. *)
SameList(m, n) ==
    /\ n.busy = m.busy /\ n.loading = m.loading
    /\ n.pendingRefresh = m.pendingRefresh /\ n.pendingQuit = m.pendingQuit
    /\ n.retaining = m.retaining
    /\ n.catalog = m.catalog /\ n.pendingCatalog = m.pendingCatalog

(* A step that leaves them alone, and that ends no work. *)
LEMMA RestFrame ==
  ASSUME NEW m, NEW n, NEW s, NEW j, NEW i, NEW t, NEW u, NEW d, NEW e,
         RestInv(m, s, j, t, d, e), SameList(m, n), Working(m) => Working(n),
         i.id = j.id, i.copied = j.copied,
         Of(u, {"remove"}) = Of(t, {"remove"}),
         \A k \in Of(t, {"copy", "remove", "correct"}) : k.result = "ok" => k \in u,
         \A p : Lists(u, p) = Lists(t, p) /\ Reads(u, p) = Reads(t, p)
  PROVE  RestInv(n, s, i, u, d, e)
<1>1. WaitInv(n, e)
  BY DEF RestInv, WaitInv, Waits, SameList
<1>2. KeptInv(n, s)
  BY DEF RestInv, KeptInv, SameList
<1>3. Dirty(m, j, t) => Dirty(n, i, u)
  BY DEF Dirty, SameList, Of
<1>4. CurrentInv(n, s, i, u, d)
  <2>1. \A p : Seen(s, t, d, p) => Seen(s, u, d, p)
    BY SeenFrame
  <2>2. Shown(n) = Shown(m) /\ n.loading = m.loading /\ n.pendingCatalog = m.pendingCatalog
    BY DEF Shown, SameList
  <2> QED
    BY <1>3, <2>1, <2>2 DEF RestInv, CurrentInv
<1>5. RemoveInv(n, u, d)
  BY DEF RestInv, RemoveInv, SameList
<1> QED
  BY <1>1, <1>2, <1>4, <1>5 DEF RestInv

(* Performing an outcome. *)
LEMMA PerformRest ==
  ASSUME NEW m, NEW n, NEW s, NEW j, NEW t, NEW d,
         WorkInv(m.busy, j, t), Outcome(m, n),
         Waits(n), KeptInv(m, s), RemoveInv(m, t, d),
         \/ CurrentInv(m, s, j, t, d)
         \/ n.pendingRefresh \/ n.pendingQuit \/ n.effect = LoadEffect,
         ended = FALSE, Perform(n, s, j, t)
  PROVE  RestInv(ui', scanning', job', tasks', d, ended')
<1> DEFINE k == [n EXCEPT !.effect = NoEffect]
<1>1. ui' = k /\ n \in Models
  BY DEF Perform, Outcome
<1>2. /\ k \in Models /\ SameList(n, k) /\ k.configuring = n.configuring
  BY <1>1, WithoutEffect DEF SameList
<1> HIDE DEF k
<1>3. Working(k) <=> Working(n)
  BY <1>2 DEF SameList, Working
<1>4. CASE Rests(m, n) \/ Quits(m, n)
  <2>1. scanning' = s /\ job' = j /\ tasks' = t
    BY <1>4, PlainEffects DEF Perform, Rests, Quits
  <2>2. WaitInv(k, ended')
    <3>1. Quits(m, n) => ended'
      BY PlainEffects DEF Perform, Quits
    <3>2. Waits(k)
      BY <1>2 DEF Waits, SameList
    <3> QED
      BY <1>2, <1>3, <1>4, <3>1, <3>2 DEF WaitInv, Rests, SameList
  <2>3. /\ k.busy = m.busy /\ k.loading = m.loading /\ k.retaining = m.retaining
        /\ k.catalog = m.catalog /\ k.pendingCatalog = m.pendingCatalog
        /\ m.pendingRefresh => k.pendingRefresh
        /\ m.pendingQuit => k.pendingQuit
        /\ n.pendingRefresh => k.pendingRefresh
        /\ n.pendingQuit => k.pendingQuit
    BY <1>2, <1>4 DEF SameList, Outcome, Rests, Quits
  <2>4. KeptInv(k, s)
    BY <2>3 DEF KeptInv
  <2>5. RemoveInv(k, t, d)
    BY <2>3 DEF RemoveInv
  <2>6. n.effect # LoadEffect
    BY <1>4, PlainEffects DEF Rests, Quits
  <2>7. CurrentInv(k, s, j, t, d)
    <3>1. CASE n.pendingRefresh \/ n.pendingQuit
      BY <2>3, <3>1 DEF CurrentInv, Dirty
    <3>2. CASE CurrentInv(m, s, j, t, d)
      <4>1. Dirty(m, j, t) => Dirty(k, j, t)
        BY <2>3 DEF Dirty
      <4>2. Shown(k) = Shown(m)
        BY <2>3 DEF Shown
      <4> QED
        BY <2>3, <3>2, <4>1, <4>2 DEF CurrentInv
    <3> QED
      BY <2>6, <3>1, <3>2
  <2> QED
    BY <1>1, <2>1, <2>2, <2>4, <2>5, <2>7 DEF RestInv
<1>5. CASE Loads(m, n)
  <2> DEFINE x == Task("index", n.loading, None)
             z == NewScan(n.loading)
  <2>1. scanning' = z /\ job' = j /\ tasks' = t \union {x}
    BY <1>5, PlainEffects DEF Perform, Loads
  <2>2. n.loading \in Nat \ {0} /\ m.busy = 0
    BY <1>1, <1>5 DEF Loads, Models
  <2>3. x.kind = "index" /\ z.id # 0 /\ ~z.indexed
    BY <2>2, TaskIs, NewScanIs
  <2> HIDE DEF x, z
  <2>4. /\ ~k.pendingRefresh /\ ~k.pendingQuit /\ k.pendingCatalog = None
        /\ k.loading # 0
        /\ (k.retaining <=> k.catalog.copies \union k.catalog.unreadable # {})
    BY <1>2, <1>5 DEF SameList, Loads, Outcome
  <2>5. Of(t \union {x}, {"remove"}) = {}
    <3>1. Of(t, Works) = {}
      BY <2>2 DEF WorkInv, Slot
    <3> QED
      BY <2>3, <3>1 DEF Of, Works
  <2>6. WaitInv(k, ended')
    BY <2>4 DEF WaitInv, Waits
  <2>7. KeptInv(k, z)
    BY <2>4 DEF KeptInv
  <2>8. CurrentInv(k, z, j, t \union {x}, d)
    BY <2>3, <2>4 DEF CurrentInv
  <2>9. RemoveInv(k, t \union {x}, d)
    BY <2>5 DEF RemoveInv
  <2> QED
    BY <1>1, <2>1, <2>6, <2>7, <2>8, <2>9 DEF RestInv
<1> QED
  BY <1>4, <1>5 DEF Outcome


(* Keys. *)
LEMMA DialogRest ==
  ASSUME ListInv, NEW n \in Models, n.effect = NoEffect, Key(n), SameList(ui, n),
         n.configuring = ui.configuring
  PROVE  RestInv(ui', scanning', job', tasks', Noted', ended')
<1>1. ui' = n /\ UNCHANGED <<scanning, job, tasks, ended>> /\ Noted' = Noted
  BY RestIs DEF Noted
<1>2. Working(ui) => Working(n)
  BY DEF SameList, Working
<1>3. \A k \in Of(tasks, {"copy", "remove", "correct"}) : k.result = "ok" => k \in tasks
  BY DEF Of
<1>4. RestInv(ui, scanning, job, tasks, Noted, ended)
  BY DEF ListInv
<1>5. RestInv(n, scanning, job, tasks, Noted, ended)
  BY <1>2, <1>3, <1>4, RestFrame
<1> QED
  BY <1>1, <1>5

LEMMA OutcomeRest ==
  ASSUME ListInv, ended = FALSE, NEW n, Outcome(ui, n), Waits(n), Key(n)
  PROVE  RestInv(ui', scanning', job', tasks', Noted', ended')
<1>1. Perform(n, scanning, job, tasks) /\ Noted' = Noted
  BY DEF Key, Noted
<1>2. WorkInv(ui.busy, job, tasks)
  BY DEF ListInv, IInv, Flight
<1>3. KeptInv(ui, scanning) /\ RemoveInv(ui, tasks, Noted) /\ CurrentInv(ui, scanning, job, tasks, Noted)
  BY DEF ListInv, RestInv
<1>4. RestInv(ui', scanning', job', tasks', Noted, ended')
  BY <1>1, <1>2, <1>3, PerformRest
<1> QED
  BY <1>1, <1>4

(* Nothing is copied or deleted, and no job is left. *)
LEMMA NotBusy ==
  ASSUME IInv, ui.busy = 0
  PROVE  Of(tasks, Works) = {} /\ job.id = 0
BY DEF IInv, Flight, WorkInv, Slot

LEMMA CopyingRest ==
  ASSUME ListInv, NEW target \in Places, ui.busy = 0, ended = FALSE,
         NEW chosen \in SUBSET Copies, NEW n, StartsCopying(n, target, chosen), Key(n)
  PROVE  RestInv(ui', scanning', job', tasks', Noted', ended')
<1>1. PICK c \in chosen :
        /\ job' = Begun(NewJob(n.busy, target, chosen), c)
        /\ tasks' = tasks \union {Task("copy", n.busy, c)}
        /\ scanning' = scanning /\ ended' = ended /\ Noted' = Noted
        /\ ui' = [n EXCEPT !.effect = NoEffect]
  BY DEF Key, Perform, StartsCopying, Noted
<1> DEFINE x == Task("copy", n.busy, c)
           k == [n EXCEPT !.effect = NoEffect]
           u == tasks \union {x}
<1>2. /\ k.busy = n.busy /\ k.loading = ui.loading /\ k.busy # 0
      /\ k.pendingRefresh = ui.pendingRefresh /\ k.pendingQuit = ui.pendingQuit
      /\ k.retaining = ui.retaining
      /\ k.catalog = ui.catalog /\ k.pendingCatalog = ui.pendingCatalog
  BY WithoutEffect DEF StartsCopying
<1>3. x.kind = "copy"
  BY DEF Task
<1>4. ui' = k /\ tasks' = u
  BY <1>1
<1> HIDE DEF k, x
<1>5. Of(tasks, Works) = {} /\ job.id = 0
  BY NotBusy DEF ListInv
<1>6. /\ Of(u, {"remove"}) = {}
      /\ Of(tasks, {"copy", "remove", "correct"}) \subseteq u
      /\ \A p : Lists(u, p) = Lists(tasks, p) /\ Reads(u, p) = Reads(tasks, p)
  BY <1>3, <1>5 DEF Of, Works, Lists, Reads
<1>7. WaitInv(k, ended)
  BY <1>2 DEF WaitInv, Waits, Working
<1>8. KeptInv(k, scanning)
  BY <1>2 DEF ListInv, RestInv, KeptInv
<1>9. RemoveInv(k, u, Noted)
  BY <1>6 DEF RemoveInv
<1>10. Dirty(ui, job, tasks) => Dirty(k, job', u)
  BY <1>2, <1>5, <1>6 DEF Dirty, Of
<1>11. CurrentInv(k, scanning, job', u, Noted)
  <2>1. \A p : Seen(scanning, tasks, Noted, p) => Seen(scanning, u, Noted, p)
    <3> HIDE DEF u
    <3> QED
      BY <1>6, SeenFrame
  <2>2. Shown(k) = Shown(ui)
    BY <1>2 DEF Shown
  <2> QED
    BY <1>2, <1>10, <2>1, <2>2 DEF ListInv, RestInv, CurrentInv
<1> HIDE DEF u
<1> QED
  BY <1>1, <1>4, <1>7, <1>8, <1>9, <1>11 DEF RestInv

(* The list is current when nothing works and no quit waits. *)
LEMMA StillCurrent ==
  ASSUME ListInv, ended = FALSE, ui.busy = 0, ui.loading = 0, ui.correcting = None,
         ~ui.pendingQuit
  PROVE  Accurate(ui.catalog, Noted)
<1>1. ~ui.pendingRefresh
  BY DEF ListInv, RestInv, WaitInv, Waits
<1>2. Of(tasks, Works) = {} /\ job.id = 0
  BY NotBusy DEF ListInv
<1>3. Of(tasks, {"correct"}) = {}
  <2>1. PanelInv(ui.busy, ui.configuring, ui.correcting, tasks)
    BY UiIs DEF ListInv
  <2> QED
    BY <2>1 DEF PanelInv
<1>4. Of(tasks, {"copy", "remove", "correct"}) = {}
  BY <1>2, <1>3 DEF Of, Works
<1>5. ~Dirty(ui, job, tasks)
  BY <1>1, <1>2, <1>4 DEF Dirty
<1>6. scanning.id = 0
  <2>1. scanning \in Scans /\ ScanInv(ui.loading, scanning, tasks)
    BY DEF ListInv, IInv, TypeOK, Flight
  <2> QED
    BY <2>1, ScanIds
<1>7. ui.pendingCatalog = None /\ Accurate(Shown(ui), Noted)
  BY <1>5, <1>6 DEF ListInv, RestInv, CurrentInv
<1> QED
  BY <1>7 DEF Shown

(* The other copy of a book that is asked about is where the list says.    *)
LEMMA OtherStays ==
  ASSUME NEW m \in Models, NEW d, Accurate(m.catalog, d), NEW book \in SUBSET Copies,
         NEW c \in Current(m, book), Current(m, book) # {c}, book # {},
         c \in d, m.catalog.status[c.place] = "ready"
  PROVE  \E x \in d : x # c /\ x.book = c.book
<1>1. m.catalog.copies \subseteq Copies /\ m.catalog.unreadable \subseteq Copies
  BY DEF Models, Snapshots
<1>2. CASE book \intersect m.catalog.copies # {}
  <2>1. Current(m, book) \in Listed(m)
    <3>1. PICK y \in book \intersect m.catalog.copies : TRUE
      BY <1>2
    <3>2. {x \in m.catalog.copies : x.book = y.book} \in Listed(m)
      BY <3>1 DEF Listed
    <3>3. {x \in m.catalog.copies : x.book = y.book} \intersect book # {}
      BY <3>1
    <3> QED
      BY <1>2, <3>2, <3>3 DEF Current
  <2>2. PICK b : Current(m, book) = {x \in m.catalog.copies : x.book = b}
    BY <2>1 DEF Listed
  <2>3. PICK x \in Current(m, book) : x # c
    OBVIOUS
  <2>4. x \in m.catalog.copies /\ x.book = c.book
    BY <2>2, <2>3
  <2>5. x.place \in Places
    BY <1>1, <2>4 DEF Copies
  <2>6. x \in At(m.catalog.copies \union m.catalog.unreadable, x.place)
    BY <2>4 DEF At
  <2>7. x \in d
    BY <2>5, <2>6 DEF Accurate, At
  <2> QED
    BY <2>3, <2>4, <2>7
<1>3. CASE book \intersect m.catalog.copies = {} /\ book \intersect m.catalog.unreadable # {}
  <2>1. \E x : Current(m, book) = {x}
    BY <1>3 DEF Current
  <2> QED
    BY <2>1
<1>4. CASE book \intersect m.catalog.copies = {} /\ book \intersect m.catalog.unreadable = {}
  <2>1. c \in book
    BY <1>4 DEF Current
  <2>2. c.place \in Places
    BY <2>1 DEF Copies
  <2>3. c \in At(m.catalog.copies \union m.catalog.unreadable, c.place)
    BY <2>2 DEF Accurate, At
  <2> QED
    BY <1>4, <2>1, <2>3 DEF At
<1> QED
  BY <1>2, <1>3, <1>4


LEMMA RemovalRest ==
  ASSUME ListInv, ui.correcting = None, ui.busy = 0, ui.loading = 0, ended = FALSE,
         ~ui.pendingQuit, ui.copies # {},
         ui.confirm \in Copies, ui.confirm \in Current(ui, ui.copies),
         Current(ui, ui.copies) # {ui.confirm},
         NEW n, StartsRemoval(n, ui.confirm), Key(n)
  PROVE  RestInv(ui', scanning', job', tasks', Noted', ended')
<1> DEFINE c == ui.confirm
           x == Task("remove", n.busy, c)
           k == [n EXCEPT !.effect = NoEffect]
           u == tasks \union {x}
<1>1. /\ job' = job /\ tasks' = u
      /\ scanning' = scanning /\ ended' = ended /\ Noted' = Noted /\ ui' = k
  BY DEF Key, Perform, StartsRemoval, Noted
<1>2. /\ k.busy = n.busy /\ k.loading = ui.loading /\ k.busy # 0
      /\ k.pendingRefresh = ui.pendingRefresh /\ k.pendingQuit = ui.pendingQuit
      /\ k.retaining = ui.retaining
      /\ k.catalog = ui.catalog /\ k.pendingCatalog = ui.pendingCatalog
  BY WithoutEffect DEF StartsRemoval
<1>3. x.kind = "remove" /\ x.about = c
  BY DEF Task
<1>4. ui \in Models /\ ui.copies \in SUBSET Copies
  BY UiIs DEF ListInv, Models
<1>5. Of(tasks, Works) = {}
  BY NotBusy DEF ListInv
<1>6. c \in Noted /\ ui.catalog.status[c.place] = "ready"
        => \E y \in Noted : y # c /\ y.book = c.book
  <2>1. Accurate(ui.catalog, Noted)
    BY StillCurrent
  <2> QED
    BY <1>4, <2>1, OtherStays
<1> HIDE DEF k, x, c
<1>7. /\ Of(u, {"remove"}) = {x}
      /\ Of(tasks, {"copy", "remove", "correct"}) \subseteq u
      /\ \A p : Lists(u, p) = Lists(tasks, p) /\ Reads(u, p) = Reads(tasks, p)
  BY <1>3, <1>5 DEF Of, Works, Lists, Reads
<1>8. WaitInv(k, ended)
  BY <1>2 DEF WaitInv, Waits, Working
<1>9. KeptInv(k, scanning)
  BY <1>2 DEF ListInv, RestInv, KeptInv
<1>10. RemoveInv(k, u, Noted)
  BY <1>2, <1>3, <1>6, <1>7 DEF RemoveInv
<1>11. Dirty(ui, job, tasks) => Dirty(k, job, u)
  BY <1>2, <1>7 DEF Dirty, Of
<1>12. CurrentInv(k, scanning, job, u, Noted)
  <2>1. \A p : Seen(scanning, tasks, Noted, p) => Seen(scanning, u, Noted, p)
    <3> HIDE DEF u
    <3> QED
      BY <1>7, SeenFrame
  <2>2. Shown(k) = Shown(ui)
    BY <1>2 DEF Shown
  <2> QED
    BY <1>2, <1>11, <2>1, <2>2 DEF ListInv, RestInv, CurrentInv
<1> HIDE DEF u
<1> QED
  BY <1>1, <1>8, <1>9, <1>10, <1>12 DEF RestInv

LEMMA PanelRest ==
  ASSUME ListInv, ended = FALSE, ui.configuring = 0, NEW kind \in Panels, NEW about,
         ui' = [ui EXCEPT !.nextId = ui.nextId + 1, !.configuring = ui.nextId + 1],
         tasks' = tasks \union {Task(kind, ui.nextId + 1, about)},
         UNCHANGED <<scanning, job, ended>> /\ Noted' = Noted
  PROVE  RestInv(ui', scanning', job', tasks', Noted', ended')
<1> DEFINE id == ui.nextId + 1
           x == Task(kind, id, about)
           k == [ui EXCEPT !.nextId = id, !.configuring = id]
           u == tasks \union {x}
<1>1. id \in Nat \ {0} /\ ui \in Models
  BY UiIs DEF ListInv, Models
<1>2. ui' = k /\ tasks' = u
  OBVIOUS
<1>3. x.kind \in Panels /\ x.result = "running"
  BY DEF Task
<1> HIDE DEF id, x
<1>4. SameList(ui, k) /\ k.configuring # 0
  BY <1>1 DEF SameList, Models
<1> HIDE DEF k
<1>5. Working(k)
  BY <1>4 DEF Working
<1>6. /\ Of(u, {"remove"}) = Of(tasks, {"remove"})
      /\ \A l \in Of(tasks, {"copy", "remove", "correct"}) : l.result = "ok" => l \in u
      /\ \A p : Lists(u, p) = Lists(tasks, p) /\ Reads(u, p) = Reads(tasks, p)
  BY <1>3 DEF Of, Panels, Lists, Reads
<1> HIDE DEF u
<1>7. RestInv(ui, scanning, job, tasks, Noted, ended)
  BY DEF ListInv
<1>8. RestInv(k, scanning, job, u, Noted, ended)
  BY <1>4, <1>5, <1>6, <1>7, RestFrame
<1> QED
  BY <1>2, <1>8

(* A dialog opened or closed. *)
LEMMA DialogSame ==
  ASSUME ListInv, NEW v,
         NEW n \in {[ui EXCEPT !.action = v], [ui EXCEPT !.copies = v], [ui EXCEPT !.confirm = v],
                    [ui EXCEPT !.settings = v], [ui EXCEPT !.ask = v]},
         n \in Models, Key(n)
  PROVE  RestInv(ui', scanning', job', tasks', Noted', ended')
<1>1. ui \in Models /\ ui.effect = NoEffect
  BY UiIs DEF ListInv
<1>2. SameList(ui, n) /\ n.effect = NoEffect /\ n.configuring = ui.configuring
  BY <1>1 DEF SameList, Models
<1> QED
  BY <1>2, DialogRest


(* No book has no copies. *)
LEMMA NoBook == \A m, c : c \in Current(m, {}) => FALSE
BY DEF Current


LEMMA KeysRest ==
  ASSUME ListInv, Keys
  PROVE  RestInv(ui', scanning', job', tasks', Noted', ended')
<1> USE DEF Listens
<1>0. ui \in Models /\ ui.effect = NoEffect /\ Waits(ui) /\ IInv
  BY UiIs DEF ListInv, RestInv, WaitInv
<1>1. CASE Interrupt \/ AskToQuit
  <2>1. Key(Quit(ui)) /\ ended = FALSE
    BY <1>1 DEF Interrupt, AskToQuit, ListInv, IInv, TypeOK
  <2>2. Outcome(ui, Quit(ui)) /\ Waits(Quit(ui))
    BY <1>0, QuitOutcome, QuitWaits
  <2> QED
    BY <2>1, <2>2, OutcomeRest
<1>2. CASE StopCopying
  <2>1. /\ job' = [job EXCEPT !.cancel = TRUE] /\ job \in Jobs
        /\ UNCHANGED <<ui, scanning, tasks, ended>> /\ Noted' = Noted
    BY <1>2 DEF StopCopying, Noted, ListInv, IInv, TypeOK
  <2>2. job'.id = job.id /\ job'.copied = job.copied
    BY <2>1 DEF Jobs
  <2>3. \A k \in Of(tasks, {"copy", "remove", "correct"}) : k.result = "ok" => k \in tasks
    BY DEF Of
  <2>4. RestInv(ui, scanning, job, tasks, Noted, ended) /\ SameList(ui, ui)
    BY DEF ListInv, SameList
  <2>5. RestInv(ui, scanning, job', tasks, Noted, ended)
    BY <2>2, <2>3, <2>4, RestFrame
  <2> QED
    BY <2>1, <2>5
<1>3. CASE AskRefresh
  <2>1. Key(Refresh(ui)) /\ ended = FALSE
    BY <1>3 DEF AskRefresh, ListInv, IInv, TypeOK
  <2>2. Outcome(ui, Refresh(ui)) /\ Waits(Refresh(ui))
    BY <1>0, RefreshOutcome, QuitWaits
  <2> QED
    BY <2>1, <2>2, OutcomeRest
<1>4. CASE OpenCopyDialog
  <2>1. PICK books \in (SUBSET Listed(ui)) \ {{}} : Key([ui EXCEPT !.action = books])
    BY <1>4 DEF OpenCopyDialog
  <2>2. books \in SUBSET ((SUBSET Copies) \ {{}})
    BY <1>0, <2>1, ListedAre
  <2>3. [ui EXCEPT !.action = books] \in Models
    BY <1>0, <2>2, Dialogs
  <2> QED
    BY <2>1, <2>3, DialogSame
<1>5. CASE OpenCopies
  <2>1. PICK book \in Listed(ui) : Key([ui EXCEPT !.copies = book])
    BY <1>5 DEF OpenCopies
  <2>2. book \in SUBSET Copies
    BY <1>0, <2>1, ListedAre
  <2>3. [ui EXCEPT !.copies = book] \in Models
    BY <1>0, <2>2, Dialogs
  <2> QED
    BY <2>1, <2>3, DialogSame
<1>6. CASE OpenCorrection \/ CloseCorrection
  <2>1. PICK b \in Books \union {None} : Key([ui EXCEPT !.correcting = b])
    <3>1. CASE OpenCorrection
      <4>1. PICK c \in ui.catalog.copies : Key([ui EXCEPT !.correcting = c.book])
        BY <3>1 DEF OpenCorrection
      <4>2. c.book \in Books
        BY <1>0, <4>1, ListedAre DEF Copies
      <4> QED
        BY <4>1, <4>2
    <3>2. CASE CloseCorrection
      BY <3>2 DEF CloseCorrection
    <3> QED
      BY <1>6, <3>1, <3>2
  <2> DEFINE n == [ui EXCEPT !.correcting = b]
  <2>2. n \in Models
    BY <1>0, Dialogs
  <2>3. SameList(ui, n) /\ n.effect = NoEffect /\ n.configuring = ui.configuring
    BY <1>0 DEF SameList, Models
  <2> HIDE DEF n
  <2>4. Key(n)
    BY <2>1 DEF n
  <2> QED
    BY <2>2, <2>3, <2>4, DialogRest
<1>7. CASE OpenSettings
  <2>1. [ui EXCEPT !.settings = "open"] \in Models
    BY <1>0, Dialogs
  <2> QED
    BY <1>7, <2>1, DialogSame DEF OpenSettings
<1>8. CASE PressTarget
  <2>1. PICK target \in Places : \E m \in ChooseTarget(ui, target) : Key(m)
    BY <1>8 DEF PressTarget
  <2>2. PICK m \in ChooseTarget(ui, target) : Key(m)
    BY <2>1
  <2>3. ended = FALSE
    BY <1>8 DEF PressTarget, ListInv, IInv, TypeOK
  <2>4. CASE m = StartCopying(ui, target)
    <3>1. CASE m = [ui EXCEPT !.ask = None]
      <4>1. m \in Models
        BY <1>0, <3>1, Dialogs
      <4> QED
        BY <2>2, <3>1, <4>1, DialogSame
    <3>2. CASE ui.busy = 0 /\ \E chosen \in SUBSET Copies : StartsCopying(m, target, chosen)
      BY <2>2, <2>3, <3>2, CopyingRest
    <3> QED
      BY <1>0, <2>4, <3>1, <3>2, StartCopyingIs
  <2>5. CASE \E book \in Questions(ui, target) :
               m = [ui EXCEPT !.ask = [target |-> target, about |-> book]]
    <3>1. PICK book \in Questions(ui, target) :
            m = [ui EXCEPT !.ask = [target |-> target, about |-> book]]
      BY <2>5
    <3>2. [target |-> target, about |-> book] \in [target : Places, about : SUBSET Copies]
      BY <1>0 DEF Questions, Models
    <3>3. m \in Models
      BY <1>0, <3>1, <3>2, Dialogs
    <3> QED
      BY <2>2, <3>1, <3>3, DialogSame
  <2> QED
    BY <2>2, <2>4, <2>5 DEF ChooseTarget
<1>9. CASE PressYes
  <2> DEFINE n == StartCopying(ui, ui.ask.target)
  <2>1. Key(n) /\ ended = FALSE /\ ui.ask # None
    BY <1>9 DEF PressYes, Focus, ListInv, IInv, TypeOK
  <2>2. ui.ask.target \in Places
    BY <1>0, <2>1 DEF Models
  <2>3. CASE n = [ui EXCEPT !.ask = None]
    <3>1. [ui EXCEPT !.ask = None] \in Models
      BY <1>0, Dialogs
    <3> QED
      BY <2>1, <2>3, <3>1, DialogSame
  <2>4. CASE ui.busy = 0 /\ \E chosen \in SUBSET Copies : StartsCopying(n, ui.ask.target, chosen)
    <3> HIDE DEF n
    <3> QED
      BY <2>1, <2>2, <2>4, CopyingRest
  <2> QED
    BY <1>0, <2>2, <2>3, <2>4, StartCopyingIs
<1>10. CASE CloseAsk
  <2>1. [ui EXCEPT !.ask = None] \in Models
    BY <1>0, Dialogs
  <2> QED
    BY <1>10, <2>1, DialogSame DEF CloseAsk
<1>11. CASE CloseAction
  <2>1. [ui EXCEPT !.action = {}] \in Models
    BY <1>0, Dialogs
  <2> QED
    BY <1>11, <2>1, DialogSame DEF CloseAction
<1>12. CASE CloseCopies
  <2>1. [ui EXCEPT !.copies = {}] \in Models
    BY <1>0, Dialogs
  <2> QED
    BY <1>12, <2>1, DialogSame DEF CloseCopies
<1>13. CASE CloseSettings
  <2> DEFINE n == [ui EXCEPT !.settings = "closed"]
  <2>1. ended = FALSE /\ (Key(Refresh(n)) \/ Key(n))
    BY <1>13 DEF CloseSettings, ListInv, IInv, TypeOK
  <2>2. n \in Models
    BY <1>0, Dialogs
  <2>3. CASE Key(n)
    BY <2>2, <2>3, DialogSame
  <2>4. CASE Key(Refresh(n))
    <3>1. /\ n.effect = NoEffect /\ SameList(ui, n) /\ n.configuring = ui.configuring
          /\ n.correcting = ui.correcting
      BY <1>0 DEF Models, SameList
    <3> HIDE DEF n
    <3>2. Outcome(n, Refresh(n))
      BY <2>2, <3>1, RefreshOutcome
    <3>3. Outcome(ui, Refresh(n))
      BY <3>1, <3>2 DEF Outcome, Rests, Quits, Loads, SameList
    <3>4. Waits(n)
      BY <1>0, <3>1 DEF Waits, SameList
    <3>5. Waits(Refresh(n))
      BY <2>2, <3>1, <3>4, QuitWaits
    <3> QED
      BY <2>1, <2>4, <3>3, <3>5, OutcomeRest
  <2> QED
    BY <2>1, <2>3, <2>4
<1>14. CASE AskRemoval
  <2>1. PICK c \in Current(ui, ui.copies) : Key([ui EXCEPT !.confirm = c])
    BY <1>14 DEF AskRemoval
  <2>2. ui.copies \in SUBSET Copies /\ ui.copies # {}
    BY <1>0, <1>14 DEF AskRemoval, Focus, Models
  <2>3. c \in Copies
    BY <1>0, <2>1, <2>2, CurrentIs
  <2>4. [ui EXCEPT !.confirm = c] \in Models
    BY <1>0, <2>3, Dialogs
  <2> QED
    BY <2>1, <2>4, DialogSame
<1>15. CASE PressConfirm \/ RefuseRemoval
  <2>1. /\ ended = FALSE /\ ~ui.pendingQuit /\ ui.correcting = None /\ ui.confirm # None
        /\ Key(ConfirmRemoval(ui)) \/ Key([ui EXCEPT !.confirm = None])
    BY <1>15 DEF PressConfirm, RefuseRemoval, Focus, ListInv, IInv, TypeOK
  <2>2. [ui EXCEPT !.confirm = None] \in Models
    BY <1>0, Dialogs
  <2>3. CASE Key([ui EXCEPT !.confirm = None])
    BY <2>2, <2>3, DialogSame
  <2>4. CASE Key(ConfirmRemoval(ui))
    <3> DEFINE n == ConfirmRemoval(ui)
    <3>1. CASE n = [ui EXCEPT !.confirm = None]
      BY <2>3, <2>4, <3>1
    <3>2. CASE /\ ui.busy = 0 /\ ui.loading = 0 /\ ui.confirm \in Copies
               /\ ui.confirm \in Current(ui, ui.copies) /\ Current(ui, ui.copies) # {ui.confirm}
               /\ StartsRemoval(n, ui.confirm)
      <4>1. Key(n)
        BY <2>4
      <4> HIDE DEF n
      <4>2. ui.copies # {}
        BY <3>2, NoBook
      <4> QED
        BY <2>1, <3>2, <4>1, <4>2, RemovalRest
    <3> QED
      BY <1>0, <2>1, <3>1, <3>2, ConfirmIs
  <2> QED
    BY <2>1, <2>3, <2>4
<1>16. CASE RunCorrection
  <2>1. /\ ended = FALSE /\ ui.configuring = 0
        /\ ui' = [ui EXCEPT !.nextId = ui.nextId + 1, !.configuring = ui.nextId + 1]
        /\ tasks' = tasks \union {Task("correct", ui.nextId + 1, CorrectedCopy(ui.correcting))}
        /\ UNCHANGED <<scanning, job, ended>> /\ Noted' = Noted
    BY <1>16 DEF RunCorrection, Noted, ListInv, IInv, TypeOK
  <2> QED
    BY <2>1, PanelRest DEF Panels
<1>17. CASE RunSettings
  <2>1. /\ ended = FALSE /\ ui.configuring = 0
        /\ ui' = [ui EXCEPT !.nextId = ui.nextId + 1, !.configuring = ui.nextId + 1]
        /\ UNCHANGED <<scanning, job, ended>> /\ Noted' = Noted
    BY <1>17 DEF RunSettings, Noted, ListInv, IInv, TypeOK
  <2>2. PICK kind \in {"settings", "test"} :
          tasks' = tasks \union {Task(kind, ui.nextId + 1, None)}
    BY <1>17 DEF RunSettings
  <2> QED
    BY <2>1, <2>2, PanelRest DEF Panels
<1> QED
  BY <1>1, <1>2, <1>3, <1>4, <1>5, <1>6, <1>7, <1>8, <1>9, <1>10, <1>11, <1>12, <1>13, <1>14,
     <1>15, <1>16, <1>17 DEF Keys


(* Threads. *)
LEMMA WorkRest ==
  ASSUME ListInv, NEW k \in tasks, k.result = "running",
         k.kind \in {"copy", "remove", "correct"},
         NEW l, l.kind = k.kind, l.result \in {"ok", "failed"},
         NEW d, l.result = "failed" => d = Noted
  PROVE  RestInv(ui, scanning, job, (tasks \ {k}) \union {l}, d, ended)
<1> DEFINE u == (tasks \ {k}) \union {l}
<1>0. /\ WorkInv(ui.busy, job, tasks)
      /\ PanelInv(ui.busy, ui.configuring, ui.correcting, tasks)
      /\ WaitInv(ui, ended) /\ KeptInv(ui, scanning)
      /\ CurrentInv(ui, scanning, job, tasks, Noted) /\ RemoveInv(ui, tasks, Noted)
  BY DEF ListInv, IInv, Flight, RestInv
<1>1. Of(tasks, {"remove"}) \subseteq {k}
  <2>1. CASE k.kind = "correct"
    <3>1. k \in Of(tasks, {"correct"})
      BY <2>1 DEF Of
    <3>2. ui.busy = 0
      BY <1>0, <3>1 DEF PanelInv
    <3> QED
      BY <1>0, <3>2 DEF WorkInv, Slot, Of, Works
  <2>2. CASE k.kind \in Works
    <3>1. k \in Of(tasks, Works)
      BY <2>2 DEF Of
    <3>2. Of(tasks, Works) = {k}
      BY <1>0, <3>1, SlotDrop DEF WorkInv
    <3> QED
      BY <3>2 DEF Of, Works
  <2> QED
    BY <2>1, <2>2 DEF Works
<1>2. RemoveInv(ui, u, d)
  <2> SUFFICES ASSUME NEW x \in Of(u, {"remove"})
               PROVE  ui.loading = 0 /\ x.result # "running"
    BY DEF RemoveInv
  <2>1. x = l /\ k \in Of(tasks, {"remove"})
    BY <1>1 DEF Of
  <2> QED
    BY <1>0, <2>1 DEF RemoveInv
<1>3. CurrentInv(ui, scanning, job, u, d)
  <2>1. CASE l.result = "ok"
    <3>1. l \in Of(u, {"copy", "remove", "correct"})
      BY DEF Of
    <3> QED
      BY <2>1, <3>1 DEF CurrentInv, Dirty
  <2>2. CASE l.result = "failed"
    <3>1. d = Noted
      BY <2>2
    <3>2. \A p : Lists(u, p) = Lists(tasks, p) /\ Reads(u, p) = Reads(tasks, p)
      BY DEF Lists, Reads
    <3>3. Dirty(ui, job, tasks) => Dirty(ui, job, u)
      BY DEF Dirty, Of
    <3> HIDE DEF u
    <3>4. \A p : Seen(scanning, tasks, Noted, p) => Seen(scanning, u, Noted, p)
      BY <3>2, SeenFrame
    <3> QED
      BY <1>0, <3>1, <3>3, <3>4 DEF CurrentInv
  <2> QED
    BY <2>1, <2>2
<1> QED
  BY <1>0, <1>2, <1>3 DEF RestInv

LEMMA ListedRest ==
  ASSUME ListInv, NEW k \in tasks, k.kind = "list", k.result = "running",
         NEW l, l.kind = "list", l.place = k.place,
         NEW d, \A p : p # k.place => At(d, p) = At(Noted, p),
         IF l.result = "ok" THEN l.found.known \union l.found.todo = At(d, k.place) ELSE d = Noted
  PROVE  RestInv(ui, scanning, job, (tasks \ {k}) \union {l}, d, ended)
<1> DEFINE u == (tasks \ {k}) \union {l}
<1>0. /\ ScanInv(ui.loading, scanning, tasks)
      /\ WaitInv(ui, ended) /\ KeptInv(ui, scanning)
      /\ CurrentInv(ui, scanning, job, tasks, Noted) /\ RemoveInv(ui, tasks, Noted)
  BY DEF ListInv, IInv, Flight, RestInv
<1>1. /\ scanning.id # 0 /\ scanning.id = ui.loading
      /\ \A p \in Places : PlaceInv(scanning, tasks, p)
  <2>1. k \in Of(tasks, {"list"})
    BY DEF Of
  <2>2. Of(tasks, {"index", "list", "read"}) # {} /\ Of(tasks, {"list", "read", "save"}) # {}
    BY DEF Of
  <2> QED
    BY <1>0, <2>1, <2>2 DEF ScanInv
<1>2. /\ \A p : Reads(u, p) = Reads(tasks, p)
      /\ \A p : p # k.place => Lists(u, p) = Lists(tasks, p)
      /\ Of(u, {"remove"}) = Of(tasks, {"remove"})
  BY DEF Reads, Lists, Of
<1>3. k \in Lists(tasks, k.place) /\ l \in Lists(u, k.place)
  BY DEF Lists
<1>4. Dirty(ui, job, tasks) => Dirty(ui, job, u)
  BY DEF Dirty, Of
<1> HIDE DEF u
<1>5. ASSUME NEW p \in Places, Seen(scanning, tasks, Noted, p)
      PROVE  Seen(scanning, u, d, p)
  <2>1. CASE p = k.place
    <3>1. Lists(tasks, p) # {}
      BY <1>3, <2>1
    <3>2. scanning.status[p] = "checking" /\ At(scanning.found \union scanning.unreadable, p) = {}
      BY <1>5, <3>1 DEF Seen
    <3> QED
      BY <1>3, <2>1, <3>2 DEF Seen
  <2>2. CASE p # k.place
    BY <1>2, <1>5, <2>2, SeenFrame
  <2> QED
    BY <2>1, <2>2
<1>6. CurrentInv(ui, scanning, job, u, d)
  BY <1>0, <1>1, <1>4, <1>5 DEF CurrentInv
<1>7. RemoveInv(ui, u, d)
  BY <1>0, <1>1, <1>2 DEF RemoveInv
<1> QED
  BY <1>0, <1>6, <1>7 DEF RestInv, u

LEMMA ThreadsRest ==
  ASSUME ListInv, Threads
  PROVE  RestInv(ui', scanning', job', tasks', Noted', ended')
<1>1. PICK k \in tasks :
        /\ k.result = "running"
        /\ ListPlace(k) \/ CopyBook(k) \/ RemoveCopy(k) \/ CorrectBook(k)
        /\ UNCHANGED <<ui, scanning, job, ended>>
  BY DEF Threads
<1>2. k \in Tasks
  BY DEF ListInv, IInv, TypeOK
<1> DEFINE ok == Ended(k, "ok")
           failed == Ended(k, "failed")
<1>3. /\ ok.kind = k.kind /\ ok.result = "ok" /\ ok.place = k.place
      /\ failed.kind = k.kind /\ failed.result = "failed" /\ failed.place = k.place
  BY <1>2 DEF Ended, Tasks
<1>4. CASE ListPlace(k)
  <2> DEFINE here == {c \in disk : c.place = k.place}
  <2>1. k.kind = "list" /\ disk' = disk
    BY <1>4 DEF ListPlace
  <2>2. CASE tasks' = (tasks \ {k}) \union {failed} /\ left' = left
    <3> HIDE DEF failed
    <3>1. Noted' = Noted
      BY <2>1, <2>2 DEF Noted
    <3>2. RestInv(ui, scanning, job, (tasks \ {k}) \union {failed}, Noted, ended)
      BY <1>1, <1>3, <2>1, ListedRest
    <3> QED
      BY <1>1, <2>2, <3>1, <3>2
  <2>3. ASSUME NEW known \in SUBSET here, left' = left \ here,
               tasks' = (tasks \ {k}) \union
                        {[ok EXCEPT !.found = [known |-> known, todo |-> here \ known]]}
        PROVE  RestInv(ui', scanning', job', tasks', Noted', ended')
    <3> DEFINE found == [known |-> known, todo |-> here \ known]
               l == [ok EXCEPT !.found = found]
    <3>0. /\ At(Noted', k.place) = here
          /\ \A p : p # k.place => At(Noted', p) = At(Noted, p)
      BY <2>1, <2>3 DEF At, Noted
    <3>1. found.known \union found.todo = At(Noted', k.place)
      BY <3>0
    <3>2. tasks' = (tasks \ {k}) \union {l}
      BY <2>3
    <3> HIDE DEF found
    <3>3. l.kind = "list" /\ l.place = k.place /\ l.found = found /\ l.result = "ok"
      BY <1>2, <2>1 DEF Ended, Tasks
    <3> HIDE DEF l, ok
    <3>4. RestInv(ui, scanning, job, (tasks \ {k}) \union {l}, Noted', ended)
      BY <1>1, <2>1, <3>0, <3>1, <3>3, ListedRest
    <3> QED
      BY <1>1, <3>2, <3>4
  <2> QED
    BY <1>4, <2>2, <2>3 DEF ListPlace
<1>5. CASE CopyBook(k) \/ RemoveCopy(k) \/ CorrectBook(k)
  <2>1. /\ k.kind \in {"copy", "remove", "correct"}
        /\ \/ tasks' = (tasks \ {k}) \union {ok}
           \/ tasks' = (tasks \ {k}) \union {failed} /\ Noted' = Noted
    BY <1>5 DEF CopyBook, RemoveCopy, CorrectBook, Noted
  <2> HIDE DEF ok, failed
  <2>2. CASE tasks' = (tasks \ {k}) \union {ok}
    <3>1. RestInv(ui, scanning, job, (tasks \ {k}) \union {ok}, Noted', ended)
      BY <1>1, <1>3, <2>1, WorkRest
    <3> QED
      BY <1>1, <2>2, <3>1
  <2>3. CASE tasks' = (tasks \ {k}) \union {failed} /\ Noted' = Noted
    <3>1. RestInv(ui, scanning, job, (tasks \ {k}) \union {failed}, Noted, ended)
      BY <1>1, <1>3, <2>1, WorkRest
    <3> QED
      BY <1>1, <2>3, <3>1
  <2> QED
    BY <2>1, <2>2, <2>3
<1> QED
  BY <1>1, <1>4, <1>5


(* Messages of a discovery. *)
LEMMA IndexedRest ==
  ASSUME ListInv, NEW k \in tasks, Indexed(k)
  PROVE  RestInv(ui', scanning', job', tasks', Noted', ended')
<1> DEFINE new == {Listing(k.id, p) : p \in Places}
           t == tasks \ {k}
           u == t \union new
           s == [scanning EXCEPT !.indexed = TRUE]
<1>0. /\ ScanInv(ui.loading, scanning, tasks) /\ k \in Tasks
      /\ WaitInv(ui, ended) /\ KeptInv(ui, scanning)
      /\ CurrentInv(ui, scanning, job, tasks, Noted) /\ RemoveInv(ui, tasks, Noted)
  BY DEF ListInv, IInv, TypeOK, Flight, RestInv
<1>1. /\ k.kind = "index" /\ scanning.id = k.id /\ scanning' = s
      /\ tasks' = u /\ UNCHANGED <<ui, job, ended>> /\ Noted' = Noted
  BY DEF Indexed, Noted
<1>2. k.id \in Nat
  BY <1>0 DEF Tasks
<1>3. scanning = NewScan(k.id) /\ scanning.id # 0
  <2>1. Of(tasks, {"index", "list", "read"}) # {} /\ Of(tasks, {"index", "save"}) # {}
    BY <1>1 DEF Of
  <2> QED
    BY <1>0, <1>1, <2>1 DEF ScanInv
<1>4. /\ s.id = scanning.id /\ s.found = {} /\ s.unreadable = {}
      /\ \A p \in Places : s.status[p] = "checking"
  <2>1. /\ scanning \in Scans /\ scanning.found = {} /\ scanning.unreadable = {}
        /\ \A p \in Places : scanning.status[p] = "checking"
    BY <1>2, <1>3, NewScanIs
  <2> QED
    BY <2>1 DEF Scans
<1> HIDE DEF s
<1>5. \A l \in new : l.kind = "list"
  BY <1>2, ListingIs
<1>6. ASSUME NEW p \in Places
      PROVE  \E l \in Lists(u, p) : l.result = "running"
  <2>1. /\ Listing(k.id, p) \in new /\ Listing(k.id, p).kind = "list"
        /\ Listing(k.id, p).place = p /\ Listing(k.id, p).result = "running"
    BY <1>2, ListingIs
  <2> HIDE DEF new
  <2>2. Listing(k.id, p) \in Lists(u, p)
    BY <2>1 DEF Lists
  <2> QED
    BY <2>1, <2>2
<1> HIDE DEF new
<1>7. /\ Of(u, {"remove"}) = Of(tasks, {"remove"})
      /\ Of(u, {"copy", "remove", "correct"}) = Of(tasks, {"copy", "remove", "correct"})
  BY <1>1, <1>5 DEF Of
<1> HIDE DEF u
<1>8. \A p \in Places : Seen(s, u, Noted, p)
  BY <1>4, <1>6 DEF Seen, At
<1>9. CurrentInv(ui, s, job, u, Noted)
  BY <1>0, <1>3, <1>4, <1>7, <1>8 DEF CurrentInv, Dirty
<1>10. KeptInv(ui, s)
  <2>1. scanning.found = {}
    BY <1>2, <1>3, NewScanIs
  <2> QED
    BY <1>0, <1>4, <2>1 DEF KeptInv
<1>11. RemoveInv(ui, u, Noted)
  BY <1>0, <1>7 DEF RemoveInv
<1> QED
  BY <1>0, <1>1, <1>9, <1>10, <1>11 DEF RestInv

(* When every location is done, what was found is what is there. *)
LEMMA AllSeen ==
  ASSUME NEW s \in Scans, NEW t, NEW d, ScanWorks(s, t),
         \A p \in Places : PlaceInv(s, t, p) /\ s.done[p] /\ Seen(s, t, d, p)
  PROVE  Accurate(Snapshot(s), d)
<1> SUFFICES ASSUME NEW p \in Places
             PROVE  LET listed == At(s.found \union s.unreadable, p)
                    IN  IF s.status[p] = "ready" THEN listed = At(d, p) ELSE listed \subseteq d
  BY DEF Accurate, Snapshot
<1>1. s.running[p] = 0 /\ Lists(t, p) = {} /\ s.queue[p] = {}
  <2>1. Readers[p] # 0
    BY ReadersAssumption
  <2> QED
    BY <2>1 DEF PlaceInv
<1>2. Reads(t, p) = {}
  <2>1. Cardinality(Reads(t, p)) = 0
    BY <1>1 DEF PlaceInv
  <2> QED
    BY <2>1, ReadsFinite, FS_EmptySet
<1> QED
  BY <1>1, <1>2 DEF Seen

LEMMA ReportRest ==
  ASSUME ListInv, ~ended, Noted' = Noted, NEW s \in Scans, NEW before, NEW t \in SUBSET Tasks,
         s.id = ui.loading, ScanWorks(s, t), \A p \in Places : PlaceInv(s, t, p),
         s.id = scanning.id, scanning.found \subseteq s.found,
         Of(t, {"copy", "remove", "correct"}) = Of(tasks, {"copy", "remove", "correct"}),
         Dirty(ui, job, tasks) \/ \A p \in Places : Seen(s, t, Noted, p),
         Report(s, before, t)
  PROVE  RestInv(ui', scanning', job', tasks', Noted', ended')
<1>1. PICK due \in BOOLEAN :
        LET shows == due \/ s.done # before.done
            over == s.done # before.done /\ \A p \in Places : s.done[p]
            next == [s EXCEPT !.shown = @ \/ shows]
        IN  Perform(IF shows THEN Catalog(ui, s.id, Snapshot(s)) ELSE ui,
                    IF over THEN NoScan ELSE next,
                    job,
                    IF over THEN t \union {Task("save", s.id, None)} ELSE t)
  BY DEF Report
<1> DEFINE shows == due \/ s.done # before.done
           over == s.done # before.done /\ \A p \in Places : s.done[p]
           flag == s.shown \/ shows
           next == [s EXCEPT !.shown = flag]
           n == IF shows THEN Catalog(ui, s.id, Snapshot(s)) ELSE ui
           save == Task("save", s.id, None)
           z == IF over THEN NoScan ELSE next
           u == IF over THEN t \union {save} ELSE t
<1>2. Perform(n, z, job, u)
  BY <1>1
<1>3. /\ ui \in Models /\ ui.effect = NoEffect /\ s.id # 0 /\ s.id \in Nat
      /\ WaitInv(ui, ended) /\ KeptInv(ui, scanning)
      /\ CurrentInv(ui, scanning, job, tasks, Noted) /\ RemoveInv(ui, tasks, Noted)
  BY DEF ListInv, IInv, TypeOK, RestInv, ScanWorks, Scans
<1>4. Snapshot(s) \in Snapshots /\ Snapshot(s).copies = s.found
  BY DEF Snapshot, Snapshots, Scans
<1>5. /\ n \in Models /\ n.effect = NoEffect
      /\ n.busy = ui.busy /\ n.loading = ui.loading /\ n.configuring = ui.configuring
      /\ n.pendingRefresh = ui.pendingRefresh /\ n.pendingQuit = ui.pendingQuit
      /\ n.retaining = ui.retaining
      /\ \/ ~shows /\ n = ui
         \/ shows /\ ui.retaining /\ n.pendingCatalog = Snapshot(s) /\ n.catalog = ui.catalog
         \/ shows /\ ~ui.retaining /\ n.catalog = Snapshot(s)
            /\ n.pendingCatalog = ui.pendingCatalog
  <2>1. CASE shows
    <3> DEFINE c == Catalog(ui, s.id, Snapshot(s))
    <3>1. n = c
      BY <2>1
    <3>2. /\ c \in Models /\ c.effect = ui.effect
          /\ c.busy = ui.busy /\ c.loading = ui.loading /\ c.configuring = ui.configuring
          /\ c.pendingRefresh = ui.pendingRefresh /\ c.pendingQuit = ui.pendingQuit
          /\ c.retaining = ui.retaining
          /\ \/ ui.retaining /\ c.pendingCatalog = Snapshot(s) /\ c.catalog = ui.catalog
             \/ ~ui.retaining /\ c.catalog = Snapshot(s) /\ c.pendingCatalog = ui.pendingCatalog
      BY <1>3, <1>4 DEF Catalog, Models
    <3> HIDE DEF c, n
    <3> QED
      BY <1>3, <2>1, <3>1, <3>2
  <2>2. CASE ~shows
    BY <1>3, <2>2
  <2> QED
    BY <2>1, <2>2
<1>6. flag \in BOOLEAN
  BY DEF Scans
<1> HIDE DEF flag, n
<1>7. /\ next.id = s.id /\ next.indexed = s.indexed /\ next.queue = s.queue
      /\ next.done = s.done /\ next.found = s.found
      /\ next.unreadable = s.unreadable /\ next.status = s.status
  BY <1>6 DEF Scans
<1>8. save.kind = "save"
  BY DEF Task
<1>9. over => shows
  OBVIOUS
<1> HIDE DEF next, save, shows
<1>10. ui' = n /\ scanning' = z /\ job' = job /\ tasks' = u /\ ended' = ended
  BY <1>2, <1>5, RestPerform
<1>11. Of(u, {"copy", "remove", "correct"}) = Of(tasks, {"copy", "remove", "correct"})
  BY <1>8 DEF Of
<1>12. WaitInv(n, ended)
  BY <1>3, <1>5 DEF WaitInv, Waits, Working
<1>13. Of(u, {"remove"}) = {}
  <2>1. Of(tasks, {"remove"}) = {}
    BY <1>3 DEF RemoveInv
  <2> QED
    BY <1>11, <2>1 DEF Of
<1>14. RemoveInv(n, u, Noted)
  BY <1>13 DEF RemoveInv
<1>15. NoScan.id = 0
  BY NewScanIs DEF NoScan
<1>16. KeptInv(n, z)
  <2>1. ~n.retaining => n.pendingCatalog = None
    BY <1>3, <1>5 DEF KeptInv
  <2>2. ~n.retaining => n.catalog.copies \subseteq s.found
    BY <1>3, <1>4, <1>5 DEF KeptInv
  <2>3. z.id # 0 => z.found = s.found
    BY <1>7, <1>15
  <2> QED
    BY <2>1, <2>2, <2>3 DEF KeptInv
<1>17. Dirty(ui, job, tasks) => Dirty(n, job, u)
  BY <1>5, <1>11 DEF Dirty
<1>18. CurrentInv(n, z, job, u, Noted)
  <2>1. CASE Dirty(ui, job, tasks)
    BY <1>17, <2>1 DEF CurrentInv
  <2>2. CASE (\A p \in Places : Seen(s, t, Noted, p)) /\ over
    <3>1. Accurate(Snapshot(s), Noted)
      BY <2>2, AllSeen
    <3>2. Shown(n) = Snapshot(s)
      BY <1>3, <1>4, <1>5, <1>9, <2>2, NoneAssumption DEF Shown, KeptInv
    <3>3. z = NoScan /\ n.loading # 0
      BY <1>3, <1>5, <2>2
    <3> QED
      BY <1>15, <3>1, <3>2, <3>3 DEF CurrentInv
  <2>3. CASE (\A p \in Places : Seen(s, t, Noted, p)) /\ ~over
    <3>1. z = next /\ u = t
      BY <2>3
    <3>2. \A p \in Places : Seen(next, t, Noted, p)
      BY <1>7, <2>3 DEF Seen
    <3>3. n.loading # 0 /\ next.id # 0
      BY <1>3, <1>5, <1>7
    <3> QED
      BY <3>1, <3>2, <3>3 DEF CurrentInv
  <2> QED
    BY <2>1, <2>2, <2>3
<1> HIDE DEF z, u
<1> QED
  BY <1>10, <1>12, <1>14, <1>16, <1>18 DEF RestInv


(* What was seen of one location, while a message about it is handled, and *)
(* of the others.                                                          *)
Hears(s, t, d, p) ==
    /\ s.status[p] = "checking"
    /\ At(s.found \union s.unreadable, p) \union s.queue[p] \union {k.about : k \in Reads(t, p)}
         = At(d, p)
    /\ \A q \in Places \ {p} : Seen(s, t, d, q)

LEMMA ContinueRest ==
  ASSUME ListInv, ~ended, Noted' = Noted,
         NEW s \in Scans, NEW p \in Places, NEW t \in SUBSET Tasks,
         \A q \in Places : s.running[q] <= Readers[q],
         s.id = ui.loading, ScanWorks(s, t),
         \A q \in Places \ {p} : PlaceInv(s, t, q),
         Lists(t, p) = {}, ~s.done[p], s.running[p] = Cardinality(Reads(t, p)),
         \A c \in s.queue[p] : c.place = p /\ Task("read", s.id, c) \notin t,
         WorkInv(ui.busy, job, t),
         PanelInv(ui.busy, ui.configuring, ui.correcting, t),
         s.id = scanning.id, scanning.found \subseteq s.found,
         Of(t, {"copy", "remove", "correct"}) = Of(tasks, {"copy", "remove", "correct"}),
         Dirty(ui, job, tasks) \/ Hears(s, t, Noted, p),
         Continue(s, p, t)
  PROVE  RestInv(ui', scanning', job', tasks', Noted', ended')
<1>1. PICK z \in Scans, u \in SUBSET Tasks, batch \in SUBSET s.queue[p] :
        /\ Report(z, s, u) /\ ScanWorks(z, u) /\ z.id = s.id
        /\ \A q \in Places : PlaceInv(z, u, q)
        /\ Begins(z, s, u, t, p, batch)
  BY ContinueIs
<1>2. /\ z.id = ui.loading /\ z.id = scanning.id /\ scanning.found \subseteq z.found
      /\ Of(u, {"copy", "remove", "correct"}) = Of(tasks, {"copy", "remove", "correct"})
  BY <1>1 DEF Begins
<1>3. ASSUME Hears(s, t, Noted, p), NEW q \in Places
      PROVE  Seen(z, u, Noted, q)
  <2>1. CASE q = p
    <3>1. /\ z.status[p] # "unavailable" /\ (z.status[p] = "ready" <=> z.done[p])
          /\ Lists(u, p) = {}
      BY <1>1, <1>3 DEF Begins, Hears
    <3>2. At(z.found \union z.unreadable, p) \union z.queue[p] \union {k.about : k \in Reads(u, p)}
            = At(Noted, p)
      <4> DEFINE old == {k.about : k \in Reads(t, p)}
                 now == {k.about : k \in Reads(u, p)}
                 known == At(s.found \union s.unreadable, p)
      <4>1. /\ z.queue[p] = s.queue[p] \ batch /\ now = old \union batch
            /\ At(z.found \union z.unreadable, p) = known
        BY <1>1 DEF Begins
      <4>2. known \union s.queue[p] \union old = At(Noted, p)
        BY <1>3 DEF Hears
      <4> HIDE DEF old, now, known
      <4>3. known \union z.queue[p] \union now = At(Noted, p)
        BY <4>1, <4>2
      <4> QED
        BY <4>1, <4>3 DEF now
    <3> QED
      BY <2>1, <3>1, <3>2 DEF Seen
  <2>2. CASE q # p
    <3>1. /\ Lists(u, q) = Lists(t, q) /\ Reads(u, q) = Reads(t, q)
          /\ z.queue[q] = s.queue[q] /\ z.done[q] = s.done[q] /\ z.status[q] = s.status[q]
          /\ z.found = s.found /\ z.unreadable = s.unreadable
      BY <1>1, <2>2 DEF Begins
    <3>2. Seen(s, t, Noted, q)
      BY <1>3, <2>2 DEF Hears
    <3> QED
      BY <3>1, <3>2 DEF Seen
  <2> QED
    BY <2>1, <2>2
<1>4. Dirty(ui, job, tasks) \/ \A q \in Places : Seen(z, u, Noted, q)
  BY <1>3
<1> QED
  BY <1>1, <1>2, <1>4, ReportRest


(* What a message about a location adds to what was found is of that       *)
(* location, so the others are seen as they were.                          *)
LEMMA ElsewhereRest ==
  ASSUME ListInv, NEW k \in tasks, k.kind \in {"list", "read"}, NEW s, NEW p \in Places,
         Elsewhere(s, tasks \ {k}, p), ~Dirty(ui, job, tasks),
         \A q \in Places \ {p} : At(s.found \union s.unreadable, q)
                                   = At(scanning.found \union scanning.unreadable, q)
  PROVE  /\ \A q \in Places : Seen(scanning, tasks, Noted, q)
         /\ \A q \in Places \ {p} : Seen(s, tasks \ {k}, Noted, q)
<1> DEFINE t == tasks \ {k}
<1>1. scanning.id # 0 /\ scanning.indexed
  <2>1. ScanWorks(scanning, tasks)
    BY ScanDrop DEF ListInv
  <2> QED
    BY <2>1 DEF ScanWorks
<1>2. \A q \in Places : Seen(scanning, tasks, Noted, q)
  BY <1>1 DEF ListInv, RestInv, CurrentInv
<1>3. ASSUME NEW q \in Places \ {p}
      PROVE  Seen(s, t, Noted, q)
  <2>1. /\ Lists(t, q) = Lists(tasks, q) /\ Reads(t, q) = Reads(tasks, q)
        /\ s.queue[q] = scanning.queue[q] /\ s.done[q] = scanning.done[q]
        /\ s.status[q] = scanning.status[q]
    BY DEF Elsewhere
  <2>2. Seen(scanning, tasks, Noted, q)
    BY <1>2
  <2> HIDE DEF t
  <2> QED
    BY <2>1, <2>2 DEF Seen
<1> QED
  BY <1>2, <1>3

LEMMA SameWork ==
  ASSUME NEW k \in tasks, k.kind \in {"list", "read"}
  PROVE  Of(tasks \ {k}, {"copy", "remove", "correct"}) = Of(tasks, {"copy", "remove", "correct"})
BY DEF Of

LEMMA ListingInRest ==
  ASSUME ListInv, ~ended, NEW k \in tasks, ListingIn(k)
  PROVE  RestInv(ui', scanning', job', tasks', Noted', ended')
<1> DEFINE t == tasks \ {k}
           p == k.place
<1>1. /\ p \in Places /\ t \in SUBSET Tasks /\ Noted' = Noted
      /\ k.kind = "list" /\ Lists(tasks, p) = {k} /\ Lists(t, p) = {} /\ Reads(t, p) = {}
      /\ scanning.queue[p] = {}
      /\ \E s \in Scans :
          /\ Elsewhere(s, t, p)
          /\ \/ Report(s, scanning, t) /\ NotListed(s, t, p)
             \/ /\ Continue(s, p, t) /\ HasBooks(s, t, p) /\ k.result = "ok"
                /\ s.found = scanning.found \union k.found.known
                /\ s.unreadable = scanning.unreadable
                /\ s.queue[p] = k.found.todo
  BY ListingInIs DEF ListInv, Noted
<1>2. PICK s \in Scans :
        /\ Elsewhere(s, t, p)
        /\ \/ Report(s, scanning, t) /\ NotListed(s, t, p)
           \/ /\ Continue(s, p, t) /\ HasBooks(s, t, p) /\ k.result = "ok"
              /\ s.found = scanning.found \union k.found.known
              /\ s.unreadable = scanning.unreadable
              /\ s.queue[p] = k.found.todo
  BY <1>1
<1>3. Of(t, {"copy", "remove", "correct"}) = Of(tasks, {"copy", "remove", "correct"})
  BY <1>1, SameWork
<1>4. ASSUME ~Dirty(ui, job, tasks),
             \A q \in Places \ {p} : At(s.found \union s.unreadable, q)
                                       = At(scanning.found \union scanning.unreadable, q)
      PROVE  /\ Seen(scanning, tasks, Noted, p)
             /\ \A q \in Places \ {p} : Seen(s, t, Noted, q)
  BY <1>1, <1>2, <1>4, ElsewhereRest
<1> HIDE DEF t, p
<1>5. ASSUME Seen(scanning, tasks, Noted, p)
      PROVE  /\ scanning.status[p] = "checking"
             /\ At(scanning.found \union scanning.unreadable, p) = {}
             /\ k.result = "ok" => k.found.known \union k.found.todo = At(Noted, p)
  BY <1>1, <1>5 DEF Seen
<1>6. CASE Report(s, scanning, t) /\ NotListed(s, t, p)
  <2>1. \A q \in Places : PlaceInv(s, t, q)
    BY <1>2, <1>6 DEF Elsewhere, NotListed
  <2>2. ASSUME ~Dirty(ui, job, tasks), NEW q \in Places
        PROVE  Seen(s, t, Noted, q)
    <3>1. /\ Seen(scanning, tasks, Noted, p)
          /\ \A r \in Places \ {p} : Seen(s, t, Noted, r)
      BY <1>4, <1>6, <2>2 DEF NotListed
    <3>2. At(s.found \union s.unreadable, p) = {}
      BY <1>5, <1>6, <3>1 DEF NotListed
    <3>3. Seen(s, t, Noted, p)
      BY <1>1, <1>6, <3>2 DEF Seen, NotListed
    <3> QED
      BY <3>1, <3>3
  <2>3. scanning.found \subseteq s.found
    BY <1>6 DEF NotListed
  <2> QED
    BY <1>1, <1>2, <1>3, <1>6, <2>1, <2>2, <2>3, ReportRest DEF Elsewhere
<1>7. CASE /\ Continue(s, p, t) /\ HasBooks(s, t, p) /\ k.result = "ok"
           /\ s.found = scanning.found \union k.found.known
           /\ s.unreadable = scanning.unreadable
           /\ s.queue[p] = k.found.todo
  <2>1. ASSUME ~Dirty(ui, job, tasks)
        PROVE  Hears(s, t, Noted, p)
    <3>1. Seen(scanning, tasks, Noted, p)
      <4>1. \A q \in Places : Seen(scanning, tasks, Noted, q)
        <5>1. scanning.id # 0 /\ scanning.indexed
          BY <1>1, ScanDrop DEF ListInv, ScanWorks
        <5> QED
          BY <2>1, <5>1 DEF ListInv, RestInv, CurrentInv
      <4> QED
        BY <1>1, <4>1
    <3>2. /\ scanning.status[p] = "checking"
          /\ At(scanning.found \union scanning.unreadable, p) = {}
          /\ k.found.known \union k.found.todo = At(Noted, p)
      BY <1>5, <1>7, <3>1
    <3>3. \A q \in Places \ {p} : At(s.found \union s.unreadable, q)
                                    = At(scanning.found \union scanning.unreadable, q)
      BY <1>7, <3>2 DEF At
    <3>4. \A q \in Places \ {p} : Seen(s, t, Noted, q)
      BY <1>4, <2>1, <3>3
    <3>5. At(s.found \union s.unreadable, p) = k.found.known
      <4>1. k.found.known \subseteq At(Noted, p)
        BY <3>2
      <4> QED
        BY <1>7, <3>2, <4>1 DEF At
    <3>6. {l.about : l \in Reads(t, p)} = {}
      BY <1>1
    <3> QED
      BY <1>7, <3>2, <3>4, <3>5, <3>6 DEF Hears, HasBooks
  <2>2. scanning.found \subseteq s.found
    BY <1>7
  <2> QED
    BY <1>1, <1>2, <1>3, <1>7, <2>1, <2>2, ContinueRest DEF Elsewhere, HasBooks
<1> QED
  BY <1>2, <1>6, <1>7


LEMMA ReadRest ==
  ASSUME ListInv, ~ended, NEW k \in tasks, Read(k)
  PROVE  RestInv(ui', scanning', job', tasks', Noted', ended')
<1> DEFINE t == tasks \ {k}
           p == k.about.place
<1>1. /\ k.about \in Copies /\ p \in Places /\ t \in SUBSET Tasks /\ Noted' = Noted
      /\ k.kind = "read" /\ k \in Reads(tasks, p) /\ Reads(t, p) = Reads(tasks, p) \ {k}
      /\ Lists(tasks, p) = {} /\ ~scanning.done[p]
      /\ \E s \in Scans :
          /\ Elsewhere(s, t, p) /\ Continue(s, p, t) /\ HasBooks(s, t, p)
          /\ s.queue = scanning.queue
          /\ scanning.found \subseteq s.found
          /\ s.found \union s.unreadable
               = scanning.found \union scanning.unreadable \union {k.about}
  BY ReadIs DEF ListInv, Noted
<1>2. PICK s \in Scans :
        /\ Elsewhere(s, t, p) /\ Continue(s, p, t) /\ HasBooks(s, t, p)
        /\ s.queue = scanning.queue
        /\ scanning.found \subseteq s.found
        /\ s.found \union s.unreadable
             = scanning.found \union scanning.unreadable \union {k.about}
  BY <1>1
<1>3. Of(t, {"copy", "remove", "correct"}) = Of(tasks, {"copy", "remove", "correct"})
  BY <1>1, SameWork
<1>4. \A q \in Places \ {p} : At(s.found \union s.unreadable, q)
                                = At(scanning.found \union scanning.unreadable, q)
  BY <1>2 DEF At
<1>5. At(s.found \union s.unreadable, p)
        = At(scanning.found \union scanning.unreadable, p) \union {k.about}
  BY <1>2 DEF At
<1>6. ~Dirty(ui, job, tasks) => /\ Seen(scanning, tasks, Noted, p)
                                /\ \A q \in Places \ {p} : Seen(s, t, Noted, q)
  BY <1>1, <1>2, <1>4, ElsewhereRest
<1>7. {l.about : l \in Reads(tasks, p)} = {l.about : l \in Reads(t, p)} \union {k.about}
  BY <1>1
<1>8. scanning.status[p] \in {"checking", "ready", "unavailable"}
  BY <1>1 DEF ListInv, IInv, TypeOK, Scans
<1> HIDE DEF t, p
<1>9. ASSUME ~Dirty(ui, job, tasks)
      PROVE  Hears(s, t, Noted, p)
  <2> DEFINE known == At(scanning.found \union scanning.unreadable, p)
             old == {l.about : l \in Reads(tasks, p)}
             now == {l.about : l \in Reads(t, p)}
  <2>1. /\ scanning.status[p] # "unavailable" /\ scanning.status[p] # "ready"
        /\ known \union scanning.queue[p] \union old = At(Noted, p)
    BY <1>1, <1>6, <1>9 DEF Seen
  <2>2. s.status[p] = "checking"
    BY <1>2, <1>8, <2>1 DEF HasBooks
  <2>3. /\ At(s.found \union s.unreadable, p) = known \union {k.about}
        /\ old = now \union {k.about}
    BY <1>5, <1>7
  <2> HIDE DEF known, old, now
  <2>4. At(s.found \union s.unreadable, p) \union s.queue[p] \union now = At(Noted, p)
    BY <1>2, <2>1, <2>3
  <2> QED
    BY <1>6, <1>9, <2>2, <2>4 DEF Hears, now
<1> QED
  BY <1>1, <1>2, <1>3, <1>9, ContinueRest DEF Elsewhere, HasBooks



(* Messages that something is over. *)
LEMMA SavedRest ==
  ASSUME ListInv, ~ended, NEW k \in tasks, Saved(k)
  PROVE  RestInv(ui', scanning', job', tasks', Noted', ended')
<1> DEFINE t == tasks \ {k}
           shown == Shown(ui)
           m == [ui EXCEPT !.retaining = FALSE, !.loading = 0, !.pendingCatalog = None,
                           !.catalog = shown]
<1>0. /\ ui \in Models /\ ui.effect = NoEffect /\ ended = FALSE
      /\ KeptInv(ui, scanning) /\ RemoveInv(ui, tasks, Noted)
      /\ CurrentInv(ui, scanning, job, tasks, Noted)
  BY DEF ListInv, IInv, TypeOK, RestInv
<1>1. k.kind = "save" /\ Noted' = Noted /\ k \in Of(tasks, {"save"})
  BY DEF Saved, Noted, Of
<1>2. scanning = NoScan /\ Slot(ui.loading, Of(tasks, {"save"}))
  <2>1. Of(tasks, {"list", "read", "save"}) # {} /\ Of(tasks, {"index", "save"}) # {}
    BY <1>1 DEF Of
  <2> QED
    BY <2>1 DEF ListInv, IInv, Flight, ScanInv
<1>3. ui.loading = k.id /\ ui.loading # 0
  BY <1>1, <1>2, SlotDrop
<1>4. CatalogFinished(ui, k.id) = DeferredRefresh(m)
  BY <1>3 DEF CatalogFinished, Shown
<1>5. Perform(DeferredRefresh(m), scanning, job, t)
  BY <1>4 DEF Saved
<1>6. shown \in Snapshots
  BY <1>0 DEF Models, Shown
<1> HIDE DEF shown
<1>7. /\ m \in Models /\ m.effect = NoEffect /\ m.busy = ui.busy /\ m.loading = 0
      /\ m.pendingRefresh = ui.pendingRefresh /\ m.pendingQuit = ui.pendingQuit
      /\ ~m.retaining /\ m.pendingCatalog = None /\ m.catalog = shown
  BY <1>0, <1>6 DEF Models
<1> HIDE DEF m
<1>8. Outcome(m, DeferredRefresh(m)) /\ Waits(DeferredRefresh(m))
  BY <1>7, DeferredOutcome, QuitWaits
<1>9. /\ Of(t, Works) = Of(tasks, Works)
      /\ Of(t, {"remove"}) = Of(tasks, {"remove"})
      /\ Of(t, {"copy", "remove", "correct"}) = Of(tasks, {"copy", "remove", "correct"})
  BY <1>1 DEF Of, Works
<1> HIDE DEF t
<1>10. WorkInv(m.busy, job, t)
  BY <1>7, <1>9, WorkFrame DEF ListInv, IInv, Flight
<1>11. scanning.id = 0
  BY <1>2, NewScanIs DEF NoScan
<1>12. KeptInv(m, scanning)
  BY <1>7, <1>11 DEF KeptInv
<1>13. RemoveInv(m, t, Noted)
  BY <1>0, <1>3, <1>9 DEF RemoveInv
<1>14. CurrentInv(m, scanning, job, t, Noted)
  <2>1. Dirty(ui, job, tasks) => Dirty(m, job, t)
    BY <1>7, <1>9 DEF Dirty
  <2>2. Shown(m) = shown
    BY <1>7 DEF Shown
  <2> QED
    BY <1>0, <1>7, <1>11, <2>1, <2>2 DEF CurrentInv, shown
<1>15. RestInv(ui', scanning', job', tasks', Noted, ended')
  BY <1>0, <1>5, <1>8, <1>10, <1>12, <1>13, <1>14, PerformRest
<1> QED
  BY <1>1, <1>15

(* A job or a removal is over, and it is said to have gone well if it left  *)
(* anything behind that the list does not show.                            *)
LEMMA FinishedRest ==
  ASSUME ListInv, ~ended, Noted' = Noted, NEW k \in tasks, k.kind \in Works,
         NEW ok \in BOOLEAN, NEW j, j.id = 0,
         k.result = "ok" \/ (job.id # 0 /\ job.copied > 0) => ok,
         Perform(Finished(ui, k.id, ok), scanning, j, tasks \ {k})
  PROVE  RestInv(ui', scanning', job', tasks', Noted', ended')
<1> DEFINE t == tasks \ {k}
           again == ui.pendingRefresh \/ ok
           m == [ui EXCEPT !.busy = 0, !.pendingRefresh = again]
<1>0. /\ ui \in Models /\ ui.effect = NoEffect /\ ended = FALSE
      /\ KeptInv(ui, scanning) /\ CurrentInv(ui, scanning, job, tasks, Noted)
  BY DEF ListInv, IInv, TypeOK, RestInv
<1>1. k \in Of(tasks, Works) /\ Slot(ui.busy, Of(tasks, Works))
  BY DEF Of, ListInv, IInv, Flight, WorkInv
<1>2. ui.busy = k.id /\ Of(tasks, Works) = {k}
  BY <1>1, SlotDrop
<1>3. Perform(DeferredRefresh(m), scanning, j, t)
  BY <1>2 DEF Finished
<1>4. again \in BOOLEAN /\ (ui.pendingRefresh => again) /\ (ok => again)
  BY <1>0 DEF Models
<1> HIDE DEF again
<1>5. /\ m \in Models /\ m.effect = NoEffect /\ m.busy = 0 /\ m.loading = ui.loading
      /\ m.pendingRefresh = again /\ m.pendingQuit = ui.pendingQuit
      /\ m.retaining = ui.retaining /\ m.pendingCatalog = ui.pendingCatalog
      /\ m.catalog = ui.catalog
  BY <1>0, <1>4 DEF Models
<1> HIDE DEF m
<1>6. Outcome(m, DeferredRefresh(m)) /\ Waits(DeferredRefresh(m))
  BY <1>5, DeferredOutcome, QuitWaits
<1>7. Of(t, Works) = {} /\ Of(t, {"copy"}) = {} /\ Of(t, {"remove"}) = {}
  BY <1>2 DEF Of, Works
<1>8. \A l \in Of(tasks, {"copy", "remove", "correct"}) :
        l = k \/ l \in Of(t, {"copy", "remove", "correct"})
  BY DEF Of
<1>9. \A p : Lists(t, p) = Lists(tasks, p) /\ Reads(t, p) = Reads(tasks, p)
  BY DEF Lists, Reads, Works
<1> HIDE DEF t
<1>10. WorkInv(m.busy, j, t)
  BY <1>5, <1>7 DEF WorkInv, Slot
<1>11. KeptInv(m, scanning)
  BY <1>0, <1>5 DEF KeptInv
<1>12. RemoveInv(m, t, Noted)
  BY <1>7 DEF RemoveInv
<1>13. CurrentInv(m, scanning, j, t, Noted)
  <2>1. Dirty(ui, job, tasks) => Dirty(m, j, t)
    BY <1>4, <1>5, <1>8 DEF Dirty
  <2>2. Shown(m) = Shown(ui)
    BY <1>5 DEF Shown
  <2>3. \A p : Seen(scanning, tasks, Noted, p) => Seen(scanning, t, Noted, p)
    BY <1>9, SeenFrame
  <2> QED
    BY <1>0, <1>5, <2>1, <2>2, <2>3 DEF CurrentInv
<1>14. RestInv(ui', scanning', job', tasks', Noted, ended')
  BY <1>0, <1>3, <1>6, <1>10, <1>11, <1>12, <1>13, PerformRest
<1> QED
  BY <1>14

LEMMA RemovedRest ==
  ASSUME ListInv, ~ended, NEW k \in tasks, Removed(k)
  PROVE  RestInv(ui', scanning', job', tasks', Noted', ended')
<1>1. /\ k.kind = "remove" /\ Noted' = Noted
      /\ Perform(Finished(ui, k.id, k.result = "ok"), scanning, job, tasks \ {k})
  BY DEF Removed, Noted
<1>2. job.id = 0 /\ k.kind \in Works
  BY <1>1, RemovesAlone DEF ListInv
<1> DEFINE ok == k.result = "ok"
<1>3. ok \in BOOLEAN /\ (k.result = "ok" => ok)
  OBVIOUS
<1>4. Perform(Finished(ui, k.id, ok), scanning, job, tasks \ {k})
  BY <1>1
<1> HIDE DEF ok
<1> QED
  BY <1>1, <1>2, <1>3, <1>4, FinishedRest

(* The next book of the job: what was copied counts. *)
LEMMA NextBookRest ==
  ASSUME ListInv, Noted' = Noted, NEW k \in tasks, k.kind = "copy", k.id = job.id,
         NEW j \in Jobs, j.id = job.id,
         j.copied = IF k.result = "ok" THEN job.copied + 1 ELSE job.copied,
         NEW c \in Copies, job' = Begun(j, c),
         tasks' = (tasks \ {k}) \union {Task("copy", j.id, c)},
         UNCHANGED <<ui, scanning, ended>>
  PROVE  RestInv(ui', scanning', job', tasks', Noted', ended')
<1> DEFINE l == Task("copy", j.id, c)
           u == (tasks \ {k}) \union {l}
<1>1. /\ job'.id = job.id /\ job'.copied = j.copied
  BY DEF Begun, Jobs
<1>2. l.kind = "copy"
  BY DEF Task
<1> HIDE DEF l
<1>3. /\ Of(u, {"remove"}) = Of(tasks, {"remove"})
      /\ \A p : Lists(u, p) = Lists(tasks, p) /\ Reads(u, p) = Reads(tasks, p)
      /\ \A x \in Of(tasks, {"copy", "remove", "correct"}) : x = k \/ x \in u
  BY <1>2 DEF Of, Lists, Reads
<1>4. RestInv(ui, scanning, job, tasks, Noted, ended)
  BY DEF ListInv
<1>5. tasks' = u
  BY DEF l
<1>6. job \in Jobs
  BY DEF ListInv, IInv, TypeOK
<1> HIDE DEF u
<1>7. CASE k.result # "ok"
  <2>1. SameList(ui, ui)
    BY DEF SameList
  <2>2. job'.copied = job.copied
    BY <1>1, <1>7
  <2>3. \A x \in Of(tasks, {"copy", "remove", "correct"}) : x.result = "ok" => x \in u
    BY <1>3, <1>7
  <2>4. RestInv(ui, scanning, job', u, Noted, ended)
    BY <1>1, <1>3, <1>4, <2>1, <2>2, <2>3, RestFrame
  <2> QED
    BY <1>5, <2>4
<1>8. CASE k.result = "ok"
  <2>1. job.id # 0
    <3>1. k \in Of(tasks, {"copy"}) /\ WorkInv(ui.busy, job, tasks)
      BY DEF Of, ListInv, IInv, Flight
    <3> QED
      BY <3>1 DEF WorkInv
  <2>2. job'.copied > 0
    BY <1>1, <1>6, <1>8 DEF Jobs
  <2>3. Dirty(ui, job', u)
    BY <1>1, <2>1, <2>2 DEF Dirty
  <2>4. RemoveInv(ui, u, Noted)
    BY <1>3, <1>4 DEF RestInv, RemoveInv
  <2> QED
    BY <1>4, <1>5, <2>3, <2>4 DEF RestInv, CurrentInv
<1> QED
  BY <1>7, <1>8

LEMMA CopiedRest ==
  ASSUME ListInv, ~ended, NEW k \in tasks, Copied(k)
  PROVE  RestInv(ui', scanning', job', tasks', Noted', ended')
<1> DEFINE j == IF k.result = "ok" THEN [job EXCEPT !.copied = job.copied + 1]
                ELSE [job EXCEPT !.failures = job.failures + 1]
           ok == Succeeded(j)
<1>0. job \in Jobs /\ WorkInv(ui.busy, job, tasks)
  BY DEF ListInv, IInv, TypeOK, Flight
<1>1. /\ k.kind = "copy" /\ job.id = k.id /\ Noted' = Noted /\ k.kind \in Works
      /\ IF j.cancel \/ j.pending = {}
         THEN Perform(Finished(ui, j.id, ok), scanning, NoJob, tasks \ {k})
         ELSE \E c \in j.pending :
                /\ job' = Begun(j, c)
                /\ tasks' = (tasks \ {k}) \union {Task("copy", j.id, c)}
                /\ UNCHANGED <<ui, scanning, ended>>
  BY DEF Copied, Works, Noted
<1>2. /\ j \in Jobs /\ j.id = job.id /\ j.pending = job.pending /\ j.total = job.total
      /\ j.copied = IF k.result = "ok" THEN job.copied + 1 ELSE job.copied
      /\ j.failures = IF k.result = "ok" THEN job.failures ELSE job.failures + 1
  BY <1>0 DEF Jobs
<1>3. ok \in BOOLEAN /\ (ok <=> ~(j.total = 1 /\ j.failures = 1))
  BY DEF Succeeded
<1> HIDE DEF ok, j
<1>4. k.result = "ok" \/ job.copied > 0 => ok
  <2>1. k \in Of(tasks, {"copy"})
    BY <1>1 DEF Of
  <2>2. job.copied + job.failures + Cardinality(job.pending) + 1 = job.total
    BY <1>0, <2>1 DEF WorkInv
  <2>3. /\ job.copied \in Nat /\ job.failures \in Nat /\ job.pending \subseteq Copies
        /\ job.total \in Nat
    BY <1>0 DEF Jobs
  <2>4. Cardinality(job.pending) \in Nat
    BY <2>3, CopiesFinite, FS_Subset, FS_CardinalityType
  <2> DEFINE rest == Cardinality(job.pending)
  <2> HIDE DEF rest
  <2>5. rest \in Nat /\ job.copied + job.failures + rest + 1 = job.total
    BY <2>2, <2>4 DEF rest
  <2>6. job.total = 1 => job.copied = 0 /\ job.failures = 0
    BY <2>3, <2>5
  <2> QED
    BY <1>2, <1>3, <2>3, <2>6
<1>5. CASE j.cancel \/ j.pending = {}
  <2>1. Perform(Finished(ui, k.id, ok), scanning, NoJob, tasks \ {k})
    BY <1>1, <1>2, <1>5
  <2> QED
    BY <1>1, <1>3, <1>4, <2>1, NoJobIs, FinishedRest
<1>6. CASE ~(j.cancel \/ j.pending = {})
  <2>1. PICK c \in j.pending :
          /\ job' = Begun(j, c)
          /\ tasks' = (tasks \ {k}) \union {Task("copy", j.id, c)}
          /\ UNCHANGED <<ui, scanning, ended>>
    BY <1>1, <1>6
  <2>2. c \in Copies
    BY <1>2 DEF Jobs
  <2> QED
    BY <1>1, <1>2, <2>1, <2>2, NextBookRest
<1> QED
  BY <1>5, <1>6

(* A panel's task is over; a correction that went well is read again. *)
LEMMA PanelOverRest ==
  ASSUME ListInv, ~ended, Noted' = Noted, NEW k \in tasks, k.kind \in Panels,
         NEW m \in Models, NEW n, Outcome(m, n), Waits(n), SameList(ui, m),
         \/ k.kind # "correct" \/ k.result # "ok"
         \/ n.pendingRefresh \/ n.pendingQuit \/ n.effect = LoadEffect,
         Perform(n, scanning, job, tasks \ {k})
  PROVE  RestInv(ui', scanning', job', tasks', Noted', ended')
<1> DEFINE t == tasks \ {k}
<1>0. /\ ended = FALSE /\ KeptInv(ui, scanning) /\ RemoveInv(ui, tasks, Noted)
      /\ CurrentInv(ui, scanning, job, tasks, Noted)
  BY DEF ListInv, IInv, TypeOK, RestInv
<1>1. /\ Of(t, Works) = Of(tasks, Works) /\ Of(t, {"remove"}) = Of(tasks, {"remove"})
      /\ \A p : Lists(t, p) = Lists(tasks, p) /\ Reads(t, p) = Reads(tasks, p)
      /\ \A x \in Of(tasks, {"copy", "remove", "correct"}) :
          x \in Of(t, {"copy", "remove", "correct"}) \/ (x = k /\ k.kind = "correct")
  BY DEF Of, Works, Panels, Lists, Reads
<1>2. Perform(n, scanning, job, t)
  OBVIOUS
<1> HIDE DEF t
<1>3. WorkInv(m.busy, job, t)
  BY <1>1, WorkFrame DEF ListInv, IInv, Flight, SameList
<1>4. KeptInv(m, scanning) /\ RemoveInv(m, t, Noted)
  BY <1>0, <1>1 DEF KeptInv, RemoveInv, SameList
<1>5. \/ CurrentInv(m, scanning, job, t, Noted)
      \/ n.pendingRefresh \/ n.pendingQuit \/ n.effect = LoadEffect
  <2>1. CASE k.kind # "correct" \/ k.result # "ok"
    <3>1. Dirty(ui, job, tasks) => Dirty(m, job, t)
      BY <1>1, <2>1 DEF Dirty, SameList
    <3>2. \A p : Seen(scanning, tasks, Noted, p) => Seen(scanning, t, Noted, p)
      BY <1>1, SeenFrame
    <3>3. Shown(m) = Shown(ui) /\ m.loading = ui.loading /\ m.pendingCatalog = ui.pendingCatalog
      BY DEF Shown, SameList
    <3> QED
      BY <1>0, <3>1, <3>2, <3>3 DEF CurrentInv
  <2> QED
    BY <2>1
<1>6. RestInv(ui', scanning', job', tasks', Noted, ended')
  BY <1>0, <1>2, <1>3, <1>4, <1>5, PerformRest
<1> QED
  BY <1>6

LEMMA CorrectionDoneRest ==
  ASSUME ListInv, ~ended, NEW k \in tasks, CorrectionDone(k)
  PROVE  RestInv(ui', scanning', job', tasks', Noted', ended')
<1> DEFINE ok == k.result = "ok"
           a == [ui EXCEPT !.configuring = 0]
           b == [ui EXCEPT !.configuring = 0, !.correcting = None]
<1>0. /\ ui \in Models /\ ui.effect = NoEffect /\ Waits(ui)
      /\ (k.result = "ok" <=> ok) /\ ok \in BOOLEAN
  BY DEF ListInv, IInv, TypeOK, RestInv, WaitInv
<1>1. /\ k.kind = "correct" /\ k.kind \in Panels /\ Noted' = Noted
      /\ Perform(Corrected(ui, k.id, ok), scanning, job, tasks \ {k})
  BY DEF CorrectionDone, Noted, Panels
<1>2. ui.configuring = k.id
  BY <1>1, PanelId DEF ListInv
<1>3. Corrected(ui, k.id, ok) = IF ~ok THEN Settled(a)
                                ELSE IF ui.pendingQuit THEN Settled(b) ELSE Refresh(b)
  BY <1>2 DEF Corrected
<1> HIDE DEF ok
<1>4. a \in Models /\ a.effect = NoEffect /\ SameList(ui, a)
  BY <1>0 DEF Models, SameList
<1>5. b \in Models /\ b.effect = NoEffect /\ SameList(ui, b)
  BY <1>0 DEF Models, SameList
<1> HIDE DEF a, b
<1>6. Outcome(a, Settled(a)) /\ Outcome(b, Settled(b)) /\ Outcome(b, Refresh(b))
  BY <1>4, <1>5, SettledOutcome, RefreshOutcome
<1>7. Waits(a) /\ Waits(b)
  BY <1>0, <1>4, <1>5 DEF Waits, SameList
<1>8. Waits(Settled(a)) /\ Waits(Settled(b)) /\ Waits(Refresh(b))
  BY <1>4, <1>5, <1>7, QuitWaits
<1>9. CASE ~ok
  BY <1>0, <1>1, <1>3, <1>4, <1>6, <1>8, <1>9, PanelOverRest
<1>10. CASE ok /\ ui.pendingQuit
  <2>1. Settled(b).pendingQuit
    BY <1>5, <1>6, <1>10 DEF Outcome, SameList
  <2> QED
    BY <1>1, <1>3, <1>5, <1>6, <1>8, <1>10, <2>1, PanelOverRest
<1>11. CASE ok /\ ~ui.pendingQuit
  <2>1. \/ Refresh(b).pendingQuit \/ Refresh(b).pendingRefresh
        \/ Refresh(b).effect = LoadEffect
    BY <1>5, RefreshServes
  <2> QED
    BY <1>1, <1>3, <1>5, <1>6, <1>8, <1>11, <2>1, PanelOverRest
<1> QED
  BY <1>9, <1>10, <1>11

LEMMA SettingsDoneRest ==
  ASSUME ListInv, ~ended, NEW k \in tasks, SettingsDone(k)
  PROVE  RestInv(ui', scanning', job', tasks', Noted', ended')
<1> DEFINE a == [ui EXCEPT !.configuring = 0]
           b == [ui EXCEPT !.configuring = 0, !.settings = "closed", !.restart = TRUE]
<1>0. ui \in Models /\ ui.effect = NoEffect /\ Waits(ui)
  BY DEF ListInv, IInv, TypeOK, RestInv, WaitInv
<1>1. PICK saved \in BOOLEAN :
        Perform(Configured(ui, k.id, saved), scanning, job, tasks \ {k})
  BY DEF SettingsDone
<1>2. k.kind \in Panels /\ k.kind # "correct" /\ Noted' = Noted
  BY DEF SettingsDone, Noted, Panels
<1>3. ui.configuring = k.id
  BY <1>2, PanelId DEF ListInv
<1>4. Configured(ui, k.id, saved) \in {Settled(a), Quit(b)}
  BY <1>3 DEF Configured
<1>5. a \in Models /\ a.effect = NoEffect /\ SameList(ui, a)
  BY <1>0 DEF Models, SameList
<1>6. b \in Models /\ b.effect = NoEffect /\ SameList(ui, b)
  BY <1>0 DEF Models, SameList
<1> HIDE DEF a, b
<1>7. Outcome(a, Settled(a)) /\ Outcome(b, Quit(b))
  BY <1>5, <1>6, SettledOutcome, QuitOutcome
<1>8. Waits(a) /\ Waits(b)
  BY <1>0, <1>5, <1>6 DEF Waits, SameList
<1>9. Waits(Settled(a)) /\ Waits(Quit(b))
  BY <1>5, <1>6, <1>8, QuitWaits
<1>10. CASE Configured(ui, k.id, saved) = Settled(a)
  BY <1>1, <1>2, <1>5, <1>7, <1>9, <1>10, PanelOverRest
<1>11. CASE Configured(ui, k.id, saved) = Quit(b)
  BY <1>1, <1>2, <1>6, <1>7, <1>9, <1>11, PanelOverRest
<1> QED
  BY <1>4, <1>10, <1>11

LEMMA MessagesRest ==
  ASSUME ListInv, Messages
  PROVE  RestInv(ui', scanning', job', tasks', Noted', ended')
<1>1. ~ended
  BY DEF Messages
<1>2. PICK k \in tasks :
        \/ Indexed(k) \/ ListingIn(k) \/ Read(k) \/ Saved(k)
        \/ Copied(k) \/ Removed(k) \/ CorrectionDone(k) \/ SettingsDone(k)
  BY DEF Messages
<1> QED
  BY <1>1, <1>2, IndexedRest, ListingInRest, ReadRest, SavedRest, CopiedRest,
     RemovedRest, CorrectionDoneRest, SettingsDoneRest



-----------------------------------------------------------------------------
(* The invariant of the list holds; the list and a last copy. *)

LEMMA InitRest == Init => ListInv
<1> SUFFICES ASSUME Init
             PROVE  RestInv(ui, scanning, job, tasks, Noted, ended)
  BY InitIs DEF ListInv, LeftInv, Init
<1>1. ended = FALSE /\ job.id = 0
  BY NoJobIs DEF Init
<1>2. CASE ui = NewModel(TRUE) /\ scanning = NoScan /\ tasks = {}
  <2>1. /\ ~ui.pendingQuit /\ ~ui.pendingRefresh /\ ui.pendingCatalog = None
        /\ ui.catalog.copies = {} /\ ui.catalog.unreadable = {}
        /\ \A p \in Places : ui.catalog.status[p] = "checking"
    BY <1>2, NewModelIs
  <2>2. scanning.id = 0
    BY <1>2, NewScanIs DEF NoScan
  <2>3. Accurate(Shown(ui), Noted)
    BY <2>1 DEF Shown, Accurate, At
  <2>4. Of(tasks, {"remove"}) = {}
    BY <1>2 DEF Of
  <2> QED
    BY <2>1, <2>2, <2>3, <2>4 DEF RestInv, WaitInv, Waits, KeptInv, CurrentInv, RemoveInv
<1>3. CASE /\ ui = [Refresh(NewModel(FALSE)) EXCEPT !.effect = NoEffect]
           /\ scanning = NewScan(1) /\ tasks = {Task("index", 1, None)}
  <2> DEFINE m == NewModel(FALSE)
             n == Refresh(m)
             x == Task("index", 1, None)
  <2>1. /\ m \in Models /\ m.effect = NoEffect /\ m.busy = 0 /\ m.loading = 0 /\ m.nextId = 0
        /\ ~m.pendingQuit /\ m.pendingCatalog = None /\ m.catalog.copies = {}
    BY NewModelIs
  <2> HIDE DEF m
  <2>2. n \in Models /\ n.catalog = m.catalog
    BY <2>1, RefreshOutcome DEF Outcome
  <2>3. /\ n.loading = 1 /\ ~n.pendingRefresh /\ ~n.pendingQuit /\ n.pendingCatalog = None
    BY <2>1 DEF Refresh, Models
  <2> HIDE DEF n
  <2>4. /\ ui.loading = 1 /\ ~ui.pendingRefresh /\ ~ui.pendingQuit /\ ui.pendingCatalog = None
        /\ ui.catalog.copies = {}
    BY <1>3, <2>1, <2>2, <2>3, WithoutEffect DEF m, n
  <2>5. x.kind = "index"
    BY DEF Task
  <2>6. tasks = {x}
    BY <1>3
  <2> HIDE DEF x
  <2>7. Of(tasks, {"remove"}) = {}
    BY <2>5, <2>6 DEF Of
  <2>8. scanning.id # 0 /\ ~scanning.indexed
    BY <1>3, NewScanIs
  <2> QED
    BY <2>4, <2>7, <2>8 DEF RestInv, WaitInv, Waits, KeptInv, CurrentInv, RemoveInv
<1> QED
  BY <1>2, <1>3 DEF Init

(* Keys change no place and no list. *)
LEMMA KeysList ==
  ASSUME IInv, Keys
  PROVE  disk' = disk /\ left' = left /\ ui'.catalog = ui.catalog
<1>0. ui \in Models /\ ui.effect = NoEffect
  BY UiIs
<1> DEFINE Same(n) == "catalog" \in DOMAIN n /\ n.catalog = ui.catalog
<1>1. ASSUME NEW n, Same(n), Key(n)
      PROVE  disk' = disk /\ left' = left /\ ui'.catalog = ui.catalog
  <2>1. ui' = [n EXCEPT !.effect = NoEffect] /\ disk' = disk /\ left' = left
    BY <1>1 DEF Key, Perform
  <2>2. [n EXCEPT !.effect = NoEffect].catalog = n.catalog
    BY <1>1
  <2> QED
    BY <1>1, <2>1, <2>2
<1>2. \A n \in Models : n.catalog = ui.catalog => Same(n)
  BY DEF Models
<1>3. /\ \A v : Same([ui EXCEPT !.action = v]) /\ Same([ui EXCEPT !.copies = v])
      /\ \A v : Same([ui EXCEPT !.confirm = v]) /\ Same([ui EXCEPT !.settings = v])
      /\ \A v : Same([ui EXCEPT !.ask = v]) /\ Same([ui EXCEPT !.correcting = v])
  BY <1>0 DEF Models
<1>4. \A target : Same(StartCopying(ui, target))
  BY <1>0 DEF StartCopying, Models
<1>5. Same(ConfirmRemoval(ui))
  BY <1>0 DEF ConfirmRemoval, Models
<1>6. Same(Quit(ui)) /\ Same(Refresh(ui))
  BY <1>0, <1>2, QuitOutcome, RefreshOutcome DEF Outcome
<1>7. Same(Refresh([ui EXCEPT !.settings = "closed"]))
  <2> DEFINE m == [ui EXCEPT !.settings = "closed"]
  <2>1. m \in Models /\ m.effect = NoEffect /\ m.catalog = ui.catalog
    BY <1>0 DEF Models
  <2> HIDE DEF m, Same
  <2>2. Refresh(m) \in Models /\ Refresh(m).catalog = ui.catalog
    BY <2>1, RefreshOutcome DEF Outcome
  <2>3. Same(Refresh(m))
    BY <1>2, <2>2
  <2> QED
    BY <2>3 DEF m
<1> HIDE DEF Same
<1>8. CASE Interrupt \/ AskToQuit \/ AskRefresh
  BY <1>1, <1>6, <1>8 DEF Interrupt, AskToQuit, AskRefresh
<1>9. CASE OpenCopyDialog \/ OpenCopies \/ OpenCorrection \/ OpenSettings \/ AskRemoval
  BY <1>1, <1>3, <1>9 DEF OpenCopyDialog, OpenCopies, OpenCorrection, OpenSettings, AskRemoval
<1>10. CASE CloseAsk \/ CloseAction \/ CloseCopies \/ CloseCorrection \/ RefuseRemoval
  BY <1>1, <1>3, <1>10 DEF CloseAsk, CloseAction, CloseCopies, CloseCorrection, RefuseRemoval
<1>11. CASE CloseSettings
  BY <1>1, <1>3, <1>7, <1>11 DEF CloseSettings
<1>12. CASE PressTarget
  <2>1. PICK target \in Places : \E m \in ChooseTarget(ui, target) : Key(m)
    BY <1>12 DEF PressTarget
  <2>2. PICK m \in ChooseTarget(ui, target) : Key(m)
    BY <2>1
  <2>3. Same(m)
    BY <1>3, <1>4, <2>2 DEF ChooseTarget
  <2> QED
    BY <1>1, <2>2, <2>3
<1>13. CASE PressYes \/ PressConfirm
  BY <1>1, <1>4, <1>5, <1>13 DEF PressYes, PressConfirm
<1>14. CASE StopCopying
  BY <1>14 DEF StopCopying
<1>15. CASE RunCorrection \/ RunSettings
  <2>1. ui' = [ui EXCEPT !.nextId = @ + 1, !.configuring = ui.nextId + 1] /\ disk' = disk /\ left' = left
    BY <1>15 DEF RunCorrection, RunSettings
  <2> QED
    BY <1>0, <2>1 DEF Models
<1> QED
  BY <1>8, <1>9, <1>10, <1>11, <1>12, <1>13, <1>14, <1>15 DEF Keys

(* Messages change no place. *)
LEMMA MessagesPlaces ==
  ASSUME Messages
  PROVE  disk' = disk /\ left' = left
BY DEF Messages, Indexed, ListingIn, Read, Saved, Copied, Removed, CorrectionDone, SettingsDone

(* A failed book leaves copies of what it was to copy, which was not on a  *)
(* reader, and only what is on a reader is deleted.                        *)
LEMMA LeftKeeps ==
  ASSUME IInv, LeftInv, [Next]_vars
  PROVE  LeftInv'
<1>0. disk \subseteq Copies
  BY DEF IInv, TypeOK
<1>1. CASE disk' = disk /\ left' \subseteq left
  BY <1>1 DEF LeftInv
<1>2. CASE Threads
  <2>1. PICK k \in tasks : ListPlace(k) \/ CopyBook(k) \/ RemoveCopy(k) \/ CorrectBook(k)
    BY <1>2 DEF Threads
  <2>2. CASE ListPlace(k)
    <3>1. disk' = disk /\ left' \subseteq left
      BY <2>2 DEF ListPlace
    <3> QED
      BY <1>1, <3>1
  <2>3. CASE disk \subseteq disk' /\ left' = left
    BY <2>3 DEF LeftInv
  <2>4. CASE RemoveCopy(k)
    <3>1. CASE disk' = disk /\ left' = left
      BY <1>1, <3>1
    <3>2. CASE /\ k.about.place = "CrossPoint"
               /\ disk' = disk \ {k.about} /\ left' = left \ {k.about}
      <4> SUFFICES ASSUME NEW x \in left'
                   PROVE  \E y \in disk' : y # x /\ y.book = x.book /\ y.place # "CrossPoint"
        BY DEF LeftInv
      <4>1. PICK y \in disk : y # x /\ y.book = x.book /\ y.place # "CrossPoint"
        BY <3>2 DEF LeftInv
      <4> QED
        BY <3>2, <4>1
    <3> QED
      BY <2>4, <3>1, <3>2 DEF RemoveCopy
  <2>5. CASE CopyBook(k)
    <3> DEFINE c == k.about
    <3>1. CASE disk \subseteq disk' /\ left' = left
      BY <2>3, <3>1
    <3>2. ASSUME NEW some \in LeftBehind(c, job.target), c \in disk, c.place # job.target,
                 disk' = disk \union some, left' = left \union (some \ disk)
          PROVE  LeftInv'
      <4> SUFFICES ASSUME NEW x \in left'
                   PROVE  \E y \in disk' : y # x /\ y.book = x.book /\ y.place # "CrossPoint"
        BY DEF LeftInv
      <4>1. CASE x \in left
        BY <3>2, <4>1 DEF LeftInv
      <4>2. CASE x \in some
        <5>1. job.target = "CrossPoint" /\ x \in Added(c, "CrossPoint")
          BY <3>2, <4>2 DEF LeftBehind, Added
        <5>2. x # c /\ c.book = x.book
          BY <1>0, <3>2, <5>1 DEF Added, Made, Copies
        <5> QED
          BY <3>2, <5>1, <5>2
      <4> QED
        BY <3>2, <4>1, <4>2
    <3> QED
      BY <2>5, <3>1, <3>2 DEF CopyBook
  <2>6. CASE CorrectBook(k)
    <3>1. disk \subseteq disk' /\ left' = left
      BY <2>6 DEF CorrectBook
    <3> QED
      BY <2>3, <3>1
  <2> QED
    BY <2>1, <2>2, <2>4, <2>5, <2>6
<1>3. CASE Keys \/ Messages \/ UNCHANGED vars
  <2>1. disk' = disk /\ left' = left
    BY <1>3, KeysList, MessagesPlaces DEF vars
  <2> QED
    BY <1>1, <2>1
<1> QED
  BY <1>2, <1>3 DEF Next

LEMMA NextRest == ListInv /\ [Next]_vars => ListInv'
<1> SUFFICES ASSUME ListInv, [Next]_vars
             PROVE  ListInv'
  OBVIOUS
<1>1. IInv'
  BY KeysKeep, ThreadsKeep, MessagesKeep, StutterKeeps DEF Next, ListInv
<1>2. RestInv(ui', scanning', job', tasks', Noted', ended')
  <2>1. CASE UNCHANGED vars
    BY <2>1 DEF vars, ListInv, Noted
  <2> QED
    BY <2>1, KeysRest, ThreadsRest, MessagesRest DEF Next
<1>3. LeftInv'
  BY LeftKeeps DEF ListInv
<1> QED
  BY <1>1, <1>2, <1>3 DEF ListInv

(* What the list says of a place is so, or it will be read again, but for  *)
(* what failed books have left there since; a deletion under way leaves a  *)
(* copy, and so does one of what was left (model.rs, Model::removal, and   *)
(* books.rs, transferred and remove).                                      *)
THEOREM ListHolds == Spec => []ListInv
BY InitRest, NextRest, PTL DEF Spec

(* When nothing runs, the list says what the places hold, whatever was     *)
(* copied, deleted or corrected while they were read: what went well asks  *)
(* for a refresh, which waits for its turn (model.rs, Message::Refresh,    *)
(* Finished and Corrected, and Model::deferred_refresh).  What failed does *)
(* not, so what it left is on no list until its place is listed again.     *)
THEOREM ListTellsThePlaces == Spec => []ListIsCurrent
<1>1. ListInv => ListIsCurrent
  <2> SUFFICES ASSUME ListInv, tasks = {}, ~ended
               PROVE  \A p \in Places : ui.catalog.status[p] = "ready" =>
                        {c \in ui.catalog.copies \union ui.catalog.unreadable : c.place = p}
                          = {c \in Noted : c.place = p}
    BY DEF ListIsCurrent
  <2>1. IInv /\ WaitInv(ui, ended) /\ CurrentInv(ui, scanning, job, tasks, Noted)
    BY DEF ListInv, RestInv
  <2>2. \A kinds : Of(tasks, kinds) = {}
    BY DEF Of
  <2>3. ui.busy = 0 /\ job.id = 0
    BY <2>1, <2>2 DEF IInv, Flight, WorkInv, Slot
  <2>4. ui.configuring = 0
    BY <2>1, <2>2 DEF IInv, Flight, PanelInv, Slot
  <2>5. ui.loading = 0 /\ scanning.id = 0
    <3>1. scanning \in Scans /\ ScanInv(ui.loading, scanning, tasks)
      BY <2>1 DEF IInv, TypeOK, Flight
    <3>2. {k.id : k \in Of(tasks, ScanKinds)} = {ui.loading} \ {0} /\ scanning.id \in {0, ui.loading}
      BY <3>1, ScanIds
    <3> QED
      BY <2>2, <3>2
  <2>6. ~Dirty(ui, job, tasks)
    BY <2>1, <2>2, <2>3, <2>4, <2>5 DEF Dirty, WaitInv, Waits, Working
  <2>7. Accurate(ui.catalog, Noted)
    BY <2>1, <2>5, <2>6 DEF CurrentInv, Shown
  <2> QED
    BY <2>7 DEF Accurate, At
<1> QED
  BY <1>1, ListHolds, PTL

(* crossload deletes no last copy of a book whose place it could read,     *)
(* however old the list was that a dialog was opened on: nothing is        *)
(* deleted before the list is current, and the question counts the copies  *)
(* the list has then (model.rs, Model::removal and Model::current).        *)
THEOREM NoLastCopyIsDeleted == Spec => LastCopyStays
<1>1. ListInv /\ [Next]_vars
        => [\A c \in disk : ui.catalog.status[c.place] = "ready"
                              => \E d \in disk' : d.book = c.book]_vars
  <2> SUFFICES ASSUME ListInv, Next, NEW c \in disk, ui.catalog.status[c.place] = "ready"
               PROVE  \E d \in disk' : d.book = c.book
    OBVIOUS
  <2>1. CASE Keys \/ Messages
    BY <2>1, KeysList, MessagesPlaces DEF ListInv
  <2>2. CASE Threads
    <3>1. PICK k \in tasks :
            /\ k.result = "running"
            /\ ListPlace(k) \/ CopyBook(k) \/ RemoveCopy(k) \/ CorrectBook(k)
      BY <2>2 DEF Threads
    <3>2. CASE disk \subseteq disk'
      BY <3>2
    <3>3. CASE k.kind = "remove" /\ k.about \in disk /\ disk' = disk \ {k.about}
      <4>1. k \in Of(tasks, {"remove"}) /\ RemoveInv(ui, tasks, Noted)
        BY <3>3 DEF Of, ListInv, RestInv
      <4>2. CASE c # k.about
        BY <3>3, <4>2
      <4>3. CASE c = k.about /\ c \in Noted
        <5>1. PICK d \in Noted : d # k.about /\ d.book = c.book
          BY <3>1, <4>1, <4>3 DEF RemoveInv
        <5> QED
          BY <3>3, <5>1 DEF Noted
      <4>4. CASE c = k.about /\ c \in left
        <5>1. PICK d \in disk : d # c /\ d.book = c.book
          BY <4>4 DEF ListInv, LeftInv
        <5> QED
          BY <3>3, <4>4, <5>1
      <4> QED
        BY <4>2, <4>3, <4>4 DEF Noted
    <3> QED
      BY <3>1, <3>2, <3>3 DEF ListPlace, CopyBook, RemoveCopy, CorrectBook
  <2> QED
    BY <2>1, <2>2 DEF Next
<1> QED
  BY <1>1, ListHolds, PTL DEF Spec, LastCopyStays


(* The list that Perform leaves is the model's. *)
LEMMA PerformList ==
  ASSUME NEW n \in Models, NEW s, NEW j, NEW t, Perform(n, s, j, t)
  PROVE  ui'.catalog = n.catalog
<1>1. ui' = [n EXCEPT !.effect = NoEffect]
  BY DEF Perform
<1> QED
  BY <1>1, WithoutEffect

(* A part of the next list is shown only if it has what is shown already. *)
LEMMA ReportList ==
  ASSUME ui \in Models, KeptInv(ui, scanning), scanning.id # 0, NEW s \in Scans, NEW before, NEW t,
         scanning.found \subseteq s.found, Report(s, before, t)
  PROVE  ui.catalog.copies \subseteq ui'.catalog.copies
<1> DEFINE c == Catalog(ui, s.id, Snapshot(s))
<1>1. PICK n \in {ui, c} : \E z, u : Perform(n, z, job, u)
  BY DEF Report
<1>2. Snapshot(s) \in Snapshots /\ Snapshot(s).copies = s.found
  BY DEF Snapshot, Snapshots, Scans
<1>3. CASE ui.loading = s.id /\ ~ui.retaining
  <2>1. c \in Models /\ c.catalog = Snapshot(s)
    BY <1>2, <1>3 DEF Catalog, Models
  <2>2. ui.catalog.copies \subseteq s.found
    BY <1>3 DEF KeptInv
  <2> HIDE DEF c
  <2> QED
    BY <1>1, <1>2, <2>1, <2>2, PerformList
<1>4. CASE ui.loading = s.id /\ ui.retaining
  <2>1. c \in Models /\ c.catalog = ui.catalog
    BY <1>2, <1>4 DEF Catalog, Models
  <2> HIDE DEF c
  <2> QED
    BY <1>1, <2>1, PerformList
<1>5. CASE ui.loading # s.id
  <2>1. c \in Models /\ c.catalog = ui.catalog
    <3>1. c = Settled(ui)
      BY <1>5 DEF Catalog
    <3>2. Settled(ui) \in Models /\ Settled(ui).catalog = ui.catalog
      BY DEF Settled, Quit, Working, Models, Effects
    <3> QED
      BY <3>1, <3>2
  <2> HIDE DEF c
  <2> QED
    BY <1>1, <2>1, PerformList
<1> QED
  BY <1>3, <1>4, <1>5

LEMMA ContinueList ==
  ASSUME ui \in Models, KeptInv(ui, scanning), scanning.id # 0,
         NEW s \in Scans, NEW p \in Places, NEW t \in SUBSET Tasks,
         Elsewhere(s, t, p), HasBooks(s, t, p),
         scanning.found \subseteq s.found, Continue(s, p, t)
  PROVE  ui.catalog.copies \subseteq ui'.catalog.copies
<1>1. PICK z \in Scans, u \in SUBSET Tasks, batch \in SUBSET s.queue[p] :
        Report(z, s, u) /\ Begins(z, s, u, t, p, batch)
  BY ContinueIs DEF Elsewhere, HasBooks
<1>2. scanning.found \subseteq z.found
  BY <1>1 DEF Begins
<1> QED
  BY <1>1, <1>2, ReportList

(* Work that is over, a panel's or the list's own, leaves the list. *)
LEMMA OverList ==
  ASSUME ui \in Models, ui.effect = NoEffect, NEW id, NEW ok \in BOOLEAN,
         NEW n \in {Finished(ui, id, ok), Corrected(ui, id, ok), Configured(ui, id, ok)}
  PROVE  n \in Models /\ n.catalog = ui.catalog
<1> DEFINE Same(m) == m \in Models /\ m.catalog = ui.catalog
<1>1. ASSUME NEW m \in Models, m.effect = NoEffect, m.catalog = ui.catalog
      PROVE  Same(Settled(m)) /\ Same(Quit(m)) /\ Same(Refresh(m)) /\ Same(DeferredRefresh(m))
  BY <1>1, SettledOutcome, QuitOutcome, RefreshOutcome, DeferredOutcome DEF Outcome
<1> DEFINE again == ui.pendingRefresh \/ ok
           a == [ui EXCEPT !.busy = 0, !.pendingRefresh = again]
           b == [ui EXCEPT !.configuring = 0]
           c == [ui EXCEPT !.configuring = 0, !.correcting = None]
           d == [ui EXCEPT !.configuring = 0, !.settings = "closed", !.restart = TRUE]
<1>2. again \in BOOLEAN
  OBVIOUS
<1>3. Finished(ui, id, ok) \in {Settled(ui), DeferredRefresh(a)}
  BY DEF Finished
<1>4. Corrected(ui, id, ok) \in {Settled(ui), Settled(b), Settled(c), Refresh(c)}
  BY DEF Corrected
<1>5. Configured(ui, id, ok) \in {Settled(ui), Quit(d), Settled(b)}
  BY DEF Configured
<1> HIDE DEF again
<1>6. /\ a \in Models /\ a.effect = NoEffect /\ a.catalog = ui.catalog
      /\ b \in Models /\ b.effect = NoEffect /\ b.catalog = ui.catalog
  BY <1>2 DEF Models
<1>7. /\ c \in Models /\ c.effect = NoEffect /\ c.catalog = ui.catalog
      /\ d \in Models /\ d.effect = NoEffect /\ d.catalog = ui.catalog
  BY DEF Models
<1> HIDE DEF a, b, c, d, Same
<1>8. Same(n)
  BY <1>1, <1>3, <1>4, <1>5, <1>6, <1>7
<1> QED
  BY <1>8 DEF Same

LEMMA MessagesList ==
  ASSUME ListInv, Messages
  PROVE  ui.catalog.copies \subseteq ui'.catalog.copies
         \/ (scanning.id = 0 /\ Flying({"save"}) # {})
<1>1. ~ended
  BY DEF Messages
<1>2. PICK k \in tasks :
        \/ Indexed(k) \/ ListingIn(k) \/ Read(k) \/ Saved(k)
        \/ Copied(k) \/ Removed(k) \/ CorrectionDone(k) \/ SettingsDone(k)
  BY DEF Messages
<1>3. ui \in Models /\ ui.effect = NoEffect /\ KeptInv(ui, scanning) /\ IInv
  BY DEF ListInv, IInv, TypeOK, RestInv
<1>4. k.kind \in {"list", "read"} => scanning.id # 0
  BY <1>3, ScanDrop DEF ScanWorks
<1>5. CASE Indexed(k)
  BY <1>5 DEF Indexed
<1>6. CASE ListingIn(k)
  <2> DEFINE t == tasks \ {k}
             p == k.place
  <2>1. /\ p \in Places /\ t \in SUBSET Tasks /\ k.kind = "list"
        /\ \E s \in Scans :
            /\ Elsewhere(s, t, p)
            /\ \/ Report(s, scanning, t) /\ NotListed(s, t, p)
               \/ Continue(s, p, t) /\ HasBooks(s, t, p) /\ scanning.found \subseteq s.found
    BY <1>3, <1>6, ListingInIs
  <2>2. PICK s \in Scans :
          /\ Elsewhere(s, t, p)
          /\ \/ Report(s, scanning, t) /\ NotListed(s, t, p)
             \/ Continue(s, p, t) /\ HasBooks(s, t, p) /\ scanning.found \subseteq s.found
    BY <2>1
  <2> HIDE DEF t, p
  <2>3. CASE Report(s, scanning, t) /\ NotListed(s, t, p)
    BY <1>3, <1>4, <2>1, <2>3, ReportList DEF NotListed
  <2>4. CASE Continue(s, p, t) /\ HasBooks(s, t, p) /\ scanning.found \subseteq s.found
    BY <1>3, <1>4, <2>1, <2>2, <2>4, ContinueList
  <2> QED
    BY <2>2, <2>3, <2>4
<1>7. CASE Read(k)
  <2> DEFINE t == tasks \ {k}
             p == k.about.place
  <2>1. /\ p \in Places /\ t \in SUBSET Tasks /\ k.kind = "read"
        /\ \E s \in Scans : /\ Elsewhere(s, t, p) /\ Continue(s, p, t) /\ HasBooks(s, t, p)
                            /\ scanning.found \subseteq s.found
    BY <1>3, <1>7, ReadIs
  <2> HIDE DEF t, p
  <2> QED
    BY <1>3, <1>4, <2>1, ContinueList
<1>8. CASE Saved(k)
  <2>1. k \in Of(tasks, {"save"}) /\ ScanInv(ui.loading, scanning, tasks)
    BY <1>3, <1>8 DEF Saved, Of, IInv, Flight
  <2>2. scanning = NoScan
    <3>1. Of(tasks, {"list", "read", "save"}) # {} /\ Of(tasks, {"index", "save"}) # {}
      BY <2>1 DEF Of
    <3> QED
      BY <2>1, <3>1 DEF ScanInv
  <2> QED
    BY <2>1, <2>2, NewScanIs DEF NoScan, Of, Flying
<1>9. CASE Copied(k) \/ Removed(k) \/ CorrectionDone(k) \/ SettingsDone(k)
  <2>1. \/ UNCHANGED ui
        \/ \E id, s, j, t : \E ok \in BOOLEAN :
             \E n \in {Finished(ui, id, ok), Corrected(ui, id, ok), Configured(ui, id, ok)} :
               Perform(n, s, j, t)
    <3>1. CASE Copied(k)
      <4>1. \/ UNCHANGED ui
            \/ \E j : Perform(Finished(ui, j.id, Succeeded(j)), scanning, NoJob, tasks \ {k})
        BY <3>1 DEF Copied
      <4>2. \A j : Succeeded(j) \in BOOLEAN
        BY DEF Succeeded
      <4> QED
        BY <4>1, <4>2
    <3>2. CASE Removed(k)
      <4>1. Perform(Finished(ui, k.id, k.result = "ok"), scanning, job, tasks \ {k})
        BY <3>2 DEF Removed
      <4> DEFINE ok == k.result = "ok"
      <4>2. ok \in BOOLEAN
        OBVIOUS
      <4> QED
        BY <4>1, <4>2
    <3>3. CASE CorrectionDone(k)
      <4>1. Perform(Corrected(ui, k.id, k.result = "ok"), scanning, job, tasks \ {k})
        BY <3>3 DEF CorrectionDone
      <4> DEFINE ok == k.result = "ok"
      <4>2. ok \in BOOLEAN
        OBVIOUS
      <4> QED
        BY <4>1, <4>2
    <3>4. CASE SettingsDone(k)
      <4>1. \E ok \in BOOLEAN : Perform(Configured(ui, k.id, ok), scanning, job, tasks \ {k})
        BY <3>4 DEF SettingsDone
      <4> QED
        BY <4>1
    <3> QED
      BY <1>9, <3>1, <3>2, <3>3, <3>4
  <2>2. CASE UNCHANGED ui
    BY <2>2
  <2>3. CASE ~UNCHANGED ui
    <3>1. PICK id, s, j, t :
            \E ok \in BOOLEAN :
             \E n \in {Finished(ui, id, ok), Corrected(ui, id, ok), Configured(ui, id, ok)} :
               Perform(n, s, j, t)
      BY <2>1, <2>3
    <3>2. PICK ok \in BOOLEAN :
             \E n \in {Finished(ui, id, ok), Corrected(ui, id, ok), Configured(ui, id, ok)} :
               Perform(n, s, j, t)
      BY <3>1
    <3>3. PICK n \in {Finished(ui, id, ok), Corrected(ui, id, ok), Configured(ui, id, ok)} :
               Perform(n, s, j, t)
      BY <3>2
    <3>4. n \in Models /\ n.catalog = ui.catalog
      BY <1>3, OverList
    <3> HIDE DEF Messages
    <3>5. ui'.catalog = n.catalog
      BY <3>3, <3>4, PerformList
    <3> QED
      BY <3>4, <3>5
  <2> QED
    BY <2>2, <2>3
<1> QED
  BY <1>2, <1>5, <1>6, <1>7, <1>8, <1>9

(* No copy leaves the list on screen before all locations were read again  *)
(* and the cache is saved (model.rs, Message::Catalog and CatalogFinished). *)
THEOREM NothingVanishesMeanwhile == Spec => ListedUntilReadAgain
<1>1. ListInv /\ [Next]_vars
        => [\A c \in ui.catalog.copies \ ui'.catalog.copies :
              scanning.id = 0 /\ Flying({"save"}) # {}]_vars
  <2> SUFFICES ASSUME ListInv, Next, NEW c \in ui.catalog.copies \ ui'.catalog.copies
               PROVE  scanning.id = 0 /\ Flying({"save"}) # {}
    OBVIOUS
  <2>1. CASE Keys
    <3>1. ui'.catalog = ui.catalog
      BY <2>1, KeysList DEF ListInv
    <3> QED
      BY <3>1
  <2>2. CASE Threads
    BY <2>2 DEF Threads
  <2>3. CASE Messages
    BY <2>3, MessagesList
  <2> QED
    BY <2>1, <2>2, <2>3 DEF Next
<1> QED
  BY <1>1, ListHolds, PTL DEF Spec, ListedUntilReadAgain
=============================================================================
