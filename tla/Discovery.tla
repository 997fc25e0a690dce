------------------------------ MODULE Discovery ------------------------------
(***************************************************************************)
(* A discovery at work: the queues and tasks of apps/crossload/src/tui.rs  *)
(* with the budget their readings share (ReadBudget) and the catalog their *)
(* messages are merged into (Catalog).  What the interface shows of it, and *)
(* what the user does meanwhile, is in Tui.                                *)
(***************************************************************************)
EXTENDS ReadBudget, Catalog

CONSTANTS
    Places,     \* where books are
    PlaceOf,    \* the place each copy is at
    Contents,   \* the variants a copy has when it can be read
    Readers     \* how many copies of a place are read at once

ASSUME DiscoveryAssumption ==
    /\ Names = Copies
    /\ PlaceOf \in [Copies -> Places]
    /\ Contents \in [Copies -> SUBSET Variants]
    /\ Readers \in [Places -> Nat \ {0}]
    /\ IsFiniteSet(Copies)

VARIABLES
    listing,    \* how listing a place went
    queue       \* the copies that wait for a task

vars == <<budgetVars, catalogVars, listing, queue>>

Of(place, copies) == {c \in copies : PlaceOf[c] = place}

(* What a copy's file says when it can be read, or the cache knew. *)
Reading(c) == [name |-> c, variants |-> Contents[c]]

(* Reading a copy: what its file says, that it cannot be read, or nothing  *)
(* when reading it panicked.                                               *)
Outcomes(c) == {{Reading(c)}, {Unreadable(c)}, {}}

(* Listing a place finds its copies; which of them the cache knows by      *)
(* their size and time, so that they need not be read, is up to the cache. *)
Listings(p) == SUBSET Of(p, Copies)

(* Tasks that were started and whose message is not in yet. *)
Running(p) == Cardinality(Of(p, Copies \ (At("none") \union At("over"))))

(* The copies of a place that are read next: as many as its tasks leave    *)
(* room for, of those that wait.                                           *)
NextToRead(p, waiting, running) ==
    {batch \in SUBSET Of(p, waiting) :
        \/ batch = Of(p, waiting) /\ Cardinality(batch) + running <= Readers[p]
        \/ batch # Of(p, waiting) /\ Cardinality(batch) + running = Readers[p]}

Init ==
    /\ BudgetInit
    /\ CatalogInit
    /\ listing = [p \in Places |-> "running"]
    /\ queue = {}

-----------------------------------------------------------------------------
(* After a message about a place: the tasks whose message it was are over, *)
(* and more of what waits is read.                                         *)
ReadMore(p, waiting, done) ==
    \E batch \in NextToRead(p, waiting, Running(p) - Cardinality(done)) :
        /\ queue' = waiting \ batch
        /\ task' = [c \in Copies |-> IF c \in batch THEN "claiming"
                                     ELSE IF c \in done THEN "over"
                                     ELSE task[c]]

(* A place was listed: what the cache knows is merged, the rest is read. *)
Listed(p) ==
    /\ Idle
    /\ listing[p] = "running"
    /\ listing' = [listing EXCEPT ![p] = "listed"]
    /\ \E known \in Listings(p) :
        /\ Bring({Reading(c) : c \in known})
        /\ ReadMore(p, queue \union (Of(p, Copies) \ known), {})
    /\ UNCHANGED free

(* A place could not be listed. *)
NotListed(p) ==
    /\ Idle
    /\ listing[p] = "running"
    /\ listing' = [listing EXCEPT ![p] = "unavailable"]
    /\ UNCHANGED <<budgetVars, catalogVars, queue>>

(* The message of a task: a copy whose reading panicked is left out. *)
Read(c) ==
    /\ Idle
    /\ task[c] = "sent"
    /\ \E readings \in Outcomes(c) : Bring(readings)
    /\ ReadMore(PlaceOf[c], queue, {c})
    /\ UNCHANGED <<free, listing>>

App ==
    \/ \E p \in Places : Listed(p) \/ NotListed(p)
    \/ \E c \in Copies : Read(c)

Merging == (Merge \/ Absorb \/ Push) /\ UNCHANGED <<budgetVars, listing, queue>>

Thread(c) ==
    /\ Claim(c) \/ Sleep(c) \/ Release(c)
    /\ UNCHANGED <<catalogVars, listing, queue>>

Spurious(c) == WakeForNothing(c) /\ UNCHANGED <<catalogVars, listing, queue>>

Done ==
    /\ Idle
    /\ \A p \in Places : listing[p] # "running"
    /\ At("none") \union At("over") = Copies
    /\ UNCHANGED vars

Next == App \/ Merging \/ (\E c \in Copies : Thread(c) \/ Spurious(c)) \/ Done

Spec == Init /\ [][Next]_vars

(* The app handles its messages, and every thread goes on. *)
FairSpec ==
    /\ Spec
    /\ WF_vars(App \/ Merging)
    /\ \A c \in Copies : WF_vars(Thread(c))

-----------------------------------------------------------------------------
(* Every variable has its type, in books.rs and tui.rs. *)
TypeOK ==
    /\ free \in 0..Total
    /\ task \in [Copies -> TaskStates]
    /\ CatalogTypeOK
    /\ listing \in [Places -> {"running", "listed", "unavailable"}]
    /\ queue \subseteq At("none")

(* Every copy a listing found is read, whatever its size and whatever else *)
(* is being read (Budget::claim, read_more).                               *)
EveryCopyIsRead ==
    \A c \in Copies :
        listing[PlaceOf[c]] = "listed" ~>
            Idle /\ (task[c] = "over" \/ \E r \in arrived : r.name = c)
=============================================================================
