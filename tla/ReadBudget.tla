----------------------------- MODULE ReadBudget -----------------------------
(***************************************************************************)
(* The memory that reading books may take: Budget and Claim of             *)
(* apps/crossload/src/books.rs, and the tasks of apps/crossload/src/tui.rs *)
(* that read one book each.                                                *)
(*                                                                         *)
(* Everything the code does to `free` it does while it holds the budget's  *)
(* mutex, so each critical section is one action.  A task that finds too   *)
(* little sleeps on the condition variable, which gives the mutex back in  *)
(* the same step.                                                          *)
(***************************************************************************)
EXTENDS Naturals, FiniteSets

CONSTANTS
    Copies,     \* the copies of books the places hold
    Size,       \* how large each of them is
    Total,      \* what all books in flight may take
    MaxWord     \* the largest number a size can be

ASSUME BudgetAssumption ==
    /\ MaxWord \in Nat
    /\ Total \in 1..MaxWord
    /\ Size \in [Copies -> 0..MaxWord]

VARIABLES
    free,       \* what is left of the budget
    task        \* what the task that reads a copy is at

budgetVars == <<free, task>>

TaskStates == {"none", "claiming", "sleeping", "reading", "sent", "over"}

At(state) == {c \in Copies : task[c] = state}

(* Mutant: the product wraps around. *)
MutantTripled(c) == (3 * Size[c]) % (MaxWord + 1)

(* A book, its prepared copy and that copy's output, in one machine word. *)
Tripled(c) == IF 3 * Size[c] > MaxWord THEN MaxWord ELSE 3 * Size[c]

(* Mutant: a book may ask for more than there is. *)
MutantAmount(c) == IF Tripled(c) = 0 THEN 1 ELSE Tripled(c)

(* What reading a copy claims. *)
Amount(c) ==
    IF Tripled(c) = 0 THEN 1
    ELSE IF Tripled(c) > Total THEN Total
    ELSE Tripled(c)

BudgetInit ==
    /\ free = Total
    /\ task = [c \in Copies |-> "none"]

(* Mutant: a task that was woken does not look again. *)
MutantClaim(c) ==
    /\ task[c] = "claiming"
    /\ free' = free - Amount(c)
    /\ task' = [task EXCEPT ![c] = "reading"]

Claim(c) ==
    /\ task[c] = "claiming"
    /\ free >= Amount(c)
    /\ free' = free - Amount(c)
    /\ task' = [task EXCEPT ![c] = "reading"]

Sleep(c) ==
    /\ task[c] = "claiming"
    /\ free < Amount(c)
    /\ task' = [task EXCEPT ![c] = "sleeping"]
    /\ UNCHANGED free

(* A condition variable may wake a sleeper for no reason. *)
WakeForNothing(c) ==
    /\ task[c] = "sleeping"
    /\ task' = [task EXCEPT ![c] = "claiming"]
    /\ UNCHANGED free

(* Mutant: only one sleeper is told. *)
MutantRelease(c) ==
    /\ task[c] = "reading"
    /\ free' = free + Amount(c)
    /\ IF At("sleeping") = {} THEN task' = [task EXCEPT ![c] = "sent"]
       ELSE \E s \in At("sleeping") :
                task' = [task EXCEPT ![c] = "sent", ![s] = "claiming"]

(* The claim is dropped when the book is read, or reading it panicked, and *)
(* before the task's message is sent.                                      *)
Release(c) ==
    /\ task[c] = "reading"
    /\ free' = free + Amount(c)
    /\ task' = [d \in Copies |->
                    IF d = c THEN "sent"
                    ELSE IF task[d] = "sleeping" THEN "claiming"
                    ELSE task[d]]

-----------------------------------------------------------------------------
(* What a book in flight may hold in memory, at most the whole budget. *)
Needs(c) == IF 3 * Size[c] > Total THEN Total ELSE 3 * Size[c]

(* The units of memory the books in flight hold. *)
Held == {cu \in At("reading") \X (1..Total) : cu[2] <= Needs(cu[1])}

(* The books in flight, at three times their size, fit in the budget; one  *)
(* too large for it is alone (Budget::claim's clamp, and the accounting of *)
(* Claim::drop).                                                           *)
InBudget == Cardinality(Held) <= Total

(* Nobody sleeps through its chance: while a task sleeps in Budget::claim, *)
(* there is less left than it needs, so somebody is reading and will wake  *)
(* it.                                                                     *)
SleepersAreShort ==
    \A c \in At("sleeping") : free < Amount(c) /\ At("reading") # {}
=============================================================================
