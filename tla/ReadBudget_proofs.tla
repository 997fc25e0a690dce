-------------------------- MODULE ReadBudget_proofs --------------------------
(* That each step of a task keeps the budget's account, and that nobody    *)
(* sleeps while there is enough for it.                                    *)
EXTENDS ReadBudget, FiniteSetTheorems, TLAPS

(* What the tasks that read have claimed, unit by unit. *)
Claimed(readers) == {cu \in readers \X (1..Total) : cu[2] <= Amount(cu[1])}

BudgetInv ==
    /\ free \in Nat
    /\ task \in [Copies -> TaskStates]
    /\ IsFiniteSet(Claimed(At("reading")))
    /\ free + Cardinality(Claimed(At("reading"))) = Total
    /\ \A c \in At("sleeping") : free < Amount(c)

LEMMA AmountFits ==
    ASSUME NEW c \in Copies
    PROVE  Amount(c) \in 1..Total
  <1>1. Size[c] \in Nat /\ Size[c] <= MaxWord /\ MaxWord \in Nat /\ Total \in Nat /\ 1 <= Total
    BY BudgetAssumption
  <1> QED
    BY <1>1 DEF Amount, Tripled

(* A claim covers what the book may hold. *)
LEMMA ClaimCovers ==
    ASSUME NEW c \in Copies
    PROVE  Needs(c) <= Amount(c)
  <1>1. Size[c] \in Nat /\ Size[c] <= MaxWord /\ MaxWord \in Nat /\ Total \in Nat
        /\ 1 <= Total /\ Total <= MaxWord
    BY BudgetAssumption
  <1> QED
    BY <1>1 DEF Amount, Tripled, Needs

(* What one more reader claims is what it asked for. *)
LEMMA OneMoreReader ==
    ASSUME NEW readers \in SUBSET Copies, NEW c \in Copies \ readers,
           IsFiniteSet(Claimed(readers))
    PROVE  /\ IsFiniteSet(Claimed(readers \union {c}))
           /\ Cardinality(Claimed(readers \union {c})) =
                Cardinality(Claimed(readers)) + Amount(c)
  <1> DEFINE own == {c} \X (1..Amount(c))
  <1>1. Amount(c) \in 1..Total /\ Total \in Nat
    BY AmountFits, BudgetAssumption
  <1>2. Claimed(readers \union {c}) = Claimed(readers) \union own
    BY <1>1 DEF Claimed
  <1>3. Claimed(readers) \intersect own = {}
    BY DEF Claimed
  <1>4. IsFiniteSet(own) /\ Cardinality(own) = Amount(c)
    <2>1. IsFiniteSet(1..Amount(c)) /\ Cardinality(1..Amount(c)) = Amount(c)
      BY <1>1, FS_Interval
    <2>2. IsFiniteSet({c}) /\ Cardinality({c}) = 1
      BY FS_Singleton
    <2> QED
      BY <1>1, <2>1, <2>2, FS_Product
  <1>5. Cardinality({}) = 0
    BY FS_EmptySet
  <1>6. Cardinality(Claimed(readers)) \in Nat
    BY FS_CardinalityType
  <1>7. Cardinality(Claimed(readers) \union own) =
            Cardinality(Claimed(readers)) + Cardinality(own) - Cardinality({})
        /\ IsFiniteSet(Claimed(readers) \union own)
    <2> HIDE DEF own
    <2> QED
      BY <1>3, <1>4, FS_Union
  <1> HIDE DEF own
  <1>8. Amount(c) \in Nat
    BY <1>1
  <1>9. Cardinality(Claimed(readers) \union own) = Cardinality(Claimed(readers)) + Amount(c)
    BY <1>4, <1>5, <1>6, <1>7, <1>8
  <1> QED
    BY <1>2, <1>7, <1>9, Zenon

LEMMA ClaimKeepsAccount ==
    ASSUME NEW c \in Copies, BudgetInv, Claim(c)
    PROVE  BudgetInv'
  <1>1. free \in Nat /\ task \in [Copies -> TaskStates] /\ Amount(c) \in Nat
    BY AmountFits, BudgetAssumption DEF BudgetInv
  <1>2. task' \in [Copies -> TaskStates] /\ free' \in Nat
    BY <1>1 DEF Claim, TaskStates
  <1>3. At("reading")' = At("reading") \union {c} /\ c \in Copies \ At("reading")
    BY <1>1 DEF Claim, At
  <1>4. At("sleeping")' = At("sleeping")
    BY <1>1 DEF Claim, At
  <1>5. IsFiniteSet(Claimed(At("reading")'))
        /\ Cardinality(Claimed(At("reading")')) = Cardinality(Claimed(At("reading"))) + Amount(c)
    <2>1. At("reading") \in SUBSET Copies
      BY DEF At
    <2> QED
      BY <1>3, <2>1, OneMoreReader DEF BudgetInv
  <1>6. Cardinality(Claimed(At("reading"))) \in Nat
    BY FS_CardinalityType DEF BudgetInv
  <1>7. free' + Cardinality(Claimed(At("reading")')) = Total
    BY <1>1, <1>5, <1>6 DEF Claim, BudgetInv
  <1>8. \A s \in At("sleeping")' : free' < Amount(s)
    <2> SUFFICES ASSUME NEW s \in At("sleeping") PROVE free - Amount(c) < Amount(s)
      BY <1>4 DEF Claim
    <2>1. free < Amount(s) /\ Amount(s) \in Nat
      BY AmountFits, BudgetAssumption DEF BudgetInv, At
    <2> QED
      BY <2>1, <1>1
  <1> QED
    BY <1>2, <1>5, <1>7, <1>8 DEF BudgetInv, Claimed, Amount, Tripled, At

LEMMA ReleaseKeepsAccount ==
    ASSUME NEW c \in Copies, BudgetInv, Release(c)
    PROVE  BudgetInv'
  <1> DEFINE rest == At("reading") \ {c}
  <1>1. free \in Nat /\ task \in [Copies -> TaskStates] /\ Amount(c) \in Nat
    BY AmountFits, BudgetAssumption DEF BudgetInv
  <1>2. task' \in [Copies -> TaskStates] /\ free' \in Nat
    BY <1>1 DEF Release, TaskStates
  <1>3. At("reading")' = rest /\ At("reading") = rest \union {c} /\ c \in Copies \ rest
        /\ rest \in SUBSET Copies
    BY <1>1 DEF Release, At, TaskStates
  <1>4. At("sleeping")' = {}
    BY <1>1 DEF Release, At, TaskStates
  <1>5. IsFiniteSet(Claimed(rest))
    <2>1. Claimed(rest) \in SUBSET Claimed(At("reading"))
      BY <1>3 DEF Claimed
    <2> QED
      BY <2>1, FS_Subset DEF BudgetInv
  <1>6. Cardinality(Claimed(At("reading"))) = Cardinality(Claimed(rest)) + Amount(c)
    <2> HIDE DEF rest
    <2> QED
      BY <1>3, <1>5, OneMoreReader
  <1>7. Cardinality(Claimed(rest)) \in Nat
    BY <1>5, FS_CardinalityType
  <1>8. free' + Cardinality(Claimed(rest)) = Total
    BY <1>1, <1>6, <1>7 DEF Release, BudgetInv
  <1> QED
    BY <1>2, <1>3, <1>4, <1>5, <1>8 DEF BudgetInv, Claimed, Amount, Tripled, At

(* A step that takes nothing from the budget, gives nothing back, and      *)
(* leaves those that read reading.                                         *)
LEMMA OthersKeepAccount ==
    ASSUME BudgetInv,
           task' \in [Copies -> TaskStates],
           free' = free,
           At("reading")' = At("reading"),
           \A c \in At("sleeping")' : c \in At("sleeping") \/ free < Amount(c)
    PROVE  BudgetInv'
  <1>1. \A c \in At("sleeping")' : free' < Amount(c)
    BY DEF BudgetInv
  <1>2. Claimed(At("reading"))' = Claimed(At("reading"))
    BY DEF Claimed, Amount, Tripled
  <1> QED
    BY <1>1, <1>2 DEF BudgetInv, Amount, Tripled

LEMMA SleepKeepsAccount ==
    ASSUME NEW c \in Copies, BudgetInv, Sleep(c)
    PROVE  BudgetInv'
  <1>1. task \in [Copies -> TaskStates]
    BY DEF BudgetInv
  <1>2. task' \in [Copies -> TaskStates]
    BY <1>1 DEF Sleep, TaskStates
  <1>3. At("reading")' = At("reading")
    BY <1>1 DEF Sleep, At
  <1>4. \A s \in At("sleeping")' : s \in At("sleeping") \/ free < Amount(s)
    BY <1>1 DEF Sleep, At
  <1> QED
    BY <1>2, <1>3, <1>4, OthersKeepAccount DEF Sleep

LEMMA WakingKeepsAccount ==
    ASSUME NEW c \in Copies, BudgetInv, WakeForNothing(c)
    PROVE  BudgetInv'
  <1>1. task \in [Copies -> TaskStates]
    BY DEF BudgetInv
  <1>2. task' \in [Copies -> TaskStates]
    BY <1>1 DEF WakeForNothing, TaskStates
  <1>3. At("reading")' = At("reading")
    BY <1>1 DEF WakeForNothing, At
  <1>4. \A s \in At("sleeping")' : s \in At("sleeping")
    BY <1>1 DEF WakeForNothing, At
  <1> QED
    BY <1>2, <1>3, <1>4, OthersKeepAccount DEF WakeForNothing

LEMMA InitKeepsAccount ==
    ASSUME BudgetInit
    PROVE  BudgetInv
  <1>1. task \in [Copies -> TaskStates] /\ At("reading") = {} /\ At("sleeping") = {}
    BY DEF BudgetInit, At, TaskStates
  <1>2. Claimed(At("reading")) = {}
    BY <1>1 DEF Claimed
  <1> QED
    BY <1>1, <1>2, FS_EmptySet, BudgetAssumption DEF BudgetInit, BudgetInv

(* The account bounds what the books in flight hold. *)
LEMMA AccountBoundsMemory ==
    ASSUME BudgetInv
    PROVE  InBudget
  <1>1. Held \in SUBSET Claimed(At("reading"))
    <2> SUFFICES ASSUME NEW c \in At("reading"), NEW u \in 1..Total, u <= Needs(c)
                 PROVE  u <= Amount(c)
      BY DEF Held, Claimed
    <2>1. c \in Copies
      BY DEF At
    <2>2. Needs(c) <= Amount(c) /\ Amount(c) \in Nat
      BY <2>1, ClaimCovers, AmountFits
    <2>3. Needs(c) \in Nat
      BY <2>1, BudgetAssumption DEF Needs
    <2> QED
      BY <2>2, <2>3, BudgetAssumption
  <1>2. Cardinality(Held) <= Cardinality(Claimed(At("reading"))) /\ IsFiniteSet(Held)
    BY <1>1, FS_Subset DEF BudgetInv
  <1>3. Cardinality(Held) \in Nat /\ Cardinality(Claimed(At("reading"))) \in Nat
    BY <1>2, FS_CardinalityType DEF BudgetInv
  <1> QED
    BY <1>2, <1>3, BudgetAssumption DEF InBudget, BudgetInv

(* Nobody sleeps when the whole budget is free. *)
LEMMA AccountWakesSleepers ==
    ASSUME BudgetInv
    PROVE  SleepersAreShort /\ free \in 0..Total
  <1>1. Cardinality(Claimed(At("reading"))) \in Nat /\ free \in Nat /\ Total \in Nat
    BY FS_CardinalityType, BudgetAssumption DEF BudgetInv
  <1>2. free \in 0..Total
    BY <1>1 DEF BudgetInv
  <1>3. ASSUME NEW c \in At("sleeping")
        PROVE  free < Amount(c) /\ At("reading") # {}
    <2>1. Amount(c) \in 1..Total
      BY AmountFits DEF At
    <2>2. free < Amount(c)
      BY DEF BudgetInv
    <2>3. SUFFICES ASSUME At("reading") = {} PROVE FALSE
      BY <2>2
    <2>4. Claimed(At("reading")) = {}
      BY <2>3 DEF Claimed
    <2>5. free = Total
      BY <1>1, <2>4, FS_EmptySet DEF BudgetInv
    <2> QED
      BY <1>1, <2>1, <2>2, <2>5
  <1> QED
    BY <1>2, <1>3 DEF SleepersAreShort
=============================================================================
