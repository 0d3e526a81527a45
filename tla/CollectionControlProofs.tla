----------------------- MODULE CollectionControlProofs -----------------------
(***************************************************************************)
(* Proofs about CollectionControl, for every word size, minimum debt, set  *)
(* of heap limits, set of allocation sizes and set of pauses.              *)
(***************************************************************************)
EXTENDS CollectionControl, TLAPS

\* A product that the overflow test of automaticCollectionBudget lets through
\* fits the word.
LEMMA ScaledFits ==
  ASSUME NEW w \in Nat, NEW scale \in Nat \ {0}, NEW n \in Nat,
         n <= w \div scale
  PROVE  n * scale \in 0 .. w
<1>1. w \div scale \in Nat /\ (w \div scale) * scale <= w
  OBVIOUS
<1>2. n * scale <= (w \div scale) * scale
  BY <1>1
<1> QED
  BY <1>1, <1>2

\* automaticCollectionBudget returns a word that is at least the minimum debt,
\* and what the pause grants in exact arithmetic unless it saturates, whatever
\* the measured heap and the pause.
LEMMA BudgetInRange ==
  ASSUME NEW live \in Nat, pause \in Nat
  PROVE  /\ AutomaticCollectionBudget(live) \in MinDebt .. MaxWord
         /\ \/ AutomaticCollectionBudget(live) \in {MinDebt, MaxWord}
            \/ /\ pause > 100
               /\ AutomaticCollectionBudget(live)
                    = AtLeastMinimum((live * (pause - 100)) \div 100)
<1>1. MinDebt \in Nat /\ MaxWord \in Nat /\ MinDebt <= MaxWord
  BY ControlAssumption
<1>2. CASE pause <= 100 \/ live = 0
  BY <1>1, <1>2 DEF AutomaticCollectionBudget
<1>3. CASE pause > 100 /\ live # 0 /\ live > MaxWord \div (pause - 100)
  BY <1>1, <1>3 DEF AutomaticCollectionBudget
<1>4. CASE pause > 100 /\ live # 0 /\ ~(live > MaxWord \div (pause - 100))
  <2> DEFINE scale == pause - 100
             product == live * scale
  <2>1. scale \in Nat \ {0} /\ MaxWord \div scale \in Nat
    BY <1>1, <1>4
  <2>2. live <= MaxWord \div scale
    BY <1>4, <2>1
  <2>3. product \in 0 .. MaxWord
    BY <1>1, <2>1, <2>2, ScaledFits
  <2>4. product \div 100 \in 0 .. MaxWord
    <3> HIDE DEF product
    <3> QED BY <1>1, <2>3
  <2>5. Word(product) = product
    <3> HIDE DEF product
    <3> QED BY <1>1, <2>3 DEF Word
  <2>6. AutomaticCollectionBudget(live) = AtLeastMinimum(product \div 100)
    BY <1>4, <2>1, <2>2, <2>5 DEF AutomaticCollectionBudget
  <2>7. AtLeastMinimum(product \div 100) \in MinDebt .. MaxWord
    <3> HIDE DEF product
    <3> QED BY <1>1, <2>4 DEF AtLeastMinimum
  <2> QED
    BY <1>4, <2>6, <2>7
<1> QED
  BY <1>2, <1>3, <1>4, <1>1

\* A collection, and the end of a finalizer, leave a budget that was granted.
LEMMA BudgetSet ==
  ASSUME NEW live \in Nat, pause \in Pauses,
         baseline' = live, budget' = AutomaticCollectionBudget(live)
  PROVE  budget' \in MinDebt .. MaxWord /\ BudgetGranted'
<1>1. pause \in Nat
  BY ControlAssumption
<1>2. budget' \in MinDebt .. MaxWord
  BY <1>1, BudgetInRange
<1>3. CASE budget' \in {MinDebt, MaxWord}
  BY <1>2, <1>3 DEF BudgetGranted
<1>4. CASE budget' \notin {MinDebt, MaxWord}
  <2>1. pause > 100 /\ budget' = AtLeastMinimum((baseline' * (pause - 100)) \div 100)
    BY <1>1, <1>4, BudgetInRange
  <2> QED BY <1>2, <2>1 DEF BudgetGranted
<1> QED BY <1>2, <1>3, <1>4

\* Every other step keeps the budget and what it was granted for.
LEMMA BudgetKept ==
  BudgetGranted /\ budget' = budget /\ baseline' = baseline => BudgetGranted'
BY Zenon DEF BudgetGranted

-----------------------------------------------------------------------------
\* What a request stands for: at least the minimum debt, a restart, or a
\* measured heap over its limit.
RequestEarned ==
  requested => \/ debt >= MinDebt
               \/ restarted
               \/ heapLimit # 0 /\ baseline > heapLimit

\* The inductive invariant.  RetentionBounded needs EstimateExact (the estimate
\* is compared with the limit, not the heap), and NoThrash needs RequestEarned
\* together with RunnableFresh (a safe point reads the cache, not the request).
ControlInvariant ==
  TypeOK /\ RunnableFresh /\ DebtScheduled /\ EstimateExact /\ RequestEarned

\* defaultCollectionControl establishes the invariant.
LEMMA ControlInit == Init => ControlInvariant
<1> SUFFICES ASSUME Init PROVE ControlInvariant
  OBVIOUS
<1>1. TypeOK
  <2>1. /\ stopped \in BOOLEAN /\ requested \in BOOLEAN /\ servicing \in BOOLEAN
        /\ runnable \in BOOLEAN /\ charged \in BOOLEAN /\ restarted \in BOOLEAN
    BY Zenon DEF Init
  <2>2. pause = 200 /\ debt = 0 /\ budget = MinDebt /\ baseline = 0 /\ heap = 0
        /\ dead = 0 /\ loops = <<>> /\ heapLimit \in HeapLimits
    BY DEF Init
  <2>3. BudgetGranted
    BY <2>2 DEF BudgetGranted
  <2> QED BY <2>1, <2>2, <2>3, ControlAssumption DEF TypeOK
<1>2. RunnableFresh
  BY DEF Init, RunnableFresh
<1>3. debt = 0 /\ budget = MinDebt /\ baseline = 0 /\ heap = 0 /\ ~charged
      /\ ~requested
  BY DEF Init
<1>4. DebtScheduled /\ EstimateExact /\ RequestEarned
  BY <1>3, ControlAssumption DEF DebtScheduled, EstimateExact, RequestEarned
<1> QED BY <1>1, <1>2, <1>4 DEF ControlInvariant

\* resetDebt establishes every conjunct about debt and budget, because the
\* measured heap becomes the baseline and a budget is never zero.
LEMMA ResetStep ==
  ASSUME ControlInvariant, NEW n \in Nat, ResetDebt(n), heap' = n
  PROVE  /\ debt' \in 0 .. MaxWord /\ budget' \in MinDebt .. MaxWord
         /\ BudgetGranted'
         /\ baseline' \in Nat /\ charged' \in BOOLEAN /\ restarted' \in BOOLEAN
         /\ requested' = FALSE
         /\ DebtScheduled' /\ EstimateExact' /\ RequestEarned'
<1>1. pause \in Pauses
  BY DEF ControlInvariant, TypeOK
<1>2. budget' \in MinDebt .. MaxWord /\ BudgetGranted'
  BY <1>1, BudgetSet DEF ResetDebt
<1>3. /\ debt' = 0 /\ baseline' = n /\ heap' = n
      /\ ~requested' /\ requested' = FALSE /\ ~charged'
      /\ charged' \in BOOLEAN /\ restarted' \in BOOLEAN
  BY DEF ResetDebt
<1>4. DebtScheduled' /\ EstimateExact' /\ RequestEarned'
  BY <1>2, <1>3, ControlAssumption DEF DebtScheduled, EstimateExact, RequestEarned
<1> QED
  BY <1>2, <1>3, <1>4, ControlAssumption

\* Dropping the innermost loop, or entering one, keeps the loops typed.
LEMMA LoopTypes ==
  ASSUME NEW s \in Seq(Loop)
  PROVE  /\ \A loop \in Loop : Append(s, loop) \in Seq(Loop)
         /\ s # <<>> => Front(s) \in Seq(Loop) /\ Last(s) \in Loop
<1>1. \A loop \in Loop : Append(s, loop) \in Seq(Loop)
  OBVIOUS
<1>2. ASSUME s # <<>> PROVE Front(s) \in Seq(Loop) /\ Last(s) \in Loop
  <2>1. Len(s) \in Nat \ {0}
    BY <1>2
  <2>2. Last(s) \in Loop
    BY <2>1 DEF Last
  <2>3. Front(s) \in Seq(Loop)
    BY <2>1 DEF Front
  <2> QED BY <2>2, <2>3
<1> QED BY <1>1, <1>2

\* Every step keeps the invariant.
LEMMA ControlStep == ControlInvariant /\ [Next]_vars => ControlInvariant'
<1> SUFFICES ASSUME ControlInvariant, [Next]_vars
             PROVE  ControlInvariant'
  OBVIOUS
<1> USE ControlAssumption
<1>t. /\ heapLimit \in HeapLimits /\ heapLimit \in Nat
      /\ pause \in Nat /\ heap \in Nat /\ dead \in 0 .. heap
      /\ heap - dead \in Nat /\ loops \in Seq(Loop)
      /\ stopped \in BOOLEAN /\ requested \in BOOLEAN /\ servicing \in BOOLEAN
  BY DEF ControlInvariant, TypeOK
<1>g. budget' = budget /\ baseline' = baseline => BudgetGranted'
  BY BudgetKept DEF ControlInvariant, TypeOK
<1>1. ASSUME NEW n \in Sizes, Charge(n) PROVE ControlInvariant'
  <2>1. n \in Nat \ {0} /\ heap + n <= MaxHeap /\ heap = baseline + debt
    BY <1>1 DEF Charge, ControlInvariant, EstimateExact
  <2>2. debt' = debt + n /\ heap' = heap + n /\ debt' \in 0 .. MaxWord
    BY <1>1, <2>1 DEF Charge, ControlInvariant, TypeOK
  <2>3. (baseline + debt') % (MaxWord + 1) = baseline + debt'
    BY <2>1, <2>2 DEF ControlInvariant, TypeOK
  <2>4. requested' = (requested \/ Due(debt'))
    BY <1>1, <2>1, <2>2 DEF Charge, ControlInvariant, TypeOK
  <2>5. UNCHANGED <<heapLimit, pause, budget, baseline, stopped, servicing,
                    dead, loops, restarted>> /\ charged' = TRUE
    BY <1>1 DEF Charge
  <2>6. RunnableFresh' /\ runnable' \in BOOLEAN
    <3>1. /\ RunnableFresh /\ runnable \in BOOLEAN
          /\ stopped' = stopped /\ servicing' = servicing
          /\ heapLimit' = heapLimit
      BY <2>5 DEF ControlInvariant, TypeOK
    <3>2. CASE requested \/ ~Due(debt')
      <4>1. requested' = requested /\ runnable' = runnable
        BY <1>1, <1>t, <2>1, <2>2, <2>4, <3>2
          DEF Charge, ControlInvariant, TypeOK
      <4> QED BY <3>1, <4>1, Zenon DEF RunnableFresh
    <3>3. CASE ~(requested \/ ~Due(debt'))
      <4>1. RefreshRunnable
        BY <1>1, <2>1, <2>2, <3>3 DEF Charge, ControlInvariant, TypeOK
      <4> QED BY <3>1, <4>1, Zenon DEF RunnableFresh, RefreshRunnable
    <3> QED BY <3>2, <3>3
  <2>7. requested' \in BOOLEAN
    BY <2>4, <1>t
  <2>8. TypeOK'
    BY <1>t, <1>g, <2>1, <2>2, <2>5, <2>6, <2>7 DEF ControlInvariant, TypeOK
  <2>9. DebtScheduled'
    BY <2>4, <2>5 DEF Due, DebtScheduled
  <2>10. EstimateExact'
    <3>1. /\ baseline' = baseline /\ debt' \in Nat /\ baseline \in Nat
          /\ heap' \in Nat /\ heap' = baseline + debt' /\ heapLimit' = heapLimit
      BY <2>1, <2>2, <2>5 DEF ControlInvariant, TypeOK
    <3>2. ~requested' => ~Due(debt')
      BY <2>4
    <3>3. heapLimit # 0 /\ ~Due(debt') =>
            baseline <= heapLimit /\ (debt' < MinDebt \/ heap' <= heapLimit)
      <4> SUFFICES ASSUME heapLimit # 0, ~Due(debt')
                   PROVE  /\ baseline <= heapLimit
                          /\ debt' < MinDebt \/ heap' <= heapLimit
        OBVIOUS
      <4>1. /\ ~(baseline > heapLimit)
            /\ ~(debt' >= MinDebt) \/ ~(baseline + debt' > heapLimit)
        BY <2>3 DEF Due, Estimate, Word
      <4>2. baseline <= heapLimit
        BY <1>t, <3>1, <4>1
      <4>3. ~(debt' >= MinDebt) => debt' < MinDebt
        BY <3>1
      <4>4. ~(baseline + debt' > heapLimit) => heap' <= heapLimit
        <5> HIDE ControlAssumption
        <5>1. \A x, y \in Nat : ~(x > y) => x <= y
          OBVIOUS
        <5> QED BY <1>t, <3>1, <5>1
      <4> QED BY <4>1, <4>2, <4>3, <4>4
    <3> QED BY <3>1, <3>2, <3>3 DEF EstimateExact
  <2>11. RequestEarned'
    <3>1. ASSUME Due(debt')
          PROVE  debt' >= MinDebt \/ (heapLimit # 0 /\ baseline > heapLimit)
      BY <2>2, <3>1 DEF Due, ControlInvariant, TypeOK
    <3>2. debt >= MinDebt => debt' >= MinDebt
      BY <2>1, <2>2 DEF ControlInvariant, TypeOK
    <3> QED
      BY <2>4, <2>5, <3>1, <3>2 DEF ControlInvariant, RequestEarned
  <2> QED BY <2>6, <2>8, <2>9, <2>10, <2>11 DEF ControlInvariant
<1>2. ASSUME NEW n \in Sizes, Die(n) PROVE ControlInvariant'
  BY <1>2, <1>g DEF Die, flags, ControlInvariant, TypeOK, RunnableFresh, DebtScheduled,
              EstimateExact, RequestEarned
<1>3. ASSUME NEW p \in Pauses, SetPause(p) PROVE ControlInvariant'
  BY <1>3, <1>g DEF SetPause, flags, ControlInvariant, TypeOK, RunnableFresh,
              DebtScheduled, EstimateExact, RequestEarned
<1>4. CASE StopGC
  BY <1>4, <1>g DEF StopGC, SetStopped, RefreshRunnable, ControlInvariant, TypeOK,
              RunnableFresh, DebtScheduled, EstimateExact, RequestEarned
<1>5. CASE RestartGC
  BY <1>5, <1>g DEF RestartGC, RefreshRunnable, ControlInvariant, TypeOK,
              RunnableFresh, DebtScheduled, EstimateExact, RequestEarned
<1>6. CASE Collect
  <2>1. ResetDebt(heap - dead) /\ heap' = heap - dead /\ dead' = 0
    BY <1>6 DEF Collect
  <2>2. loops' \in Seq(Loop)
    <3>1. [explicit |-> TRUE, prev |-> servicing] \in Loop
      BY <1>t DEF Loop
    <3> QED BY <1>6, <1>t, <3>1, LoopTypes DEF Collect
  <2>3. /\ stopped' = FALSE /\ servicing' = TRUE /\ pause' = pause
        /\ heapLimit' = heapLimit /\ RefreshRunnable
    BY <1>6 DEF Collect
  <2>4. RunnableFresh' /\ runnable' \in BOOLEAN
    BY <2>3, Zenon DEF RefreshRunnable, RunnableFresh
  <2>5. /\ stopped' \in BOOLEAN /\ servicing' \in BOOLEAN
        /\ pause' \in Pauses /\ heapLimit' \in HeapLimits
        /\ heap' \in Nat /\ dead' \in 0 .. heap'
    <3>1. /\ stopped' \in BOOLEAN /\ servicing' \in BOOLEAN /\ pause' \in Pauses
          /\ heapLimit' \in HeapLimits
      BY <2>3, Zenon DEF ControlInvariant, TypeOK
    <3>2. heap' \in Nat /\ dead' \in 0 .. heap'
      BY <1>t, <2>1
    <3> QED BY <3>1, <3>2
  <2>6. TypeOK'
    BY <1>t, <2>1, <2>2, <2>4, <2>5, ResetStep DEF TypeOK
  <2> QED
    BY <1>t, <2>1, <2>4, <2>6, ResetStep DEF ControlInvariant
<1>7. ASSUME NEW b \in BOOLEAN, SafePoint(b) PROVE ControlInvariant'
  <2> DEFINE n == IF stopped THEN heap ELSE heap - dead
  <2>1. n \in Nat /\ ResetDebt(n) /\ heap' = n
    BY <1>7, <1>t DEF SafePoint
  <2>2. dead' \in 0 .. heap'
    BY <1>7, <1>t DEF SafePoint
  <2>3. loops' \in Seq(Loop) /\ servicing' \in BOOLEAN
    <3>1. [explicit |-> FALSE, prev |-> FALSE] \in Loop
      BY DEF Loop
    <3>2. Append(loops, [explicit |-> FALSE, prev |-> FALSE]) \in Seq(Loop)
      BY <1>t, <3>1, LoopTypes
    <3> QED BY <1>7, <1>t, <3>2 DEF SafePoint
  <2>4. UNCHANGED <<heapLimit, pause, stopped>> /\ RefreshRunnable
    BY <1>7 DEF SafePoint
  <2> HIDE DEF n
  <2>5. TypeOK'
    BY <1>t, <2>1, <2>2, <2>3, <2>4, ResetStep
      DEF RefreshRunnable, ControlInvariant, TypeOK
  <2> QED
    BY <2>1, <2>4, <2>5, ResetStep
      DEF RefreshRunnable, ControlInvariant, RunnableFresh
<1>8. CASE RestoreAfterFinalizer
  <2>1. baseline \in Nat /\ debt \in Nat
    BY DEF ControlInvariant, TypeOK
  <2>2. budget' \in MinDebt .. MaxWord /\ BudgetGranted'
    <3>1. pause \in Pauses /\ baseline' = baseline
      BY <1>8 DEF RestoreAfterFinalizer, ControlInvariant, TypeOK
    <3> QED BY <1>8, <2>1, <3>1, BudgetSet DEF RestoreAfterFinalizer
  <2>3. requested' = (debt >= budget')
    BY <1>8 DEF RestoreAfterFinalizer, Rescheduled
  <2>4. /\ UNCHANGED <<heapLimit, pause, debt, baseline, servicing, heap, dead,
                       loops, restarted>>
        /\ stopped' = FALSE /\ charged' = FALSE /\ RefreshRunnable
    BY <1>8 DEF RestoreAfterFinalizer
  <2>5. RunnableFresh' /\ runnable' \in BOOLEAN
    BY <2>4, Zenon DEF RefreshRunnable, RunnableFresh
  <2>6. requested' \in BOOLEAN /\ stopped' \in BOOLEAN /\ charged' \in BOOLEAN
    <3>1. (debt >= budget') \in BOOLEAN
      OBVIOUS
    <3> QED BY <2>3, <2>4, <3>1, Zenon
  <2>7. TypeOK'
    BY <2>2, <2>4, <2>5, <2>6 DEF ControlInvariant, TypeOK
  <2>8. DebtScheduled' /\ EstimateExact' /\ RequestEarned'
    <3>1. requested' <=> debt >= budget'
      BY <2>3, Zenon
    <3>2. debt' = debt /\ baseline' = baseline /\ heap' = heap /\ ~charged'
          /\ heap = baseline + debt /\ MinDebt \in Nat /\ MaxWord \in Nat
      BY <2>4 DEF ControlInvariant, EstimateExact
    <3>3. debt' >= budget' => debt' >= MinDebt
      BY <2>1, <2>2, <3>2
    <3> QED
      BY <3>1, <3>2, <3>3 DEF DebtScheduled, EstimateExact, RequestEarned
  <2> QED BY <2>5, <2>7, <2>8 DEF ControlInvariant
<1>9. ASSUME NEW b \in BOOLEAN, EndLoop(b) PROVE ControlInvariant'
  <2>1. loops' \in Seq(Loop) /\ Last(loops) \in Loop
    BY <1>9, <1>t, LoopTypes DEF EndLoop
  <2>2. servicing' \in BOOLEAN /\ stopped' \in BOOLEAN
    BY <1>9, <1>t, <2>1 DEF EndLoop, SetServicing, Loop
  <2> QED
    BY <1>9, <1>g, <2>1, <2>2
      DEF EndLoop, SetServicing, RefreshRunnable, ControlInvariant, TypeOK,
          RunnableFresh, DebtScheduled, EstimateExact, RequestEarned
<1>10. CASE UNCHANGED vars
  BY <1>10, <1>g DEF vars, flags, ControlInvariant, TypeOK, RunnableFresh,
               DebtScheduled, EstimateExact, RequestEarned
<1> QED
  BY <1>1, <1>2, <1>3, <1>4, <1>5, <1>6, <1>7, <1>8, <1>9, <1>10 DEF Next

\* The invariant holds throughout: the cached decision is fresh, budgets and
\* debts stay words, and debt at its budget has a request.
THEOREM Scheduling == Spec => [](TypeOK /\ RunnableFresh /\ DebtScheduled)
<1>1. ControlInvariant => TypeOK /\ RunnableFresh /\ DebtScheduled
  BY DEF ControlInvariant
<1> QED BY ControlInit, ControlStep, <1>1, PTL DEF Spec

\* MaxHeapBytes bounds retention for every limit and minimum debt: a heap that
\* no charge has requested a cycle for is less than the minimum debt over it.
THEOREM HeapLimitBounds == Spec => []RetentionBounded
<1>1. ControlInvariant => RetentionBounded
  BY ControlAssumption
    DEF ControlInvariant, TypeOK, EstimateExact, RetentionBounded
<1> QED BY ControlInit, ControlStep, <1>1, PTL DEF Spec

\* An automatic cycle is never cheaper than the minimum debt unless it was
\* asked for or the measured heap is over its limit.
THEOREM CyclesAreEarned == Spec => NoThrash
<1>1. ControlInvariant /\ [Next]_vars =>
        [(\E b \in BOOLEAN : SafePoint(b)) =>
            \/ debt >= MinDebt
            \/ restarted
            \/ heapLimit # 0 /\ baseline > heapLimit]_vars
  BY DEF ControlInvariant, RunnableFresh, RequestEarned, SafePoint
<1> QED BY ControlInit, ControlStep, <1>1, PTL DEF Spec, NoThrash
=============================================================================
