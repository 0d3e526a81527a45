-------------------------- MODULE CollectionControl --------------------------
(***************************************************************************)
(* When the collector runs: allocation debt, the budget a collection sets, *)
(* the heap limit, the stop, request and servicing flags, and the cached   *)
(* decision "runnable" that every execution safe point reads.  A cycle and *)
(* a finalizer are one step each here; Collector has their inside.         *)
(***************************************************************************)
EXTENDS Naturals, Sequences, SequencesExt

CONSTANTS
  MaxWord,    (* the largest value of a debt or budget, 2^64 - 1 in the code *)
  MinDebt,    (* minimumAutomaticCollectionDebt                              *)
  HeapLimits, (* values of Options.MaxHeapBytes, 0 for an unlimited heap     *)
  Reserve,    (* least headroom of an xpcall handler, protectedHeapReserve   *)
  Sizes,      (* sizes one allocation charges                                *)
  Pauses,     (* values collectgarbage("setpause") is called with            *)
  MaxHeap,    (* bound: bytes the program allocates and retains              *)
  MaxLoops    (* bound: nested finalizer loops                               *)

ASSUME ControlAssumption ==
  /\ MaxWord \in Nat /\ MinDebt \in 1 .. MaxWord
  /\ HeapLimits \subseteq 0 .. MaxWord /\ Reserve \in 0 .. MaxWord
  /\ MaxHeap \in 0 .. MaxWord /\ MaxLoops \in Nat
  /\ Sizes \subseteq Nat \ {0}
  /\ Pauses \subseteq Nat /\ 200 \in Pauses

VARIABLES
  heapLimit,  (* the limit this State was created with                      *)
  pause, debt, budget, baseline,              (* collectionControl          *)
  stopped, requested, servicing, runnable,    (* its flags                  *)
  heap,       (* bytes the Lua heap retains, garbage included               *)
  dead,       (* bytes of it that are garbage                               *)
  loops,      (* active finalizer loops, innermost last                     *)
  charged,    (* history: charged since the last reset or restore           *)
  restarted   (* history: RestartGC asked for a cycle since the last reset  *)

\* How a loop was entered, and the servicing value its end restores.
Loop == [explicit : BOOLEAN, prev : BOOLEAN]

flags == <<stopped, requested, servicing, runnable>>
vars == <<heapLimit, pause, debt, budget, baseline, flags, heap, dead, loops,
          charged, restarted>>

\* A scaled budget is never below the minimum debt.
AtLeastMinimum(scaled) == IF scaled < MinDebt THEN MinDebt ELSE scaled

\* The budget is one that some pause grants the last measured heap in exact
\* arithmetic, or the largest word: never what a wrapped product leaves.
BudgetGranted ==
  \/ budget \in {MinDebt, MaxWord}
  \/ \E p \in Pauses :
       p > 100 /\ budget = AtLeastMinimum((baseline * (p - 100)) \div 100)

TypeOK ==
  /\ heapLimit \in HeapLimits
  /\ pause \in Pauses
  /\ debt \in 0 .. MaxWord
  /\ budget \in MinDebt .. MaxWord /\ BudgetGranted
  /\ baseline \in Nat
  /\ stopped \in BOOLEAN /\ requested \in BOOLEAN
  /\ servicing \in BOOLEAN /\ runnable \in BOOLEAN
  /\ heap \in Nat /\ dead \in 0 .. heap
  /\ loops \in Seq(Loop)
  /\ charged \in BOOLEAN /\ restarted \in BOOLEAN

\* defaultCollectionControl and New.
Init ==
  /\ heapLimit \in HeapLimits
  /\ pause = 200
  /\ debt = 0 /\ budget = MinDebt /\ baseline = 0
  /\ stopped = FALSE /\ requested = FALSE
  /\ servicing = FALSE /\ runnable = FALSE
  /\ heap = 0 /\ dead = 0
  /\ loops = <<>>
  /\ charged = FALSE /\ restarted = FALSE

-----------------------------------------------------------------------------
\* refreshRunnable, for the flags a step leaves.
RefreshRunnable ==
  runnable' = (requested' /\ ~servicing' /\ (~stopped' \/ heapLimit # 0))

\* What is left of n in a word of the machine.
Word(n) == n % (MaxWord + 1)

\* Mutant of AutomaticCollectionBudget: the product is not tested for overflow.
BudgetUnchecked(live) ==
  IF pause <= 100 \/ live = 0 THEN MinDebt
  ELSE AtLeastMinimum(Word(live * (pause - 100)) \div 100)

\* automaticCollectionBudget, saturating.
AutomaticCollectionBudget(live) ==
  IF pause <= 100 \/ live = 0 THEN MinDebt
  ELSE IF live > MaxWord \div (pause - 100) THEN MaxWord
  ELSE AtLeastMinimum(Word(live * (pause - 100)) \div 100)

\* baseline + debt, which can wrap.
Estimate(d) == Word(baseline + d)

\* Mutants of Due: the debt alone compared with the limit, and no minimum debt
\* for a limit-triggered cycle.
DueDebtOnly(d) ==
  \/ d >= budget
  \/ heapLimit # 0 /\ (baseline > heapLimit \/ d > heapLimit)

DueAtOnce(d) ==
  \/ d >= budget
  \/ heapLimit # 0 /\ (baseline > heapLimit \/ Estimate(d) > heapLimit)

\* Whether a charge that leaves debt d requests a cycle.
Due(d) ==
  \/ d >= budget
  \/ /\ heapLimit # 0
     /\ \/ baseline > heapLimit
        \/ d >= MinDebt /\ Estimate(d) > heapLimit

\* charge: an allocation or a growth of capacity.
Charge(n) ==
  LET d == IF n > MaxWord - debt THEN MaxWord ELSE debt + n
  IN  /\ heap + n <= MaxHeap
      /\ heap' = heap + n
      /\ debt' = d
      /\ requested' = (requested \/ Due(d))
      /\ charged' = TRUE
      /\ UNCHANGED <<heapLimit, pause, budget, baseline, stopped, servicing,
                     dead, loops, restarted>>
      /\ IF requested \/ ~Due(d) THEN UNCHANGED runnable ELSE RefreshRunnable

\* Retained objects become unreachable.
Die(n) ==
  /\ dead + n <= heap
  /\ dead' = dead + n
  /\ UNCHANGED <<heapLimit, pause, debt, budget, baseline, flags, heap, loops,
                 charged, restarted>>

\* Mutant of SetStopped: the cached decision is left alone.
SetStoppedStale(b) ==
  /\ stopped' = b
  /\ UNCHANGED <<requested, servicing, runnable>>

SetStopped(b) ==
  /\ stopped' = b
  /\ UNCHANGED <<requested, servicing>>
  /\ RefreshRunnable

\* StopGC and collectgarbage("stop").
StopGC ==
  /\ SetStopped(TRUE)
  /\ UNCHANGED <<heapLimit, pause, debt, budget, baseline, heap, dead, loops,
                 charged, restarted>>

\* RestartGC and collectgarbage("restart").
RestartGC ==
  /\ stopped' = FALSE /\ requested' = TRUE /\ UNCHANGED servicing
  /\ RefreshRunnable
  /\ restarted' = TRUE
  /\ UNCHANGED <<heapLimit, pause, debt, budget, baseline, heap, dead, loops,
                 charged>>

\* collectgarbage("setpause"): the budget changes with the next collection.
SetPause(p) ==
  /\ pause' = p
  /\ UNCHANGED <<heapLimit, debt, budget, baseline, flags, heap, dead, loops,
                 charged, restarted>>

\* resetDebt with the measured heap.
ResetDebt(live) ==
  /\ debt' = 0
  /\ baseline' = live
  /\ budget' = AutomaticCollectionBudget(live)
  /\ requested' = FALSE
  /\ charged' = FALSE /\ restarted' = FALSE

\* State.Collect, Frame.Collect and collectgarbage("collect") or ("step"), up
\* to their finalizer loop, which takes the servicing flag.
Collect ==
  /\ Len(loops) < MaxLoops
  /\ heap' = heap - dead /\ dead' = 0
  /\ ResetDebt(heap - dead)
  /\ stopped' = FALSE
  /\ servicing' = TRUE
  /\ loops' = Append(loops, [explicit |-> TRUE, prev |-> servicing])
  /\ RefreshRunnable
  /\ UNCHANGED <<heapLimit, pause>>

\* effectiveHeapLimit: widened while an xpcall handler runs, saturating.
EffectiveHeapLimit(handling) ==
  LET headroom == Max({heapLimit \div 8, Reserve})
  IN  IF heapLimit = 0 \/ ~handling THEN heapLimit
      ELSE IF heapLimit > MaxWord - headroom THEN MaxWord
      ELSE heapLimit + headroom

\* runAutomaticCollection: a cycle, or a measurement while stopped; a heap
\* still over its limit raises instead of running finalizers.
SafePoint(handling) ==
  LET live  == IF stopped THEN heap ELSE heap - dead
      limit == EffectiveHeapLimit(handling)
  IN  /\ runnable
      /\ Len(loops) < MaxLoops
      /\ heap' = live
      /\ dead' = IF stopped THEN dead ELSE 0
      /\ ResetDebt(live)
      /\ IF stopped \/ (limit # 0 /\ live > limit)
         THEN servicing' = FALSE /\ UNCHANGED loops
         ELSE /\ servicing' = TRUE
              /\ loops' = Append(loops, [explicit |-> FALSE, prev |-> FALSE])
      /\ UNCHANGED <<heapLimit, pause, stopped>>
      /\ RefreshRunnable

\* Mutant of Rescheduled: a request the handler's allocation earned is
\* discarded with its stop and restart requests.
RescheduledNever(b) == FALSE

\* What is left of the requests a handler made: debt against budget b.
Rescheduled(b) == debt >= b

\* restoreAfterFinalizer, after each handler that returned.
RestoreAfterFinalizer ==
  /\ loops # <<>>
  /\ stopped' = FALSE
  /\ budget' = AutomaticCollectionBudget(baseline)
  /\ requested' = Rescheduled(budget')
  /\ charged' = FALSE
  /\ UNCHANGED <<heapLimit, pause, debt, baseline, servicing, heap, dead,
                 loops, restarted>>
  /\ RefreshRunnable

\* Mutant of SetServicing: the flag is restored behind the cached decision.
SetServicingStale(b) ==
  /\ servicing' = b
  /\ UNCHANGED <<requested, runnable>>

SetServicing(b) ==
  /\ servicing' = b
  /\ UNCHANGED requested
  /\ RefreshRunnable

\* The innermost loop returns and its deferred setServicing runs.  An explicit
\* collection whose queue drained resumes automatic scheduling; one whose
\* handler failed leaves a stop the handler asked for.
EndLoop(drained) ==
  LET loop == Last(loops)
  IN  /\ loops # <<>>
      /\ loops' = Front(loops)
      /\ stopped' = (stopped /\ ~(drained /\ loop.explicit))
      /\ SetServicing(loop.prev)
      /\ UNCHANGED <<heapLimit, pause, debt, budget, baseline, heap, dead,
                     charged, restarted>>

Next ==
  \/ \E n \in Sizes : Charge(n) \/ Die(n)
  \/ \E p \in Pauses : SetPause(p)
  \/ StopGC \/ RestartGC \/ Collect \/ RestoreAfterFinalizer
  \/ \E b \in BOOLEAN : SafePoint(b) \/ EndLoop(b)

Spec == Init /\ [][Next]_vars

\* Executing code keeps reaching safe points, and finalizers terminate.
FairSpec ==
  /\ Spec
  /\ WF_vars(\E b \in BOOLEAN : SafePoint(b))
  /\ WF_vars(\E b \in BOOLEAN : EndLoop(b))

-----------------------------------------------------------------------------
(***************************************************************************)
(* Properties.                                                             *)
(***************************************************************************)

\* The decision every safe point reads is never stale: whichever of the flags
\* changed last, runnable is what refreshRunnable would compute now.
RunnableFresh ==
  runnable = (requested /\ ~servicing /\ (~stopped \/ heapLimit # 0))

\* Debt that has reached the budget always has its cycle requested, across
\* collections, pause changes and the requests that a finalizer's end discards.
DebtScheduled == debt >= budget => requested

\* What baseline and debt mean: together they are the heap, garbage included,
\* so the estimate a charge compares with the limit never understates it; a
\* charge that requested nothing left it below both thresholds.
EstimateExact ==
  /\ heap = baseline + debt
  /\ heapLimit # 0 /\ ~requested /\ charged =>
       baseline <= heapLimit /\ (debt < MinDebt \/ heap <= heapLimit)

\* MaxHeapBytes bounds sustained retention: when a charge has not requested a
\* cycle, the heap is within the limit plus the collector's minimum debt,
\* garbage included.
RetentionBounded ==
  heapLimit # 0 /\ ~requested /\ charged => heap < heapLimit + MinDebt

\* A State parked under its limit does not collect on every few bytes of
\* churn: an automatic cycle pays for at least the minimum debt, unless Lua or
\* the host asked for it or the measured heap is over its limit.
NoThrash ==
  [][(\E b \in BOOLEAN : SafePoint(b)) =>
                  \/ debt >= MinDebt
                  \/ restarted
                  \/ heapLimit # 0 /\ baseline > heapLimit]_vars

\* A requested cycle is not forgotten: it is serviced unless the collector is
\* stopped first.
RequestServiced ==
  (requested /\ ~stopped) ~> (~requested \/ stopped)
=============================================================================
