------------------------------ MODULE Collector ------------------------------
(***************************************************************************)
(* The State-local semantic collector: one synchronous mark/sweep cycle    *)
(* with its work lists, weak-table clearing and sweep; the persistent      *)
(* finalizer queue and the loops that drain it, which nest when a          *)
(* finalizer collects explicitly; the stop/request/servicing flags that    *)
(* decide whether a safe point may collect; and State.Close.               *)
(*                                                                         *)
(* The State runs on one goroutine, so Lua code never interleaves with a   *)
(* cycle.  Go's own collector does: it retires host tokens at any step.    *)
(***************************************************************************)
EXTENDS LuaHeap, SequencesExt

CONSTANTS
  Nil,          (* the cleared slot of a consumed finalizer                  *)
  HeapLimited,  (* whether Options.MaxHeapBytes is set                       *)
  MaxCycles     (* bound: collections in one behaviour                       *)

ASSUME CollectorAssumption ==
  /\ Nil \notin Objects
  /\ HeapLimited \in BOOLEAN
  /\ MaxCycles \in Nat

VARIABLES
  phase,          (* ledger.phase                                            *)
  step,           (* where collectUnreachable stands; "run" outside it       *)
  caller,         (* which entry point the current cycle returns to          *)
  mark, work,     (* the marked objects, and those still to be traced        *)
  weak,           (* weak tables met while marking                           *)
  finalizers,     (* ledger.finalizers, consumed slots holding Nil           *)
  finalizerHead,  (* number of consumed slots                                *)
  finalized,      (* userdata carrying the userDataFinalized flag            *)
  loops,          (* active runPendingFinalizers calls, innermost last       *)
  running,        (* state.active # nil outside any finalizer                *)
  status,         (* the State: "open", "closing" or "closed"                *)
  stopped, requested, servicing,   (* collectionControl                      *)
  cycles,         (* history: collections begun                              *)
  pinned,         (* history: the host roots the current cycle saw           *)
  batches,        (* history: separateFinalizers calls                       *)
  queuedAt,       (* history: the batch that queued each userdata, or 0      *)
  taken           (* history: times each userdata left the queue             *)

queueVars   == <<finalizers, finalizerHead, finalized>>
controlVars == <<stopped, requested, servicing>>
histVars    == <<batches, queuedAt, taken>>
cycleVars   == <<phase, step, caller, mark, work, weak, cycles, pinned>>
vars == <<heapVars, queueVars, controlVars, cycleVars, loops, running, status,
          histVars>>

Callers == {"host", "frame", "auto"}
Loop == [by : Callers \cup {"close"}, prev : BOOLEAN, busy : BOOLEAN]

TypeOK ==
  /\ HeapTypeOK
  /\ phase \in {"idle", "marking", "sweeping"}
  /\ step \in {"run", "roots", "hosts", "drain", "pending", "drain2", "sweep",
               "settle"}
  /\ caller \in Callers
  /\ mark \subseteq Objects /\ work \subseteq mark
  /\ weak \subseteq Tables
  /\ finalizers \in Seq(UserData \cup {Nil})
  /\ finalizerHead \in 0 .. Len(finalizers)
  /\ finalized \subseteq UserData
  /\ loops \in Seq(Loop)
  /\ running \in BOOLEAN
  /\ status \in {"open", "closing", "closed"}
  /\ stopped \in BOOLEAN /\ requested \in BOOLEAN /\ servicing \in BOOLEAN
  /\ cycles \in Nat
  /\ pinned \subseteq Objects
  /\ batches \in Nat
  /\ queuedAt \in [UserData -> Nat]
  /\ taken \in [UserData -> Nat]

Init ==
  /\ HeapInit
  /\ phase = "idle" /\ step = "run" /\ caller = "host"
  /\ mark = {} /\ work = {} /\ weak = {}
  /\ finalizers = <<>> /\ finalizerHead = 0 /\ finalized = {}
  /\ loops = <<>>
  /\ running = FALSE
  /\ status = "open"
  /\ stopped = FALSE /\ requested = FALSE /\ servicing = FALSE
  /\ cycles = 0 /\ pinned = {}
  /\ batches = 0
  /\ queuedAt = [u \in UserData |-> 0]
  /\ taken = [u \in UserData |-> 0]

-----------------------------------------------------------------------------
(***************************************************************************)
(* Execution outside the collector.                                        *)
(***************************************************************************)

Pending == SubSeq(finalizers, finalizerHead + 1, Len(finalizers))
Top == loops[Len(loops)]

\* A finalizer body is executing.
InFinalizer == loops # <<>> /\ Top.busy

\* Lua code or the host may act: no cycle and no finalizer loop holds control.
MutatorTurn ==
  /\ step = "run"
  /\ status # "closed"
  /\ loops # <<>> => Top.busy

\* refreshRunnable.
Runnable == requested /\ ~servicing /\ (~stopped \/ HeapLimited)

\* A registration or table growth charges allocation debt, which may request
\* a cycle; the registration panics unless the collector is idle.
Charge == requested' \in {requested, TRUE}

Allocate(o) ==
  /\ MutatorTurn
  /\ phase = "idle"
  /\ New(o)
  /\ Charge
  /\ UNCHANGED <<queueVars, stopped, servicing, cycleVars, loops, running,
                 status, histVars>>

MutatorStep ==
  /\ MutatorTurn
  /\ Mutate
  /\ IF entries' # entries THEN Charge ELSE UNCHANGED requested
  /\ UNCHANGED <<queueVars, stopped, servicing, cycleVars, loops, running,
                 status, histVars>>

\* Go retires a token: on any step, also in the middle of a cycle and after
\* Close.
GoForgets(o) ==
  /\ ForgetToken(o)
  /\ UNCHANGED <<queueVars, controlVars, cycleVars, loops, running, status,
                 histVars>>

\* The host calls into Lua and Lua returns.
EnterOrLeave ==
  /\ step = "run" /\ status = "open" /\ loops = <<>>
  /\ running' = ~running
  /\ UNCHANGED <<heapVars, queueVars, controlVars, cycleVars, loops, status,
                 histVars>>

\* StopGC and collectgarbage("stop").
StopGC ==
  /\ MutatorTurn
  /\ ~stopped
  /\ stopped' = TRUE
  /\ UNCHANGED <<heapVars, queueVars, requested, servicing, cycleVars, loops,
                 running, status, histVars>>

\* RestartGC and collectgarbage("restart").
RestartGC ==
  /\ MutatorTurn
  /\ stopped' = FALSE
  /\ requested' = TRUE
  /\ <<stopped, requested>> # <<FALSE, TRUE>>
  /\ UNCHANGED <<heapVars, queueVars, servicing, cycleVars, loops, running,
                 status, histVars>>

-----------------------------------------------------------------------------
(***************************************************************************)
(* One cycle: collectUnreachable and what its callers do around it.        *)
(***************************************************************************)

BeginCycle(by) ==
  /\ MutatorTurn
  /\ phase = "idle"
  /\ cycles < MaxCycles
  /\ cycles' = cycles + 1
  /\ phase' = "marking"
  /\ step' = "roots"
  /\ caller' = by
  /\ UNCHANGED <<heapVars, queueVars, requested, mark, work, weak, pinned,
                 loops, running, status, histVars>>

\* State.Collect: an idle, open State.
HostCollect ==
  /\ status = "open" /\ ~running /\ loops = <<>>
  /\ BeginCycle("host")
  /\ stopped' = FALSE
  /\ UNCHANGED servicing

\* Frame.Collect, collectgarbage("collect") and ("step"): any native callback,
\* a finalizer's and a closing State's too.
FrameCollect ==
  /\ running \/ InFinalizer
  /\ BeginCycle("frame")
  /\ stopped' = FALSE
  /\ UNCHANGED servicing

\* runAutomaticCollection at an execution safe point.
AutomaticCollect ==
  /\ running \/ InFinalizer
  /\ Runnable /\ ~stopped
  /\ BeginCycle("auto")
  /\ servicing' = TRUE
  /\ UNCHANGED stopped

\* The same safe point while stopped: the heap is measured, not collected.
MeasureStopped ==
  /\ MutatorTurn
  /\ running \/ InFinalizer
  /\ Runnable /\ stopped
  /\ requested' = FALSE
  /\ UNCHANGED <<heapVars, queueVars, stopped, servicing, cycleVars, loops,
                 running, status, histVars>>

\* markCollectionRoots up to the host directory: the main and active threads
\* with their stacks, and everything the State itself holds.
MarkRoots ==
  /\ step = "roots"
  /\ step' = "hosts"
  /\ mark' = {Main} \cup Registers
  /\ work' = mark'
  /\ UNCHANGED <<heapVars, queueVars, controlVars, phase, caller, weak,
                 cycles, pinned, loops, running, status, histVars>>

\* hostDirectory.markCollectionRoots: the tokens Go has not retired yet.
MarkHosts ==
  /\ step = "hosts"
  /\ step' = "drain"
  /\ pinned' = tokens
  /\ mark' = mark \cup tokens
  /\ work' = work \cup (tokens \ mark)
  /\ UNCHANGED <<heapVars, queueVars, controlVars, phase, caller, weak,
                 cycles, loops, running, status, histVars>>

\* drainCollectionWork: pop one object and trace it.
Trace(o) ==
  /\ step \in {"drain", "drain2"}
  /\ o \in work
  /\ mark' = mark \cup Traced(o)
  /\ work' = (work \ {o}) \cup (Traced(o) \ mark)
  /\ weak' = IF o \in Tables /\ mode[o] # {} THEN weak \cup {o} ELSE weak
  /\ UNCHANGED <<heapVars, queueVars, controlVars, phase, step, caller,
                 cycles, pinned, loops, running, status, histVars>>

\* A batch lists its userdata in reverse creation order.
ReverseCreation(q) ==
  \A i, j \in DOMAIN q : i < j =>
    \E a, b \in DOMAIN udata : a > b /\ udata[a] = q[i] /\ udata[b] = q[j]

\* Mutants of SeparateFinalizers: the batch put before older work, and older
\* work overwritten.
SeparateBefore(considered) ==
  LET found == considered \ finalized
      queued == found \cap hasGC
  IN  \E batch \in [1 .. Cardinality(queued) -> queued] :
        /\ ReverseCreation(batch)
        /\ finalized' = finalized \cup found
        /\ finalizers' = batch \o Pending
        /\ finalizerHead' = 0
        /\ queuedAt' = [u \in UserData |-> IF u \in queued THEN batches + 1
                                          ELSE queuedAt[u]]
        /\ batches' = batches + 1

SeparateOver(considered) ==
  LET found == considered \ finalized
      queued == found \cap hasGC
  IN  \E batch \in [1 .. Cardinality(queued) -> queued] :
        /\ ReverseCreation(batch)
        /\ finalized' = finalized \cup found
        /\ finalizers' = batch
        /\ finalizerHead' = 0
        /\ queuedAt' = [u \in UserData |-> IF u \in queued THEN batches + 1
                                          ELSE queuedAt[u]]
        /\ batches' = batches + 1

\* separateFinalizers: each userdata is considered once; those with a __gc
\* value are queued behind the compacted older work.
SeparateFinalizers(considered) ==
  LET found == considered \ finalized
      queued == found \cap hasGC
  IN  \E batch \in [1 .. Cardinality(queued) -> queued] :
        /\ ReverseCreation(batch)
        /\ finalized' = finalized \cup found
        /\ finalizers' = Pending \o batch
        /\ finalizerHead' = 0
        /\ queuedAt' = [u \in UserData |-> IF u \in queued THEN batches + 1
                                          ELSE queuedAt[u]]
        /\ batches' = batches + 1

\* Mutant of Separate: before the mark work list is empty.
SeparateEarly ==
  /\ step = "drain"
  /\ step' = "pending"
  /\ SeparateFinalizers((live \cap UserData) \ mark)
  /\ UNCHANGED <<heapVars, controlVars, phase, caller, mark, work, weak,
                 cycles, pinned, loops, running, status, taken>>

Separate ==
  /\ step = "drain" /\ work = {}
  /\ step' = "pending"
  /\ SeparateFinalizers((live \cap UserData) \ mark)
  /\ UNCHANGED <<heapVars, controlVars, phase, caller, mark, work, weak,
                 cycles, pinned, loops, running, status, taken>>

\* markPendingFinalizers: the queue keeps its userdata and their graph.
MarkPending ==
  /\ step = "pending"
  /\ step' = "drain2"
  /\ mark' = mark \cup ToSet(Pending)
  /\ work' = ToSet(Pending) \ mark
  /\ UNCHANGED <<heapVars, queueVars, controlVars, phase, caller, weak,
                 cycles, pinned, loops, running, status, histVars>>

\* Mutants of WeakSlotCleared: dead values kept, and finalized userdata cleared
\* as keys too.
WeakSlotClearedKeys(x, key) == key /\ x \in Objects /\ x \notin mark

WeakSlotClearedBoth(x, key) ==
  /\ x \in Objects
  /\ x \notin mark \/ x \in finalized

\* weakSlotCleared: finalized userdata are cleared as values, kept as keys.
WeakSlotCleared(x, key) ==
  /\ x \in Objects
  /\ x \notin mark \/ (~key /\ x \in finalized)

\* An array slot is examined only in a weak-value table; a record entry of any
\* weak table is examined on both sides.
WeakEntryCleared(t, e) ==
  IF e[1] = Index
  THEN "v" \in mode[t] /\ WeakSlotCleared(e[2], FALSE)
  ELSE WeakSlotCleared(e[1], TRUE) \/ WeakSlotCleared(e[2], FALSE)

ClearWeakTables ==
  /\ step = "drain2" /\ work = {}
  /\ phase' = "sweeping"
  /\ step' = "sweep"
  /\ entries' = [t \in Tables |->
       IF t \in weak THEN {e \in entries[t] : ~WeakEntryCleared(t, e)}
                     ELSE entries[t]]
  /\ UNCHANGED <<fresh, live, udata, refs, mode, hasGC, tokens, frames,
                 queueVars, controlVars, caller, mark, work, weak, cycles,
                 pinned, loops, running, status, histVars>>

\* sweepThreads, sweepFunctions, sweepTables and sweepUserData: unmarked
\* objects leave the ledger and their fields are zeroed.
Sweep ==
  /\ step = "sweep"
  /\ phase' = "idle"
  /\ step' = "settle"
  /\ live' = live \cap mark
  /\ refs' = [o \in Objects |-> IF o \in live \cap mark THEN refs[o] ELSE {}]
  /\ entries' = [t \in Tables |-> IF t \in live \cap mark THEN entries[t] ELSE {}]
  /\ mode' = [t \in Tables |-> IF t \in live \cap mark THEN mode[t] ELSE {}]
  /\ hasGC' = hasGC \cap mark
  /\ mark' = {} /\ work' = {} /\ weak' = {} /\ pinned' = {}
  /\ UNCHANGED <<fresh, udata, tokens, frames, queueVars, controlVars,
                 caller, cycles, loops, running, status, histVars>>

\* resetCollectionDebt, then the finalizer loop.  An automatic cycle that
\* still measures the heap over its limit raises instead and leaves the queue
\* for a later cycle.
Settle ==
  /\ step = "settle"
  /\ step' = "run"
  /\ requested' = FALSE
  /\ \/ /\ servicing' = TRUE
        /\ loops' = Append(loops, [by |-> caller, prev |-> servicing,
                                   busy |-> FALSE])
     \/ /\ caller = "auto" /\ HeapLimited
        /\ servicing' = FALSE
        /\ UNCHANGED loops
  /\ UNCHANGED <<heapVars, queueVars, stopped, phase, caller, mark, work, weak,
                 cycles, pinned, running, status, histVars>>

-----------------------------------------------------------------------------
(***************************************************************************)
(* runPendingFinalizers and finalizeForClose.                              *)
(***************************************************************************)

LoopTurn == step = "run" /\ loops # <<>> /\ ~Top.busy

\* Mutant of ServicingAfter: every loop lowers the flag.
ServicingLowered(loop) == FALSE

\* What the deferred setServicing calls leave behind when a loop ends: an
\* automatic cycle clears the flag itself, the others restore what they found.
ServicingAfter(loop) == IF loop.by = "auto" THEN FALSE ELSE loop.prev

\* Mutant of TakeHead: the exhausted queue is truncated without resetting the
\* head.
TakeHeadKeepsHead ==
  LET head == finalizerHead + 1
  IN  /\ finalizers' = IF head = Len(finalizers) THEN <<>>
                       ELSE [finalizers EXCEPT ![head] = Nil]
      /\ finalizerHead' = head

\* takeFinalizer: clear the slot, advance, compact an exhausted queue.
TakeHead ==
  LET head == finalizerHead + 1
  IN  IF head = Len(finalizers)
      THEN finalizers' = <<>> /\ finalizerHead' = 0
      ELSE /\ finalizers' = [finalizers EXCEPT ![head] = Nil]
           /\ finalizerHead' = head

\* The handler is looked up again at the call and may have disappeared.
TakeFinalizer ==
  LET u == finalizers[finalizerHead + 1]
  IN  /\ LoopTurn
      /\ finalizerHead < Len(finalizers)
      /\ TakeHead
      /\ IF u \in hasGC
         THEN /\ loops' = [loops EXCEPT ![Len(loops)].busy = TRUE]
              /\ frames' = Append(frames, {u})
         ELSE UNCHANGED <<loops, frames>>
      /\ taken' = [taken EXCEPT ![u] = @ + 1]
      /\ UNCHANGED <<fresh, live, udata, refs, entries, mode, hasGC, tokens,
                     finalized, controlVars, cycleVars, running, status, batches,
                     queuedAt>>

\* Queue drained: the loop returns.  An explicit collection that got here
\* succeeded and resumes automatic scheduling; a closing State tears down.
FinishLoop ==
  /\ LoopTurn
  /\ Top.by # "close"
  /\ finalizerHead = Len(finalizers)
  /\ loops' = Front(loops)
  /\ servicing' = ServicingAfter(Top)
  /\ stopped' = IF Top.by = "auto" THEN stopped ELSE FALSE
  /\ UNCHANGED <<heapVars, queueVars, requested, cycleVars, running, status,
                 histVars>>

\* A handler returned: restoreAfterFinalizer discards its stop/restart
\* requests and recomputes the request from debt and budget.
FinalizerReturns ==
  /\ step = "run" /\ InFinalizer
  /\ frames' = Front(frames)
  /\ loops' = [loops EXCEPT ![Len(loops)].busy = FALSE]
  /\ IF Top.by = "close"
     THEN UNCHANGED <<stopped, requested>>
     ELSE stopped' = FALSE /\ requested' \in BOOLEAN
  /\ UNCHANGED <<fresh, live, udata, refs, entries, mode, hasGC, tokens,
                 queueVars, servicing, cycleVars, running, status, histVars>>

\* Mutant of FinalizerFails: Close drops the rest of the queue at the first
\* failing handler.
FinalizerFailsDropping ==
  /\ step = "run" /\ InFinalizer
  /\ frames' = Front(frames)
  /\ IF Top.by = "close"
     THEN /\ loops' = [loops EXCEPT ![Len(loops)].busy = FALSE]
          /\ finalizers' = <<>> /\ finalizerHead' = 0
          /\ UNCHANGED servicing
     ELSE /\ loops' = Front(loops)
          /\ servicing' = ServicingAfter(Top)
          /\ UNCHANGED <<finalizers, finalizerHead>>
  /\ UNCHANGED <<fresh, live, udata, refs, entries, mode, hasGC, tokens,
                 finalized, stopped, requested, cycleVars, running, status,
                 histVars>>

\* A handler raised or panicked: the loop ends and the rest stays queued;
\* Close ignores it and goes on.
FinalizerFails ==
  /\ step = "run" /\ InFinalizer
  /\ frames' = Front(frames)
  /\ IF Top.by = "close"
     THEN /\ loops' = [loops EXCEPT ![Len(loops)].busy = FALSE]
          /\ UNCHANGED servicing
     ELSE /\ loops' = Front(loops)
          /\ servicing' = ServicingAfter(Top)
  /\ UNCHANGED <<fresh, live, udata, refs, entries, mode, hasGC, tokens,
                 queueVars, stopped, requested, cycleVars, running, status,
                 histVars>>

\* State.Close on an idle State: every remaining userdata is separated.
BeginClose ==
  /\ step = "run" /\ status = "open" /\ ~running /\ loops = <<>>
  /\ status' = "closing"
  /\ servicing' = TRUE
  /\ SeparateFinalizers(live \cap UserData)
  /\ loops' = <<[by |-> "close", prev |-> servicing, busy |-> FALSE]>>
  /\ UNCHANGED <<heapVars, stopped, requested, cycleVars, running, taken>>

\* detachObjectsForClose: execution storage goes, object contents stay
\* readable through owning handles.
FinishClose ==
  /\ LoopTurn
  /\ Top.by = "close"
  /\ finalizerHead = Len(finalizers)
  /\ loops' = <<>>
  /\ status' = "closed"
  /\ refs' = [o \in Objects |-> IF o \in Threads THEN {} ELSE refs[o]]
  /\ finalizers' = <<>> /\ finalizerHead' = 0
  /\ stopped' = FALSE /\ requested' = FALSE /\ servicing' = FALSE
  /\ UNCHANGED <<fresh, live, udata, entries, mode, hasGC, tokens, frames, finalized,
                 cycleVars, running, histVars>>

-----------------------------------------------------------------------------
CycleStep ==
  \/ MarkRoots \/ MarkHosts \/ (\E o \in Objects : Trace(o)) \/ Separate
  \/ MarkPending \/ ClearWeakTables \/ Sweep \/ Settle

LoopStep == TakeFinalizer \/ FinishLoop \/ FinishClose

Next ==
  \/ \E o \in Objects : Allocate(o) \/ GoForgets(o)
  \/ MutatorStep \/ EnterOrLeave \/ StopGC \/ RestartGC
  \/ HostCollect \/ FrameCollect \/ AutomaticCollect \/ MeasureStopped
  \/ CycleStep \/ LoopStep
  \/ FinalizerReturns \/ FinalizerFails
  \/ BeginClose

Spec == Init /\ [][Next]_vars

\* Every handler that is called ends, and the collector's own code runs on.
Fairness ==
  /\ WF_vars(CycleStep)
  /\ WF_vars(LoopStep)
  /\ WF_vars(FinalizerReturns \/ FinalizerFails)

FairSpec == Spec /\ Fairness

-----------------------------------------------------------------------------
(***************************************************************************)
(* Properties.                                                             *)
(***************************************************************************)

\* No registered object, register, host token or queued userdata refers to a
\* swept object: collectUnreachable zeroes what it sweeps, and a later mark of
\* such an object panics ("unregistered table in Lua graph").
NoDangling ==
  /\ Main \in live
  /\ Registers \subseteq live
  /\ tokens \subseteq live
  /\ ToSet(Pending) \subseteq live
  /\ \A o \in live : Contents(o) \subseteq live

\* Objects that are not registered hold nothing: not constructed yet, or
\* zeroed by the sweep.
UnregisteredEmpty ==
  \A o \in Objects \ live : Contents(o) = {}

\* The marking invariant.  Once the roots are in, a marked object that is not
\* queued has been traced, and recorded if it is a weak table; no marked
\* object is unregistered; host tokens and then the finalizer queue are
\* marked; before the sweep a survivor refers to survivors only, through weak
\* entries too.  Go may retire tokens at any point of it.
MarkingInvariant ==
  /\ step \in {"hosts", "drain", "pending", "drain2", "sweep"} =>
       /\ {Main} \cup Registers \subseteq mark
       /\ mark \subseteq live
       /\ work \subseteq mark
       /\ \A o \in mark \ work : Traced(o) \subseteq mark
       /\ \A t \in (mark \ work) \cap Tables : mode[t] # {} => t \in weak
  /\ step \in {"drain", "pending", "drain2", "sweep"} => tokens \subseteq mark
  /\ step \in {"drain2", "sweep"} => ToSet(Pending) \subseteq mark
  /\ step \in {"pending", "sweep"} => work = {}
  /\ step = "sweep" => \A o \in mark : Contents(o) \subseteq mark

Occurrences(u) == Cardinality({i \in DOMAIN Pending : Pending[i] = u})

\* separateFinalizers queues a userdata at most once in its life, and a queued
\* one is either still pending or was taken exactly once: no error, panic,
\* nested collection or queue compaction loses or repeats a finalizer.
EveryFinalizerOnce ==
  \A u \in UserData :
    Occurrences(u) + taken[u] = IF queuedAt[u] > 0 THEN 1 ELSE 0

CreatedAt(u) == CHOOSE i \in DOMAIN udata : udata[i] = u

\* Finalizers wait in the order of the cycles that found them and, within a
\* cycle, in reverse creation order, although nested collections append to
\* the queue an outer loop is draining.
PendingOrder ==
  \A i, j \in DOMAIN Pending : i < j =>
    \/ queuedAt[Pending[i]] < queuedAt[Pending[j]]
    \/ /\ queuedAt[Pending[i]] = queuedAt[Pending[j]]
       /\ CreatedAt(Pending[i]) > CreatedAt(Pending[j])

\* The servicing flag is up exactly while an automatic cycle or a finalizer
\* loop is active, however loops nest and however they end: otherwise
\* automatic collection would reenter a finalizer batch or never run again.
ServicingTracksLoops ==
  servicing <=> (loops # <<>> \/ (step # "run" /\ caller = "auto"))

\* What makes the flag's save and restore work: only the outermost loop lowers
\* it when it ends, and an automatic cycle never runs inside a loop.
LoopsRestoreServicing ==
  /\ \A i \in DOMAIN loops : ServicingAfter(loops[i]) = (i > 1)
  /\ step # "run" /\ caller = "auto" => loops = <<>>

\* Consumed finalizer slots hold no userdata and the rest are flagged: the
\* panics of validateCollectionLedger and nextPendingFinalizer are unreachable.
QueueValid ==
  \A i \in DOMAIN finalizers :
    IF i <= finalizerHead THEN finalizers[i] = Nil
    ELSE finalizers[i] \in finalized

\* State.Close completes: failing handlers, handlers that collect, and nested
\* collections that queue more finalizers delay it but never strand it with a
\* loop that nobody resumes, and every finalizer queued by then has been taken.
\* A program constructs finitely many userdata and each of its handlers ends.
CloseCompletes ==
  status = "closing" ~>
    /\ status = "closed" /\ loops = <<>>
    /\ \A u \in UserData : queuedAt[u] > 0 => taken[u] = 1
=============================================================================
