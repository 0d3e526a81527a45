------------------------------ MODULE Execution ------------------------------
(***************************************************************************)
(* Who executes in one State: host calls on the main thread, coroutines    *)
(* resumed by the host or from Lua, native callbacks that call back into   *)
(* Lua, protected calls with error handlers, non-yielding guards around    *)
(* metamethods and finalizers, the ambient context with its polling        *)
(* budgets, os.exit, and Go panics that unwind through all of them.        *)
(*                                                                         *)
(* calls is the Go call stack of the executor, innermost last.  Lua        *)
(* activations and values are left out; what is kept is everything a       *)
(* deferred function must restore.  The context may be cancelled by        *)
(* another goroutine between any two steps.                                *)
(***************************************************************************)
EXTENDS Integers, Sequences, FiniteSets

CONSTANTS
  Coroutines, Main, Nil,
  MaxCalls,             (* bound: records on the Go call stack               *)
  NativeLimit,          (* maxNativeCallDepth                                *)
  Reserve,              (* extra native depth inside an error handler        *)
  HostCollects,         (* the host calls State.Collect or Close, so that    *)
                        (* finalizers run on the idle main thread            *)
  CallbacksSetContext   (* callbacks call SetContext and RemoveContext       *)

ASSUME ExecutionAssumption ==
  /\ Main \notin Coroutines
  /\ Nil \notin Coroutines \cup {Main}
  /\ IsFiniteSet(Coroutines)
  /\ MaxCalls \in Nat /\ NativeLimit \in Nat /\ Reserve \in Nat
  /\ HostCollects \in BOOLEAN /\ CallbacksSetContext \in BOOLEAN

Threads == Coroutines \cup {Main}

VARIABLES
  status,        (* thread.status, "none" before construction                *)
  active,        (* state.active                                             *)
  calls,         (* the Go call stack                                        *)
  out,           (* the failure or panic in flight, or "none"                *)
  depth,         (* thread.nativeCallDepth                                   *)
  total,         (* runtime.nativeCallDepth                                  *)
  handlers,      (* thread.errorHandlerDepth                                 *)
  limits,        (* state.limits: "normal" or "reserve"                      *)
  budget,        (* threads with a nonzero contextBudget                     *)
  ambient,       (* the installed context: "none", "live" or "cancelled"     *)
  failure,       (* execution.failure is set                                 *)
  pendingExit    (* execution.pendingExit is set                             *)

depthVars   == <<depth, total>>
controlVars == <<ambient, failure, pendingExit>>
vars == <<status, active, calls, out, depthVars, handlers, limits, budget,
          controlVars>>

Statuses == {"none", "ready", "running", "normal", "suspended", "dead"}
Failures == {"runtime", "limit", "context", "exit"}

\* What each Go function on the stack has saved: the thread it works on, the
\* active thread and limits resumeThread found, and how far runProtectedCall
\* has come with its handler.
Call == [kind     : {"main", "compact", "resume", "native", "builtin",
                     "protected", "nested", "guard"},
         thread   : Threads,
         previous : Threads \cup {Nil},
         limits   : {"normal", "reserve"},
         handler  : {"none", "set", "active"}]

TypeOK ==
  /\ status \in [Threads -> Statuses]
  /\ active \in Threads \cup {Nil}
  /\ calls \in Seq(Call)
  /\ out \in Failures \cup {"none", "panic"}
  /\ depth \in [Threads -> Nat] /\ total \in Nat
  /\ handlers \in [Threads -> Nat]
  /\ limits \in {"normal", "reserve"}
  /\ budget \subseteq Threads
  /\ ambient \in {"none", "live", "cancelled"}
  /\ failure \in BOOLEAN /\ pendingExit \in BOOLEAN

Init ==
  /\ status = [t \in Threads |-> IF t = Main THEN "ready" ELSE "none"]
  /\ active = Nil
  /\ calls = <<>> /\ out = "none"
  /\ depth = [t \in Threads |-> 0] /\ total = 0
  /\ handlers = [t \in Threads |-> 0]
  /\ limits = "normal"
  /\ budget = {}
  /\ ambient = "none"
  /\ failure = FALSE /\ pendingExit = FALSE

-----------------------------------------------------------------------------
Idle == calls = <<>>
Top == calls[Len(calls)]
Below == SubSeq(calls, 1, Len(calls) - 1)

\* Lua code runs on Top.thread, or a native callback does.
InLua    == ~Idle /\ out = "none" /\ Top.kind \notin {"native", "builtin"}
InNative == ~Idle /\ out = "none" /\ Top.kind = "native"

Record(kind, t, h) ==
  [kind |-> kind, thread |-> t, previous |-> active, limits |-> limits,
   handler |-> h]

Room(n) == Len(calls) + n <= MaxCalls

\* resetContextBudget.
Armed(t) == IF ambient = "none" THEN budget \ {t} ELSE budget \cup {t}

\* What the checks "if contextBudget # 0" poll, and what the poll finds.
Polled(t) == IF t \in budget THEN Armed(t) ELSE budget
Cancelled(t) == t \in budget /\ ambient = "cancelled"

\* startStagedCall refuses to enter Lua once os.exit was requested.
Staged == IF pendingExit THEN "exit" ELSE "none"

\* isCatchableProtectedFailure.
Catchable(o) == o = "runtime"

\* prepareReadyMainThread, which panics instead if an idle State retains
\* anything of an earlier execution.
ReadyMain ==
  /\ Idle
  /\ status[Main] = "ready"
  /\ depth[Main] = 0 /\ total = 0 /\ handlers[Main] = 0
  /\ Main \notin budget
  /\ ~failure /\ ~pendingExit
  /\ limits = "normal"

-----------------------------------------------------------------------------
(***************************************************************************)
(* The host, on an idle State.                                             *)
(***************************************************************************)

StartMain(kind) ==
  /\ Room(1)
  /\ calls' = <<Record(kind, Main, "none")>>
  /\ active' = Main
  /\ status' = [status EXCEPT ![Main] = "running"]
  /\ UNCHANGED <<out, depthVars, handlers, limits, controlVars>>

\* runMainCall, after admitExecutionContext.
HostCall ==
  /\ ReadyMain
  /\ ambient # "cancelled"
  /\ StartMain("main")
  /\ budget' = IF ambient = "none" THEN budget ELSE Armed(Main)

\* callMainCompactNone: a finalizer run by State.Collect or Close.
HostFinalizer ==
  /\ HostCollects
  /\ ReadyMain
  /\ StartMain("compact")
  /\ UNCHANGED budget

\* NewThread and coroutine.create.
NewThread(t) ==
  /\ Idle \/ InNative
  /\ status[t] = "none"
  /\ status' = [status EXCEPT ![t] = "suspended"]
  /\ UNCHANGED <<active, calls, out, depthVars, handlers, limits, budget,
                 controlVars>>

\* resumeThread up to its deferred function: the child runs under the ordinary
\* limits and under the State's context, whoever resumes it.
Switch(t) ==
  /\ status' = [s \in Threads |-> IF s = t THEN "running"
                                  ELSE IF s = active THEN "normal"
                                  ELSE status[s]]
  /\ active' = t
  /\ limits' = "normal"

\* Mutant of ArmChild: only the host's own resume is guarded.
ArmChildHostOnly(armed, t) ==
  IF ambient = "none" \/ active # Nil THEN armed ELSE armed \cup {t}

ArmChild(armed, t) == IF ambient = "none" THEN armed ELSE armed \cup {t}

\* Resume and ResumeInto from the host: resumeExternal.
HostResume(t) ==
  /\ Idle
  /\ status[t] = "suspended"
  /\ ~failure /\ ~pendingExit /\ t \notin budget
  /\ ambient # "cancelled"
  /\ Room(1)
  /\ calls' = <<Record("resume", t, "none")>>
  /\ Switch(t)
  /\ budget' = ArmChild(budget, t)
  /\ UNCHANGED <<out, depthVars, handlers, controlVars>>

\* SetContext and RemoveContext, idle or from a callback: armExecutingThread.
SetContext(c) ==
  /\ Idle \/ (InNative /\ CallbacksSetContext)
  /\ ambient # c
  /\ ambient' = c
  /\ budget' = IF active = Nil THEN budget
               ELSE IF c = "none" THEN budget \ {active}
               ELSE budget \cup {active}
  /\ UNCHANGED <<status, active, calls, out, depthVars, handlers, limits,
                 failure, pendingExit>>

\* Another goroutine cancels the installed context.
Cancel ==
  /\ ambient = "live"
  /\ ambient' = "cancelled"
  /\ UNCHANGED <<status, active, calls, out, depthVars, handlers, limits,
                 budget, failure, pendingExit>>

-----------------------------------------------------------------------------
(***************************************************************************)
(* Lua code.                                                               *)
(***************************************************************************)

\* A backward jump, tail call or return whose budget is spent: the thread is
\* armed again, and fails if the context was cancelled.
Poll ==
  /\ InLua
  /\ Top.thread \in budget
  /\ budget' = Armed(Top.thread)
  /\ failure' = (failure \/ Cancelled(Top.thread))
  /\ out' = IF Cancelled(Top.thread) THEN "context" ELSE "none"
  /\ UNCHANGED <<status, active, calls, depthVars, handlers, limits, ambient,
                 pendingExit>>

\* Lua raises an error, or a safe point finds the heap over its limit.
Raise(o) ==
  /\ InLua
  /\ out' = o
  /\ UNCHANGED <<status, active, calls, depthVars, handlers, limits, budget,
                 controlVars>>

\* A metamethod or an automatic finalizer: a continuation that forbids yields.
EnterGuard ==
  /\ InLua
  /\ Room(1)
  /\ calls' = Append(calls, Record("guard", Top.thread, "none"))
  /\ out' = Staged
  /\ UNCHANGED <<status, active, depthVars, handlers, limits, budget,
                 controlVars>>

\* nativeCallLimit.
NativeCallLimit(t) == IF handlers[t] = 0 THEN NativeLimit ELSE NativeLimit + Reserve

Refused == total >= NativeCallLimit(Top.thread)

\* The poll before a native call, then invokeNativeCall up to the callback: an
\* exhausted native depth raises instead.
Invoke(records) ==
  LET t == Top.thread
  IN  /\ InLua
      /\ ~Cancelled(t)
      /\ Room(Len(records))
      /\ calls' = IF Refused THEN calls ELSE calls \o records
      /\ depth' = IF Refused THEN depth ELSE [depth EXCEPT ![t] = @ + 1]
      /\ total' = IF Refused THEN total ELSE total + 1

\* A host NativeFunc or a library function that calls back.
EnterNative ==
  /\ Invoke(<<Record("native", Top.thread, "none")>>)
  /\ out' = IF Refused THEN "runtime" ELSE "none"
  /\ budget' = Polled(Top.thread)
  /\ UNCHANGED <<status, active, handlers, limits, controlVars>>

\* pcall, and xpcall with its handler: runProtectedCall enters its target.
EnterProtected(h) ==
  /\ Invoke(<<Record("builtin", Top.thread, "none"),
              Record("protected", Top.thread, h)>>)
  /\ out' = IF Refused THEN "runtime" ELSE Staged
  /\ budget' = Polled(Top.thread)
  /\ UNCHANGED <<status, active, handlers, limits, controlVars>>

\* coroutine.resume, and the function coroutine.wrap returns, on a suspended
\* coroutine.  Any other status is an ordinary error of the caller.
EnterResume(t) ==
  /\ InLua /\ ~Refused
  /\ status[t] = "suspended"
  /\ Invoke(<<Record("builtin", Top.thread, "none"),
              Record("resume", t, "none")>>)
  /\ Switch(t)
  /\ budget' = ArmChild(Polled(Top.thread), t)
  /\ UNCHANGED <<out, handlers, controlVars>>

-----------------------------------------------------------------------------
(***************************************************************************)
(* Native callbacks.                                                       *)
(***************************************************************************)

\* Frame.Call, or Frame.Collect running a finalizer: startStagedCall above the
\* callback.
NestedCall ==
  /\ InNative
  /\ Room(1)
  /\ calls' = Append(calls, Record("nested", Top.thread, "none"))
  /\ out' = Staged
  /\ UNCHANGED <<status, active, depthVars, handlers, limits, budget,
                 controlVars>>

\* Library code that works without returning to the executor polls by itself:
\* the pattern matcher, io reads and processes.
NativePoll ==
  /\ InNative
  /\ ambient # "none"
  /\ budget' = Armed(Top.thread)
  /\ failure' = (failure \/ ambient = "cancelled")
  /\ UNCHANGED <<status, active, calls, out, depthVars, handlers, limits,
                 ambient, pendingExit>>

\* os.exit: the request is remembered and the callback returns it.
OSExit ==
  /\ InNative
  /\ pendingExit' = TRUE
  /\ out' = "exit"
  /\ UNCHANGED <<status, active, calls, depthVars, handlers, limits, budget,
                 ambient, failure>>

\* A callback panics, or raises with Frame.Throw, which is not polled.
CallbackThrows(o) ==
  /\ InNative
  /\ out' = IF o = "panic" THEN "panic" ELSE IF pendingExit THEN "exit" ELSE o
  /\ calls' = Below
  /\ depth' = [depth EXCEPT ![Top.thread] = @ - 1]
  /\ total' = total - 1
  /\ UNCHANGED <<status, active, handlers, limits, budget, controlVars>>

\* Mutant of Outcome: the callback's own result wins over a pending exit.
OutcomeIgnoresExit(t, o) == IF Cancelled(t) THEN "context" ELSE o

\* A pending exit outranks the callback's result, and so does a cancellation.
Outcome(t, o) ==
  IF pendingExit THEN "exit" ELSE IF Cancelled(t) THEN "context" ELSE o

\* The callback returns a result, or the failure o: the rest of
\* invokeNativeCall.
NativeReturns(o) ==
  LET t == Top.thread
  IN  /\ ~Idle
      /\ Top.kind \in {"native", "builtin"}
      /\ out # "panic"
      /\ o = out \/ (InNative /\ o = "runtime")
      /\ calls' = Below
      /\ depth' = [depth EXCEPT ![t] = @ - 1]
      /\ total' = total - 1
      /\ out' = Outcome(t, o)
      /\ budget' = IF pendingExit THEN budget ELSE Polled(t)
      /\ failure' = (failure \/ (~pendingExit /\ Cancelled(t)))
      /\ UNCHANGED <<status, active, handlers, limits, ambient, pendingExit>>

Guards(t) == {i \in DOMAIN calls : calls[i].kind = "guard" /\ calls[i].thread = t}

\* Mutant of MayYield: continuations are not looked at.
MayYieldInGuard(t) == t # Main /\ status[t] = "running" /\ depth[t] = 1

\* prepareYield: anything else raises "attempt to yield across
\* metamethod/C-call boundary".
MayYield(t) ==
  /\ t # Main
  /\ status[t] = "running"
  /\ depth[t] = 1
  /\ Guards(t) = {}

\* Mutant of Restore: the resumer keeps the child's limits.
RestoreKeepsLimits(call, left) ==
  /\ status' = [t \in Threads |-> IF t = call.thread THEN left
                                  ELSE IF t = call.previous THEN "running"
                                  ELSE status[t]]
  /\ active' = call.previous
  /\ UNCHANGED limits

\* resumeThread's deferred function: hand the executor back.
Restore(call, left) ==
  /\ status' = [t \in Threads |-> IF t = call.thread THEN left
                                  ELSE IF t = call.previous THEN "running"
                                  ELSE status[t]]
  /\ active' = call.previous
  /\ limits' = call.limits

\* endExecution, when the public call or resume returns.
EndExecution ==
  /\ failure' = FALSE
  /\ pendingExit' = FALSE

\* The callback yields and resumeThread returns to whoever resumed.
Yield ==
  LET t == Top.thread
      resume == calls[Len(calls) - 1]
  IN  /\ InNative
      /\ MayYield(t)
      /\ ~pendingExit /\ ~Cancelled(t)
      /\ Restore(resume, "suspended")
      /\ calls' = SubSeq(calls, 1, Len(calls) - 2)
      /\ depth' = [depth EXCEPT ![t] = @ - 1]
      /\ total' = total - 1
      /\ budget' = Polled(t) \ {t}
      /\ IF resume.previous = Nil THEN EndExecution
                                  ELSE UNCHANGED <<failure, pendingExit>>
      /\ UNCHANGED <<out, handlers, ambient>>

-----------------------------------------------------------------------------
(***************************************************************************)
(* Returning and unwinding.  A Lua function returns (out = "none") or a     *)
(* failure or panic leaves it; the Go function on top restores what it     *)
(* saved.                                                                  *)
(***************************************************************************)

Leaving(kind) == ~Idle /\ Top.kind = kind

\* Mutant of LeaveMain: the budget of the main thread is never taken back.
LeaveMainArmed ==
  /\ Leaving("main") \/ Leaving("compact")
  /\ calls' = Below /\ out' = "none"
  /\ status' = [status EXCEPT ![Main] = "ready"]
  /\ active' = Nil
  /\ depth' = [depth EXCEPT ![Main] = 0]
  /\ handlers' = [handlers EXCEPT ![Main] = 0]
  /\ limits' = "normal"
  /\ EndExecution
  /\ UNCHANGED <<total, ambient, budget>>

\* resetMainCall and the deferred functions of runMainCall and
\* callMainCompactNone; only the former takes the budget back.
LeaveMain ==
  /\ Leaving("main") \/ Leaving("compact")
  /\ calls' = Below /\ out' = "none"
  /\ status' = [status EXCEPT ![Main] = "ready"]
  /\ active' = Nil
  /\ depth' = [depth EXCEPT ![Main] = 0]
  /\ handlers' = [handlers EXCEPT ![Main] = 0]
  /\ limits' = "normal"
  /\ budget' = IF Top.kind = "main" THEN budget \ {Main} ELSE budget
  /\ EndExecution
  /\ UNCHANGED <<total, ambient>>

\* What the resumer sees: coroutine.resume reports an ordinary failure as a
\* result and coroutine.wrap raises it again; host control passes through.
Delivered(call) ==
  IF call.previous = Nil THEN {"none"}
  ELSE IF Catchable(out) THEN {"none", "runtime"} ELSE {out}

\* Mutant of LeaveResume: a panic leaves the caller as it is.
LeaveResumeByPanic ==
  LET call == Top
  IN  /\ Leaving("resume")
      /\ calls' = Below
      /\ out' \in Delivered(call)
      /\ IF out = "panic"
         THEN /\ status' = [status EXCEPT ![call.thread] = "dead"]
              /\ active' = call.previous /\ limits' = call.limits
         ELSE Restore(call, "dead")
      /\ depth' = [depth EXCEPT ![call.thread] = 0]
      /\ handlers' = [handlers EXCEPT ![call.thread] = 0]
      /\ budget' = budget \ {call.thread}
      /\ IF call.previous = Nil THEN EndExecution
                                ELSE UNCHANGED <<failure, pendingExit>>
      /\ UNCHANGED <<total, ambient>>

\* The coroutine returned, failed or panicked: discardCoroutineExecution and
\* resumeThread's deferred function.
LeaveResume ==
  LET call == Top
  IN  /\ Leaving("resume")
      /\ calls' = Below
      /\ out' \in Delivered(call)
      /\ Restore(call, "dead")
      /\ depth' = [depth EXCEPT ![call.thread] = 0]
      /\ handlers' = [handlers EXCEPT ![call.thread] = 0]
      /\ budget' = budget \ {call.thread}
      /\ IF call.previous = Nil THEN EndExecution
                                ELSE UNCHANGED <<failure, pendingExit>>
      /\ UNCHANGED <<total, ambient>>

\* Mutant of LeaveErrorHandler: the handler returned and is left once more.
LeaveErrorHandlerTwice(t) ==
  /\ handlers' = [handlers EXCEPT ![t] = @ - 2]
  /\ limits' = IF handlers[t] = 1 THEN "normal" ELSE limits

\* leaveErrorHandler.
LeaveErrorHandler(t) ==
  /\ handlers' = [handlers EXCEPT ![t] = @ - 1]
  /\ limits' = IF handlers[t] = 1 THEN "normal" ELSE limits

\* runProtectedCall gives its caller a result, or passes host control and
\* panics on; an active handler is left in every case.
LeaveProtected ==
  /\ Leaving("protected")
  /\ ~(Catchable(out) /\ Top.handler = "set")
  /\ calls' = Below
  /\ out' = IF Catchable(out) THEN "none" ELSE out
  /\ IF Top.handler = "active" THEN LeaveErrorHandler(Top.thread)
                               ELSE UNCHANGED <<handlers, limits>>
  /\ UNCHANGED <<status, active, depthVars, budget, controlVars>>

\* An ordinary failure of an xpcall target: its handler runs above the failing
\* frames, with emergency limits.
EnterErrorHandler ==
  LET t == Top.thread
  IN  /\ Leaving("protected")
      /\ Catchable(out) /\ Top.handler = "set"
      /\ calls' = [calls EXCEPT ![Len(calls)].handler = "active"]
      /\ handlers' = [handlers EXCEPT ![t] = @ + 1]
      /\ limits' = IF handlers[t] = 0 THEN "reserve" ELSE limits
      /\ out' = Staged
      /\ UNCHANGED <<status, active, depthVars, budget, controlVars>>

\* A nested call hands its failure, or a panic the callback recovers, to the
\* callback, which may ignore it or return it.
LeaveNested ==
  /\ Leaving("nested")
  /\ calls' = Below
  /\ out' \in {"none", out}
  /\ UNCHANGED <<status, active, depthVars, handlers, limits, budget,
                 controlVars>>

LeaveGuard ==
  /\ Leaving("guard")
  /\ calls' = Below
  /\ UNCHANGED <<status, active, out, depthVars, handlers, limits, budget,
                 controlVars>>

\* Mutant of NativePanics: the runtime's depth is not taken back.
NativePanicsKeepDepth ==
  /\ Leaving("native") \/ Leaving("builtin")
  /\ out = "panic"
  /\ calls' = Below
  /\ depth' = [depth EXCEPT ![Top.thread] = @ - 1]
  /\ UNCHANGED <<status, active, out, total, handlers, limits, budget,
                 controlVars>>

\* A panic from above passes a callback: invokeNativeCall's deferred function.
NativePanics ==
  /\ Leaving("native") \/ Leaving("builtin")
  /\ out = "panic"
  /\ calls' = Below
  /\ depth' = [depth EXCEPT ![Top.thread] = @ - 1]
  /\ total' = total - 1
  /\ UNCHANGED <<status, active, out, handlers, limits, budget, controlVars>>

Leave ==
  \/ LeaveMain \/ LeaveResume \/ LeaveProtected \/ EnterErrorHandler
  \/ LeaveNested \/ LeaveGuard \/ NativePanics

Returns == \E o \in Failures \cup {"none"} : NativeReturns(o)

Next ==
  \/ HostCall \/ HostFinalizer
  \/ \E t \in Coroutines : NewThread(t) \/ HostResume(t) \/ EnterResume(t)
  \/ \E c \in {"none", "live"} : SetContext(c)
  \/ Cancel
  \/ Poll
  \/ \E o \in {"runtime", "limit"} : Raise(o)
  \/ EnterGuard \/ EnterNative
  \/ \E h \in {"none", "set"} : EnterProtected(h)
  \/ NestedCall \/ NativePoll \/ OSExit \/ Yield
  \/ \E o \in {"runtime", "panic"} : CallbackThrows(o)
  \/ Returns
  \/ Leave

Spec == Init /\ [][Next]_vars

\* Failures unwind, a loop polls when its budget is spent, and a callback
\* calls back finitely often and then returns.  Lua code itself need not end.
Fairness ==
  /\ WF_vars(Leave /\ out # "none")
  /\ WF_vars(Poll)
  /\ SF_vars(Returns)

FairSpec == Spec /\ Fairness

-----------------------------------------------------------------------------
(***************************************************************************)
(* Properties.                                                             *)
(***************************************************************************)

Chain == {i \in DOMAIN calls : calls[i].kind \in {"main", "compact", "resume"}}

\* However calls, resumes, yields, failures and panics follow each other,
\* state.active is the thread on top of the Go stack, it alone is running, the
\* threads below it are exactly the normal ones, and each waits for the one
\* it resumed.
ActiveChain ==
  /\ Idle <=> active = Nil
  /\ ~Idle => active = Top.thread
  /\ \A t \in Threads :
       /\ status[t] = "running" <=> t = active
       /\ status[t] = "normal" <=>
            t # active /\ (\E i \in Chain : calls[i].thread = t)
  /\ \A i, j \in Chain : calls[i].thread = calls[j].thread => i = j

Natives(t) == {i \in DOMAIN calls : calls[i].kind \in {"native", "builtin"}
                                    /\ calls[i].thread = t}

\* The native depths of each thread and of the runtime count the callbacks
\* really on the stack, so executionCheckpoint.restore never panics ("invalid
\* nested execution checkpoint") and Close never reports a State that no
\* longer runs as running.
DepthsBalanced ==
  /\ \A t \in Threads : depth[t] = Cardinality(Natives(t))
  /\ total = Cardinality(UNION {Natives(t) : t \in Threads})

ActiveHandlers(t) == {i \in DOMAIN calls : calls[i].handler = "active"
                                           /\ calls[i].thread = t}

\* The emergency limits are in force exactly while the active thread runs an
\* error handler: a coroutine resumed by a handler does not inherit them, and
\* its end, even by panic, gives them back.
LimitsFollowHandler ==
  /\ \A t \in Threads : handlers[t] = Cardinality(ActiveHandlers(t))
  /\ limits = "reserve" <=> active # Nil /\ handlers[active] > 0

\* A suspended or dead coroutine retains no execution state and is on no
\* stack: resumeThread's panic "invalid suspended coroutine state" and
\* resumeExternal's "idle coroutine state retains execution context" are
\* unreachable.
SuspendedRetainsNothing ==
  \A t \in Coroutines : status[t] \in {"none", "suspended", "dead"} =>
    /\ depth[t] = 0 /\ handlers[t] = 0
    /\ t \notin budget
    /\ \A i \in DOMAIN calls : calls[i].thread # t

\* An idle State is ready for the next call: prepareReadyMainThread's panic
\* "ready main thread retains execution state" is unreachable.
IdleRetainsNothing == Idle => ReadyMain

\* Once os.exit was requested, no callback, pcall, coroutine or finalizer can
\* turn it into something else: the public call ends with the exit request,
\* unless Go code panics.
ExitReachesHost ==
  [][(~Idle /\ calls' = <<>> /\ pendingExit) => out \in {"exit", "panic"}]_vars

\* The installed context guards whatever the host lets run, in every thread:
\* "Cancellation stops execution ... so Lua pcall cannot catch it and a script
\* cannot outlast it".
CancellationStops ==
  (~Idle /\ ambient = "cancelled") ~> (Idle \/ ambient # "cancelled")
=============================================================================
