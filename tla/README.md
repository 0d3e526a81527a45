# A TLA+ model of Lunar

Lunar is a Lua 5.1 virtual machine written in Go. A `State` owns a Lua heap, a
set of coroutines and the libraries; a Go host calls into it, is called back by
it, and holds *handles* to its objects. One goroutine drives a State at a time,
but Go's own garbage collector, a context that another goroutine cancels, and
the many ways in which Lua, Go callbacks, coroutines, finalizers and panics nest
inside one another make the core hard to test. This directory models that core,
checks it with TLC on small instances and proves its main invariants with TLAPS
for every instance.

All paths below are relative to the repository root.

## 1. Inventory

| Component | State it keeps | Operations | Interaction | What makes it correct |
|---|---|---|---|---|
| Object ledger and semantic collector (`collection.go`, `collection_finalizer.go`, `state.go`) | registered tables, functions, threads, userdata; mark bits and work lists; the finalizer queue | register, mark, trace, separate finalizers, clear weak tables, sweep, run finalizers, close | reads host tokens as roots; calls Lua finalizers, which allocate, collect and fail | removes exactly what is unreachable; each finalizer once, in order; Close completes |
| Collection scheduling (`collection_control.go`) | debt, budget, baseline, heap limit, stop/request/servicing flags, the cached `runnable` | charge, stop, restart, reset, restore, safe point | charged by every allocation, read by every safe point | the cache is fresh; debt and limit always lead to a cycle, and nothing else does |
| Host-token directory (`ownership.go`) | weak index object → token, scan order, cursor | publish, maintain, prune | the collector's host roots; Go clears both sides at any time | one token per object; dead entries leave |
| Execution control (`call_api.go`, `call_native.go`, `coroutine.go`, `context.go`, `protected.go`, `native.go`, `native_frame.go`) | active thread, thread statuses, native depths, handler depths, limits, polling budgets, ambient context, pending exit | call, resume, yield, protected call, native call, nested call, error handler, poll, exit, unwind | everything runs under it | every exit, also by panic, restores what its caller relies on; cancellation and exit cannot be swallowed |
| Call frames, upvalues, checkpoints (`call_frames.go`, `execute*.go`) | value stack, frame stack, open upvalues | push, return, tail call, close upvalues, capture/restore | used by every entry of execution control | frames and upvalues agree with the stack after any unwind |
| Tables (`table.go`, `table_store.go`, `table_storage.go`, `execute_table.go`, `library_table.go`) | array part, chained record nodes with dead keys, integer summary, cache of absent metamethods | get, set, delete, revive, compact, grow, redistribute, insert, length, next | traced and cleared by the collector | a table is a finite map wherever its fields live; `next` visits each surviving entry once; no consistency panic |
| Streams, processes, native resources (`stream.go`, `io_*.go`, `process.go`, `resource.go`) | buffers, pushback, close state, resource registry | read, write, flush, seek, close, finalize | closed by finalizers and Close | closed once, every failure reported once |
| Loading (`load*.go`, `script_loader.go`, `library_package.go`) | reader state, `package.loaded` | load, require | calls back into Lua | require runs a loader once |
| Front end (`lexer*.go`, `parser.go`, `compiler*.go`) and bytecode (`verify.go`, `chunk.go`) | one pass each | scan, parse, emit, resolve, verify, dump | produce prototypes | verified code cannot corrupt the stack |
| Strings, numbers, patterns, libraries | string pool | intern, format, match | | mostly pure functions |

The behaviours that are hard here: Go clearing weak pointers in the middle of a
cycle; finalizer loops nested in one another; flags and depths that a deferred
function restores after an error, an exit or a panic; cached decisions; a limit
compared with an estimate; cancellation from another goroutine. `PROJECT.json`
lists them under `hazards`, each at its line.

## 2. Modules

* `LuaHeap` — the object graph and what Lua code and the host do to it between
  collections. `refs[o]` stands for every strong reference outside table
  contents (stack, globals, upvalues, captures, environment, metatable);
  `entries[t]` for table contents, because weakness applies to them alone.
* `Collector` extends it with the mark/sweep cycle (`step` says where
  `collectUnreachable` stands, one action per phase and one `Trace` per work-list
  pop), the finalizer queue with consumed slots and head, the stack `loops` of
  active `runPendingFinalizers` calls, the flags, and Close. Go's collector
  retires host tokens (`GoForgets`) at every step; Lua code runs only between
  cycles, because one goroutine drives a State.
* `Reachability` — what collection promises, without marks, lists or flags:
  the least closed set is kept, everything else goes. `MCCollector` states the
  refinement mapping (`Promise`).
* `CollectionControl` — the scheduling policy alone, with real arithmetic: debts
  and budgets saturate, sums and products wrap in a machine word, and `TypeOK`
  compares the budget with exact arithmetic. A cycle and
  a finalizer are one step each here, with `heap` and `dead` bytes in place of
  the object graph. `Collector` has the same flags with the arithmetic left
  open; the two modules split the component between them.
* `HostDirectory` — the weak index behind handles.
* `Execution` — the Go call stack of one State as a sequence of records (a host
  call, a resume, a native callback, a protected call, a nested call, a guard),
  each with what its deferred function will restore; `out` is what is being
  unwound. Value stacks and frames are abstracted away.
* `TableStore` — the record part of a table as operators on a store value:
  collision chains, the downward cursor, dead nodes and their reclamation,
  compaction and rehashing. Where the source would panic, `broken` becomes TRUE.
* `LuaTable` extends it with the array part, the policy that places a field in
  one part or the other, the density rule with its shortcuts, length, SETLIST,
  `table.insert`, the cache of absent metamethods and the collector's clearing.
  `contents` is the finite map that a program believes it has; the invariants
  relate it to what both parts hold.
* `TableTraversal` — a program that steps `next` while it changes the table.
  `visited` is the sequence of the keys it was given, kept apart from the key it
  passes, so that a `next` that returns its own argument is seen.
* `MC*` modules and their `.cfg` files instantiate these for TLC.
* `CollectorProofs`, `CollectionControlProofs` and `HostDirectoryProofs` hold the
  proofs.

Definitions keep the source's names where there is one. A definition whose
comment begins with "Mutant of" is a plausible bug in the definition after it.
`PROJECT.json` maps every definition to its lines.

## 3. Runs

| Run | Instance | What it shows |
|---|---|---|
| `collector_weak` | 1 table of any mode, 1 userdata, main thread, 2 nested explicit cycles | exact reachability (refinement), weak clearing, resurrection, no dangling reference |
| `collector_host` | before Close: 1 closure, 1 userdata, host tokens; in Close: up to 3 userdata; fairness | exact reachability while Go retires tokens mid-cycle; Close completes and starts every queued finalizer once |
| `collector_queue` | 3 userdata, automatic and nested explicit cycles, heap limit, stop/restart, failing handlers, Close | each finalizer once, order, servicing flag |
| `control` | limit 9 or none, minimum debt 4, pauses 100/200/400, 2 nested loops, fairness | cached flag, scheduling of debt and limit, no needless cycle; a requested cycle is serviced |
| `directory` | 5 objects | canonical tokens, index and scan order agree, dead entries leave within two passes |
| `table_records` | 3 names, 2 objects, two main positions of four | chains, counters, cursor, revival, compaction and weak clearing; reads agree with the map |
| `table_lanes` | a program on integers 1–4 and 9 and 1 name, one on integers −3 to 2 with lists | fields move between the parts: one part each, density shortcuts exact, length is a border; SETLIST and `table.insert`, dense and sparse, give the element-wise result |
| `table_traversal` | 2 integers, 1 name, 1 object, all colliding | `next` between deletions, updates and collections: never fails, skips no surviving field, repeats no key |
| `execution_stack` | 2 coroutines, 8 nested Go calls, native limit 3 | statuses, depths, limits and retained state after any unwind; exit reaches the host |
| `execution_cancel` | 2 coroutines, 7 calls, fairness | a cancelled context stops the script; an idle State retains nothing |
| `execution_collect`, `execution_outlast` | expected violations | the two findings below |

**Bounds.** `collector_weak`, and `collector_host` before Close, use one object per
role because the marking rules are per reference; two cycles are needed for a
finalized userdata to be resurrected and met again. Close in `collector_host`
starts with one to three userdata, some or all of them still to be created by
handlers: a nested collection then meets older work that the outer loop has not
reached, queues newer work behind it, and may fail with part of either left. Three userdata are the fewest for which a
nested collection can queue work behind a partly consumed outer batch. Eight Go
calls fit a host call, a protected call with its handler, a resume, a callback
and a nested call in one stack. In `control` the sizes lie below, at and
above the minimum debt, and the word is small enough for a budget to saturate.
Five directory entries allow a pass to start over a tail that grew during the
previous one, with removals in both. A table instance names the programs that
may use the table, each with its keys, values, lists and size hints. Their hashes
make keys collide, also with displaced ones; only the integers up to zero, which
are there for the shift, are spread. Limits of the code are constants:
`table_records` uses the real initial capacities of 4, the other runs smaller
ones so that a handful of fields crosses them (an initial array of 3 is the
least at which growth can cover an integer that a redistribution moved to the
records, and with four integers a larger array is still reached directly); the
largest array has 2^3 slots instead of 2^26, so that 9 lies above it, and the
sparse shift of `table.insert` starts at 2 elements instead of 4096. Integer
keys that an instance does not list are never stored and read as nil. A hash is
a function of its key; minus zero, NaN and the saturation of the length at the
largest integer are left out. The action constraints of `MCCollector`
(`ExplicitOnly`, `NoHost`, `NoReferences`, `HostOrClose`, `InTurn`) each leave out
one side of the State in one run and are absent in another: `HostOrClose` gives a
State either a host that creates handles or a Close with more than one userdata,
and `InTurn` creates userdata in a fixed order, in place of a symmetry that would
be unsound under liveness. `CHECK_DEADLOCK FALSE` is given where a
State may simply be closed, or objects are used up.

**Fairness.** `Collector`: the collector's own code runs on, and a finalizer that
was called ends. `CloseCompletes` rests on that and on the finite set of userdata:
handlers that create userdata without end would keep Close running, in the code
as in the model. `CollectionControl`: executing code keeps reaching safe points
(every call, return and backward jump is one) and finalizer loops end.
`Execution`: unwinding proceeds, a loop polls when its budget is spent, and a
callback eventually returns; Lua code itself need not terminate, which is the
point of cancellation.

## 4. Proofs

`CollectionControlProofs` — for every word size, minimum debt, heap limit, set of
sizes and pauses (assumption: the retained heap fits the word):

* `Scheduling`: `Spec => [](TypeOK /\ RunnableFresh /\ DebtScheduled)`;
* `HeapLimitBounds`: `Spec => []RetentionBounded`;
* `CyclesAreEarned`: `Spec => NoThrash`.

The inductive invariant adds `EstimateExact` (the heap is baseline plus debt, and
a charge that requested nothing left it below both thresholds: the code compares
the estimate, the property speaks of the heap) and `RequestEarned` (what a
request stands for; a safe point reads the cached flag, so `NoThrash` needs it
together with `RunnableFresh`). `BudgetInRange` shows that the overflow test of
`automaticCollectionBudget` suffices: a budget is the largest word or what the
pause grants in exact arithmetic (`BudgetGranted`). The saturation of the debt,
which a heap that fits the word never reaches, and that of an xpcall handler's
limit are modelled, and no property depends on them.

`CollectorProofs` — for every set of objects and any number of cycles:

* `TypesAndQueue`: types and the shape of the finalizer queue (`QueueValid`);
* `ServicingFlag`: `Spec => []ServicingTracksLoops`, from
  `LoopsRestoreServicing`: only the outermost loop lowers the flag;
* `MemorySafety`: `Spec => []NoDangling`. `NoDangling` is not inductive, since a
  sweep is safe only because marking was complete. `HeapInvariant` adds
  `UnregisteredEmpty` and `MarkingInvariant`: a marked object that is not on a
  work list has been traced, weak tables met are recorded, tokens and then the
  queue are marked, and before the sweep survivors refer only to survivors. It
  holds although tokens disappear at any step, because marks are never taken
  back.

`HostDirectoryProofs` — for any number of objects:

* `TokensCanonical`: `Spec => []Canonical`. The invariant adds `HeldAlive`: a
  token keeps its object's header alive, so that the one-step scan and pruning
  drop only entries whose token is gone.

**Only model-checked:** liveness (`CloseCompletes`, `RequestServiced`,
`CancellationStops`), since the prover does not reason about fairness;
the refinement to `Reachability`, whose least fixed point needs induction over
data; the index and the maintenance scan of `HostDirectory`;
everything about `Execution` and the tables so far. **Only proved:** `QueueValid`
and `EstimateExact`, which the proofs carry as parts of their invariants.

## 5. Findings

* `execution_collect` — `callMainCompactNone` does not take back the main
  thread's polling budget, as `runMainCall` does. A finalizer that State.Collect
  runs under an installed context can leave it armed, and the next call panics
  "ready main thread retains execution state".
* `execution_outlast` — a context installed by a callback inside a coroutine arms
  only that coroutine. The thread that resumed it runs on unguarded, although
  the documentation of `SetContext` says that it applies to every thread.

## 6. Not modelled, and the plan

`PROJECT.json` lists each part with its reason. In order:

1. call frames, open upvalues and checkpoints (`Frames`), below `Execution`;
2. `__index` and `__newindex` chains over several tables, `table.remove` and
   `table.sort`;
3. native resources and streams (`Resources`, `Stream`): close once, buffered
   reads and writes against an abstract byte sequence;
4. `require`, `load_reader`, the string pool;
5. goto resolution and the verifier's control-flow rules;
6. proofs about the index of `HostDirectory`, `Execution` (`DepthsBalanced`,
   `ActiveChain`), the counters and chains of `TableStore` and the modules
   above; a composition of
   `Collector` with `CollectionControl`.

Lexing, number formatting, floating-point arithmetic and the text of messages
stay outside: they are pure functions that ordinary tests cover well.
