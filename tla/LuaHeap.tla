------------------------------- MODULE LuaHeap -------------------------------
(***************************************************************************)
(* The object graph of one Lunar State and what Lua code and the Go host   *)
(* may do to it while no collection is in progress.                        *)
(*                                                                         *)
(* An object is a table, function, thread or full userdata.  Strings,      *)
(* numbers and booleans are never collected, so they appear only as the    *)
(* scalar keys and values of a table.  A function's environment, upvalues  *)
(* and captures, a thread's live stack and globals, a table's metatable    *)
(* and a userdata's metatable and environment are one set refs[o]; table   *)
(* contents are kept apart because weakness applies to them alone.         *)
(***************************************************************************)
EXTENDS Naturals, FiniteSets, Sequences

CONSTANTS
  Tables, Functions, Threads, UserData,   (* object identities              *)
  Main,                                   (* the main thread                *)
  Index,      (* the implicit number key of a slot of a table's array part  *)
  Text,       (* a string, number or boolean as record key or as value      *)
  MaxEntries  (* bound: live entries of one table                           *)

Objects == Tables \cup Functions \cup Threads \cup UserData

ASSUME HeapAssumption ==
  /\ Main \in Threads
  /\ Tables \cap UserData = {}
  /\ (Tables \cup UserData) \cap (Functions \cup Threads) = {}
  /\ Index \notin Objects /\ Text \notin Objects /\ Index # Text
  /\ IsFiniteSet(UserData)
  /\ MaxEntries \in Nat

VARIABLES
  fresh,    (* identities not constructed yet                               *)
  live,     (* objects registered in the State's object ledger              *)
  udata,    (* creation order of userdata; ledger.userData is its live part *)
  refs,     (* strong references of each object outside table contents      *)
  entries,  (* the live entries <<key, value>> of each table                *)
  mode,     (* what the metatable's __mode weakens: a subset of {"k", "v"}  *)
  hasGC,    (* userdata whose metatable holds a raw __gc value              *)
  tokens,   (* objects with a host token the Go program can still reach     *)
  frames    (* registers of each active finalizer call, innermost last      *)

heapVars == <<fresh, live, udata, refs, entries, mode, hasGC, tokens, frames>>

Keys   == Objects \cup {Index, Text}
Values == Objects \cup {Text}
Modes  == SUBSET {"k", "v"}

\* Metatables and environments are tables; stacks, upvalues and captures hold
\* any value.  References to the main thread are left out: it is always a root.
Targets(o) == IF o \in Tables \cup UserData THEN Tables ELSE Objects \ {Main}

HeapTypeOK ==
  /\ fresh \subseteq Objects
  /\ live \subseteq Objects
  /\ udata \in Seq(UserData)
  /\ refs \in [Objects -> SUBSET Objects]
  /\ entries \in [Tables -> SUBSET (Keys \X Values)]
  /\ mode \in [Tables -> Modes]
  /\ hasGC \subseteq UserData
  /\ tokens \subseteq Objects
  /\ frames \in Seq(SUBSET Objects)

HeapInit ==
  /\ fresh = Objects \ {Main}
  /\ live = {Main}
  /\ udata = <<>>
  /\ refs = [o \in Objects |-> {}]
  /\ entries = [t \in Tables |-> {}]
  /\ mode = [t \in Tables |-> {}]
  /\ hasGC = {}
  /\ tokens = {}
  /\ frames = <<>>

-----------------------------------------------------------------------------
(***************************************************************************)
(* What running code can name.                                             *)
(***************************************************************************)

Registers == UNION {frames[i] : i \in DOMAIN frames}

\* Objects an executing function, or the host through its owning handles, can
\* name without reading the heap first.
Held ==
  refs[Main] \cup tokens
    \cup (IF frames = <<>> THEN {} ELSE frames[Len(frames)])

Stored(t) == {e[1] : e \in entries[t]} \cup {e[2] : e \in entries[t]}

\* Every object an object can yield when it is read: weak entries included.
Contents(o) == refs[o] \cup (IF o \in Tables THEN Stored(o) \cap Objects ELSE {})

\* What the mark phase follows: traceTable, traceFunction, traceThread and
\* traceUserData.
Traced(o) ==
  refs[o] \cup
    (IF o \notin Tables THEN {}
     ELSE {x \in Objects : \E e \in entries[o] :
             \/ x = e[1] /\ "k" \notin mode[o]
             \/ x = e[2] /\ "v" \notin mode[o]})

-----------------------------------------------------------------------------
(***************************************************************************)
(* Lua code and raw host operations.                                       *)
(***************************************************************************)

\* A value enters a register of the executing function (or the main thread's
\* stack and globals when no finalizer runs).
Bind(x) ==
  IF frames = <<>>
  THEN /\ refs' = [refs EXCEPT ![Main] = @ \cup {x}]
       /\ UNCHANGED frames
  ELSE /\ frames' = [frames EXCEPT ![Len(frames)] = @ \cup {x}]
       /\ UNCHANGED refs

\* registerTable, registerFunction, registerThread and registerUserData.
New(o) ==
  /\ o \in fresh
  /\ fresh' = fresh \ {o}
  /\ live' = live \cup {o}
  /\ udata' = IF o \in UserData THEN Append(udata, o) ELSE udata
  /\ Bind(o)
  /\ UNCHANGED <<entries, mode, hasGC, tokens>>

\* Read a field, upvalue or element; weak entries can be read until cleared.
Load(y, x) ==
  /\ y \in Held
  /\ x \in Contents(y)
  /\ x \notin Held
  /\ Bind(x)
  /\ UNCHANGED <<fresh, live, udata, entries, mode, hasGC, tokens>>

\* Overwrite a register, global, upvalue, metatable or environment.
Drop(y, x) ==
  /\ \/ /\ y \in Held \cup {Main}
        /\ x \in refs[y]
        /\ refs' = [refs EXCEPT ![y] = @ \ {x}]
        /\ UNCHANGED frames
     \/ /\ y = Main
        /\ frames # <<>>
        /\ x \in frames[Len(frames)]
        /\ frames' = [frames EXCEPT ![Len(frames)] = @ \ {x}]
        /\ UNCHANGED refs
  /\ UNCHANGED <<fresh, live, udata, entries, mode, hasGC, tokens>>

\* Capture a value, replace an environment, or install a metatable: a table
\* has only that one reference, so installing replaces it.
Store(y, x) ==
  /\ y \in Held \cup {Main}
  /\ x \in Held \cap Targets(y)
  /\ x \notin refs[y]
  /\ refs' = [refs EXCEPT ![y] = IF y \in Tables THEN {x} ELSE @ \cup {x}]
  /\ UNCHANGED <<fresh, live, udata, entries, mode, hasGC, tokens, frames>>

\* Table assignment.  A record key names one entry; array slots and scalar
\* keys stand for any number of them.
SetEntry(t, k, v) ==
  LET kept == IF k \in Objects THEN {e \in entries[t] : e[1] # k} ELSE entries[t]
  IN  /\ t \in Held \cap Tables
      /\ k \in Held \cup {Index, Text}
      /\ v \in Held \cup {Text}
      /\ k \in Objects \/ v \in Objects
      /\ <<k, v>> \notin entries[t]
      /\ Cardinality(kept) < MaxEntries
      /\ entries' = [entries EXCEPT ![t] = kept \cup {<<k, v>>}]
      /\ UNCHANGED <<fresh, live, udata, refs, mode, hasGC, tokens, frames>>

ClearEntry(t, e) ==
  /\ t \in Held \cap Tables
  /\ e \in entries[t]
  /\ entries' = [entries EXCEPT ![t] = @ \ {e}]
  /\ UNCHANGED <<fresh, live, udata, refs, mode, hasGC, tokens, frames>>

\* setmetatable, or assignment to __mode or __gc in an installed metatable.
SetMode(t, m) ==
  /\ t \in Held
  /\ m # mode[t]
  /\ mode' = [mode EXCEPT ![t] = m]
  /\ UNCHANGED <<fresh, live, udata, refs, entries, hasGC, tokens, frames>>

SetGC(u, present) ==
  /\ u \in Held
  /\ present # (u \in hasGC)
  /\ hasGC' = IF present THEN hasGC \cup {u} ELSE hasGC \ {u}
  /\ UNCHANGED <<fresh, live, udata, refs, entries, mode, tokens, frames>>

\* owningToken: an object crosses into Go.
Publish(o) ==
  /\ o \in Held
  /\ o \notin tokens
  /\ tokens' = tokens \cup {o}
  /\ UNCHANGED <<fresh, live, udata, refs, entries, mode, hasGC, frames>>

\* The Go program lets go of a handle and Go's collector clears the weak
\* pointer to its token.  This happens on Go's schedule, at any step.
ForgetToken(o) ==
  /\ o \in tokens
  /\ tokens' = tokens \ {o}
  /\ UNCHANGED <<fresh, live, udata, refs, entries, mode, hasGC, frames>>

Mutate ==
  \/ \E y \in Objects, x \in Objects : Load(y, x) \/ Drop(y, x) \/ Store(y, x)
  \/ \E t \in Tables, k \in Keys, v \in Values : SetEntry(t, k, v)
  \/ \E t \in Tables, k \in Keys, v \in Values : ClearEntry(t, <<k, v>>)
  \/ \E t \in Tables, m \in Modes : SetMode(t, m)
  \/ \E u \in UserData, b \in BOOLEAN : SetGC(u, b)
  \/ \E o \in Objects : Publish(o)
=============================================================================
