---------------------------- MODULE Reachability ----------------------------
(***************************************************************************)
(* What semantic collection promises, with no work lists, marks or flags:  *)
(* a collection fixes the host roots it sees, finds the dead userdata,     *)
(* clears weak entries and removes exactly the objects that are not        *)
(* reachable.  Reachable means reachable through strong references; a      *)
(* pending finalizer keeps its userdata and that userdata's graph alive.   *)
(***************************************************************************)
EXTENDS LuaHeap, SequencesExt

VARIABLES
  stage,      (* "run", or how far a collection has come                    *)
  roots,      (* the host roots of the collection in progress               *)
  finalized,  (* userdata considered for finalization                       *)
  kept,       (* what the collection in progress spares, once it is known   *)
  pending     (* queue of userdata whose finalizer has not been taken       *)

vars == <<heapVars, stage, roots, kept, finalized, pending>>

Init ==
  /\ HeapInit
  /\ stage = "run" /\ roots = {} /\ kept = {} /\ finalized = {} /\ pending = <<>>

\* The least set that contains from and is closed under strong references.
Reachable(from) ==
  LET Within[n \in 0 .. Cardinality(Objects)] ==
        IF n = 0 THEN from
        ELSE Within[n - 1] \cup UNION {Traced(o) : o \in Within[n - 1]}
  IN  Within[Cardinality(Objects)]

StateRoots == {Main} \cup Registers

Run ==
  /\ stage = "run"
  /\ (\E o \in Objects : New(o)) \/ Mutate
  /\ UNCHANGED <<stage, roots, kept, finalized, pending>>

Forget ==
  /\ \E o \in Objects : ForgetToken(o)
  /\ UNCHANGED <<stage, roots, kept, finalized, pending>>

Begin ==
  /\ stage = "run"
  /\ stage' = "begun"
  /\ roots' = tokens
  /\ UNCHANGED <<heapVars, kept, finalized, pending>>

\* Every considered userdata is finalized for good; those with a handler are
\* appended, newest first.
Enqueue(considered) ==
  LET found == considered \ finalized
      queued == found \cap hasGC
  IN  \E batch \in [1 .. Cardinality(queued) -> queued] :
        /\ \A i, j \in DOMAIN batch : i < j =>
             \E a, b \in DOMAIN udata :
               a > b /\ udata[a] = batch[i] /\ udata[b] = batch[j]
        /\ finalized' = finalized \cup found
        /\ pending' = pending \o batch

FindDead ==
  /\ stage = "begun"
  /\ stage' = "found"
  /\ Enqueue((live \cap UserData) \ Reachable(StateRoots \cup roots))
  /\ UNCHANGED <<heapVars, roots, kept>>

\* What survives is decided before dead objects, and finalized userdata as
\* values, leave the weak tables: a strong value whose entry goes because of
\* it survives this collection.
ClearWeak ==
  LET Kept == Reachable(StateRoots \cup roots \cup ToSet(pending))
      Gone(x) == x \in Objects \ Kept
      GoneValue(x) == Gone(x) \/ x \in finalized
      Keep(t, e) == IF e[1] = Index
                    THEN "v" \in mode[t] => ~GoneValue(e[2])
                    ELSE ~Gone(e[1]) /\ ~GoneValue(e[2])
  IN  /\ stage = "found"
      /\ stage' = "cleared"
      /\ kept' = Kept
      /\ entries' = [t \in Tables |->
           IF t \in Kept /\ mode[t] # {}
           THEN {e \in entries[t] : Keep(t, e)} ELSE entries[t]]
      /\ UNCHANGED <<fresh, live, udata, refs, mode, hasGC, tokens, frames,
                     roots, finalized, pending>>

Reclaim ==
  /\ stage = "cleared"
  /\ stage' = "run"
  /\ roots' = {} /\ kept' = {}
  /\ live' = live \cap kept
  /\ refs' = [o \in Objects |-> IF o \in live \cap kept THEN refs[o] ELSE {}]
  /\ entries' = [t \in Tables |-> IF t \in live \cap kept THEN entries[t] ELSE {}]
  /\ mode' = [t \in Tables |-> IF t \in live \cap kept THEN mode[t] ELSE {}]
  /\ hasGC' = hasGC \cap kept
  /\ UNCHANGED <<fresh, udata, tokens, frames, finalized, pending>>

\* A finalizer is taken; its handler runs on it unless it has disappeared.
Take ==
  /\ stage = "run"
  /\ pending # <<>>
  /\ pending' = Tail(pending)
  /\ frames' = IF Head(pending) \in hasGC THEN Append(frames, {Head(pending)})
                                          ELSE frames
  /\ UNCHANGED <<fresh, live, udata, refs, entries, mode, hasGC, tokens,
                 stage, roots, kept, finalized>>

HandlerEnds ==
  /\ stage = "run"
  /\ frames # <<>>
  /\ frames' = Front(frames)
  /\ UNCHANGED <<fresh, live, udata, refs, entries, mode, hasGC, tokens,
                 stage, roots, kept, finalized, pending>>

\* Closing considers every userdata, reachable or not.
Close ==
  /\ stage = "run"
  /\ Enqueue(live \cap UserData)
  /\ UNCHANGED <<heapVars, stage, roots, kept>>

\* Execution storage is released once nothing is pending; all else stays.
Detach ==
  /\ stage = "run"
  /\ pending = <<>> /\ frames = <<>>
  /\ refs' = [o \in Objects |-> IF o \in Threads THEN {} ELSE refs[o]]
  /\ UNCHANGED <<fresh, live, udata, entries, mode, hasGC, tokens, frames,
                 stage, roots, kept, finalized, pending>>

Next ==
  \/ Run \/ Forget \/ Begin \/ FindDead \/ ClearWeak \/ Reclaim
  \/ Take \/ HandlerEnds \/ Close \/ Detach

Spec == Init /\ [][Next]_vars
=============================================================================
