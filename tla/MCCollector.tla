----------------------------- MODULE MCCollector -----------------------------
(***************************************************************************)
(* Instances of Collector for TLC, and the refinement mapping under which  *)
(* it implements Reachability.                                             *)
(***************************************************************************)
EXTENDS Collector, TLC

Stage ==
  CASE step \in {"run", "roots", "hosts", "settle"} -> "run"
    [] step = "drain" -> "begun"
    [] step \in {"pending", "drain2"} -> "found"
    [] step = "sweep" -> "cleared"

Promise == INSTANCE Reachability
  WITH stage <- Stage, roots <- pinned, pending <- Pending,
       kept <- IF step = "sweep" THEN mark ELSE {}

\* The work-list collector removes exactly the unreachable objects, clears
\* exactly the dead weak entries and queues exactly the dead finalizable
\* userdata: every behaviour of collectUnreachable and the finalizer loops is
\* one of Reachability.
ImplementsReachability == Promise!Spec

(***************************************************************************)
(* Action constraints: each run leaves out one side of the State so that   *)
(* another can be explored in full.                                        *)
(***************************************************************************)

\* Explicit collections only: nothing stops, requests or limits automatic
\* ones.
ExplicitOnly == ~stopped' /\ ~requested'

\* No object is published to the host.
NoHost == tokens' = {}

\* A handler keeps to its own argument: nothing is stored or read back.
NoReferences == \A o \in Objects \ {Main} : refs'[o] = {}

\* Userdata are interchangeable: each is constructed in its turn.
InTurn == udata' = SubSeq(SetToSeq(UserData), 1, Len(udata'))

\* Either at most one userdata is constructed, beside functions that may be
\* published, or any number in a State that publishes nothing, has no functions
\* and collects only in the handlers that Close runs.
HostOrClose ==
  \/ Len(udata') <= 1
  \/ /\ tokens' = {} /\ Functions \subseteq fresh' /\ ExplicitOnly
     /\ status' = "open" => ~running' /\ cycles' = 0

Symmetry == Permutations(Tables) \cup Permutations(UserData)
=============================================================================
