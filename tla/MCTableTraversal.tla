-------------------------- MODULE MCTableTraversal --------------------------
(***************************************************************************)
(* An instance of TableTraversal for TLC: four colliding keys, of which    *)
(* one integer fits the array at once and one is an object.                *)
(***************************************************************************)
EXTENDS TableTraversal

CONSTANTS a, r, w     \* a name, an object and the value

TraversedInts == {1, 3}
TraversedHash == [k \in TraversedInts \cup {a, r} |-> 1]
TraversedPrograms ==
  {[offer |-> [k \in TraversedInts \cup {a, r} |-> {w}], lists |-> {},
    arrayHint |-> 0, recordHint |-> 0]}
=============================================================================
