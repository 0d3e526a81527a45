----------------------------- MODULE MCLuaTable -----------------------------
(***************************************************************************)
(* Instances of LuaTable for TLC.                                          *)
(***************************************************************************)
EXTENDS LuaTable

CONSTANTS a, b, c, r, q, u, w     \* keys and values of the instances

\* Records only: five keys in two main positions of four.
RecordHash == a :> 1 @@ b :> 1 @@ c :> 5 @@ r :> 2 @@ q :> 6
RecordPrograms ==
  {[offer |-> [k \in {a, b, c, r, q} |-> {w}], lists |-> {},
    arrayHint |-> 0, recordHint |-> 0]}

\* Both parts: integers that collide with each other and with a name.
LaneInts == {1, 2, 3, 4, 9}
LaneProgram ==
  [offer |-> [k \in LaneInts \cup {a} |-> IF k = a THEN {w} ELSE {u}],
   lists |-> {}, arrayHint |-> 4, recordHint |-> 0]

\* Bulk writes: a range of integers through zero, most of which only a shift
\* fills, and short lists with a hole.
ShiftInts == (-3)..2
ShiftProgram ==
  [offer |-> [k \in ShiftInts |-> IF k \in {-3, 0, 1} THEN {u} ELSE {}],
   lists |-> {<<u, Nil>>, <<Nil, u>>}, arrayHint |-> 0, recordHint |-> 0]

BothInts == LaneInts \cup ShiftInts
BothHash ==
  [k \in BothInts \cup {a} |->
     CASE k = 4 -> 2 [] k \in (-3)..0 -> 2 - k [] OTHER -> 1]
BothPrograms == {LaneProgram, ShiftProgram}
=============================================================================
