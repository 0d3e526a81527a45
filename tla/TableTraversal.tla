--------------------------- MODULE TableTraversal ---------------------------
(***************************************************************************)
(* A traversal of a table with next (table.go): the program passes the     *)
(* last key back and receives the one after it, while it goes on assigning *)
(* to existing fields, deleting fields and collecting.  Adding a field     *)
(* voids the traversal, as in Lua.                                         *)
(***************************************************************************)
EXTENDS LuaTable

CONSTANTS Off, End, Invalid     \* no traversal, the last answer, the error

VARIABLES
  cursor,    \* the key that the program passes next, Nil at the start
  visited,   \* the keys returned so far, in order
  due        \* the fields there at the start and never deleted since

traversalVars == <<program, table, contents, absent, gone, cursor, visited, due>>

LiveKeys == {k \in Keys : contents[k] # Nil}

\* The first field after an array index and a record position.
FirstAfter(t, index, position) ==
  LET array == {i \in (index + 1)..Len(t.array) : t.array[i] # Nil}
      records == {i \in (position + 1)..Capacity(t.store) :
                    IsLive(t.store.entries[i])}
  IN CASE array # {} -> Min(array)
       [] array = {} /\ records # {} -> t.store.entries[Min(records)].key
       [] OTHER -> End

\* Mutant of Following: it looks for the previous key among the live fields only.
FollowingLive(t, previous) ==
  LET After(position) == IF position = 0 THEN Invalid
                         ELSE FirstAfter(t, Len(t.array), position)
  IN CASE previous = Nil -> FirstAfter(t, 0, 0)
       [] previous # Nil /\ IsPositive(previous) /\ previous <= Len(t.array) ->
            FirstAfter(t, previous, 0)
       [] OTHER -> After(Find(t.store, previous))

\* Mutant of Following: it starts at the record it was given.
FollowingAgain(t, previous) ==
  LET After(position) == IF position = 0 THEN Invalid
                         ELSE FirstAfter(t, Len(t.array), position - 1)
  IN CASE previous = Nil -> FirstAfter(t, 0, 0)
       [] previous # Nil /\ IsPositive(previous) /\ previous <= Len(t.array) ->
            FirstAfter(t, previous, 0)
       [] OTHER -> After(FindStored(t.store, previous))

\* next: an index of the array is a position even where the slot is nil, and a
\* record is found through its node although it may be dead.
Following(t, previous) ==
  LET After(position) == IF position = 0 THEN Invalid
                         ELSE FirstAfter(t, Len(t.array), position)
  IN CASE previous = Nil -> FirstAfter(t, 0, 0)
       [] previous # Nil /\ IsPositive(previous) /\ previous <= Len(t.array) ->
            FirstAfter(t, previous, 0)
       [] OTHER -> After(FindStored(t.store, previous))

Begin ==
  /\ cursor = Off
  /\ cursor' = Nil
  /\ visited' = <<>>
  /\ due' = LiveKeys
  /\ UNCHANGED vars

Step ==
  /\ cursor \in Keys \cup {Nil}
  /\ cursor' = Following(table, cursor)
  /\ visited' = IF cursor' \in Keys THEN Append(visited, cursor') ELSE visited
  /\ UNCHANGED <<vars, due>>

Finish ==
  /\ cursor = End
  /\ cursor' = Off
  /\ visited' = <<>>
  /\ due' = {}
  /\ UNCHANGED vars

\* What an operation between two steps means to the traversal.  The program
\* holds the key it will pass, so the collector does not reclaim it.
Between ==
  LET added == \E k \in Keys : contents[k] = Nil /\ contents'[k] # Nil
  IN /\ cursor # Invalid
     /\ cursor \notin gone'
     /\ cursor' = IF added THEN Off ELSE cursor
     /\ visited' = IF added THEN <<>> ELSE visited
     /\ due' = IF added THEN {} ELSE {k \in due : contents'[k] # Nil}

TraversalInit == Init /\ cursor = Off /\ visited = <<>> /\ due = {}

\* SETLIST and table.insert are left out: they repeat these writes.
TraversalNext ==
  \/ Begin \/ Step \/ Finish
  \/ \E k \in UsableKeys : \E v \in UsableValues(k) : RawSet(k, v) /\ Between
  \/ \E k \in UsableKeys : \E v \in UsableValues(k) : Assign(k, v) /\ Between
  \/ \E dead \in SUBSET ((Refs \cup Objects) \ gone) : Collect(dead) /\ Between

TraversalSpec == TraversalInit /\ [][TraversalNext]_traversalVars

----------------------------------------------------------------------------
(* Properties.                                                             *)

\* A traversal that adds no field never fails with ErrInvalidNextKey, even if
\* the current field has been deleted and its key retired by a collection, and
\* when it ends it has returned every field that was there from the start.
TraversalComplete ==
  /\ cursor # Invalid
  /\ cursor = End => due \subseteq ToSet(visited)

\* Every key that next returns is one it has not returned before, the key it was
\* given included, and names a field that is there: no call repeats a field, so a
\* traversal ends, although fields are deleted and collected between the calls.
VisitsOnce ==
  [][Len(visited') > Len(visited) =>
       /\ Last(visited') \notin ToSet(visited)
       /\ contents[Last(visited')] # Nil]_traversalVars

=============================================================================
