------------------------------ MODULE LuaTable ------------------------------
(***************************************************************************)
(* A Lua table (table.go, table_storage.go): an array part for dense       *)
(* positive integers over the record store of TableStore, with the policy  *)
(* that decides in which part a field lives and when the parts are         *)
(* redistributed.  `contents` is the map a program believes it has; the    *)
(* invariants relate it to what the two parts hold.                        *)
(*                                                                         *)
(* A table is a value and every operation returns the table it leaves.     *)
(***************************************************************************)
EXTENDS TableStore

CONSTANTS
  Programs,        \* how a program may create its table and what it stores
  Objects,         \* the values that are objects the collector may reclaim
  Events,          \* the names that are metamethod events
  InitialArrayCapacity, MinimumStoreCapacity, MaximumTableArrayBits,
  SparseShiftMinimum, SparseScanRatio      \* limits, as named in the source

ASSUME TableAssumption ==
  /\ \A p \in Programs :
       /\ \E K \in SUBSET Keys : p.offer \in [K -> SUBSET Values]
       /\ p.lists \subseteq Seq(Values \cup {Nil})
       /\ p.arrayHint \in Nat /\ p.recordHint \in Nat
  /\ Objects \subseteq Values /\ Events \subseteq Names
  /\ {InitialArrayCapacity, MinimumStoreCapacity, SparseScanRatio} \subseteq Nat \ {0}
  /\ {MaximumTableArrayBits, SparseShiftMinimum} \subseteq Nat

VARIABLES
  program,   \* size hints, the keys in use with their values, SETLIST's lists
  table,     \* both parts, and the summary of the integers in the records
  contents,  \* the value each key should have
  absent,    \* the events cached as absent, when the table is a metatable
  gone       \* the objects that the collector has reclaimed

vars == <<program, table, contents, absent, gone>>

MaximumArrayCapacity == 2^MaximumTableArrayBits

NewTable(arrayHint, recordHint) ==
  [array |-> <<>>, cap |-> arrayHint, used |-> 0,
   store |-> NewStore(IF recordHint = 0 THEN 0 ELSE NextPowerOfTwo(recordHint)),
   floor |-> 0]

Panic(t, b) == [t EXCEPT !.store.broken = @ \/ b]

RawGet(t, k) ==
  CASE IsPositive(k) /\ k <= Len(t.array) -> t.array[k]
    [] ~(IsPositive(k) /\ k <= Len(t.array)) /\ k \in Keys -> Get(t.store, k)
    [] OTHER -> Nil           \* an integer that the instance never stores

----------------------------------------------------------------------------
(* The summary of the integer keys among the records.                      *)

Exponents == 0..MaximumTableArrayBits

\* bits.Len(n - 1): the exponent of the smallest power of two holding n.
Exponent(n) == Cardinality({e \in Exponents : 2^e < n})

AboveArray == MaximumTableArrayBits + 2

RecordClass(k) ==
  CASE ~IsPositive(k) -> 0
    [] IsPositive(k) /\ k > MaximumArrayCapacity -> AboveArray
    [] OTHER -> Exponent(k) + 1

Lowered(floor, class) ==
  IF class # 0 /\ (floor = 0 \/ class < floor) THEN class ELSE floor

\* The summary starts over only when no integer is left among the records.
RecordIntegerDeleted(t) ==
  IF t.store.integerKeys = 0 THEN [t EXCEPT !.floor = 0] ELSE t

DeleteRecord(t, i) == RecordIntegerDeleted([t EXCEPT !.store = DeleteAt(@, i)])

PutRecord(t, i, v) ==
  IF v = Nil THEN DeleteRecord(t, i)
  ELSE [t EXCEPT !.store.entries[i].value = v]

----------------------------------------------------------------------------
(* The density rule: the largest power of two more than half of whose      *)
(* indices are in use.                                                     *)

CountIn(S) == [e \in Exponents |-> Cardinality({i \in S : Exponent(i) = e})]

ArrayIndices(t) == {i \in DOMAIN t.array : t.array[i] # Nil}

RecordIndices(t) ==
  {n.key : n \in {m \in ToSet(t.store.entries) : IsLive(m) /\ IsPositive(m.key)}}

\* Once the array itself qualifies, only its total matters.
CountArrayDensity(t) ==
  LET e == Exponent(Len(t.array))
  IN CASE t.used = 0 -> [d \in Exponents |-> 0]
       [] t.used > 0 /\ t.used > 2^e \div 2 ->
            [d \in Exponents |-> IF d = e THEN t.used ELSE 0]
       [] OTHER -> CountIn(ArrayIndices(t))

SelectArrayDensity(counts) ==
  LET cumulative[e \in Exponents] ==
        counts[e] + (IF e = 0 THEN 0 ELSE cumulative[e - 1])
      dense == {e \in Exponents : cumulative[e] > 2^e \div 2}
  IN IF dense = {} THEN [size |-> 0, live |-> 0]
     ELSE [size |-> 2^Max(dense), live |-> cumulative[Max(dense)]]

DensityForInsert(t, k) ==
  LET pending == IF IsPositive(k) THEN {k} ELSE {}
      inArray == CountArrayDensity(t)
      others == CountIn({i \in RecordIndices(t) : i <= MaximumArrayCapacity})
      new == CountIn({i \in pending : i <= MaximumArrayCapacity})
  IN SelectArrayDensity([e \in Exponents |-> inArray[e] + others[e] + new[e]])

\* Mutant of CanGrowRecordStore: the records grow although the array is sparse.
CanGrowRecordStoreSparse(t, k) ==
  LET floor == Lowered(t.floor, RecordClass(k))
  IN floor \in {0, AboveArray}

\* Whether growing the records alone leaves the array the right size, decided
\* from the summary without counting.
CanGrowRecordStore(t, k) ==
  LET size == Len(t.array)
      floor == Lowered(t.floor, RecordClass(k))
      total == t.used + t.store.integerKeys + One(RecordClass(k) # 0)
  IN /\ size # 0 => 2^Exponent(size) = size /\ t.used > size \div 2
     /\ ~(t.floor = 0 /\ t.store.integerKeys # 0)
     /\ \/ floor \in {0, AboveArray}
        \/ /\ size # 0 => floor - 1 > Exponent(size)
           /\ total <= 2^(floor - 1) \div 2

----------------------------------------------------------------------------
(* Insertion of a field that neither part holds.                           *)

\* The array of the given size that keeps what fits of the old one.
Resized(array, size) ==
  SubSeq(array, 1, Min({size, Len(array)})) \o Copies(Nil, size - Len(array))

\* The fields of the array beyond its new size, as nodes.
Spilled(array, size) ==
  SelectSeq([i \in 1..Len(array) |-> NewNode(i, array[i], 0)],
            LAMBDA n : n.key > size /\ n.value # Nil)

Install(array, n) == [array EXCEPT ![n.key] = n.value]
Lower(floor, n) == Lowered(floor, RecordClass(n.key))

\* Mutant of RecordCapacity: it does not count the pending field.
RecordCapacityShort(t, records) ==
  IF records <= 1 THEN 0 ELSE NextPowerOfTwo(records - 1)

RecordCapacity(t, records) ==
  CASE records = 0 -> 0
    [] records > 0 /\ Capacity(t.store) = 0 /\ records < MinimumStoreCapacity ->
         NextPowerOfTwo(MinimumStoreCapacity)
    [] OTHER -> NextPowerOfTwo(records)

\* Both parts rebuilt: `moved` leaves the records for the array, `kept` are the
\* records of the new store.
Redistributed(t, d, records, moved, kept, reuse) ==
  LET resized == Resized(t.array, d.size)
      Checked(r) ==
        Panic(r, \/ \E i \in 1..Len(moved) : resized[moved[i].key] # Nil
                 \/ ~IsInjective([i \in 1..Len(moved) |-> moved[i].key])
                 \/ r.used # d.live \/ r.store.live # records)
  IN Checked(
       [array |-> FoldLeft(Install, resized, moved),
        cap   |-> IF d.size # 0 /\ d.size >= Len(t.array) /\ d.size <= t.cap
                  THEN t.cap ELSE d.size,
        used  |-> Len(moved) + IF d.size = Len(t.array) THEN t.used
                               ELSE Cardinality({i \in ArrayIndices(t) : i <= d.size}),
        store |-> IF reuse THEN t.store
                  ELSE Rebuilt(t.store, RecordCapacity(t, records), kept),
        floor |-> IF reuse THEN t.floor ELSE FoldLeft(Lower, 0, kept)])

\* Rebuilds both parts around density d, with the pending field counted once.
\* Fields spill from a shrinking array into the records and move from the
\* records into a growing array; a record store that would come out the same
\* is kept.
RedistributeAround(t, k, v, d) ==
  LET live == Append(LiveNodes(t.store), NewNode(k, v, 0))
      records == t.used + t.store.live + 1 - d.live
      Moves(n) == IsPositive(n.key) /\ n.key <= d.size
      Stays(n) == ~Moves(n)
  IN Redistributed(t, d, records,
       SelectSeq(live, Moves),
       Spilled(t.array, d.size) \o SelectSeq(live, Stays),
       /\ IsPositive(k) /\ k <= d.size /\ d.size >= Len(t.array)
       /\ t.store.dead = 0 /\ t.store.integerKeys = 0
       /\ t.store.live = records
       /\ Capacity(t.store) = RecordCapacity(t, records))

RedistributeForInsert(t, k, v) ==
  RedistributeAround(t, k, v, DensityForInsert(t, k))

GrowOrRedistribute(t, k, v) ==
  IF CanGrowRecordStore(t, k)
  THEN [t EXCEPT
          !.store = MustInsert(Rehash(@, IF Capacity(@) = 0 THEN MinimumStoreCapacity
                                         ELSE 2 * Capacity(@)), k, v),
          !.floor = Lowered(@, RecordClass(k))]
  ELSE RedistributeForInsert(t, k, v)

\* After the attempt r to insert into the records as they are.
InsertedOrGrown(t, k, v, r) ==
  IF r.ok THEN [t EXCEPT !.store = r.store,
                         !.floor = Lowered(@, RecordClass(k))]
  ELSE GrowOrRedistribute([t EXCEPT !.store = r.store], k, v)

InsertNewField(t, k, v) ==
  InsertedOrGrown(t, k, v,
    IF Capacity(t.store) = 0 THEN [ok |-> FALSE, store |-> t.store]
    ELSE InsertAbsent(Compacted(t.store), k, v))

\* Mutant of Revive: it revives a deleted reference key as an identity.
ReviveRetired(t, i, k, v) ==
  [t EXCEPT !.store = ReviveAt(@, i, v), !.floor = Lowered(@, RecordClass(k))]

\* A deleted key comes back in its node, as a reference again.
Revive(t, i, k, v) ==
  [t EXCEPT !.store = ReviveAt([@ EXCEPT !.entries[i].retired = FALSE], i, v),
            !.floor = Lowered(@, RecordClass(k))]

\* A write to a key whose node is at i, dead or alive, and 0 if it has none.
\* Insertion starts with compaction, which drops the dead node of k itself.
SetRecord(t, i, k, v) ==
  CASE ValueAt(t.store, i) # Nil -> PutRecord(t, i, v)
    [] ValueAt(t.store, i) = Nil /\ v = Nil -> t
    [] ValueAt(t.store, i) = Nil /\ v # Nil /\ i # 0 /\ ~ShouldCompact(t.store) ->
         Revive(t, i, k, v)
    [] OTHER -> InsertNewField(t, k, v)

----------------------------------------------------------------------------
(* The array part.                                                         *)

\* Mutant of MigrateKey: it leaves a covered integer behind in the records.
MigrateKeyNever(t, k) == t

\* An integer that the array has grown over leaves the records.
MigrateKey(t, k) ==
  LET From(i) ==
        IF i = 0 THEN t
        ELSE [DeleteRecord(t, i) EXCEPT !.array[k] = t.store.entries[i].value,
                                        !.used = @ + 1]
  IN From(IF k \in Keys THEN Find(t.store, k) ELSE 0)

\* Doubling below 32 slots, by half above, up to the maximum.
GrowTableArrayCapacity(current, length) ==
  LET from[c \in Nat] ==
        CASE c >= length -> c
          [] c < length /\ c < 32 -> from[2 * c]
          [] OTHER -> from[IF c > MaximumArrayCapacity - c \div 2
                           THEN MaximumArrayCapacity ELSE c + c \div 2]
  IN from[IF current = 0 THEN InitialArrayCapacity ELSE current]

GrowArray(t, length) ==
  FoldLeft(MigrateKey,
    [t EXCEPT !.array = @ \o Copies(Nil, length - Len(@)),
              !.cap = IF length <= @ THEN @ ELSE GrowTableArrayCapacity(@, length)],
    IF t.store.integerKeys = 0 THEN <<>>
    ELSE [j \in 1..(length - Len(t.array)) |-> Len(t.array) + j])

SetArray(t, i, v) ==
  IF i > Len(t.array)
  THEN [GrowArray(t, i) EXCEPT !.array[i] = v, !.used = @ + 1]
  ELSE [t EXCEPT !.array[i] = v,
                 !.used = @ + One(v # Nil) - One(t.array[i] # Nil)]

AdmitsArrayInsert(t, i) ==
  /\ i > 0 /\ i <= MaximumArrayCapacity
  /\ \/ i <= Len(t.array)
     \/ i <= InitialArrayCapacity
     \/ i <= t.cap /\ t.store.integerKeys = 0 /\ t.used + 1 > i \div 2

\* The size of a fresh array that i alone justifies, 0 if none.
DirectArrayGrowth(t, i) ==
  IF \/ i <= InitialArrayCapacity \/ i <= t.cap \/ i > MaximumArrayCapacity
     \/ t.store.integerKeys # 0
     \/ t.used + 1 <= 2^Exponent(i) \div 2
  THEN 0 ELSE 2^Exponent(i)

GrowArrayExact(t, size) ==
  [t EXCEPT !.array = @ \o Copies(Nil, size - Len(@)), !.cap = size]

\* An integer that the array did not take at once: below one it is a plain
\* record; above the array a dead node is preferred; then the array is asked
\* again, after the compaction that an insertion permits.
SetIntegerRecord(t, i, v, stored) ==
  IF /\ i > 0 /\ v # Nil
     /\ i <= Len(t.array) \/ stored = 0
     /\ AdmitsArrayInsert(t, i)
  THEN SetArray([t EXCEPT !.store = Compacted(@)], i, v)
  ELSE SetRecord(t, stored, i, v)

\* With no integer among the records the key cannot be one of them, and the
\* array is considered first.
ConsiderArray(t, i, v, early, size) ==
  CASE early /\ size # 0 ->
         [GrowArrayExact(t, size) EXCEPT !.array[i] = v, !.used = @ + 1]
    [] early /\ size = 0 /\ AdmitsArrayInsert(t, i) -> SetArray(t, i, v)
    [] OTHER -> SetIntegerRecord(t, i, v, FindStored(t.store, i))

SetIntegerUnresolved(t, i, v) ==
  LET early == v # Nil /\ i > 0 /\ (i <= Len(t.array) \/ t.store.integerKeys = 0)
  IN ConsiderArray(IF early THEN [t EXCEPT !.store = Compacted(@)] ELSE t,
                   i, v, early, DirectArrayGrowth(t, i))

\* A write to an integer whose live record is at i, 0 if it has none.
SetIntegerAt(t, k, v, i) ==
  CASE k \in DOMAIN t.array /\ (v = Nil \/ t.array[k] # Nil) -> SetArray(t, k, v)
    [] ~(k \in DOMAIN t.array /\ (v = Nil \/ t.array[k] # Nil)) /\ i # 0 ->
         PutRecord(t, i, v)
    [] OTHER -> SetIntegerUnresolved(t, k, v)

SetInteger(t, k, v) ==
  SetIntegerAt(t, k, v,
    IF k > Len(t.array) /\ t.store.integerKeys # 0 THEN Find(t.store, k) ELSE 0)

SetField(t, k, v) ==
  IF IsPositive(k) THEN SetInteger(t, k, v)
  ELSE SetRecord(t, FindStored(t.store, k), k, v)

----------------------------------------------------------------------------
(* Bulk operations.                                                        *)

Write(k, v) == [key |-> k, value |-> v]

\* Integer writes, one after the other.
WriteAll(t, writes) ==
  LET Apply(u, w) == SetInteger(u, w.key, w.value) IN FoldLeft(Apply, t, writes)

Present(values) == {i \in DOMAIN values : values[i] # Nil}

\* The values of a list constructor, appended in one step when they extend
\* the array and no integer is among the records.
RawSetList(t, first, values) ==
  LET last == IF Present(values) = {} THEN 0 ELSE Max(Present(values))
      Filled(g) == [g EXCEPT !.array = t.array \o SubSeq(values, 1, last),
                             !.used = @ + Cardinality(Present(values))]
  IN CASE first # Len(t.array) + 1 \/ t.store.integerKeys # 0
            \/ Len(t.array) + last > MaximumArrayCapacity ->
            WriteAll(t, [i \in DOMAIN values |-> Write(first + i - 1, values[i])])
       [] first = Len(t.array) + 1 /\ t.store.integerKeys = 0 /\ last = 0 -> t
       [] OTHER ->
            Filled(GrowArray([t EXCEPT !.store = Compacted(@)], Len(t.array) + last))

\* The present integers of a range.
SourcesIn(t, first, last) == {k \in IntKeys \cap first..last : RawGet(t, k) # Nil}

\* Mutant of SparseWrites: it deletes no destination whose source is a hole.
SparseWritesDense(t, first, last) ==
  LET down == SetToSortSeq(SourcesIn(t, first, last), >)
  IN [i \in DOMAIN down |-> Write(down[i] + 1, RawGet(t, down[i]))]

\* The writes of the shift that visits stored fields only, from the last down:
\* a field below which there is a hole is deleted after it has moved.
SparseWrites(t, first, last) ==
  LET Moves(sources) ==
        LET Move(writes, k) ==
              writes \o <<Write(k + 1, RawGet(t, k))>>
                \o IF k > first /\ (k - 1) \notin sources THEN <<Write(k, Nil)>> ELSE <<>>
        IN FoldLeft(Move,
             IF last \notin sources /\ RawGet(t, last + 1) # Nil
             THEN <<Write(last + 1, Nil)>> ELSE <<>>,
             SetToSortSeq(sources, >))
  IN Moves(SourcesIn(t, first, last))

\* The writes of the shift that visits every index of the range; each field is
\* read before the write below it changes it.
DenseWrites(t, first, last) ==
  [i \in 1..(last - first + 1) |-> Write(last - i + 2, RawGet(t, last - i + 1))]

UseSparseShift(t, first, last) ==
  LET width == last - first + 1
  IN /\ first <= last /\ width >= SparseShiftMinimum
     /\ width \div SparseScanRatio > Len(t.array) + Capacity(t.store) + 1

\* A border found by bisection between a present (or zero) low and an absent
\* high.
Bisect(t, low, high) ==
  LET between[l \in Nat, h \in Nat] ==
        CASE h - l <= 1 -> l
          [] h - l > 1 /\ RawGet(t, l + (h - l) \div 2) # Nil ->
               between[l + (h - l) \div 2, h]
          [] OTHER -> between[l, l + (h - l) \div 2]
  IN between[low, high]

\* Mutant of RawLen: it takes the length of the array for the border.
RawLenArray(t) == Len(t.array)

RawLen(t) ==
  LET n == Len(t.array)
      from[low \in Nat, high \in Nat] ==
        IF RawGet(t, 2 * high) = Nil THEN Bisect(t, low, 2 * high)
        ELSE from[2 * high, 2 * high]
  IN CASE n > 0 /\ t.array[n] = Nil -> Bisect(t, 0, n)
       [] ~(n > 0 /\ t.array[n] = Nil) /\ RawGet(t, n + 1) = Nil -> n
       [] OTHER -> from[n, n + 1]

----------------------------------------------------------------------------
(* Collection.                                                             *)

\* Tracing meets every dead node and lets go of its reference key.
TraceTable(t) ==
  LET Retire(s, i) == IF IsDead(s.entries[i]) THEN RetireAt(s, i) ELSE s
  IN [t EXCEPT !.store = FoldLeftDomain(Retire, @, @.entries)]

ClearArray(t, dead) ==
  [t EXCEPT !.array = [i \in DOMAIN @ |-> IF @[i] \in dead THEN Nil ELSE @[i]],
            !.used = @ - Cardinality({i \in DOMAIN t.array : t.array[i] \in dead})]

\* Mutant of ClearRecord: it keeps the reference of a cleared key.
ClearRecordKept(t, i) == DeleteRecord(t, i)

ClearRecord(t, i) ==
  LET deleted == DeleteRecord(t, i)
  IN [deleted EXCEPT !.store = RetireAt(@, i)]

\* A weak table loses the entries of which either side has died.
ClearWeakTable(t, dead) ==
  LET Clear(u, i) ==
        IF /\ IsLive(u.store.entries[i])
           /\ {u.store.entries[i].key, u.store.entries[i].value} \cap dead # {}
        THEN ClearRecord(u, i) ELSE u
  IN FoldLeftDomain(Clear, ClearArray(t, dead), t.store.entries)

----------------------------------------------------------------------------
(* Actions.                                                                *)

Init ==
  /\ program \in Programs
  /\ table = NewTable(program.arrayHint, program.recordHint)
  /\ contents = [k \in Keys |-> Nil]
  /\ absent = {}
  /\ gone = {}

UsableKeys == DOMAIN program.offer \ gone
UsableInts == IntKeys \cap DOMAIN program.offer
UsableValues(k) == (program.offer[k] \ gone) \cup {Nil}

\* Any change through a general key empties the cache of absent events.
Invalidate(changed) == absent' = IF changed THEN {} ELSE absent

\* Mutant of RawSet: it keeps the cache of absent events, as an integer write may.
RawSetQuiet(k, v) ==
  /\ table' = SetField(table, k, v)
  /\ contents' = [contents EXCEPT ![k] = v]
  /\ UNCHANGED <<program, absent, gone>>

\* Table.RawSet, RawSetString and rawset: any key, no metamethod.
RawSet(k, v) ==
  /\ table' = SetField(table, k, v)
  /\ contents' = [contents EXCEPT ![k] = v]
  /\ Invalidate(RawGet(table, k) # v)
  /\ UNCHANGED <<program, gone>>

\* Table.RawSetInt and the library's integer writes; integers name no event.
RawSetInt(i, v) ==
  /\ table' = SetInteger(table, i, v)
  /\ contents' = [contents EXCEPT ![i] = v]
  /\ UNCHANGED <<program, absent, gone>>

\* A write to the location that a lookup has just found.
ReplaceResolved(t, k, v) ==
  IF IsPositive(k) /\ k <= Len(t.array)
  THEN [t EXCEPT !.array[k] = v, !.used = @ - One(v = Nil)]
  ELSE PutRecord(t, Find(t.store, k), v)

\* An assignment t[k] = v: the location found by the lookup is written when
\* the field exists, and only a new field takes the path of RawSet.
Assign(k, v) ==
  /\ table' = IF RawGet(table, k) # Nil THEN ReplaceResolved(table, k, v)
              ELSE SetField(table, k, v)
  /\ contents' = [contents EXCEPT ![k] = v]
  /\ Invalidate(RawGet(table, k) # v)
  /\ UNCHANGED <<program, gone>>

\* SETLIST.
SetList(first, values) ==
  /\ first..(first + Len(values) - 1) \subseteq UsableInts
  /\ ToSet(values) \cap gone = {}
  /\ table' = RawSetList(table, first, values)
  /\ contents' = [k \in Keys |-> IF IsPositive(k) /\ k - first + 1 \in DOMAIN values
                                 THEN values[k - first + 1] ELSE contents[k]]
  /\ UNCHANGED <<program, absent, gone>>

\* table.insert: the fields from position up to end move up by one.
TableInsert(position, v, end) ==
  LET shift == IF /\ position <= end - SparseShiftMinimum
                  /\ UseSparseShift(table, position, end - 1)
               THEN SparseWrites(table, position, end - 1)
               ELSE DenseWrites(table, position, end - 1)
  IN /\ position..end \subseteq UsableInts
     /\ end = Max({position, RawLen(table) + 1})
     /\ table' = WriteAll(table, Append(shift, Write(position, v)))
     /\ contents' = [k \in Keys |->
          CASE k = position -> v
            [] k \in IntKeys /\ k \in (position + 1)..end -> contents[k - 1]
            [] OTHER -> contents[k]]
     /\ UNCHANGED <<program, absent, gone>>

\* A lookup of a metamethod in this table caches that there is none.
LookupEvent(e) ==
  /\ e \notin absent
  /\ absent' = IF Get(table.store, e) = Nil THEN absent \cup {e} ELSE absent
  /\ UNCHANGED <<program, table, contents, gone>>

\* A collection in which the given objects die: in a table that holds one of
\* them weakly its entries are cleared, any other table is only traced.
Collect(dead) ==
  /\ table' = ClearWeakTable(TraceTable(table), dead)
  /\ contents' = [k \in Keys |->
       IF {k, contents[k]} \cap dead # {} THEN Nil ELSE contents[k]]
  /\ gone' = gone \cup dead
  /\ UNCHANGED <<program, absent>>

Next ==
  \/ \E k \in UsableKeys : \E v \in UsableValues(k) : RawSet(k, v)
  \/ \E i \in UsableInts : \E v \in UsableValues(i) : RawSetInt(i, v)
  \/ \E k \in UsableKeys : \E v \in UsableValues(k) : Assign(k, v)
  \/ \E i \in UsableInts, values \in program.lists :
       i > 0 /\ SetList(i, values)
  \/ \E i, end \in UsableInts : \E v \in UsableValues(i) : TableInsert(i, v, end)
  \/ \E e \in Events : LookupEvent(e)
  \/ \E dead \in SUBSET ((Refs \cup Objects) \ gone) : Collect(dead)

Spec == Init /\ [][Next]_vars

----------------------------------------------------------------------------
(* Properties.                                                             *)

Nodes(s) == ToSet(s.entries)

TypeOK ==
  /\ ToSet(table.array) \subseteq Values \cup {Nil}
  /\ table.cap \in Nat /\ Len(table.array) <= table.cap
  /\ table.floor \in 0..AboveArray
  /\ Nodes(table.store) \subseteq Node
  /\ table.store.lastFree \in 0..Capacity(table.store)
  /\ contents \in [Keys -> Values \cup {Nil}]
  /\ absent \subseteq Events /\ gone \subseteq Refs \cup Objects

\* No consistency panic of table_store.go or table_storage.go can be reached:
\* the insertion cursor never loses a free node, no collision chain is broken,
\* no rebuilt part runs out of room and no field is installed twice.
NoPanic == ~table.store.broken

\* Whatever part a field has moved to, reading it yields the value last
\* assigned to it, and an unassigned or deleted field reads as nil.
ReadsAgree == \A k \in Keys : RawGet(table, k) = contents[k]

\* Every used node is reached from the main position of its key, a chain
\* links only keys of one main position, no node has two predecessors and no
\* key two nodes; so chains are disjoint and end.
ChainsSound ==
  LET s == table.store
      used == {i \in DOMAIN s.entries : ~IsUnused(s.entries[i])}
  IN \A i \in used :
       /\ i \in Chain(s, s.entries[i].key)
       /\ s.entries[i].next # 0 =>
            /\ s.entries[i].next \in used
            /\ Main(s, s.entries[s.entries[i].next].key) = Main(s, s.entries[i].key)
       /\ s.entries[i].next # Main(s, s.entries[i].key)
       /\ \A j \in used \ {i} :
            /\ s.entries[j].key # s.entries[i].key
            /\ s.entries[j].next # 0 => s.entries[j].next # s.entries[i].next

\* The counters that steer insertion are exact through deletion, revival,
\* migration and weak clearing, and the integer summary never overestimates
\* the smallest integer among the records.
CountsExact ==
  LET s == table.store
      integers == RecordIndices(table)
  IN /\ s.live = Len(LiveNodes(s))
     /\ s.dead = Len(SelectSeq(s.entries, IsDead))
     /\ s.integerKeys = Cardinality(integers)
     /\ table.used = Cardinality(ArrayIndices(table))
     /\ (table.floor = 0) = (integers = {})
     /\ \A i \in integers : table.floor <= RecordClass(i)

\* A positive integer lives in one part: nothing that the array covers is also
\* live among the records, where it would reappear when the array shrinks.
OneLane == \A i \in RecordIndices(table) : i > Len(table.array)

\* The reference density rule: the indices in use counted one by one.
BestSize(t, k) ==
  LET indices == {i \in ArrayIndices(t) \cup RecordIndices(t) \cup {k} :
                    IsPositive(i) /\ i <= MaximumArrayCapacity}
      dense == {e \in Exponents :
                  2 * Cardinality({i \in indices : i <= 2^e}) > 2^e}
  IN IF dense = {} THEN 0 ELSE 2^Max(dense)

\* For every field that could be inserted next, the shortcuts agree with the
\* density rule: the counted size is the best one, and the records grow alone
\* only if the array already has it.
DensityExact ==
  \A k \in UsableKeys : contents[k] = Nil =>
    /\ DensityForInsert(table, k).size = BestSize(table, k)
    /\ CanGrowRecordStore(table, k) => BestSize(table, k) = Len(table.array)

\* The length of a table is a border of its contents: zero or a present index
\* whose successor is absent, wherever the two fields are stored.
BorderSound ==
  LET n == RawLen(table)
      IsField(i) == i \in IntKeys /\ contents[i] # Nil
  IN (n = 0 \/ IsField(n)) /\ ~IsField(n + 1)

\* A metamethod event cached as absent is absent.
AbsenceSound == \A e \in absent : contents[e] = Nil

\* A reclaimed object is neither stored nor referred to: where its deleted key
\* is still part of a chain, only the identity is left.
DeadKeysReleased ==
  /\ \A n \in Nodes(table.store) :
       /\ n.key \in gone => n.retired
       /\ n.value \notin gone
       /\ n.retired => IsDead(n)
  /\ ToSet(table.array) \cap gone = {}

=============================================================================
