----------------------------- MODULE TableStore -----------------------------
(***************************************************************************)
(* The record part of a Lua table (table_store.go): one array of nodes in  *)
(* which colliding keys are chained, every node reachable from the main    *)
(* position of its key.  Deletion leaves a dead node behind so that a      *)
(* traversal can continue from it; a later insertion reclaims it.          *)
(*                                                                         *)
(* A store is a value and every operation returns the store it leaves.     *)
(* Positions count from 1, which is how `next` and `lastFree` encode them  *)
(* in the source (index plus one, zero for none).  A node's hash is that   *)
(* of its key, so only the key is kept.  Where the source would panic,     *)
(* `broken` becomes TRUE.                                                  *)
(***************************************************************************)
EXTENDS Integers, Sequences, SequencesExt

CONSTANTS
  IntKeys,      \* the integer keys in use, positive or not
  Names,        \* the string keys in use
  Refs,         \* the reference keys in use: tables, functions, userdata
  Values,       \* the values in use, nil excepted
  Nil,          \* the nil slot
  NoKey,        \* the key of an unused node
  Hash          \* the hash of each key

Keys == IntKeys \cup Names \cup Refs

ASSUME KeysAreDistinct ==
  /\ IntKeys \subseteq Int /\ Nil \notin Values /\ NoKey \notin Keys
  /\ Names \cap Refs = {} /\ IntKeys \cap (Names \cup Refs) = {}
  /\ Hash \in [Keys -> Nat \ {0}]

----------------------------------------------------------------------------
(* Nodes and stores.                                                       *)

Node == [key: Keys \cup {NoKey}, value: Values \cup {Nil}, next: Nat,
         retired: BOOLEAN]

\* `retired` says that the key is only an identity, no longer a reference.
NewNode(k, v, next) == [key |-> k, value |-> v, next |-> next, retired |-> FALSE]

UnusedNode == NewNode(NoKey, Nil, 0)

IsUnused(n) == n.key = NoKey
IsDead(n) == n.key # NoKey /\ n.value = Nil
IsLive(n) == n.key # NoKey /\ n.value # Nil

IsPositive(k) == k \in IntKeys /\ k > 0
One(b) == IF b THEN 1 ELSE 0

\* A sequence of n copies of x.
Copies(x, n) == <<>> \o [i \in 1..n |-> x]

NewStore(capacity) ==
  [entries |-> Copies(UnusedNode, capacity), live |-> 0, dead |-> 0,
   integerKeys |-> 0, lastFree |-> capacity, broken |-> FALSE]

Capacity(s) == Len(s.entries)

\* The smallest power of two that is at least n.
NextPowerOfTwo(n) ==
  LET from[c \in Nat] == IF c >= n THEN c ELSE from[2 * c] IN from[1]

Main(s, k) == (Hash[k] % Capacity(s)) + 1

\* The positions met by following `next` from the main position of k.  A walk
\* longer than the store would be a cycle.
Chain(s, k) ==
  LET at[n \in 0..Capacity(s)] ==
        CASE n = 0         -> Main(s, k)
          [] at[n - 1] = 0 -> 0
          [] OTHER         -> s.entries[at[n - 1]].next
  IN {at[n] : n \in 0..Capacity(s)} \ {0}

PositionIn(S) == IF S = {} THEN 0 ELSE CHOOSE i \in S : TRUE

\* The position of k, dead nodes included, and 0 if there is none.
FindStored(s, k) ==
  IF Capacity(s) = 0 THEN 0
  ELSE PositionIn({i \in Chain(s, k) : s.entries[i].key = k})

\* The position of k with a value; a retired key no longer equals its object.
Find(s, k) ==
  IF Capacity(s) = 0 THEN 0
  ELSE PositionIn({i \in Chain(s, k) :
         s.entries[i].key = k /\ s.entries[i].value # Nil /\ ~s.entries[i].retired})

ValueAt(s, i) == IF i = 0 THEN Nil ELSE s.entries[i].value

Get(s, k) == ValueAt(s, Find(s, k))

----------------------------------------------------------------------------
(* The cursor and the counters.                                            *)

IsFull(s) == s.dead = 0 /\ s.live = Capacity(s)

CloseIfFull(s) == IF IsFull(s) THEN [s EXCEPT !.lastFree = 0] ELSE s

RecordInsert(s, k) ==
  CloseIfFull([s EXCEPT !.live = @ + 1,
                        !.integerKeys = @ + One(IsPositive(k))])

ConsumeDeadCandidate(s, i) ==
  IF s.lastFree = i THEN [s EXCEPT !.lastFree = @ - 1] ELSE s

\* Mutant of DeleteAt: it leaves the cursor past the dead node.
DeleteAtPast(s, i) ==
  [s EXCEPT !.entries[i].value = Nil, !.live = @ - 1, !.dead = @ + 1,
            !.integerKeys = @ - One(IsPositive(s.entries[i].key)),
            !.lastFree = i + 1]

\* Mutant of DeleteAt: it leaves the integer counter behind.
DeleteAtUncounted(s, i) ==
  [s EXCEPT !.entries[i].value = Nil, !.live = @ - 1, !.dead = @ + 1,
            !.lastFree = i]

DeleteAt(s, i) ==
  [s EXCEPT !.entries[i].value = Nil, !.live = @ - 1, !.dead = @ + 1,
            !.integerKeys = @ - One(IsPositive(s.entries[i].key)),
            !.lastFree = i,
            !.broken = @ \/ s.entries[i].value = Nil]

ReviveAt(s, i, v) ==
  ConsumeDeadCandidate(
    RecordInsert([s EXCEPT !.entries[i].value = v, !.dead = @ - 1,
                           !.broken = @ \/ s.entries[i].value # Nil \/ v = Nil],
                 s.entries[i].key),
    i)

\* The collector keeps the identity of a deleted reference key, not the object.
RetireAt(s, i) ==
  IF s.entries[i].key \in Refs THEN [s EXCEPT !.entries[i].retired = TRUE] ELSE s

ShouldCompact(s) ==
  s.dead > 1 /\ s.dead > Capacity(s) \div 4 /\ s.dead > s.live

----------------------------------------------------------------------------
(* Taking a free node.                                                     *)

\* The node that links to the displaced node at i, 0 if the chain is broken.
Predecessor(s, i) ==
  PositionIn({j \in Chain(s, s.entries[i].key) : s.entries[j].next = i})

Relink(s, p, next) ==
  IF p = 0 THEN [s EXCEPT !.broken = TRUE]
  ELSE [s EXCEPT !.entries[p].next = next]

Unlink(s, i) == Relink(s, Predecessor(s, i), s.entries[i].next)

Freed(s, i, free) ==
  [store |-> [s EXCEPT !.entries[free] = UnusedNode, !.dead = @ - 1,
                       !.broken = @ \/ ~IsDead(s.entries[i])],
   free  |-> free]

\* Frees one node and says which: a chain head takes over its successor, whose
\* node becomes the free one.
ReclaimDeadAt(s, i) ==
  LET next == s.entries[i].next
      headed == Main(s, s.entries[i].key) = i
      promoted == Freed(s, i, next)
  IN CASE ~headed -> Freed(Unlink(s, i), i, i)
       [] headed /\ next = 0 -> Freed(s, i, i)
       [] OTHER -> [promoted EXCEPT !.store.entries[i] = s.entries[next]]

\* Reclaiming a dead chain head may promote a dead successor, which stays
\* eligible.
KeepEligible(r, i) ==
  [r EXCEPT !.store.lastFree = IF IsDead(r.store.entries[i]) THEN i ELSE @]

TakeAt(s, i) ==
  IF IsUnused(s.entries[i]) THEN [store |-> s, free |-> i]
  ELSE KeepEligible(ReclaimDeadAt(s, i), i)

\* The highest of the nodes that a scan down to limit found.
TakeHighest(s, limit, free) ==
  IF free = {}
  THEN [store |-> [s EXCEPT !.lastFree = IF @ > limit THEN limit ELSE @],
        free  |-> 0]
  ELSE TakeAt([s EXCEPT !.lastFree = Max(free) - 1], Max(free))

\* Scans downward from the cursor and stops above limit.
TakeFreeDownTo(s, limit) ==
  TakeHighest(s, limit, {i \in (limit + 1)..s.lastFree : ~IsLive(s.entries[i])})

MustFree(r) == [r EXCEPT !.store.broken = @ \/ r.free = 0]

\* Mutant of TakeFree: it scans once and never wraps.
TakeFreeOnce(s) ==
  LET Wrap(first) ==
        IF first.free # 0 \/ IsFull(first.store) THEN first ELSE MustFree(first)
  IN Wrap(TakeFreeDownTo(s, 0))

\* The second scan, through the suffix that a deletion had skipped.
TakeWrapped(s, first) ==
  IF first.free # 0 \/ IsFull(first.store) THEN first
  ELSE MustFree(TakeFreeDownTo(
         [first.store EXCEPT !.lastFree = Capacity(s)], s.lastFree))

TakeFree(s) == TakeWrapped(s, TakeFreeDownTo(s, 0))

----------------------------------------------------------------------------
(* Insertion of a key that is not stored.                                  *)

Place(s, i, k, v, next) ==
  RecordInsert([s EXCEPT !.entries[i] = NewNode(k, v, next)], k)

\* A dead node in the main position: a native chain head is overwritten with
\* its links kept, a displaced node is unlinked first.
InsertOverDead(s, main, k, v) ==
  LET headed == Main(s, s.entries[main].key) = main
      Reclaimed(r) == [r.store EXCEPT !.broken = @ \/ r.free # main]
  IN ConsumeDeadCandidate(
       Place(IF headed THEN [s EXCEPT !.dead = @ - 1]
             ELSE Reclaimed(ReclaimDeadAt(s, main)),
             main, k, v,
             IF headed THEN s.entries[main].next ELSE 0),
       main)

\* Mutant of InsertColliding: it chains the new node behind a displaced occupant.
InsertCollidingUnmoved(s, main, k, v, free) ==
  Place([s EXCEPT !.entries[main].next = free],
        free, k, v, s.entries[main].next)

\* A live node in the main position: if it is displaced it moves to the free
\* node, otherwise the new key does.  Freeing a node may have emptied main.
InsertColliding(s, main, k, v, free) ==
  CASE IsUnused(s.entries[main]) -> Place(s, main, k, v, 0)
    [] ~IsUnused(s.entries[main]) /\ Main(s, s.entries[main].key) # main ->
         Place([Relink(s, Predecessor(s, main), free)
                  EXCEPT !.entries[free] = s.entries[main]],
               main, k, v, 0)
    [] OTHER ->
         Place([s EXCEPT !.entries[main].next = free],
               free, k, v, s.entries[main].next)

InsertTaken(taken, main, k, v) ==
  [ok    |-> taken.free # 0,
   store |-> IF taken.free = 0 THEN taken.store
             ELSE InsertColliding(taken.store, main, k, v, taken.free)]

\* The store with k added, and whether there was room for it.
InsertAbsent(s, k, v) ==
  LET main == Main(s, k)
  IN CASE IsUnused(s.entries[main]) ->
            [ok |-> TRUE, store |-> Place(s, main, k, v, 0)]
       [] IsDead(s.entries[main]) ->
            [ok |-> TRUE, store |-> InsertOverDead(s, main, k, v)]
       [] OTHER -> InsertTaken(TakeFree(s), main, k, v)

\* Insertion where there must be room.
MustInsert(s, k, v) ==
  LET Check(r) == [r.store EXCEPT !.broken = @ \/ ~r.ok]
  IN IF Capacity(s) = 0 THEN [s EXCEPT !.broken = TRUE]
     ELSE Check(InsertAbsent(s, k, v))

LiveNodes(s) == SelectSeq(s.entries, IsLive)

Reinsert(s, n) == MustInsert(s, n.key, n.value)

\* The given nodes in a fresh store.
Rebuilt(s, capacity, nodes) ==
  FoldLeft(Reinsert, [NewStore(capacity) EXCEPT !.broken = s.broken], nodes)

\* A fresh store of the given capacity with the live nodes, in node order.
Rehash(s, capacity) ==
  Rebuilt(s, IF capacity < s.live THEN NextPowerOfTwo(s.live) ELSE capacity,
          LiveNodes(s))

Compacted(s) == IF ShouldCompact(s) THEN Rehash(s, Capacity(s)) ELSE s

=============================================================================
