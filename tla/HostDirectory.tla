---------------------------- MODULE HostDirectory ----------------------------
(***************************************************************************)
(* The directory that gives each Lua object one host token while the Go    *)
(* program holds a handle to it, and that the collector reads as its host  *)
(* roots.  Both sides are weak pointers: Go's collector clears them at any *)
(* time.  An operation holds the directory's mutex and reads each weak     *)
(* pointer once; the pointers are cleared independently, so a clearing     *)
(* during an operation is one just before or just after it.                *)
(***************************************************************************)
EXTENDS Integers, Sequences, SequencesExt

CONSTANTS
  Objects,   (* Lua objects that cross into Go                               *)
  Serials    (* what tells two tokens of one object apart                    *)

ASSUME DirectoryAssumption == \E a, b \in Serials : a # b

VARIABLES
  entries,   (* the indexed token of each key                                *)
  keys,      (* the scan order of the keys                                   *)
  cursor,    (* exclusive upper bound of the current reverse pass            *)
  held,      (* tokens the Go program can still reach                        *)
  headers,   (* objects Go has not reclaimed                                 *)
  credit     (* history: maintenance steps a dead entry may still survive    *)

vars == <<entries, keys, cursor, held, headers, credit>>

TypeOK ==
  /\ DOMAIN entries \subseteq Objects
  /\ \A o \in DOMAIN entries : entries[o] \in Serials
  /\ keys \in Seq(Objects)
  /\ cursor \in 0 .. Len(keys)
  /\ held \subseteq Objects \X Serials
  /\ headers \subseteq Objects
  /\ credit \in [Objects -> Int]

Init ==
  /\ entries = <<>> /\ keys = <<>> /\ cursor = 0
  /\ held = {} /\ headers = Objects
  /\ credit = [o \in Objects |-> 0]

-----------------------------------------------------------------------------
\* Both weak pointers of an entry of table es still have a value.
Live(es, tokens, o) == o \in headers /\ <<o, es[o]>> \in tokens

\* Mutant of Known: every publication makes a token.
KnownNever(o) == FALSE

\* The entry found for o names a token the Go program can reach.
Known(o) == o \in DOMAIN entries /\ <<o, entries[o]>> \in held

\* Mutants of Scan: the cursor left on the examined key, and a forward pass.
ScanStays(ks) ==
  LET i == IF cursor <= 0 \/ cursor > Len(ks) THEN Len(ks) ELSE cursor
  IN  [at |-> i, cursor |-> i]

ScanForward(ks) ==
  LET i == IF cursor >= Len(ks) THEN 1 ELSE cursor + 1
  IN  [at |-> i, cursor |-> i]

\* The index maintainLocked examines, and the cursor it leaves.
Scan(ks) ==
  LET i == IF cursor <= 0 \/ cursor > Len(ks) THEN Len(ks) ELSE cursor
  IN  [at |-> i, cursor |-> i - 1]

\* Mutant of Removed: the last key is cut off without taking the freed place.
RemovedCut(ks, i) == SubSeq(ks, 1, Len(ks) - 1)

\* The last key takes the place of a removed one.
Removed(ks, i) == SubSeq([ks EXCEPT ![i] = ks[Len(ks)]], 1, Len(ks) - 1)

\* maintainLocked(1) over the directory that publish has extended.
Maintain(es, ks, tokens) ==
  LET i == Scan(ks).at
  IN  /\ cursor' = Scan(ks).cursor
      /\ IF ks[i] \in DOMAIN es /\ Live(es, tokens, ks[i])
         THEN entries' = es /\ keys' = ks
         ELSE /\ entries' = Restrict(es, DOMAIN es \ {ks[i]})
              /\ keys' = Removed(ks, i)

\* A token distinct from every one the Go program holds; the serial of a dead
\* token can serve again, because its entry is overwritten.
NewToken(o) == CHOOSE s \in Serials : <<o, s>> \notin held

\* The index with the token s of o in it.
Install(o, s) ==
  [x \in DOMAIN entries \cup {o} |-> IF x = o THEN s ELSE entries[x]]

\* The scan order with o in it.
Extended(o) == IF o \in DOMAIN entries THEN keys ELSE Append(keys, o)

\* publish: an object the host holds keeps its token; otherwise a new token is
\* installed and one entry is maintained.
Publish(o) ==
  LET s == NewToken(o)
  IN  /\ o \in headers
      /\ ~Known(o)
      /\ held' = held \cup {<<o, s>>}
      /\ Maintain(Install(o, s), Extended(o), held \cup {<<o, s>>})
      /\ credit' = [x \in Objects |-> credit[x] - 1]
      /\ UNCHANGED headers

\* The entries a prune keeps.
Kept(o) == o \in DOMAIN entries /\ Live(entries, held, o)

\* prune, after every cycle and when the State closes, visits the scan order:
\* an entry that it does not list would be left alone.
Prune ==
  /\ keys' = SelectSeq(keys, Kept)
  /\ entries' = Restrict(entries, DOMAIN entries \ {o \in ToSet(keys) : ~Kept(o)})
  /\ cursor' = 0
  /\ UNCHANGED <<held, headers, credit>>

\* The Go program drops its last handle of o.  What is left of the current
\* reverse pass, and then one whole pass, must find the dead entry.
Forget(o) ==
  /\ \E s \in Serials : <<o, s>> \in held
  /\ held' = {t \in held : t[1] # o}
  /\ credit' = [credit EXCEPT ![o] = Len(keys) + 2 * cursor + 1]
  /\ UNCHANGED <<entries, keys, cursor, headers>>

\* A swept object that no token keeps alive is reclaimed by Go.
Reclaim(o) ==
  /\ o \in headers
  /\ \A s \in Serials : <<o, s>> \notin held
  /\ headers' = headers \ {o}
  /\ UNCHANGED <<entries, keys, cursor, held, credit>>

Next ==
  \/ \E o \in Objects : Publish(o) \/ Forget(o) \/ Reclaim(o)
  \/ Prune

Spec == Init /\ [][Next]_vars

-----------------------------------------------------------------------------
(***************************************************************************)
(* Properties.                                                             *)
(***************************************************************************)

\* Handles of one object compare equal and keep it alive: the Go program never
\* holds two tokens of an object, and the one it holds is the one the
\* directory yields, so that markCollectionRoots finds it.
Canonical ==
  \A t \in held : t[1] \in DOMAIN entries /\ entries[t[1]] = t[2]

\* The scan order lists each indexed key exactly once, whatever maintenance
\* swapped or cut off: a key missing from it would never be examined again.
KeysIndexEntries ==
  /\ ToSet(keys) = DOMAIN entries
  /\ \A i, j \in DOMAIN keys : keys[i] = keys[j] => i = j

\* A dead entry is not starved by a growing tail: it is gone after the rest of
\* the pass in which it died and one more pass, each publication being one
\* step of a pass.
DeadEntriesLeave ==
  \A o \in DOMAIN entries : <<o, entries[o]>> \notin held => credit[o] >= 0
=============================================================================
