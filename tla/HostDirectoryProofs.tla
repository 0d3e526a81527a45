------------------------- MODULE HostDirectoryProofs -------------------------
(***************************************************************************)
(* Handles are canonical, for any number of objects and any schedule of    *)
(* publications, prunings and clearings by Go's collector.                 *)
(***************************************************************************)
EXTENDS HostDirectory, TLAPS

\* A token keeps its object's header alive, so an entry that fails the
\* liveness test of maintainLocked and pruneLocked has lost its token.
HeldAlive ==
  \A t \in held : t = <<t[1], t[2]>> /\ t[1] \in headers /\ t[2] \in Serials

\* The inductive invariant.
DirectoryInvariant == Canonical /\ HeldAlive

\* maintainLocked never removes the entry of a token that the host holds.
LEMMA MaintainKeepsHeld ==
  ASSUME NEW es, NEW ks, NEW tokens, Maintain(es, ks, tokens),
         \A t \in tokens : /\ t = <<t[1], t[2]>> /\ t[1] \in headers
                           /\ t[1] \in DOMAIN es /\ es[t[1]] = t[2]
  PROVE  \A t \in tokens : t[1] \in DOMAIN entries' /\ entries'[t[1]] = t[2]
<1> DEFINE k == ks[Scan(ks).at]
<1>1. CASE k \in DOMAIN es /\ Live(es, tokens, k)
  BY <1>1 DEF Maintain
<1>2. CASE ~(k \in DOMAIN es /\ Live(es, tokens, k))
  <2>1. entries' = Restrict(es, DOMAIN es \ {k})
    BY <1>2 DEF Maintain
  <2>2. ASSUME NEW t \in tokens PROVE t[1] # k
    BY <1>2 DEF Live
  <2> HIDE DEF k
  <2> QED BY <2>1, <2>2 DEF Restrict
<1> QED BY <1>1, <1>2

\* Every operation, and every clearing by Go, keeps the invariant.
LEMMA DirectoryStep ==
  DirectoryInvariant /\ [Next]_vars => DirectoryInvariant'
<1> SUFFICES ASSUME DirectoryInvariant, [Next]_vars
             PROVE  DirectoryInvariant'
  OBVIOUS
<1>1. ASSUME NEW o \in Objects, Publish(o) PROVE DirectoryInvariant'
  <2> DEFINE s == NewToken(o)
             es == Install(o, s)
             tokens == held \cup {<<o, s>>}
  <2>1. /\ o \in headers /\ ~Known(o) /\ held' = tokens
        /\ headers' = headers /\ Maintain(es, Extended(o), tokens)
    BY <1>1 DEF Publish
  <2>2. \A t \in held : t[1] # o
    BY <2>1 DEF Known, DirectoryInvariant, Canonical, HeldAlive
  <2>3. \A t \in tokens : /\ t = <<t[1], t[2]>> /\ t[1] \in headers
                          /\ t[1] \in DOMAIN es /\ es[t[1]] = t[2]
    <3>1. ASSUME NEW t \in held
          PROVE  /\ t = <<t[1], t[2]>> /\ t[1] \in headers
                 /\ t[1] \in DOMAIN es /\ es[t[1]] = t[2]
      BY <2>2, <3>1 DEF Install, DirectoryInvariant, Canonical, HeldAlive
    <3>2. o \in DOMAIN es /\ es[o] = s
      BY DEF Install
    <3> HIDE DEF es, s
    <3> QED BY <2>1, <3>1, <3>2
  <2>4. s \in Serials
    <3>1. \E x \in Serials : <<o, x>> \notin held
      BY <2>2, DirectoryAssumption
    <3> QED BY <3>1 DEF NewToken
  <2>5. \A t \in tokens : t[2] \in Serials
    BY <2>4 DEF DirectoryInvariant, HeldAlive
  <2> HIDE DEF es, tokens, s
  <2>6. \A t \in tokens : t[1] \in DOMAIN entries' /\ entries'[t[1]] = t[2]
    BY <2>1, <2>3, MaintainKeepsHeld
  <2> QED BY <2>1, <2>3, <2>5, <2>6 DEF DirectoryInvariant, Canonical, HeldAlive
<1>2. ASSUME NEW o \in Objects, Forget(o) PROVE DirectoryInvariant'
  BY <1>2 DEF Forget, DirectoryInvariant, Canonical, HeldAlive
<1>3. ASSUME NEW o \in Objects, Reclaim(o) PROVE DirectoryInvariant'
  <2>1. \A t \in held : t[1] # o
    BY <1>3 DEF Reclaim, DirectoryInvariant, HeldAlive
  <2> QED
    BY <1>3, <2>1 DEF Reclaim, DirectoryInvariant, Canonical, HeldAlive
<1>4. CASE Prune
  <2> DEFINE left == DOMAIN entries \ {o \in ToSet(keys) : ~Kept(o)}
  <2>1. entries' = Restrict(entries, left) /\ held' = held /\ headers' = headers
    BY <1>4 DEF Prune
  <2>2. ASSUME NEW t \in held PROVE t[1] \in left
    BY DEF DirectoryInvariant, Canonical, HeldAlive, Kept, Live
  <2> HIDE DEF left
  <2> QED
    BY <2>1, <2>2 DEF Restrict, DirectoryInvariant, Canonical, HeldAlive
<1>5. CASE UNCHANGED vars
  BY <1>5 DEF vars, DirectoryInvariant, Canonical, HeldAlive
<1> QED BY <1>1, <1>2, <1>3, <1>4, <1>5 DEF Next

\* One token per object, and the one the directory yields: whatever Go clears
\* between operations, handles compare equal and are seen as host roots.
THEOREM TokensCanonical == Spec => []Canonical
<1>1. Init => DirectoryInvariant
  BY DEF Init, DirectoryInvariant, Canonical, HeldAlive
<1>2. DirectoryInvariant => Canonical
  BY DEF DirectoryInvariant
<1> QED BY <1>1, <1>2, DirectoryStep, PTL DEF Spec
=============================================================================
