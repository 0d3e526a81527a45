--------------------------- MODULE CollectorProofs ---------------------------
(***************************************************************************)
(* Proofs about Collector for every set of objects and every bound: types, *)
(* memory safety of the heap under collection, and the discipline of the   *)
(* servicing flag.                                                         *)
(***************************************************************************)
EXTENDS Collector, FiniteSetTheorems, SequenceTheorems, TLAPS

-----------------------------------------------------------------------------
(***************************************************************************)
(* The finalizer queue as a sequence.                                      *)
(***************************************************************************)

\* The elements of a suffix.
LEMMA SuffixElements ==
  ASSUME NEW S, NEW s \in Seq(S), NEW h \in 0 .. Len(s)
  PROVE  ToSet(SubSeq(s, h + 1, Len(s))) = {s[j] : j \in h + 1 .. Len(s)}
<1> DEFINE p == SubSeq(s, h + 1, Len(s))
<1>0. Len(s) \in Nat
  BY LenProperties
<1>1. /\ p \in Seq(S)
      /\ Len(p) = Len(s) - h
      /\ \A i \in 1 .. Len(p) : p[i] = s[h + i]
  BY SubSeqProperties
<1>2. DOMAIN p = 1 .. Len(p)
  BY <1>1, LenProperties
<1> HIDE DEF p
<1>3. ASSUME NEW i \in h + 1 .. Len(s) PROVE s[i] \in ToSet(p)
  <2>1. i - h \in 1 .. Len(p) /\ p[i - h] = s[i]
    BY <1>0, <1>1
  <2> QED BY <1>2, <2>1 DEF ToSet
<1>4. ASSUME NEW x \in ToSet(p) PROVE x \in {s[j] : j \in h + 1 .. Len(s)}
  <2>1. PICK i \in 1 .. Len(p) : x = p[i]
    BY <1>2 DEF ToSet
  <2>2. h + i \in h + 1 .. Len(s)
    BY <1>0, <1>1
  <2> QED BY <1>1, <2>1, <2>2
<1> QED BY <1>3, <1>4 DEF p

\* Pending is the unconsumed part of ledger.finalizers.
LEMMA PendingProperties ==
  ASSUME NEW S, finalizers \in Seq(S), finalizerHead \in 0 .. Len(finalizers)
  PROVE  /\ Pending \in Seq(S)
         /\ Len(Pending) = Len(finalizers) - finalizerHead
         /\ \A i \in 1 .. Len(Pending) : Pending[i] = finalizers[finalizerHead + i]
         /\ ToSet(Pending) =
              {finalizers[i] : i \in finalizerHead + 1 .. Len(finalizers)}
<1>1. /\ Pending \in Seq(S)
      /\ Len(Pending) = Len(finalizers) - finalizerHead
      /\ \A i \in 1 .. Len(Pending) : Pending[i] = finalizers[finalizerHead + i]
  BY SubSeqProperties DEF Pending
<1>2. ToSet(Pending) = {finalizers[i] : i \in finalizerHead + 1 .. Len(finalizers)}
  BY SuffixElements DEF Pending
<1> QED BY <1>1, <1>2

\* separateFinalizers draws its batch from a finite set of userdata.
LEMMA BatchIsSeq ==
  ASSUME NEW considered, considered \subseteq UserData,
         NEW batch \in [1 .. Cardinality((considered \ finalized) \cap hasGC) ->
                          (considered \ finalized) \cap hasGC]
  PROVE  /\ batch \in Seq((considered \ finalized) \cap hasGC)
         /\ batch \in Seq(UserData)
<1>1. IsFiniteSet((considered \ finalized) \cap hasGC)
  BY HeapAssumption, FS_Subset
<1>2. Cardinality((considered \ finalized) \cap hasGC) \in Nat
  BY <1>1, FS_CardinalityType
<1>3. batch \in Seq((considered \ finalized) \cap hasGC)
  BY <1>2, SeqDef
<1> QED BY <1>3, SeqMonotonic

-----------------------------------------------------------------------------
(***************************************************************************)
(* Types.                                                                  *)
(***************************************************************************)

\* The mutator and the host keep the heap well typed.
LEMMA HeapType ==
  ASSUME HeapTypeOK,
         (\E o \in Objects : New(o) \/ ForgetToken(o)) \/ Mutate
  PROVE  HeapTypeOK'
<1> USE HeapAssumption
<1>0. Main \in Objects
  BY DEF Objects
<1>1. ASSUME NEW x \in Objects, Bind(x)
      PROVE  /\ refs' \in [Objects -> SUBSET Objects]
             /\ frames' \in Seq(SUBSET Objects)
  <2>1. CASE frames = <<>>
    BY <1>0, <1>1, <2>1 DEF Bind, HeapTypeOK
  <2>2. CASE frames # <<>>
    <3>1. Len(frames) \in 1 .. Len(frames)
      BY <2>2, EmptySeq, LenProperties DEF HeapTypeOK
    <3>2. frames[Len(frames)] \in SUBSET Objects
      BY <3>1, ElementOfSeq DEF HeapTypeOK
    <3> QED BY <1>1, <2>2, <3>1, <3>2, ExceptSeq DEF Bind, HeapTypeOK
  <2> QED BY <2>1, <2>2
<1>2. ASSUME NEW o \in Objects, New(o) PROVE HeapTypeOK'
  <2>1. udata' \in Seq(UserData)
    BY <1>2, AppendProperties DEF New, HeapTypeOK
  <2> QED BY <1>1, <1>2, <2>1 DEF New, HeapTypeOK
<1>3. ASSUME NEW o \in Objects, ForgetToken(o) PROVE HeapTypeOK'
  BY <1>3 DEF ForgetToken, HeapTypeOK
<1>4. ASSUME NEW y \in Objects, NEW x \in Objects, Load(y, x) PROVE HeapTypeOK'
  BY <1>1, <1>4 DEF Load, HeapTypeOK
<1>5. ASSUME NEW y \in Objects, NEW x \in Objects, Drop(y, x) PROVE HeapTypeOK'
  <2>1. CASE x \in refs[y] /\ refs' = [refs EXCEPT ![y] = @ \ {x}]
             /\ UNCHANGED frames
    BY <1>5, <2>1 DEF Drop, HeapTypeOK
  <2>2. CASE /\ frames # <<>>
             /\ frames' = [frames EXCEPT ![Len(frames)] = @ \ {x}]
             /\ UNCHANGED refs
    <3>1. Len(frames) \in 1 .. Len(frames)
      BY <2>2, EmptySeq, LenProperties DEF HeapTypeOK
    <3>2. frames[Len(frames)] \in SUBSET Objects
      BY <3>1, ElementOfSeq DEF HeapTypeOK
    <3>3. frames' \in Seq(SUBSET Objects)
      BY <2>2, <3>1, <3>2, ExceptSeq DEF HeapTypeOK
    <3> QED BY <1>5, <2>2, <3>3 DEF Drop, HeapTypeOK
  <2> QED BY <1>5, <2>1, <2>2 DEF Drop
<1>6. ASSUME NEW y \in Objects, NEW x \in Objects, Store(y, x) PROVE HeapTypeOK'
  BY <1>6 DEF Store, HeapTypeOK
<1>7. ASSUME NEW t \in Tables, NEW k \in Keys, NEW v \in Values,
             SetEntry(t, k, v) \/ ClearEntry(t, <<k, v>>)
      PROVE  HeapTypeOK'
  BY <1>7 DEF SetEntry, ClearEntry, HeapTypeOK
<1>8. ASSUME NEW t \in Tables, NEW m \in Modes, SetMode(t, m) PROVE HeapTypeOK'
  BY <1>8 DEF SetMode, HeapTypeOK
<1>9. ASSUME NEW u \in UserData, NEW b \in BOOLEAN, SetGC(u, b) PROVE HeapTypeOK'
  BY <1>9 DEF SetGC, HeapTypeOK
<1>10. ASSUME NEW o \in Objects, Publish(o) PROVE HeapTypeOK'
  BY <1>10 DEF Publish, HeapTypeOK
<1> QED
  BY <1>2, <1>3, <1>4, <1>5, <1>6, <1>7, <1>8, <1>9, <1>10 DEF Mutate

\* The queue after separateFinalizers: older work, then the new batch.
LEMMA SeparateQueue ==
  ASSUME TypeOK, NEW considered, considered \subseteq UserData,
         SeparateFinalizers(considered)
  PROVE  /\ finalizers' \in Seq(UserData \cup {Nil})
         /\ finalizerHead' = 0
         /\ finalized \subseteq finalized' /\ finalized' \subseteq UserData
         /\ batches' \in Nat
         /\ queuedAt' \in [UserData -> Nat]
         /\ \A i \in 1 .. Len(finalizers') :
              \/ \E j \in finalizerHead + 1 .. Len(finalizers) :
                   finalizers'[i] = finalizers[j]
              \/ finalizers'[i] \in considered \cap finalized'
<1> DEFINE queued == (considered \ finalized) \cap hasGC
<1>1. PICK batch \in [1 .. Cardinality(queued) -> queued] :
        /\ finalized' = finalized \cup (considered \ finalized)
        /\ finalizers' = Pending \o batch
        /\ finalizerHead' = 0
        /\ queuedAt' = [u \in UserData |-> IF u \in queued THEN batches + 1
                                          ELSE queuedAt[u]]
        /\ batches' = batches + 1
  BY DEF SeparateFinalizers
<1>2. batch \in Seq(queued) /\ batch \in Seq(UserData \cup {Nil})
  <2>1. batch \in Seq(queued) /\ batch \in Seq(UserData)
    BY BatchIsSeq
  <2> QED BY <2>1, SeqMonotonic
<1>3. /\ Pending \in Seq(UserData \cup {Nil})
      /\ Len(Pending) = Len(finalizers) - finalizerHead
      /\ \A i \in 1 .. Len(Pending) : Pending[i] = finalizers[finalizerHead + i]
  BY PendingProperties DEF TypeOK
<1>4. /\ finalizers' \in Seq(UserData \cup {Nil})
      /\ Len(finalizers') = Len(Pending) + Len(batch)
      /\ \A i \in 1 .. Len(Pending) + Len(batch) :
           finalizers'[i] = IF i <= Len(Pending) THEN Pending[i]
                            ELSE batch[i - Len(Pending)]
  BY <1>1, <1>2, <1>3, ConcatProperties
<1>5. ASSUME NEW i \in 1 .. Len(finalizers')
      PROVE  \/ \E j \in finalizerHead + 1 .. Len(finalizers) :
                   finalizers'[i] = finalizers[j]
             \/ finalizers'[i] \in considered \cap finalized'
  <2>0. Len(Pending) \in Nat /\ Len(batch) \in Nat /\ Len(finalizers) \in Nat
        /\ finalizerHead \in Nat
    BY <1>2, <1>3, LenProperties DEF TypeOK
  <2>1. CASE i <= Len(Pending)
    <3>1. finalizers'[i] = finalizers[finalizerHead + i]
      BY <1>3, <1>4, <2>0, <2>1
    <3>2. finalizerHead + i \in finalizerHead + 1 .. Len(finalizers)
      BY <1>3, <2>0, <2>1
    <3> QED BY <3>1, <3>2
  <2>2. CASE ~(i <= Len(Pending))
    <3>1. i - Len(Pending) \in 1 .. Len(batch)
      BY <1>4, <2>0, <2>2
    <3>2. finalizers'[i] = batch[i - Len(Pending)]
      BY <1>4, <2>2
    <3>3. batch[i - Len(Pending)] \in queued
      BY <1>2, <3>1, ElementOfSeq
    <3> QED BY <1>1, <3>2, <3>3
  <2> QED BY <2>1, <2>2
<1>6. queuedAt' \in [UserData -> Nat] /\ batches' \in Nat
  BY <1>1 DEF TypeOK
<1>7. finalized \subseteq finalized' /\ finalized' \subseteq UserData
  BY <1>1 DEF TypeOK
<1> QED BY <1>1, <1>4, <1>5, <1>6, <1>7

\* The queue after takeFinalizer.
LEMMA TakeQueue ==
  ASSUME TypeOK, finalizerHead < Len(finalizers), TakeHead
  PROVE  /\ finalizers' \in Seq(UserData \cup {Nil})
         /\ finalizerHead' \in 0 .. Len(finalizers')
         /\ \A i \in 1 .. Len(finalizers') :
              IF i <= finalizerHead'
              THEN finalizers'[i] = IF i = finalizerHead + 1 THEN Nil
                                    ELSE finalizers[i]
              ELSE i > finalizerHead + 1 /\ i <= Len(finalizers)
                   /\ finalizers'[i] = finalizers[i]
<1>0. Len(finalizers) \in Nat /\ finalizerHead \in Nat
  BY LenProperties DEF TypeOK
<1>1. CASE finalizerHead + 1 = Len(finalizers)
  BY <1>1, EmptySeq DEF TakeHead
<1>2. CASE finalizerHead + 1 # Len(finalizers)
  <2>1. finalizerHead + 1 \in 1 .. Len(finalizers)
    BY <1>0
  <2>2. /\ finalizers' = [finalizers EXCEPT ![finalizerHead + 1] = Nil]
        /\ finalizerHead' = finalizerHead + 1
    BY <1>2 DEF TakeHead
  <2>3. /\ finalizers' \in Seq(UserData \cup {Nil})
        /\ Len(finalizers') = Len(finalizers)
        /\ \A i \in 1 .. Len(finalizers) :
             finalizers'[i] = IF i = finalizerHead + 1 THEN Nil ELSE finalizers[i]
    BY <2>1, <2>2, ExceptSeq, LenProperties DEF TypeOK
  <2> QED BY <1>0, <2>1, <2>2, <2>3
<1> QED BY <1>1, <1>2

\* Leaving a loop or a finalizer frame.
LEMMA FrontProperties ==
  ASSUME NEW S, NEW s \in Seq(S)
  PROVE  /\ Front(s) \in Seq(S)
         /\ s # <<>> => Len(Front(s)) = Len(s) - 1
         /\ s = <<>> => Front(s) = <<>>
         /\ \A i \in 1 .. Len(Front(s)) : i < Len(s) /\ Front(s)[i] = s[i]
<1>1. CASE s = <<>>
  BY <1>1, EmptySeq, SubSeqProperties DEF Front
<1>2. CASE s # <<>>
  <2>1. Len(s) \in Nat /\ Len(s) >= 1
    BY <1>2, EmptySeq, LenProperties
  <2>2. \A i \in 1 .. Len(s) - 1 : s[i] \in S
    BY <2>1, ElementOfSeq
  <2> DEFINE n == Len(s) - 1
  <2> HIDE DEF n
  <2>a. n \in Int /\ n = Len(s) - 1 /\ \A i \in 1 .. n : s[i] \in S
    BY <2>1, <2>2 DEF n
  <2>b. /\ SubSeq(s, 1, n) \in Seq(S)
        /\ Len(SubSeq(s, 1, n)) = IF 1 <= n THEN n - 1 + 1 ELSE 0
        /\ \A i \in 1 .. n - 1 + 1 : SubSeq(s, 1, n)[i] = s[1 + i - 1]
    BY <2>a, SubSeqProperties
  <2>c. Front(s) = SubSeq(s, 1, n)
    BY DEF Front, n
  <2>d. Len(Front(s)) = n
    BY <2>1, <2>a, <2>b, <2>c
  <2>e. ASSUME NEW i \in 1 .. n PROVE i < Len(s) /\ Front(s)[i] = s[i]
    <3>1. i \in 1 .. n - 1 + 1 /\ 1 + i - 1 = i
      BY <2>a
    <3>2. SubSeq(s, 1, n)[i] = s[1 + i - 1]
      BY <2>b, <3>1
    <3> QED BY <2>a, <2>1, <2>c, <3>1, <3>2
  <2> QED BY <1>2, <2>1, <2>a, <2>b, <2>c, <2>d, <2>e
<1> QED BY <1>1, <1>2

\* The finalizer whose turn it is, and the loop that calls it.
LEMMA TopProperties ==
  ASSUME TypeOK, loops # <<>>
  PROVE  Len(loops) \in 1 .. Len(loops) /\ Top \in Loop
<1>1. Len(loops) \in 1 .. Len(loops)
  BY EmptySeq, LenProperties DEF TypeOK
<1> QED BY <1>1, ElementOfSeq DEF TypeOK, Top

\* Raising or lowering the busy mark of the innermost loop, as taking a
\* finalizer and its return do, keeps the loops typed.
LEMMA SetBusy ==
  ASSUME TypeOK, loops # <<>>, NEW b \in BOOLEAN,
         loops' = [loops EXCEPT ![Len(loops)].busy = b]
  PROVE  /\ loops' \in Seq(Loop)
         /\ Len(loops') = Len(loops)
         /\ \A i \in 1 .. Len(loops) : loops'[i].by = loops[i].by
                                     /\ loops'[i].prev = loops[i].prev
<1>1. Len(loops) \in 1 .. Len(loops) /\ Top \in Loop
  BY TopProperties
<1>2. [Top EXCEPT !.busy = b] \in Loop
      /\ [Top EXCEPT !.busy = b].by = Top.by
      /\ [Top EXCEPT !.busy = b].prev = Top.prev
  BY <1>1 DEF Loop
<1>3. loops' = [loops EXCEPT ![Len(loops)] = [Top EXCEPT !.busy = b]]
  BY DEF Top
<1>4. /\ loops' \in Seq(Loop)
      /\ Len(loops') = Len(loops)
      /\ \A i \in 1 .. Len(loops) :
           loops'[i] = IF i = Len(loops) THEN [Top EXCEPT !.busy = b] ELSE loops[i]
  <2> DEFINE e == [Top EXCEPT !.busy = b]
  <2> HIDE DEF e
  <2>1. e \in Loop /\ loops \in Seq(Loop) /\ loops' = [loops EXCEPT ![Len(loops)] = e]
    BY <1>2, <1>3 DEF TypeOK, e
  <2>2. /\ [loops EXCEPT ![Len(loops)] = e] \in Seq(Loop)
        /\ Len([loops EXCEPT ![Len(loops)] = e]) = Len(loops)
        /\ \A i \in 1 .. Len(loops) :
             [loops EXCEPT ![Len(loops)] = e][i] = IF i = Len(loops) THEN e
                                                   ELSE loops[i]
    BY <1>1, <2>1, ExceptSeq
  <2> QED BY <2>1, <2>2 DEF e
<1> QED BY <1>1, <1>2, <1>4 DEF Top

\* The record a new loop saves.
LEMMA NewLoop ==
  ASSUME TypeOK, NEW by \in Callers \cup {"close"}
  PROVE  /\ [by |-> by, prev |-> servicing, busy |-> FALSE] \in Loop
         /\ Append(loops, [by |-> by, prev |-> servicing, busy |-> FALSE])
              \in Seq(Loop)
BY AppendProperties DEF TypeOK, Loop

\* Unconsumed slots hold userdata.
LEMMA PendingUserData ==
  ASSUME TypeOK, QueueValid
  PROVE  /\ ToSet(Pending) \subseteq UserData
         /\ \A i \in finalizerHead + 1 .. Len(finalizers) :
              finalizers[i] \in UserData
<1>1. ASSUME NEW i \in finalizerHead + 1 .. Len(finalizers)
      PROVE  finalizers[i] \in UserData
  <2>1. i \in DOMAIN finalizers /\ ~(i <= finalizerHead)
    BY LenProperties DEF TypeOK
  <2> QED BY <2>1 DEF QueueValid, TypeOK
<1>2. ToSet(Pending) =
        {finalizers[i] : i \in finalizerHead + 1 .. Len(finalizers)}
  BY PendingProperties DEF TypeOK
<1> QED BY <1>1, <1>2

\* Every mutator, collector, finalizer and Close step keeps the types and the
\* shape of the finalizer queue.
LEMMA TypeStep ==
  ASSUME TypeOK, QueueValid, [Next]_vars
  PROVE  TypeOK' /\ QueueValid'
<1> USE HeapAssumption, CollectorAssumption DEF Objects, Callers
<1>0. /\ Main \in Objects /\ UserData \subseteq Objects
      /\ HeapTypeOK
      /\ finalizers \in Seq(UserData \cup {Nil})
      /\ Len(finalizers) \in Nat
      /\ DOMAIN finalizers = 1 .. Len(finalizers)
  BY LenProperties DEF TypeOK
<1>q. ASSUME UNCHANGED <<finalizers, finalizerHead>>, finalized \subseteq finalized'
      PROVE  QueueValid'
  BY <1>q DEF QueueValid
<1>1. ASSUME NEW o \in Objects, Allocate(o) PROVE TypeOK' /\ QueueValid'
  <2>1. HeapTypeOK'
    BY <1>0, <1>1, HeapType DEF Allocate
  <2> QED BY <1>1, <1>q, <2>1
    DEF Allocate, Charge, TypeOK, queueVars, cycleVars, histVars
<1>2. ASSUME NEW o \in Objects, GoForgets(o) PROVE TypeOK' /\ QueueValid'
  <2>1. HeapTypeOK'
    BY <1>0, <1>2, HeapType DEF GoForgets
  <2> QED BY <1>2, <1>q, <2>1
    DEF GoForgets, TypeOK, queueVars, controlVars, cycleVars, histVars
<1>3. CASE MutatorStep
  <2>1. HeapTypeOK'
    BY <1>0, <1>3, HeapType DEF MutatorStep
  <2>2. requested' \in BOOLEAN
    BY <1>3, Zenon DEF MutatorStep, Charge, TypeOK
  <2> QED BY <1>3, <1>q, <2>1, <2>2
    DEF MutatorStep, TypeOK, queueVars, cycleVars, histVars
<1>h. ASSUME UNCHANGED heapVars PROVE HeapTypeOK'
  BY <1>0, <1>h DEF heapVars, HeapTypeOK
<1>4. CASE EnterOrLeave \/ StopGC \/ RestartGC \/ MeasureStopped
  <2>1. CASE EnterOrLeave
    <3>1. running' \in BOOLEAN
      BY <2>1, Zenon DEF EnterOrLeave
    <3> QED BY <2>1, <3>1, <1>q, <1>h
      DEF EnterOrLeave, TypeOK, queueVars, controlVars, cycleVars, histVars
  <2>2. CASE StopGC
    BY <2>2, <1>q, <1>h DEF StopGC, TypeOK, queueVars, cycleVars, histVars
  <2>3. CASE RestartGC
    BY <2>3, <1>q, <1>h DEF RestartGC, TypeOK, queueVars, cycleVars, histVars
  <2>4. CASE MeasureStopped
    BY <2>4, <1>q, <1>h DEF MeasureStopped, TypeOK, queueVars, cycleVars, histVars
  <2> QED BY <1>4, <2>1, <2>2, <2>3, <2>4
<1>5. CASE HostCollect \/ FrameCollect \/ AutomaticCollect
  <2>1. ASSUME NEW by \in Callers, BeginCycle(by),
               stopped' \in BOOLEAN, servicing' \in BOOLEAN
        PROVE  TypeOK' /\ QueueValid'
    <3>1. HeapTypeOK' /\ QueueValid'
      BY <2>1, <1>q, <1>h DEF BeginCycle, queueVars
    <3> QED BY <2>1, <3>1 DEF BeginCycle, TypeOK, queueVars, histVars
  <2>2. CASE HostCollect
    BY <2>1, <2>2 DEF HostCollect, TypeOK
  <2>3. CASE FrameCollect
    BY <2>1, <2>3 DEF FrameCollect, TypeOK
  <2>4. CASE AutomaticCollect
    BY <2>1, <2>4 DEF AutomaticCollect, TypeOK
  <2> QED BY <1>5, <2>2, <2>3, <2>4
<1>6. CASE MarkRoots
  <2>1. Registers \subseteq Objects
    BY <1>0, LenProperties, ElementOfSeq DEF Registers, HeapTypeOK
  <2> QED BY <1>0, <1>6, <1>q, <1>h, <2>1
    DEF MarkRoots, TypeOK, queueVars, controlVars, histVars
<1>7. CASE MarkHosts
  BY <1>7, <1>q, <1>h, <1>0
    DEF MarkHosts, TypeOK, HeapTypeOK, queueVars, controlVars, histVars
<1>8. ASSUME NEW o \in Objects, Trace(o) PROVE TypeOK' /\ QueueValid'
  <2>1. Traced(o) \subseteq Objects
    BY <1>0 DEF Traced, HeapTypeOK
  <2> QED BY <1>8, <1>q, <1>h, <2>1
    DEF Trace, TypeOK, queueVars, controlVars, histVars
<1>s. ASSUME NEW considered, considered \subseteq UserData,
             SeparateFinalizers(considered)
      PROVE  /\ finalizers' \in Seq(UserData \cup {Nil})
             /\ finalizerHead' \in 0 .. Len(finalizers')
             /\ finalized' \subseteq UserData
             /\ batches' \in Nat
             /\ queuedAt' \in [UserData -> Nat]
             /\ QueueValid'
  <2>1. /\ finalizers' \in Seq(UserData \cup {Nil})
        /\ finalizerHead' = 0
        /\ finalized \subseteq finalized' /\ finalized' \subseteq UserData
        /\ batches' \in Nat
        /\ queuedAt' \in [UserData -> Nat]
        /\ \A i \in 1 .. Len(finalizers') :
             \/ \E j \in finalizerHead + 1 .. Len(finalizers) :
                  finalizers'[i] = finalizers[j]
             \/ finalizers'[i] \in considered \cap finalized'
    BY <1>s, SeparateQueue
  <2>2. Len(finalizers') \in Nat /\ DOMAIN finalizers' = 1 .. Len(finalizers')
    BY <2>1, LenProperties
  <2>3. ASSUME NEW j \in finalizerHead + 1 .. Len(finalizers)
        PROVE  finalizers[j] \in finalized
    <3>1. finalizerHead \in Nat
      BY <1>0 DEF TypeOK
    <3>2. j \in DOMAIN finalizers /\ ~(j <= finalizerHead)
      BY <1>0, <3>1
    <3> QED BY <3>2 DEF QueueValid
  <2>4. ASSUME NEW i \in 1 .. Len(finalizers')
        PROVE  ~(i <= finalizerHead') /\ finalizers'[i] \in finalized'
    BY <2>1, <2>3
  <2>5. QueueValid'
    BY <2>2, <2>4 DEF QueueValid
  <2> QED BY <2>1, <2>2, <2>5
<1>9. CASE Separate
  BY <1>9, <1>s, <1>h DEF Separate, TypeOK, controlVars
<1>10. CASE MarkPending
  BY <1>10, <1>0, <1>q, <1>h, PendingUserData
    DEF MarkPending, TypeOK, queueVars, controlVars, histVars
<1>11. CASE ClearWeakTables
  <2>1. HeapTypeOK'
    BY <1>0, <1>11 DEF ClearWeakTables, HeapTypeOK
  <2> QED BY <1>11, <1>q, <2>1
    DEF ClearWeakTables, TypeOK, queueVars, controlVars, histVars
<1>12. CASE Sweep
  <2>1. HeapTypeOK'
    BY <1>0, <1>12 DEF Sweep, HeapTypeOK, Modes
  <2> QED BY <1>12, <1>q, <2>1
    DEF Sweep, TypeOK, queueVars, controlVars, histVars
<1>13. CASE Settle
  <2>1. loops' \in Seq(Loop)
    BY <1>13, NewLoop DEF Settle, TypeOK
  <2> QED BY <1>13, <1>q, <1>h, <2>1
    DEF Settle, TypeOK, queueVars, histVars
<1>14. CASE TakeFinalizer
  <2> DEFINE u == finalizers[finalizerHead + 1]
  <2>1. loops # <<>> /\ finalizerHead < Len(finalizers) /\ TakeHead
    BY <1>14 DEF TakeFinalizer, LoopTurn
  <2>2. /\ finalizers' \in Seq(UserData \cup {Nil})
        /\ finalizerHead' \in 0 .. Len(finalizers')
        /\ \A i \in 1 .. Len(finalizers') :
             IF i <= finalizerHead'
             THEN finalizers'[i] = IF i = finalizerHead + 1 THEN Nil
                                   ELSE finalizers[i]
             ELSE i > finalizerHead + 1 /\ i <= Len(finalizers)
                  /\ finalizers'[i] = finalizers[i]
    BY <2>1, TakeQueue
  <2>3. u \in UserData
    BY <1>0, <2>1, PendingUserData DEF TypeOK
  <2>4. loops' \in Seq(Loop)
    BY <1>14, <2>1, SetBusy DEF TakeFinalizer, TypeOK
  <2>5. frames' \in Seq(SUBSET Objects)
    <3>1. frames \in Seq(SUBSET Objects) /\ {u} \in SUBSET Objects
      BY <1>0, <2>3 DEF HeapTypeOK
    <3>2. Append(frames, {u}) \in Seq(SUBSET Objects)
      BY <3>1, AppendProperties
    <3> QED BY <1>14, <3>1, <3>2 DEF TakeFinalizer
  <2>6. taken' \in [UserData -> Nat]
    BY <1>14, <2>3 DEF TakeFinalizer, TypeOK
  <2>7. HeapTypeOK'
    BY <1>14, <1>0, <2>5 DEF TakeFinalizer, HeapTypeOK
  <2>8. QueueValid'
    <3>1. finalizerHead' \in {0, finalizerHead + 1} /\ UNCHANGED finalized
          /\ (finalizerHead' = 0 => finalizers' = <<>>)
      BY <1>14, <1>0 DEF TakeFinalizer, TakeHead, TypeOK
    <3>2. DOMAIN finalizers' = 1 .. Len(finalizers') /\ Len(finalizers') \in Nat
      BY <2>2, LenProperties
    <3>3. ASSUME NEW i \in 1 .. Len(finalizers')
          PROVE  IF i <= finalizerHead' THEN finalizers'[i] = Nil
                 ELSE finalizers'[i] \in finalized'
      <4>1. CASE i <= finalizerHead'
        <5>1. CASE i = finalizerHead + 1
          BY <2>2, <4>1, <5>1
        <5>2. CASE i # finalizerHead + 1
          <6>1. i <= finalizerHead /\ i \in DOMAIN finalizers
            BY <1>0, <3>1, <3>2, <4>1, <5>2 DEF TypeOK
          <6> QED BY <2>2, <4>1, <5>2, <6>1 DEF QueueValid
        <5> QED BY <5>1, <5>2
      <4>2. CASE ~(i <= finalizerHead')
        <5>1. i \in DOMAIN finalizers /\ ~(i <= finalizerHead)
              /\ finalizers'[i] = finalizers[i]
          BY <1>0, <2>2, <4>2 DEF TypeOK
        <5> QED BY <3>1, <4>2, <5>1 DEF QueueValid
      <4> QED BY <4>1, <4>2
    <3> QED BY <3>2, <3>3 DEF QueueValid
  <2> QED BY <1>14, <2>2, <2>4, <2>6, <2>7, <2>8
    DEF TakeFinalizer, TypeOK, controlVars, cycleVars
<1>f. /\ Front(loops) \in Seq(Loop)
      /\ Front(frames) \in Seq(SUBSET Objects)
  BY <1>0, FrontProperties DEF TypeOK, HeapTypeOK
<1>a. ASSUME NEW loop \in Loop PROVE ServicingAfter(loop) \in BOOLEAN
  BY DEF ServicingAfter, Loop
<1>15. CASE FinishLoop
  <2>1. ServicingAfter(Top) \in BOOLEAN
    BY <1>15, <1>a, TopProperties DEF FinishLoop, LoopTurn
  <2> QED BY <1>15, <1>f, <1>q, <1>h, <2>1
    DEF FinishLoop, TypeOK, queueVars, cycleVars, histVars
<1>16. CASE FinishClose
  <2>1. HeapTypeOK'
    BY <1>0, <1>16 DEF FinishClose, HeapTypeOK
  <2>2. QueueValid'
    BY <1>16 DEF FinishClose, QueueValid
  <2>3. finalizers' \in Seq(UserData \cup {Nil}) /\ loops' \in Seq(Loop)
        /\ finalizerHead' \in 0 .. Len(finalizers')
    BY <1>16 DEF FinishClose
  <2> QED BY <1>16, <2>1, <2>2, <2>3
    DEF FinishClose, TypeOK, cycleVars, histVars
<1>17. CASE FinalizerReturns
  <2>1. loops' \in Seq(Loop)
    BY <1>17, SetBusy DEF FinalizerReturns, InFinalizer
  <2>2. HeapTypeOK'
    BY <1>17, <1>0, <1>f DEF FinalizerReturns, HeapTypeOK
  <2> QED BY <1>17, <1>q, <2>1, <2>2
    DEF FinalizerReturns, TypeOK, queueVars, cycleVars, histVars
<1>18. CASE FinalizerFails
  <2>1. loops' \in Seq(Loop)
    BY <1>18, <1>f, SetBusy DEF FinalizerFails, InFinalizer
  <2>2. HeapTypeOK'
    BY <1>18, <1>0, <1>f DEF FinalizerFails, HeapTypeOK
  <2>3. servicing' \in BOOLEAN
    BY <1>18, <1>a, TopProperties DEF FinalizerFails, InFinalizer, TypeOK
  <2> QED BY <1>18, <1>q, <2>1, <2>2, <2>3
    DEF FinalizerFails, TypeOK, queueVars, cycleVars, histVars
<1>19. CASE BeginClose
  <2>1. [by |-> "close", prev |-> servicing, busy |-> FALSE] \in Loop
    BY NewLoop
  <2>2. loops' \in Seq(Loop)
    BY <1>19, <2>1 DEF BeginClose
  <2> QED BY <1>19, <1>s, <1>h, <2>2 DEF BeginClose, TypeOK, cycleVars
<1>20. CASE UNCHANGED vars
  BY <1>20, <1>q, <1>h
    DEF vars, TypeOK, queueVars, controlVars, cycleVars, histVars
<1> QED
  BY <1>1, <1>2, <1>3, <1>4, <1>5, <1>6, <1>7, <1>8, <1>9, <1>10, <1>11,
     <1>12, <1>13, <1>14, <1>15, <1>16, <1>17, <1>18, <1>19, <1>20
    DEF Next, CycleStep, LoopStep

\* A new State is typed and its finalizer queue is empty.
LEMMA TypeInit ==
  ASSUME Init PROVE TypeOK /\ QueueValid
<1>1. HeapTypeOK
  BY HeapAssumption, EmptySeq DEF Init, HeapInit, HeapTypeOK, Objects, Modes
<1>2. /\ finalizers \in Seq(UserData \cup {Nil})
      /\ finalizerHead \in 0 .. Len(finalizers)
      /\ loops \in Seq(Loop)
      /\ QueueValid
  BY EmptySeq DEF Init, QueueValid
<1> QED BY <1>1, <1>2 DEF Init, TypeOK, Callers

\* Every state is well typed and every slot of the finalizer queue holds what
\* takeFinalizer and validateCollectionLedger expect.
THEOREM TypesAndQueue == Spec => [](TypeOK /\ QueueValid)
<1>1. Init => TypeOK /\ QueueValid
  BY TypeInit
<1>2. (TypeOK /\ QueueValid) /\ [Next]_vars => (TypeOK /\ QueueValid)'
  BY TypeStep
<1> QED BY <1>1, <1>2, PTL DEF Spec

-----------------------------------------------------------------------------
(***************************************************************************)
(* The servicing flag.                                                     *)
(***************************************************************************)

\* The flag with what makes its save and restore inductive.
FlagInvariant == ServicingTracksLoops /\ LoopsRestoreServicing

\* Every step keeps the servicing flag in agreement with the loops and the
\* automatic cycle.
LEMMA FlagStep ==
  ASSUME TypeOK, FlagInvariant, [Next]_vars
  PROVE  FlagInvariant'
<1> USE DEF FlagInvariant
<1>0. /\ loops \in Seq(Loop) /\ Len(loops) \in Nat
      /\ DOMAIN loops = 1 .. Len(loops)
  BY LenProperties DEF TypeOK
<1>1. ASSUME UNCHANGED <<servicing, loops>>,
             step' = "run" <=> step = "run", caller' = caller
      PROVE  FlagInvariant'
  BY <1>1 DEF ServicingTracksLoops, LoopsRestoreServicing
<1>2. CASE \/ \E o \in Objects : Allocate(o) \/ GoForgets(o)
           \/ MutatorStep \/ EnterOrLeave \/ StopGC \/ RestartGC \/ MeasureStopped
  BY <1>1, <1>2 DEF Allocate, GoForgets, MutatorStep, EnterOrLeave, StopGC,
    RestartGC, MeasureStopped, controlVars, cycleVars
<1>3. CASE \/ MarkRoots \/ MarkHosts \/ \E o \in Objects : Trace(o)
           \/ Separate \/ MarkPending \/ ClearWeakTables \/ Sweep
  <2>1. step # "run" /\ step' # "run" /\ UNCHANGED <<servicing, loops, caller>>
    BY <1>3 DEF MarkRoots, MarkHosts, Trace, Separate, MarkPending,
      ClearWeakTables, Sweep, controlVars
  <2> QED BY <1>1, <2>1
<1>4. CASE HostCollect \/ FrameCollect
  <2>1. step = "run" /\ step' # "run" /\ caller' # "auto"
        /\ UNCHANGED <<servicing, loops>>
    BY <1>4 DEF HostCollect, FrameCollect, BeginCycle, MutatorTurn
  <2> QED BY <2>1 DEF ServicingTracksLoops, LoopsRestoreServicing
<1>5. CASE AutomaticCollect
  <2>1. /\ step = "run" /\ step' # "run" /\ caller' = "auto"
        /\ servicing' /\ ~servicing /\ UNCHANGED loops
    BY <1>5 DEF AutomaticCollect, BeginCycle, MutatorTurn, Runnable
  <2> QED BY <2>1 DEF ServicingTracksLoops, LoopsRestoreServicing
<1>6. CASE Settle
  <2>1. step # "run" /\ step' = "run" /\ caller' = caller
    BY <1>6 DEF Settle
  <2>2. CASE servicing' = FALSE /\ caller = "auto" /\ UNCHANGED loops
    BY <2>1, <2>2 DEF ServicingTracksLoops, LoopsRestoreServicing
  <2>3. CASE servicing' = TRUE /\ loops' = Append(loops, [by |-> caller,
                                       prev |-> servicing, busy |-> FALSE])
    <3> DEFINE r == [by |-> caller, prev |-> servicing, busy |-> FALSE]
    <3>1. r \in Loop
      BY NewLoop DEF TypeOK
    <3>2. /\ loops' \in Seq(Loop)
          /\ Len(loops') = Len(loops) + 1
          /\ \A i \in 1 .. Len(loops) : loops'[i] = loops[i]
          /\ loops'[Len(loops) + 1] = r
      BY <1>0, <2>3, <3>1, AppendProperties
    <3>3. ServicingAfter(r) = (Len(loops) + 1 > 1)
      <4>1. CASE caller = "auto"
        <5>1. loops = <<>> /\ Len(loops) = 0
          BY <2>1, <4>1, EmptySeq DEF LoopsRestoreServicing
        <5>2. ServicingAfter(r) = FALSE
          BY <4>1 DEF ServicingAfter
        <5>3. (Len(loops) + 1 > 1) = FALSE
          BY <5>1
        <5> QED BY <5>2, <5>3
      <4>2. CASE caller # "auto"
        <5>1. ServicingAfter(r) = servicing
          BY <4>2 DEF ServicingAfter
        <5>2. servicing <=> loops # <<>>
          BY <2>1, <4>2 DEF ServicingTracksLoops
        <5>3. loops # <<>> <=> Len(loops) + 1 > 1
          BY <1>0, EmptySeq
        <5>4. servicing \in BOOLEAN
          BY DEF TypeOK
        <5> QED BY <5>1, <5>2, <5>3, <5>4
      <4> QED BY <4>1, <4>2
    <3>4. DOMAIN loops' = 1 .. Len(loops) + 1
      BY <3>2, LenProperties
    <3>5. ASSUME NEW i \in DOMAIN loops' PROVE ServicingAfter(loops'[i]) = (i > 1)
      <4>1. CASE i \in 1 .. Len(loops)
        BY <1>0, <3>2, <4>1 DEF LoopsRestoreServicing
      <4>2. CASE i = Len(loops) + 1
        BY <3>2, <3>3, <4>2
      <4> QED BY <1>0, <3>4, <4>1, <4>2
    <3>6. loops' # <<>>
      BY <1>0, <3>2, EmptySeq
    <3> QED BY <2>1, <2>3, <3>5, <3>6
      DEF ServicingTracksLoops, LoopsRestoreServicing
  <2> QED BY <1>6, <2>2, <2>3 DEF Settle
<1>7. ASSUME loops # <<>>, step = "run", UNCHANGED <<step, servicing>>,
             Len(loops') = Len(loops), loops' \in Seq(Loop),
             \A i \in 1 .. Len(loops) : loops'[i].by = loops[i].by
                                      /\ loops'[i].prev = loops[i].prev
      PROVE  FlagInvariant'
  <2>1. DOMAIN loops' = DOMAIN loops /\ loops' # <<>>
    BY <1>0, <1>7, EmptySeq, LenProperties
  <2>2. \A i \in DOMAIN loops : ServicingAfter(loops'[i]) = ServicingAfter(loops[i])
    BY <1>0, <1>7 DEF ServicingAfter
  <2> QED BY <1>7, <2>1, <2>2 DEF ServicingTracksLoops, LoopsRestoreServicing
<1>8. ASSUME loops # <<>>, step = "run", UNCHANGED step,
             loops' = Front(loops), servicing' = ServicingAfter(Top)
      PROVE  FlagInvariant'
  <2>1. /\ Front(loops) \in Seq(Loop) /\ Len(Front(loops)) = Len(loops) - 1
        /\ \A i \in 1 .. Len(Front(loops)) : i < Len(loops)
                                           /\ Front(loops)[i] = loops[i]
    BY <1>0, <1>8, FrontProperties
  <2>2. Len(loops) \in 1 .. Len(loops)
    BY <1>8, TopProperties
  <2>3. servicing' = (Len(loops) > 1)
    BY <1>0, <1>8, <2>2 DEF LoopsRestoreServicing, Top
  <2>4. loops' # <<>> <=> Len(loops) > 1
    BY <1>8, <2>1, <2>2, EmptySeq
  <2>5. ASSUME NEW i \in DOMAIN loops' PROVE ServicingAfter(loops'[i]) = (i > 1)
    <3>1. i \in 1 .. Len(Front(loops))
      BY <1>8, <2>1, LenProperties
    <3>2. i \in DOMAIN loops /\ loops'[i] = loops[i]
      BY <1>0, <1>8, <2>1, <3>1
    <3> QED BY <3>2 DEF LoopsRestoreServicing
  <2> QED BY <1>8, <2>3, <2>4, <2>5
    DEF ServicingTracksLoops, LoopsRestoreServicing
<1>9. CASE TakeFinalizer
  <2>1. step = "run" /\ loops # <<>> /\ UNCHANGED <<step, caller, servicing>>
    BY <1>9 DEF TakeFinalizer, LoopTurn, cycleVars, controlVars
  <2>2. CASE loops' = [loops EXCEPT ![Len(loops)].busy = TRUE]
    BY <1>7, <2>1, <2>2, SetBusy
  <2>3. CASE UNCHANGED loops
    BY <1>1, <2>1, <2>3
  <2> QED BY <1>9, <2>2, <2>3 DEF TakeFinalizer
<1>10. CASE FinishLoop
  BY <1>8, <1>10 DEF FinishLoop, LoopTurn, cycleVars
<1>11. CASE FinalizerReturns
  BY <1>7, <1>11, SetBusy DEF FinalizerReturns, InFinalizer, cycleVars
<1>12. CASE FinalizerFails
  <2>1. step = "run" /\ loops # <<>> /\ UNCHANGED step
    BY <1>12 DEF FinalizerFails, InFinalizer, cycleVars
  <2>2. CASE Top.by = "close"
    BY <1>7, <1>12, <2>1, <2>2, SetBusy DEF FinalizerFails
  <2>3. CASE Top.by # "close"
    BY <1>8, <1>12, <2>1, <2>3 DEF FinalizerFails
  <2> QED BY <2>2, <2>3
<1>13. CASE FinishClose
  BY <1>13 DEF FinishClose, LoopTurn, cycleVars, ServicingTracksLoops,
    LoopsRestoreServicing
<1>14. CASE BeginClose
  <2>1. step = "run" /\ loops = <<>> /\ UNCHANGED step /\ servicing' = TRUE
        /\ loops' = <<[by |-> "close", prev |-> servicing, busy |-> FALSE]>>
    BY <1>14 DEF BeginClose, cycleVars
  <2>2. ~servicing /\ servicing \in BOOLEAN
    BY <2>1 DEF ServicingTracksLoops, TypeOK
  <2>3. /\ DOMAIN loops' = {1} /\ loops' # <<>>
        /\ loops'[1] = [by |-> "close", prev |-> servicing, busy |-> FALSE]
    BY <2>1
  <2>4. ServicingAfter(loops'[1]) = servicing
    BY <2>3 DEF ServicingAfter
  <2>5. ASSUME NEW i \in DOMAIN loops'
        PROVE  ServicingAfter(loops'[i]) = (i > 1)
    <3>1. i = 1 /\ ~(i > 1)
      BY <2>3
    <3> QED BY <2>2, <2>4, <3>1
  <2> QED BY <2>1, <2>3, <2>5 DEF ServicingTracksLoops, LoopsRestoreServicing
<1>15. CASE UNCHANGED vars
  BY <1>1, <1>15 DEF vars, controlVars, cycleVars
<1> QED
  BY <1>2, <1>3, <1>4, <1>5, <1>6, <1>9, <1>10, <1>11, <1>12, <1>13, <1>14, <1>15
    DEF Next, CycleStep, LoopStep

\* However finalizer loops nest and however they end, the servicing flag is up
\* exactly while an automatic cycle or a loop is active: automatic collection
\* neither reenters a batch nor stays disabled afterwards.
THEOREM ServicingFlag == Spec => []ServicingTracksLoops
<1>1. Init => FlagInvariant
  BY DEF Init, FlagInvariant, ServicingTracksLoops, LoopsRestoreServicing
<1>2. TypeOK /\ FlagInvariant /\ [Next]_vars => FlagInvariant'
  BY FlagStep
<1>3. FlagInvariant => ServicingTracksLoops
  BY DEF FlagInvariant
<1> QED BY <1>1, <1>2, <1>3, TypesAndQueue, PTL DEF Spec

-----------------------------------------------------------------------------
(***************************************************************************)
(* Memory safety.                                                          *)
(***************************************************************************)

\* The inductive invariant of memory safety: a sweep is safe because marking
\* was complete, and marking is sound because swept objects hold nothing.
HeapInvariant == NoDangling /\ UnregisteredEmpty /\ MarkingInvariant

\* Running code can name registered objects only.
LEMMA HeldLive ==
  ASSUME TypeOK, NoDangling
  PROVE  Held \subseteq live /\ Main \in live
<1>1. refs[Main] \subseteq live /\ Main \in live
  BY DEF NoDangling, Contents
<1>2. ASSUME frames # <<>> PROVE frames[Len(frames)] \subseteq live
  <2>1. Len(frames) \in DOMAIN frames
    BY <1>2, EmptySeq, LenProperties DEF TypeOK, HeapTypeOK
  <2> QED BY <2>1 DEF NoDangling, Registers
<1> QED BY <1>1, <1>2 DEF Held, NoDangling

\* What binding a registered object adds.
LEMMA BindLive ==
  ASSUME TypeOK, NEW x \in Objects, Bind(x), Main \in Objects
  PROVE  /\ Registers' \subseteq Registers \cup {x}
         /\ \A o \in Objects : refs'[o] \subseteq refs[o] \cup {x}
         /\ \A o \in Objects \ {Main} : refs'[o] = refs[o]
<1>1. CASE frames = <<>>
  BY <1>1 DEF Bind, Registers, TypeOK, HeapTypeOK
<1>2. CASE frames # <<>>
  <2>1. frames \in Seq(SUBSET Objects) /\ Len(frames) \in 1 .. Len(frames)
    BY <1>2, EmptySeq, LenProperties DEF TypeOK, HeapTypeOK
  <2>2. frames' = [frames EXCEPT ![Len(frames)] = @ \cup {x}] /\ UNCHANGED refs
    BY <1>2 DEF Bind
  <2>3. DOMAIN frames' = DOMAIN frames
        /\ \A i \in DOMAIN frames : frames'[i] \subseteq frames[i] \cup {x}
    BY <2>2
  <2>4. Registers' \subseteq Registers \cup {x}
    BY <2>3 DEF Registers
  <2> QED BY <2>2, <2>4
<1> QED BY <1>1, <1>2

\* The mutator and the host keep the heap closed.
LEMMA HeapClosed ==
  ASSUME TypeOK, NoDangling, UnregisteredEmpty,
         (\E o \in Objects : New(o)) \/ Mutate,
         UNCHANGED <<finalizers, finalizerHead>>
  PROVE  NoDangling' /\ UnregisteredEmpty'
<1> USE HeapAssumption
<1>0. /\ Main \in Objects /\ Held \subseteq live /\ Main \in live
      /\ live \subseteq Objects /\ Tables \subseteq Objects
      /\ refs \in [Objects -> SUBSET Objects]
      /\ entries \in [Tables -> SUBSET (Keys \X Values)]
  BY HeldLive DEF Objects, TypeOK, HeapTypeOK
<1>p. Pending' = Pending
  BY DEF Pending
<1>1. ASSUME NEW o \in Objects, New(o) PROVE NoDangling' /\ UnregisteredEmpty'
  <2>1. /\ Registers' \subseteq Registers \cup {o}
        /\ \A p \in Objects : refs'[p] \subseteq refs[p] \cup {o}
        /\ \A p \in Objects \ {Main} : refs'[p] = refs[p]
    BY <1>0, <1>1, BindLive DEF New
  <2>2. live' = live \cup {o} /\ UNCHANGED <<entries, tokens>>
    BY <1>1 DEF New
  <2>3. ASSUME NEW p \in live' PROVE Contents(p)' \subseteq live'
    <3>1. Contents(p)' \subseteq Contents(p) \cup {o}
      BY <1>0, <2>1, <2>2 DEF Contents, Stored
    <3>2. Contents(p) \subseteq live
      BY <1>0, <2>2 DEF NoDangling, UnregisteredEmpty
    <3> QED BY <2>2, <3>1, <3>2
  <2>4. ASSUME NEW p \in Objects \ live' PROVE Contents(p)' = {}
    BY <1>0, <2>1, <2>2 DEF UnregisteredEmpty, Contents, Stored
  <2> QED BY <1>p, <2>1, <2>2, <2>3, <2>4 DEF NoDangling, UnregisteredEmpty
<1>2. ASSUME NEW y \in Objects, NEW x \in Objects, Load(y, x)
      PROVE  NoDangling' /\ UnregisteredEmpty'
  <2>1. /\ Registers' \subseteq Registers \cup {x}
        /\ \A p \in Objects : refs'[p] \subseteq refs[p] \cup {x}
        /\ \A p \in Objects \ {Main} : refs'[p] = refs[p]
    BY <1>0, <1>2, BindLive DEF Load
  <2>2. x \in live
    BY <1>0, <1>2 DEF Load, NoDangling
  <2>3. UNCHANGED <<live, entries, tokens>>
    BY <1>2 DEF Load
  <2>4. \A p \in Objects : Contents(p)' \subseteq Contents(p) \cup {x}
    BY <2>1, <2>3 DEF Contents, Stored
  <2>5. \A p \in Objects \ {Main} : Contents(p)' = Contents(p)
    BY <2>1, <2>3 DEF Contents, Stored
  <2> QED BY <1>0, <1>p, <2>1, <2>2, <2>3, <2>4, <2>5
    DEF NoDangling, UnregisteredEmpty
<1>3. ASSUME NEW y \in Objects, NEW x \in Objects, Drop(y, x)
      PROVE  NoDangling' /\ UnregisteredEmpty'
  <2>1. UNCHANGED <<live, entries, tokens>>
    BY <1>3 DEF Drop
  <2>2. \A p \in Objects : refs'[p] \subseteq refs[p]
    BY <1>0, <1>3 DEF Drop
  <2>3. Registers' \subseteq Registers
    <3>1. CASE UNCHANGED frames
      BY <3>1 DEF Registers
    <3>2. CASE /\ frames # <<>>
               /\ frames' = [frames EXCEPT ![Len(frames)] = @ \ {x}]
      <4>1. DOMAIN frames' = DOMAIN frames
            /\ \A i \in DOMAIN frames : frames'[i] \subseteq frames[i]
        BY <3>2 DEF TypeOK, HeapTypeOK
      <4> QED BY <4>1 DEF Registers
    <3> QED BY <1>3, <3>1, <3>2 DEF Drop
  <2>4. \A p \in Objects : Contents(p)' \subseteq Contents(p)
    BY <2>1, <2>2 DEF Contents, Stored
  <2> QED BY <1>0, <1>p, <2>1, <2>3, <2>4 DEF NoDangling, UnregisteredEmpty
<1>4. ASSUME NEW y \in live, NEW x \in live, UNCHANGED <<live, entries, tokens, frames>>,
             refs' \in [Objects -> SUBSET Objects],
             refs'[y] \subseteq refs[y] \cup {x},
             \A p \in Objects \ {y} : refs'[p] = refs[p]
      PROVE  NoDangling' /\ UnregisteredEmpty'
  <2>1. Contents(y)' \subseteq Contents(y) \cup {x}
    BY <1>4 DEF Contents, Stored
  <2>2. \A p \in Objects \ {y} : Contents(p)' = Contents(p)
    BY <1>4 DEF Contents, Stored
  <2> QED BY <1>0, <1>p, <1>4, <2>1, <2>2
    DEF NoDangling, UnregisteredEmpty, Registers
<1>5. ASSUME NEW y \in Objects, NEW x \in Objects, Store(y, x)
      PROVE  NoDangling' /\ UnregisteredEmpty'
  <2>1. y \in live /\ x \in live
    BY <1>0, <1>5 DEF Store
  <2>2. /\ UNCHANGED <<live, entries, tokens, frames>>
        /\ refs' \in [Objects -> SUBSET Objects]
        /\ refs'[y] \subseteq refs[y] \cup {x}
        /\ \A p \in Objects \ {y} : refs'[p] = refs[p]
    BY <1>0, <1>5 DEF Store
  <2> QED BY <1>4, <2>1, <2>2
<1>6. ASSUME NEW t \in Tables, NEW k \in Keys, NEW v \in Values,
             SetEntry(t, k, v) \/ ClearEntry(t, <<k, v>>)
      PROVE  NoDangling' /\ UnregisteredEmpty'
  <2>1. UNCHANGED <<live, refs, tokens, frames>>
    BY <1>6 DEF SetEntry, ClearEntry
  <2>2. /\ t \in live
        /\ \/ {k, v} \cap Objects \subseteq live
           \/ entries'[t] \subseteq entries[t]
    <3>1. CASE SetEntry(t, k, v)
      <4>1. t \in Held /\ k \in Held \cup {Index, Text} /\ v \in Held \cup {Text}
        BY <3>1 DEF SetEntry
      <4>2. (k \in Objects => k \in live) /\ (v \in Objects => v \in live)
        BY <1>0, <4>1
      <4> QED BY <1>0, <4>1, <4>2
    <3>2. CASE ClearEntry(t, <<k, v>>)
      BY <1>0, <3>2 DEF ClearEntry
    <3> QED BY <1>6, <3>1, <3>2
  <2>3. /\ entries'[t] \subseteq entries[t] \cup {<<k, v>>}
        /\ \A s \in Tables \ {t} : entries'[s] = entries[s]
    BY <1>0, <1>6 DEF SetEntry, ClearEntry
  <2>4. \A p \in Objects \ {t} : Contents(p)' = Contents(p)
    BY <2>1, <2>3 DEF Contents, Stored
  <2>5. Contents(t)' \subseteq live
    <3>1. ASSUME NEW e \in entries'[t]
          PROVE  {e[1], e[2]} \cap Objects \subseteq live
      <4>1. CASE e \in entries[t]
        BY <1>0, <2>2, <4>1 DEF NoDangling, Contents, Stored
      <4>2. CASE e \notin entries[t]
        BY <2>2, <2>3, <4>2
      <4> QED BY <4>1, <4>2
    <3>2. refs[t] \subseteq live
      BY <1>0, <2>2 DEF NoDangling, Contents
    <3> QED BY <2>1, <3>1, <3>2 DEF Contents, Stored
  <2> QED BY <1>0, <1>p, <2>1, <2>2, <2>4, <2>5
    DEF NoDangling, UnregisteredEmpty, Registers
<1>7. ASSUME UNCHANGED <<live, refs, entries, frames>>, tokens' \subseteq live
      PROVE  NoDangling' /\ UnregisteredEmpty'
  BY <1>p, <1>7 DEF NoDangling, UnregisteredEmpty, Registers, Contents, Stored
<1>8. ASSUME NEW t \in Tables, NEW m \in Modes, SetMode(t, m)
      PROVE  NoDangling' /\ UnregisteredEmpty'
  BY <1>7, <1>8 DEF SetMode, NoDangling
<1>9. ASSUME NEW u \in UserData, NEW b \in BOOLEAN, SetGC(u, b)
      PROVE  NoDangling' /\ UnregisteredEmpty'
  BY <1>7, <1>9 DEF SetGC, NoDangling
<1>10. ASSUME NEW o \in Objects, Publish(o)
       PROVE  NoDangling' /\ UnregisteredEmpty'
  BY <1>0, <1>7, <1>10 DEF Publish, NoDangling
<1> QED
  BY <1>1, <1>2, <1>3, <1>5, <1>6, <1>8, <1>9, <1>10 DEF Mutate

\* What every step outside a cycle leaves of the marking invariant.
LEMMA NoCycle ==
  ASSUME step' \in {"run", "roots", "settle"} PROVE MarkingInvariant'
BY DEF MarkingInvariant

\* Every step keeps the heap free of dangling references, one case per action.
LEMMA HeapStep ==
  ASSUME TypeOK, TypeOK', QueueValid, HeapInvariant, [Next]_vars
  PROVE  HeapInvariant'
<1> USE HeapAssumption, CollectorAssumption DEF HeapInvariant
<1>0. /\ Main \in Objects /\ Tables \subseteq Objects /\ live \subseteq Objects
      /\ UserData \subseteq Objects
      /\ refs \in [Objects -> SUBSET Objects]
      /\ entries \in [Tables -> SUBSET (Keys \X Values)]
  BY DEF Objects, TypeOK, HeapTypeOK
<1>q. ASSUME UNCHANGED <<finalizers, finalizerHead>> PROVE Pending' = Pending
  BY <1>q DEF Pending
<1>h. ASSUME UNCHANGED heapVars
      PROVE  /\ Registers' = Registers
             /\ \A o \in Objects : Contents(o)' = Contents(o) /\ Traced(o)' = Traced(o)
             /\ UNCHANGED <<live, tokens, mode>>
             /\ UnregisteredEmpty'
             /\ ToSet(Pending)' \subseteq live => NoDangling'
  BY <1>0, <1>h DEF heapVars, Registers, Contents, Stored, Traced,
    UnregisteredEmpty, NoDangling
<1>1. ASSUME NEW o \in Objects, Allocate(o) PROVE HeapInvariant'
  BY <1>1, HeapClosed, NoCycle
    DEF Allocate, MutatorTurn, cycleVars, queueVars
<1>2. CASE MutatorStep
  BY <1>2, HeapClosed, NoCycle
    DEF MutatorStep, MutatorTurn, cycleVars, queueVars
<1>3. ASSUME NEW o \in Objects, GoForgets(o) PROVE HeapInvariant'
  <2>1. /\ tokens' \subseteq tokens /\ Pending' = Pending
        /\ UNCHANGED <<live, refs, entries, mode, frames, step, mark, work, weak>>
    BY <1>3, <1>q DEF GoForgets, ForgetToken, cycleVars, queueVars
  <2>2. Registers' = Registers
        /\ \A p \in Objects : Contents(p)' = Contents(p) /\ Traced(p)' = Traced(p)
    BY <2>1 DEF Registers, Contents, Stored, Traced
  <2>3. NoDangling' /\ UnregisteredEmpty'
    BY <1>0, <2>1, <2>2 DEF NoDangling, UnregisteredEmpty
  <2>4. MarkingInvariant'
    BY <1>0, <2>1, <2>2 DEF MarkingInvariant
  <2> QED BY <2>3, <2>4
<1>4. CASE EnterOrLeave \/ StopGC \/ RestartGC \/ MeasureStopped
           \/ HostCollect \/ FrameCollect \/ AutomaticCollect \/ Settle
           \/ FinishLoop
  <2>1. UNCHANGED heapVars /\ UNCHANGED <<finalizers, finalizerHead>>
        /\ step' \in {"run", "roots"}
    BY <1>4 DEF EnterOrLeave, StopGC, RestartGC, MeasureStopped, HostCollect,
      FrameCollect, AutomaticCollect, BeginCycle, Settle, FinishLoop, LoopTurn,
      MutatorTurn, cycleVars, queueVars
  <2> QED BY <1>h, <1>q, <2>1, NoCycle DEF NoDangling
<1>5. CASE MarkRoots
  <2>1. /\ UNCHANGED heapVars /\ Pending' = Pending /\ step' = "hosts"
        /\ mark' = {Main} \cup Registers /\ work' = mark'
    BY <1>5, <1>q DEF MarkRoots, queueVars
  <2>2. NoDangling' /\ UnregisteredEmpty' /\ mark' \subseteq live'
    BY <1>h, <2>1 DEF NoDangling
  <2> QED BY <1>h, <2>1, <2>2 DEF MarkingInvariant
<1>6. CASE MarkHosts
  <2>1. /\ UNCHANGED heapVars /\ Pending' = Pending /\ step = "hosts"
        /\ step' = "drain" /\ mark' = mark \cup tokens
        /\ work' = work \cup (tokens \ mark) /\ weak' = weak
    BY <1>6, <1>q DEF MarkHosts, queueVars
  <2>2. NoDangling' /\ UnregisteredEmpty' /\ mark' \subseteq live'
    BY <1>h, <2>1 DEF NoDangling, MarkingInvariant
  <2>3. mark' \ work' \subseteq mark \ work
    BY <2>1
  <2> QED BY <1>h, <1>0, <2>1, <2>2, <2>3 DEF MarkingInvariant, NoDangling
<1>7. ASSUME NEW o \in Objects, Trace(o) PROVE HeapInvariant'
  <2>1. /\ UNCHANGED heapVars /\ Pending' = Pending /\ step' = step
        /\ step \in {"drain", "drain2"} /\ o \in work
        /\ mark' = mark \cup Traced(o)
        /\ work' = (work \ {o}) \cup (Traced(o) \ mark)
        /\ weak' = IF o \in Tables /\ mode[o] # {} THEN weak \cup {o} ELSE weak
    BY <1>7, <1>q DEF Trace, queueVars
  <2>2. NoDangling' /\ UnregisteredEmpty'
    BY <1>h, <2>1 DEF NoDangling
  <2>3. Traced(o) \subseteq live
    <3>1. o \in live
      BY <2>1 DEF MarkingInvariant
    <3>2. Traced(o) \subseteq Contents(o)
      BY <1>0 DEF Traced, Contents, Stored
    <3> QED BY <3>1, <3>2 DEF NoDangling
  <2>4. mark' \subseteq live' /\ {Main} \cup Registers' \subseteq mark'
        /\ work' \subseteq mark' /\ tokens' \subseteq mark'
        /\ (step' = "drain2" => ToSet(Pending') \subseteq mark')
    BY <1>h, <2>1, <2>3 DEF MarkingInvariant
  <2>5. mark' \ work' \subseteq (mark \ work) \cup {o}
    BY <2>1
  <2>6. \A p \in mark' \ work' : Traced(p)' \subseteq mark'
    BY <1>h, <1>0, <2>1, <2>4, <2>5 DEF MarkingInvariant
  <2>7. \A t \in (mark' \ work') \cap Tables : mode'[t] # {} => t \in weak'
    BY <1>h, <2>1, <2>5 DEF MarkingInvariant
  <2> QED BY <2>1, <2>2, <2>4, <2>6, <2>7 DEF MarkingInvariant
<1>s. ASSUME NEW considered, considered \subseteq live \cap UserData,
             SeparateFinalizers(considered)
      PROVE  ToSet(Pending)' \subseteq live
  <2>1. /\ finalizers' \in Seq(UserData \cup {Nil})
        /\ finalizerHead' = 0
        /\ \A i \in 1 .. Len(finalizers') :
             \/ \E j \in finalizerHead + 1 .. Len(finalizers) :
                  finalizers'[i] = finalizers[j]
             \/ finalizers'[i] \in considered \cap finalized'
    BY <1>s, SeparateQueue
  <2>2. ToSet(Pending) = {finalizers[j] : j \in finalizerHead + 1 .. Len(finalizers)}
    BY PendingProperties DEF TypeOK
  <2>3. \A i \in 1 .. Len(finalizers') : finalizers'[i] \in live
    BY <1>s, <2>1, <2>2 DEF NoDangling
  <2>4. Pending' = finalizers'
    BY <2>1, SubSeqFull DEF Pending
  <2> QED BY <2>1, <2>3, <2>4, LenProperties DEF ToSet
<1>8. CASE Separate
  <2>1. /\ UNCHANGED heapVars /\ step = "drain" /\ step' = "pending" /\ work = {}
        /\ UNCHANGED <<mark, work, weak>>
        /\ ToSet(Pending)' \subseteq live
    BY <1>8, <1>s DEF Separate
  <2>2. NoDangling' /\ UnregisteredEmpty'
    BY <1>h, <2>1
  <2> QED BY <1>h, <1>0, <2>1, <2>2 DEF MarkingInvariant
<1>9. CASE MarkPending
  <2>1. /\ UNCHANGED heapVars /\ Pending' = Pending /\ step = "pending"
        /\ step' = "drain2" /\ mark' = mark \cup ToSet(Pending)
        /\ work' = ToSet(Pending) \ mark /\ weak' = weak /\ work = {}
    BY <1>9, <1>q DEF MarkPending, queueVars, MarkingInvariant
  <2>2. NoDangling' /\ UnregisteredEmpty' /\ mark' \subseteq live'
    BY <1>h, <2>1 DEF NoDangling, MarkingInvariant
  <2>3. mark' \ work' \subseteq mark \ work
    BY <2>1
  <2> QED BY <1>h, <1>0, <2>1, <2>2, <2>3 DEF MarkingInvariant, NoDangling
<1>10. CASE ClearWeakTables
  <2>1. /\ step = "drain2" /\ work = {} /\ step' = "sweep"
        /\ UNCHANGED <<live, refs, mode, tokens, frames, mark, work, weak>>
        /\ Pending' = Pending
        /\ entries' = [t \in Tables |->
             IF t \in weak THEN {e \in entries[t] : ~WeakEntryCleared(t, e)}
                           ELSE entries[t]]
    BY <1>10, <1>q DEF ClearWeakTables, queueVars
  <2>2. /\ {Main} \cup Registers \subseteq mark /\ mark \subseteq live
        /\ \A o \in mark : Traced(o) \subseteq mark
        /\ \A t \in mark \cap Tables : mode[t] # {} => t \in weak
        /\ tokens \subseteq mark /\ ToSet(Pending) \subseteq mark
    BY <2>1 DEF MarkingInvariant
  <2>3. \A t \in Tables : entries'[t] \subseteq entries[t]
    BY <2>1
  <2>4. \A o \in Objects : Contents(o)' \subseteq Contents(o)
                         /\ Traced(o)' \subseteq Traced(o)
    BY <2>1, <2>3 DEF Contents, Stored, Traced
  <2>5. NoDangling' /\ UnregisteredEmpty'
    BY <1>0, <2>1, <2>4 DEF NoDangling, UnregisteredEmpty, Registers
  <2>6. ASSUME NEW o \in mark PROVE Contents(o)' \subseteq mark
    <3>1. refs[o] \subseteq mark /\ o \in Objects
      BY <1>0, <2>2 DEF Traced
    <3>2. CASE o \notin Tables
      BY <2>1, <3>1, <3>2 DEF Contents
    <3>3. CASE o \in Tables /\ mode[o] = {}
      BY <1>0, <2>1, <2>2, <2>3, <3>1, <3>3 DEF Contents, Stored, Traced
    <3>4. CASE o \in Tables /\ mode[o] # {}
      <4>1. entries'[o] = {e \in entries[o] : ~WeakEntryCleared(o, e)}
        BY <2>1, <2>2, <3>4
      <4>2. ASSUME NEW e \in entries'[o]
            PROVE  {e[1], e[2]} \cap Objects \subseteq mark
        <5>1. e \in entries[o] /\ ~WeakEntryCleared(o, e)
          BY <4>1
        <5>2. CASE e[1] = Index /\ "v" \in mode[o]
          BY <5>1, <5>2 DEF WeakEntryCleared, WeakSlotCleared
        <5>3. CASE e[1] = Index /\ "v" \notin mode[o]
          <6>1. e[2] \in Objects => e[2] \in Traced(o)
            BY <3>4, <5>1, <5>3 DEF Traced
          <6> QED BY <2>2, <5>3, <6>1
        <5>4. CASE e[1] # Index
          BY <5>1, <5>4 DEF WeakEntryCleared, WeakSlotCleared
        <5> QED BY <5>2, <5>3, <5>4
      <4> QED BY <2>1, <3>1, <3>4, <4>2 DEF Contents, Stored
    <3> QED BY <3>2, <3>3, <3>4
  <2>7. Registers' = Registers
    BY <2>1 DEF Registers
  <2> QED BY <1>0, <2>1, <2>2, <2>4, <2>5, <2>6, <2>7 DEF MarkingInvariant
<1>11. CASE Sweep
  <2>1. /\ step = "sweep" /\ step' = "settle"
        /\ live' = live \cap mark
        /\ refs' = [o \in Objects |-> IF o \in live \cap mark THEN refs[o] ELSE {}]
        /\ entries' = [t \in Tables |-> IF t \in live \cap mark THEN entries[t] ELSE {}]
        /\ UNCHANGED <<tokens, frames>> /\ Pending' = Pending
    BY <1>11, <1>q DEF Sweep, queueVars
  <2>2. /\ {Main} \cup Registers \subseteq mark /\ mark \subseteq live
        /\ tokens \subseteq mark /\ ToSet(Pending) \subseteq mark
        /\ \A o \in mark : Contents(o) \subseteq mark
    BY <2>1 DEF MarkingInvariant
  <2>3. live' = mark
    BY <2>1, <2>2
  <2>4. \A o \in mark : Contents(o)' = Contents(o)
    BY <1>0, <2>1, <2>2 DEF Contents, Stored
  <2>5. \A o \in Objects \ mark : Contents(o)' = {}
    BY <1>0, <2>1 DEF Contents, Stored
  <2>6. NoDangling' /\ UnregisteredEmpty'
    BY <2>1, <2>2, <2>3, <2>4, <2>5 DEF NoDangling, UnregisteredEmpty, Registers
  <2> QED BY <2>1, <2>6, NoCycle
<1>12. CASE TakeFinalizer
  <2> DEFINE u == finalizers[finalizerHead + 1]
  <2>1. /\ step' = "run" /\ finalizerHead < Len(finalizers) /\ TakeHead
        /\ UNCHANGED <<live, refs, entries, tokens>>
        /\ frames' = frames \/ frames' = Append(frames, {u})
    BY <1>12 DEF TakeFinalizer, LoopTurn, cycleVars
  <2>2. ToSet(Pending) = {finalizers[j] : j \in finalizerHead + 1 .. Len(finalizers)}
    BY PendingProperties DEF TypeOK
  <2>3. u \in live
    BY <2>1, <2>2 DEF NoDangling, TypeOK
  <2>4. ToSet(Pending)' \subseteq ToSet(Pending)
    <3>1. ToSet(Pending)' =
            {finalizers'[j] : j \in finalizerHead' + 1 .. Len(finalizers')}
      <4>1. finalizers' \in Seq(UserData \cup {Nil})
            /\ finalizerHead' \in 0 .. Len(finalizers')
        BY DEF TypeOK
      <4>2. \A s, h : s \in Seq(UserData \cup {Nil}) /\ h \in 0 .. Len(s) =>
              ToSet(SubSeq(s, h + 1, Len(s))) = {s[j] : j \in h + 1 .. Len(s)}
        BY SuffixElements
      <4> QED BY <4>1, <4>2 DEF Pending, ToSet
    <3>2. \A j \in finalizerHead' + 1 .. Len(finalizers') :
            j \in finalizerHead + 1 .. Len(finalizers) /\ finalizers'[j] = finalizers[j]
      <4>1. finalizerHead' \in Nat /\ Len(finalizers') \in Nat
            /\ finalizerHead \in Nat /\ Len(finalizers) \in Nat
        BY LenProperties DEF TypeOK
      <4>2. \A i \in 1 .. Len(finalizers') : ~(i <= finalizerHead') =>
              i > finalizerHead + 1 /\ i <= Len(finalizers)
              /\ finalizers'[i] = finalizers[i]
        BY <2>1, TakeQueue
      <4>3. \A n, n2, h, h2 \in Nat : \A j \in h2 + 1 .. n2 :
              /\ j \in 1 .. n2 /\ ~(j <= h2)
              /\ j > h + 1 /\ j <= n => j \in h + 1 .. n
        OBVIOUS
      <4>4. \A j \in finalizerHead' + 1 .. Len(finalizers') :
              /\ j \in 1 .. Len(finalizers') /\ ~(j <= finalizerHead')
              /\ j > finalizerHead + 1 /\ j <= Len(finalizers) =>
                   j \in finalizerHead + 1 .. Len(finalizers)
        BY <4>1, <4>3, Zenon
      <4> QED BY <4>2, <4>4, Zenon
    <3> QED BY <2>2, <3>1, <3>2
  <2>5. Registers' \subseteq Registers \cup {u}
    <3>1. CASE frames' = frames
      BY <3>1 DEF Registers
    <3>2. CASE frames' = Append(frames, {u})
      <4>1. frames \in Seq(SUBSET Objects) /\ {u} \in SUBSET Objects
        BY <1>0, <2>3 DEF TypeOK, HeapTypeOK
      <4>2. /\ frames' \in Seq(SUBSET Objects) /\ Len(frames') = Len(frames) + 1
            /\ \A i \in 1 .. Len(frames) : frames'[i] = frames[i]
            /\ frames'[Len(frames) + 1] = {u}
        BY <3>2, <4>1, AppendProperties
      <4>3. DOMAIN frames' = 1 .. Len(frames) + 1 /\ DOMAIN frames = 1 .. Len(frames)
            /\ Len(frames) \in Nat
        BY <4>1, <4>2, LenProperties
      <4>4. ASSUME NEW i \in DOMAIN frames'
            PROVE  frames'[i] = {u} \/ \E j \in DOMAIN frames : frames'[i] = frames[j]
        BY <4>2, <4>3
      <4> QED BY <4>4 DEF Registers
    <3> QED BY <2>1, <3>1, <3>2
  <2>6. \A o \in Objects : Contents(o)' = Contents(o)
    BY <2>1 DEF Contents, Stored
  <2>7. NoDangling' /\ UnregisteredEmpty'
    BY <1>0, <2>1, <2>3, <2>4, <2>5, <2>6 DEF NoDangling, UnregisteredEmpty
  <2> QED BY <2>1, <2>7, NoCycle
<1>13. CASE FinalizerReturns \/ FinalizerFails
  <2>1. /\ step' = "run" /\ frames' = Front(frames) /\ Pending' = Pending
        /\ UNCHANGED <<live, refs, entries, tokens>>
    BY <1>13, <1>q DEF FinalizerReturns, FinalizerFails, cycleVars, queueVars
  <2>2. frames \in Seq(SUBSET Objects)
    BY DEF TypeOK, HeapTypeOK
  <2>3. /\ Front(frames) \in Seq(SUBSET Objects)
        /\ \A i \in 1 .. Len(Front(frames)) :
             i < Len(frames) /\ Front(frames)[i] = frames[i]
    BY <2>2, FrontProperties
  <2>4. ASSUME NEW i \in DOMAIN frames'
        PROVE  i \in DOMAIN frames /\ frames'[i] = frames[i]
    <3>1. i \in 1 .. Len(Front(frames)) /\ Len(frames) \in Nat
          /\ DOMAIN frames = 1 .. Len(frames) /\ Len(Front(frames)) \in Nat
      BY <2>1, <2>2, <2>3, LenProperties
    <3>2. i < Len(frames) /\ frames'[i] = frames[i]
      BY <2>1, <2>3, <3>1
    <3> QED BY <3>1, <3>2
  <2>5. Registers' \subseteq Registers
    BY <2>4 DEF Registers
  <2>6. NoDangling' /\ UnregisteredEmpty'
    BY <2>1, <2>5 DEF NoDangling, UnregisteredEmpty, Contents, Stored
  <2> QED BY <2>1, <2>6, NoCycle
<1>14. CASE BeginClose
  <2>1. /\ UNCHANGED heapVars /\ step' = "run" /\ ToSet(Pending)' \subseteq live
    BY <1>14, <1>s DEF BeginClose, cycleVars
  <2> QED BY <1>h, <2>1, NoCycle
<1>15. CASE FinishClose
  <2>1. /\ step' = "run" /\ finalizers' = <<>> /\ finalizerHead' = 0
        /\ refs' = [o \in Objects |-> IF o \in Threads THEN {} ELSE refs[o]]
        /\ UNCHANGED <<live, entries, tokens, frames>>
    BY <1>15 DEF FinishClose, LoopTurn, cycleVars
  <2>2. Pending' = <<>> /\ ToSet(Pending)' = {}
    <3>1. Pending' = <<>>
      BY <2>1, SubSeqEmpty DEF Pending
    <3> QED BY <3>1 DEF ToSet
  <2>3. \A o \in Objects : Contents(o)' \subseteq Contents(o)
    BY <1>0, <2>1 DEF Contents, Stored
  <2>4. NoDangling' /\ UnregisteredEmpty'
    BY <1>0, <2>1, <2>2, <2>3 DEF NoDangling, UnregisteredEmpty, Registers
  <2> QED BY <2>1, <2>4, NoCycle
<1>16. CASE UNCHANGED vars
  <2>1. UNCHANGED heapVars /\ Pending' = Pending
        /\ UNCHANGED <<step, mark, work, weak>>
    BY <1>16, <1>q DEF vars, queueVars, cycleVars
  <2>2. NoDangling' /\ UnregisteredEmpty'
    BY <1>h, <2>1 DEF NoDangling
  <2> QED BY <1>0, <1>h, <2>1, <2>2 DEF MarkingInvariant
<1> QED
  BY <1>1, <1>2, <1>3, <1>4, <1>5, <1>6, <1>7, <1>8, <1>9, <1>10, <1>11, <1>12,
     <1>13, <1>14, <1>15, <1>16
    DEF Next, CycleStep, LoopStep

\* For every set of objects and every schedule of mutator steps, collections,
\* finalizers and Go retiring tokens, nothing the program can reach refers to
\* a swept object.
THEOREM MemorySafety == Spec => []NoDangling
<1>1. Init => HeapInvariant
  <2>1. ASSUME Init PROVE NoDangling /\ UnregisteredEmpty
    <3>1. Pending = <<>> /\ ToSet(Pending) = {}
      <4>1. Pending = <<>>
        BY <2>1, SubSeqEmpty DEF Init, Pending
      <4> QED BY <4>1 DEF ToSet
    <3>2. Registers = {}
      BY <2>1 DEF Init, HeapInit, Registers
    <3>3. \A o \in Objects : Contents(o) = {}
      BY <2>1 DEF Init, HeapInit, Contents, Stored
    <3> QED BY <2>1, <3>1, <3>2, <3>3, HeapAssumption
      DEF Init, HeapInit, NoDangling, UnregisteredEmpty, Objects
  <2>2. Init => MarkingInvariant
    BY DEF Init, MarkingInvariant
  <2> QED BY <2>1, <2>2 DEF HeapInvariant
<1>2. TypeOK /\ TypeOK' /\ QueueValid /\ HeapInvariant /\ [Next]_vars
        => HeapInvariant'
  BY HeapStep
<1>3. HeapInvariant => NoDangling
  BY DEF HeapInvariant
<1> QED BY <1>1, <1>2, <1>3, TypesAndQueue, PTL DEF Spec
=============================================================================
