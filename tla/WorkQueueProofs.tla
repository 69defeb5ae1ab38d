-------------------------- MODULE WorkQueueProofs ---------------------------
(***************************************************************************)
(* Theorems about WorkQueue, for every set of keys.                        *)
(***************************************************************************)
EXTENDS WorkQueue, SequenceTheorems, FiniteSetTheorems, TLAPS

\* A sequence without duplicates that gains a new element has none either.
LEMMA AppendFresh ==
    ASSUME NEW S, NEW s \in Seq(S), NEW e \in S, IsInjective(s), e \notin Range(s)
    PROVE  /\ Append(s, e) \in Seq(S)
           /\ IsInjective(Append(s, e))
           /\ Range(Append(s, e)) = Range(s) \cup {e}
BY DEF IsInjective, Range

\* The head of a sequence without duplicates does not occur in its tail.
LEMMA TailDropsHead ==
    ASSUME NEW S, NEW s \in Seq(S), s # <<>>, IsInjective(s)
    PROVE  /\ Head(s) \in Range(s) /\ Head(s) \in S
           /\ Tail(s) \in Seq(S)
           /\ IsInjective(Tail(s))
           /\ Range(Tail(s)) = Range(s) \ {Head(s)}
<1>1. /\ Len(s) \in Nat /\ Len(s) > 0
      /\ Tail(s) \in Seq(S) /\ Len(Tail(s)) = Len(s) - 1
      /\ \A i \in 1..Len(Tail(s)) : Tail(s)[i] = s[i + 1]
      /\ Head(s) = s[1]
  OBVIOUS
<1>2. DOMAIN s = 1..Len(s) /\ DOMAIN Tail(s) = 1..Len(Tail(s))
  BY <1>1
<1>3. Head(s) \in Range(s) /\ Head(s) \in S
  BY <1>1, <1>2 DEF Range
<1>4. IsInjective(Tail(s))
  BY <1>1, <1>2 DEF IsInjective
<1>5. ASSUME NEW x \in Range(s) \ {Head(s)}
      PROVE  x \in Range(Tail(s))
  <2>1. PICK i \in 1..Len(s) : s[i] = x
    BY <1>2 DEF Range
  <2>2. i - 1 \in 1..Len(Tail(s)) /\ Tail(s)[i - 1] = x
    BY <1>1, <2>1
  <2> QED
    BY <1>2, <2>2 DEF Range
<1>6. ASSUME NEW x \in Range(Tail(s))
      PROVE  x \in Range(s) \ {Head(s)}
  <2>1. PICK i \in 1..Len(Tail(s)) : Tail(s)[i] = x
    BY <1>2 DEF Range
  <2>2. i + 1 \in 1..Len(s) /\ s[i + 1] = x /\ i + 1 # 1
    BY <1>1, <2>1
  <2> QED
    BY <1>1, <1>2, <2>2 DEF Range, IsInjective
<1> QED
  BY <1>1, <1>3, <1>4, <1>5, <1>6

\* Removing the first occurrence from a sequence without duplicates removes
\* exactly that element.
LEMMA RemoveFirstDrops ==
    ASSUME NEW S, NEW s \in Seq(S), NEW e, IsInjective(s)
    PROVE  /\ RemoveFirst(s, e) \in Seq(S)
           /\ IsInjective(RemoveFirst(s, e))
           /\ Range(RemoveFirst(s, e)) = Range(s) \ {e}
<1>0. DOMAIN s = 1..Len(s) /\ Len(s) \in Nat
  OBVIOUS
<1>1. CASE ~\E i \in 1..Len(s) : s[i] = e
  <2>1. RemoveFirst(s, e) = s
    BY <1>1 DEF RemoveFirst
  <2> QED
    BY <1>0, <1>1, <2>1 DEF Range
<1>2. CASE \E i \in 1..Len(s) : s[i] = e
  <2>1. PICK i \in 1..Len(s) : s[i] = e
    BY <1>2
  <2> DEFINE I == {j \in 1..Len(s) : s[j] = e}
             t == SubSeq(s, 1, i - 1) \o SubSeq(s, i + 1, Len(s))
  <2>2. I = {i}
    BY <1>0, <2>1 DEF IsInjective
  <2>3. SelectInSeq(s, LAMBDA v : v = e) = i
    BY <2>2 DEF SelectInSeq, Min
  <2>4. RemoveFirst(s, e) = t
    BY <1>2, <2>3 DEF RemoveFirst, RemoveAt
  <2> DEFINE a == SubSeq(s, 1, i - 1)
             b == SubSeq(s, i + 1, Len(s))
  <2>5. /\ t \in Seq(S) /\ Len(t) = Len(s) - 1
        /\ \A j \in 1..Len(t) : t[j] = IF j < i THEN s[j] ELSE s[j + 1]
    <3>1. /\ a \in Seq(S) /\ Len(a) = i - 1
          /\ \A j \in 1..Len(a) : a[j] = s[j]
      <4>1. 1 \in Int /\ i - 1 \in Int /\ \A j \in 1..(i - 1) : s[j] \in S
        BY <1>0, <2>1, ElementOfSeq
      <4> HIDE DEF a
      <4>2. /\ a \in Seq(S) /\ Len(a) = IF 1 <= i - 1 THEN i - 1 - 1 + 1 ELSE 0
            /\ \A j \in 1..(i - 1 - 1 + 1) : a[j] = s[1 + j - 1]
        BY <4>1, SubSeqProperties DEF a
      <4> QED
        BY <1>0, <2>1, <4>2
    <3>2. /\ b \in Seq(S) /\ Len(b) = Len(s) - i
          /\ \A j \in 1..Len(b) : b[j] = s[i + j]
      <4>1. i \in Int /\ Len(s) \in Int /\ 1 <= i /\ i <= Len(s)
        BY <1>0, <2>1
      <4>2. PICK m \in Int : m = i + 1
        BY <4>1
      <4>3. ASSUME NEW j \in m..Len(s)
            PROVE  s[j] \in S
        <5>1. j \in 1..Len(s)
          BY <4>1, <4>2
        <5> QED
          BY <5>1, ElementOfSeq
      <4>4. /\ SubSeq(s, m, Len(s)) \in Seq(S)
            /\ Len(SubSeq(s, m, Len(s))) = IF m <= Len(s) THEN Len(s) - m + 1 ELSE 0
            /\ \A j \in 1..(Len(s) - m + 1) : SubSeq(s, m, Len(s))[j] = s[m + j - 1]
        BY <4>1, <4>3, SubSeqProperties
      <4>5. b = SubSeq(s, m, Len(s))
        BY <4>2
      <4> HIDE DEF b
      <4>6. Len(b) = Len(s) - i
        BY <4>1, <4>2, <4>4, <4>5
      <4>7. ASSUME NEW j \in 1..Len(b)
            PROVE  b[j] = s[i + j]
        <5>1. j \in 1..(Len(s) - m + 1) /\ m + j - 1 = i + j
          BY <4>1, <4>2, <4>6
        <5> QED
          BY <4>4, <4>5, <5>1
      <4> QED
        BY <4>4, <4>5, <4>6, <4>7
    <3> HIDE DEF a, b
    <3>3. /\ a \o b \in Seq(S) /\ Len(a \o b) = Len(s) - 1
          /\ \A j \in 1..Len(a \o b) :
               (a \o b)[j] = IF j <= Len(a) THEN a[j] ELSE b[j - Len(a)]
      <4>1. /\ a \o b \in Seq(S) /\ Len(a \o b) = Len(a) + Len(b)
            /\ \A j \in 1..(Len(a) + Len(b)) :
                 (a \o b)[j] = IF j <= Len(a) THEN a[j] ELSE b[j - Len(a)]
        BY <3>1, <3>2, ConcatProperties
      <4>2. Len(a) + Len(b) = Len(s) - 1
        BY <1>0, <2>1, <3>1, <3>2
      <4> QED
        BY <4>1, <4>2
    <3>4. ASSUME NEW j \in 1..Len(a \o b)
          PROVE  (a \o b)[j] = IF j < i THEN s[j] ELSE s[j + 1]
      <4>1. CASE j < i
        BY <1>0, <2>1, <3>1, <3>3, <4>1
      <4>2. CASE ~(j < i)
        <5>1. j - (i - 1) \in 1..Len(b) /\ i + (j - (i - 1)) = j + 1
          BY <1>0, <2>1, <3>1, <3>2, <3>3, <4>2
        <5> QED
          BY <1>0, <2>1, <3>1, <3>2, <3>3, <4>2, <5>1
      <4> QED
        BY <4>1, <4>2
    <3> QED
      BY <3>3, <3>4 DEF a, b
  <2>6. DOMAIN t = 1..Len(t) /\ Len(t) \in Nat
    BY <1>0, <2>5, LenProperties
  <2> HIDE DEF t
  <2>7. IsInjective(t)
    BY <1>0, <2>5, <2>6 DEF IsInjective
  <2>8. ASSUME NEW x \in Range(s) \ {e}
        PROVE  x \in Range(t)
    <3>1. PICK j \in 1..Len(s) : s[j] = x /\ j # i
      BY <1>0, <2>1 DEF Range
    <3>2. \E h \in 1..Len(t) : t[h] = x
      <4>1. CASE j < i
        BY <1>0, <2>5, <3>1, <4>1
      <4>2. CASE j > i
        <5>1. j - 1 \in 1..Len(t) /\ t[j - 1] = x
          BY <1>0, <2>5, <3>1, <4>2
        <5> QED
          BY <5>1
      <4> QED
        BY <3>1, <4>1, <4>2
    <3> QED
      BY <2>6, <3>2 DEF Range
  <2>9. ASSUME NEW x \in Range(t)
        PROVE  x \in Range(s) \ {e}
    <3>1. PICK j \in 1..Len(t) : t[j] = x
      BY <2>6 DEF Range
    <3>2. PICK h \in 1..Len(s) : s[h] = x /\ h # i
      BY <1>0, <2>1, <2>5, <2>6, <3>1
    <3> QED
      BY <1>0, <2>1, <3>2 DEF Range, IsInjective
  <2> QED
    BY <2>4, <2>5, <2>7, <2>8, <2>9
<1> QED
  BY <1>1, <1>2

-----------------------------------------------------------------------------
\* The parts strengthen one another: dropping a dirty key in Add is right only
\* because FifoIsDirty says where that key waits, and the key a worker holds
\* is not in the FIFO, so Done may append it.
IInv == TypeOK /\ FifoIsDirty /\ RequeuedIsFailed /\ CountedIsScheduled

\* newQueue: nothing is queued.
LEMMA InitInv == Init => IInv
<1> SUFFICES ASSUME Init PROVE IInv
  OBVIOUS
<1>1. <<>> \in Seq(Keys) /\ IsInjective(<<>>) /\ Range(<<>>) = {}
  BY DEF IsInjective, Range
<1>2. TypeOK
  BY <1>1, NoKeyAssumption DEF Init, TypeOK, Steps
<1>3. FifoIsDirty /\ RequeuedIsFailed /\ CountedIsScheduled
  BY <1>1 DEF Init, FifoIsDirty, RequeuedIsFailed, CountedIsScheduled, Processing
<1> QED
  BY <1>2, <1>3 DEF IInv

\* A key that is not dirty joins the FIFO (Add, and a delay that expires).
LEMMA InsertKeepsFifo ==
    ASSUME TypeOK, FifoIsDirty, NEW k \in Keys, k \notin dirty, Insert(k)
    PROVE  /\ pending' \in Seq(Keys) /\ IsInjective(pending')
           /\ Range(pending') = dirty' \ Processing
           /\ dirty' = dirty \cup {k}
<1>1. CASE k \in Processing
  BY <1>1 DEF TypeOK, FifoIsDirty, Insert
<1>2. CASE k \notin Processing
  <2>1. k \notin Range(pending) /\ pending \in Seq(Keys) /\ IsInjective(pending)
    BY DEF TypeOK, FifoIsDirty
  <2>2. /\ Append(pending, k) \in Seq(Keys) /\ IsInjective(Append(pending, k))
        /\ Range(Append(pending, k)) = Range(pending) \cup {k}
    BY <2>1, AppendFresh
  <2> QED
    BY <1>2, <2>2 DEF FifoIsDirty, Insert
<1> QED
  BY <1>1, <1>2

\* Every step of the queue, its timers and its worker keeps the invariant.
LEMMA StepInv == IInv /\ [Next]_vars => IInv'
<1> SUFFICES ASSUME IInv, [Next]_vars
             PROVE  IInv'
  OBVIOUS
<1> USE NoKeyAssumption
<1>1. ASSUME NEW k \in Keys, Add(k)
      PROVE  IInv'
  <2>1. /\ pending' \in Seq(Keys) /\ IsInjective(pending')
        /\ Range(pending') = dirty' \ Processing /\ dirty' = dirty \cup {k}
    BY <1>1, InsertKeepsFifo DEF IInv, Add
  <2>2. Processing' = Processing
    BY <1>1 DEF Add, Processing
  <2> QED
    BY <1>1, <2>1, <2>2
    DEF Add, IInv, TypeOK, FifoIsDirty, RequeuedIsFailed, CountedIsScheduled
<1>2. ASSUME NEW k \in Keys, Expire(k)
      PROVE  IInv'
  <2>1. Processing' = Processing
    BY <1>2 DEF Expire, Processing
  <2>2. /\ pending' \in Seq(Keys) /\ IsInjective(pending')
        /\ Range(pending') = dirty' \ Processing /\ dirty' = dirty \cup {k}
    <3>1. CASE k \in dirty
      BY <1>2, <3>1 DEF Expire, IInv, TypeOK, FifoIsDirty
    <3>2. CASE k \notin dirty
      BY <1>2, <3>2, InsertKeepsFifo DEF IInv, Expire
    <3> QED
      BY <3>1, <3>2
  <2> QED
    BY <1>2, <2>1, <2>2
    DEF Expire, IInv, TypeOK, FifoIsDirty, RequeuedIsFailed, CountedIsScheduled
<1>3. ASSUME Stop
      PROVE  IInv'
  BY <1>3 DEF Stop, IInv, TypeOK, FifoIsDirty, RequeuedIsFailed, CountedIsScheduled,
     Processing
<1>4. ASSUME Get
      PROVE  IInv'
  <2>1. /\ Head(pending) \in Range(pending) /\ Head(pending) \in Keys
        /\ Tail(pending) \in Seq(Keys) /\ IsInjective(Tail(pending))
        /\ Range(Tail(pending)) = Range(pending) \ {Head(pending)}
    BY <1>4, TailDropsHead DEF Get, IInv, TypeOK, FifoIsDirty
  <2>2. Processing = {} /\ Processing' = {Head(pending)}
    BY <1>4 DEF Get, Processing
  <2>3. TypeOK'
    BY <1>4, <2>1 DEF Get, IInv, TypeOK, Steps
  <2>4. FifoIsDirty' /\ CountedIsScheduled'
    BY <1>4, <2>1, <2>2 DEF Get, IInv, FifoIsDirty, CountedIsScheduled
  <2> QED
    BY <1>4, <2>3, <2>4 DEF Get, IInv, RequeuedIsFailed
<1>5. ASSUME GetShutdown
      PROVE  IInv'
  BY <1>5 DEF GetShutdown, libVars, IInv, TypeOK, FifoIsDirty, RequeuedIsFailed,
     CountedIsScheduled, Processing, Steps
<1>6. ASSUME ReconcileOK
      PROVE  IInv'
  <2>1. /\ requeued' \in Seq(Keys) /\ IsInjective(requeued')
        /\ Range(requeued') = Range(requeued) \ {key}
    BY <1>6, RemoveFirstDrops
    DEF ReconcileOK, RemoveRequeued, IInv, TypeOK, RequeuedIsFailed
  <2> QED
    BY <1>6, <2>1 DEF ReconcileOK, libVars, IInv, TypeOK, FifoIsDirty, RequeuedIsFailed,
       CountedIsScheduled, Processing, Steps
<1>7. ASSUME ReconcileErr
      PROVE  IInv'
  <2>1. key \in Keys
    BY <1>7 DEF ReconcileErr, IInv, TypeOK
  <2>2. /\ requeued' \in Seq(Keys) /\ IsInjective(requeued')
        /\ Range(requeued') = Range(requeued) \cup {key}
    <3>1. CASE key \in Range(requeued)
      BY <1>7, <3>1 DEF ReconcileErr, AddRequeued, IInv, TypeOK, RequeuedIsFailed
    <3>2. CASE key \notin Range(requeued)
      BY <1>7, <2>1, <3>2, AppendFresh
      DEF ReconcileErr, AddRequeued, IInv, TypeOK, RequeuedIsFailed
    <3> QED
      BY <3>1, <3>2
  <2>3. TypeOK'
    BY <1>7, <2>1, <2>2 DEF ReconcileErr, IInv, TypeOK, Steps
  <2>4. FifoIsDirty' /\ RequeuedIsFailed' /\ CountedIsScheduled'
    BY <1>7, <2>2 DEF ReconcileErr, IInv, FifoIsDirty, RequeuedIsFailed,
       CountedIsScheduled, Processing
  <2> QED
    BY <2>3, <2>4 DEF IInv
<1>8. ASSUME Done
      PROVE  IInv'
  <2>1. key \in Keys /\ Processing = {key} /\ Processing' = {}
    BY <1>8 DEF Done, IInv, TypeOK, Processing
  <2>2. /\ pending \in Seq(Keys) /\ IsInjective(pending)
        /\ Range(pending) = dirty \ {key}
    BY <2>1 DEF IInv, TypeOK, FifoIsDirty
  <2>3. /\ pending' \in Seq(Keys) /\ IsInjective(pending')
        /\ Range(pending') = dirty
    <3>1. CASE key \in dirty
      <4>1. pending' = Append(pending, key)
        BY <1>8, <3>1 DEF Done
      <4>2. /\ Append(pending, key) \in Seq(Keys) /\ IsInjective(Append(pending, key))
            /\ Range(Append(pending, key)) = Range(pending) \cup {key}
        BY <2>1, <2>2, AppendFresh
      <4> QED
        BY <2>2, <3>1, <4>1, <4>2
    <3>2. CASE key \notin dirty
      BY <1>8, <2>2, <3>2 DEF Done
    <3> QED
      BY <3>1, <3>2
  <2>4. CountedIsScheduled'
    BY <1>8, <2>1 DEF Done, IInv, CountedIsScheduled
  <2>5. TypeOK'
    BY <1>8, <2>3 DEF Done, IInv, TypeOK, Steps
  <2>6. FifoIsDirty' /\ RequeuedIsFailed'
    BY <1>8, <2>1, <2>3 DEF Done, IInv, FifoIsDirty, RequeuedIsFailed
  <2> QED
    BY <2>4, <2>5, <2>6 DEF IInv
<1>9. ASSUME UpdateMetrics
      PROVE  IInv'
  BY <1>9 DEF UpdateMetrics, libVars, IInv, TypeOK, FifoIsDirty, RequeuedIsFailed,
     CountedIsScheduled, Processing, Steps
<1>10. ASSUME UNCHANGED vars
       PROVE  IInv'
  BY <1>10 DEF vars, libVars, IInv, TypeOK, FifoIsDirty, RequeuedIsFailed,
     CountedIsScheduled, Processing, Steps
<1> QED
  BY <1>1, <1>2, <1>3, <1>4, <1>5, <1>6, <1>7, <1>8, <1>9, <1>10 DEF Next, Worker

\* What queue.go keeps: every dirty key is in the FIFO exactly once or being
\* processed, and the list of requeued keys is exactly the keys whose latest
\* reconcile failed, all of which stay scheduled until Stop.
THEOREM QueueInvariant ==
    Spec => [](TypeOK /\ FifoIsDirty /\ RequeuedIsFailed /\ CountedIsScheduled)
<1>1. Init => IInv
  BY InitInv
<1>2. IInv /\ [Next]_vars => IInv'
  BY StepInv
<1> QED
  BY <1>1, <1>2, PTL DEF Spec, IInv

\* Every variable stays in its range, and a key is held exactly while the worker
\* is at an item.
THEOREM TypeCorrect == Spec => []TypeOK
BY QueueInvariant, PTL

\* Add, Get and Done: each dirty key is in the FIFO once, or being processed.
THEOREM FifoHoldsDirtyKeys == Spec => []FifoIsDirty
BY QueueInvariant, PTL

\* addRequeued and removeRequeued: the list is exactly the failed keys, each once.
THEOREM RequeuedKeysFailed == Spec => []RequeuedIsFailed
BY QueueInvariant, PTL

\* requeue: what the metric counts is scheduled or being reconciled.
THEOREM CountedKeysAreScheduled == Spec => []CountedIsScheduled
BY QueueInvariant, PTL

\* A list without duplicates is as long as it has elements.
LEMMA LenIsCardinality ==
    ASSUME NEW S, NEW s \in Seq(S), IsInjective(s)
    PROVE  Cardinality(Range(s)) = Len(s)
<1>1. Len(s) \in Nat /\ DOMAIN s = 1..Len(s)
  OBVIOUS
<1>2. s \in Bijection(1..Len(s), Range(s))
  BY <1>1 DEF Bijection, Injection, Surjection, IsInjective, Range
<1>3. IsFiniteSet(1..Len(s)) /\ Cardinality(1..Len(s)) = Len(s)
  BY <1>1, FS_Interval
<1> QED
  BY <1>2, <1>3, FS_Bijection DEF ExistsBijection

\* updateMetrics runs between any two items, so whenever the worker waits for
\* one the metric is the number of keys that failed and were not reconciled.
THEOREM GaugeIsRight == Spec => []GaugeIsExact
<1>1. Init => GaugeIsExact
  BY DEF Init, GaugeIsExact
<1>2. IInv /\ GaugeIsExact /\ [Next]_vars => GaugeIsExact'
  <2> SUFFICES ASSUME IInv, GaugeIsExact, [Next]_vars
               PROVE  GaugeIsExact'
    OBVIOUS
  <2>1. CASE UpdateMetrics
    <3>1. Cardinality(failed) = Len(requeued)
      BY LenIsCardinality DEF IInv, TypeOK, RequeuedIsFailed
    <3> QED
      BY <2>1, <3>1 DEF UpdateMetrics, GaugeIsExact
  <2>2. CASE ~UpdateMetrics
    BY <2>2 DEF Next, Worker, vars, libVars, GaugeIsExact, Add, Expire, Stop, Get,
       GetShutdown, ReconcileOK, ReconcileErr, Done
  <2> QED
    BY <2>1, <2>2
<1>3. Init => IInv
  BY InitInv
<1>4. IInv /\ [Next]_vars => IInv'
  BY StepInv
<1> QED
  BY <1>1, <1>2, <1>3, <1>4, PTL DEF Spec

-----------------------------------------------------------------------------
\* queue.go over client-go's workqueue is a level-triggered list: for the
\* runners only `owed' (due or waiting for a retry) and the key in progress
\* exist.  Liveness of this refinement is left to TLC.
THEOREM RefinesLevelQueue == Spec => ImplementsLevelQueue
<1>1. Init => LQ!Init
  BY DEF Init, LQ!Init
<1>2. IInv /\ [Next]_vars => [LQ!Next]_LQ!vars
  <2> SUFFICES ASSUME IInv, [Next]_vars
               PROVE  [LQ!Next]_LQ!vars
    OBVIOUS
  <2> USE NoKeyAssumption DEF LQ!vars
  <2>1. ASSUME NEW k \in Keys, Add(k)
        PROVE  LQ!Notify({k})
    BY <2>1 DEF Add, Insert, LQ!Notify
  <2>2. ASSUME NEW k \in Keys, Expire(k)
        PROVE  UNCHANGED LQ!vars
    <3>1. dirty' = dirty \cup {k}
      BY <2>2 DEF Expire, Insert
    <3> QED
      BY <2>2, <3>1 DEF Expire
  <2>3. ASSUME Stop
        PROVE  LQ!Close
    BY <2>3 DEF Stop, LQ!Close
  <2>4. ASSUME Get
        PROVE  LQ!Begin(Head(pending)) /\ Head(pending) \in Keys
    <3>1. Head(pending) \in Range(pending) /\ Head(pending) \in Keys
      BY <2>4, TailDropsHead DEF Get, IInv, TypeOK, FifoIsDirty
    <3>2. Head(pending) \in dirty
      BY <3>1 DEF IInv, FifoIsDirty
    <3> QED
      BY <2>4, <3>1, <3>2 DEF Get, LQ!Begin
  <2>5. ASSUME ReconcileOK
        PROVE  LQ!Succeed
    BY <2>5 DEF ReconcileOK, libVars, LQ!Succeed, IInv, TypeOK
  <2>6. ASSUME ReconcileErr
        PROVE  LQ!Fail
    BY <2>6 DEF ReconcileErr, LQ!Fail, IInv, TypeOK
  <2>7. CASE GetShutdown \/ Done \/ UpdateMetrics \/ UNCHANGED vars
    BY <2>7 DEF GetShutdown, Done, UpdateMetrics, vars, libVars
  <2> QED
    BY <2>1, <2>2, <2>3, <2>4, <2>5, <2>6, <2>7 DEF Next, Worker, LQ!Next
<1>3. Init => IInv
  BY InitInv
<1>4. IInv /\ [Next]_vars => IInv'
  BY StepInv
<1> QED
  BY <1>1, <1>2, <1>3, <1>4, PTL DEF Spec, ImplementsLevelQueue, LQ!Spec
=============================================================================
