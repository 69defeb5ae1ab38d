------------------------ MODULE GlobalServicesProofs ------------------------
(***************************************************************************)
(* Theorems about GlobalServices, for every set of clusters.               *)
(***************************************************************************)
EXTENDS GlobalServices, TLAPS

\* What a worker holds at each step of its reconcile.
WorkersHold == \A c \in Clusters :
    /\ pc[c] = "add" => remoteSvc[c] # None
    /\ pc[c] = "remove" => remoteSvc[c] = None
    /\ pc[c] \in {"get", "create", "update"} => gsvc[c] # None
    /\ pc[c] \in {"creating", "updating"} => call[c] # None

\* Before its first list a runner has done nothing and is in nobody's way.
UnsyncedIsAbsent == \A c \in Clusters \ synced :
    /\ pc[c] = "idle" /\ cache[c] = None
    /\ c \notin event \cup owed \cup Members(store)

\* Until its worker reaches the store, it holds what the informer has.
SeenIsCached == \A c \in Clusters \ (event \cup owed) :
    pc[c] \in {"add", "remove"} => remoteSvc[c] = cache[c]

\* At every other step the store agrees with the informer, unless the name is
\* due again.  This is StoreFollowsClusters without `Settled'.
StoreAgrees == \A c \in synced \ (event \cup owed) :
    pc[c] \notin {"add", "remove"} =>
        /\ c \in Members(store) <=> cache[c] # None
        /\ cache[c] # None => store.headless = cache[c].headless

IInv == TypeOK /\ WorkersHold /\ UnsyncedIsAbsent /\ SeenIsCached /\ StoreAgrees

\* A disturbance leaves a budget that is a budget.
LEMMA SpendLeft ==
    ASSUME left \in [Hazards -> Nat], NEW h \in Hazards, Spend(h)
    PROVE  left' \in [Hazards -> Nat]
BY DEF Spend

\* What the first or a further cluster puts into the store.
LEMMA AddedEntry ==
    ASSUME TypeOK, WorkersHold, NEW c \in Clusters, AddOrUpdateClusterServiceTarget(c),
           ~Refuse(c)
    PROVE  store' \in Entry
<1>1. remoteSvc[c] \in Service
  BY DEF AddOrUpdateClusterServiceTarget, TypeOK, WorkersHold
<1>2. /\ remoteSvc[c].ports \in Ports /\ remoteSvc[c].hints \in BOOLEAN
      /\ remoteSvc[c].headless \in BOOLEAN
  BY <1>1 DEF Service
<1>3. Members(store) \cup {c} \subseteq Clusters BY DEF TypeOK, Members, Entry
<1>4. store' = [ports |-> remoteSvc[c].ports, hints |-> remoteSvc[c].hints,
                headless |-> remoteSvc[c].headless, clusters |-> Members(store) \cup {c}]
  BY DEF AddOrUpdateClusterServiceTarget
<1> QED BY <1>2, <1>3, <1>4 DEF Entry

\* The runners begin with an empty store.
LEMMA InitIInv == Init => IInv
BY ConstantsAssumption
DEF Init, All, IInv, TypeOK, WorkersHold, UnsyncedIsAbsent, SeenIsCached, StoreAgrees, Members

-----------------------------------------------------------------------------
\* A step of one runner touches the others only through the store, and there an
\* addition keeps their membership and the headless setting they share, a
\* removal that empties the entry finds none of them in it, and a reconcile that
\* ends without effect leaves its name owed.
LEMMA StepIInv == IInv /\ [Next]_vars => IInv'
<1> SUFFICES ASSUME IInv, [Next]_vars PROVE IInv' OBVIOUS
<1> USE ConstantsAssumption DEF IInv, clusterVars, watchVars, workerVars
<1>1. ASSUME NEW c \in Clusters, Change(c) PROVE IInv'
  <2> USE <1>1 DEF Change
  <2>1. TypeOK'
    <3>1. left' \in [Hazards -> Nat]
      BY SpendLeft, "change" \in Hazards DEF TypeOK, Hazards
    <3> QED BY <3>1 DEF TypeOK
  <2>2. WorkersHold' BY DEF WorkersHold
  <2>3. UnsyncedIsAbsent' BY DEF UnsyncedIsAbsent
  <2>4. SeenIsCached' BY DEF SeenIsCached
  <2>5. StoreAgrees' BY DEF StoreAgrees
  <2> QED BY <2>1, <2>2, <2>3, <2>4, <2>5
<1>2. ASSUME NEW c \in Clusters, InitialList(c) PROVE IInv'
  <2> USE <1>2 DEF InitialList
  <2>1. TypeOK' BY DEF TypeOK
  <2>2. WorkersHold' BY DEF WorkersHold
  <2>3. UnsyncedIsAbsent' BY DEF UnsyncedIsAbsent
  <2>4. SeenIsCached' BY DEF SeenIsCached, UnsyncedIsAbsent
  <2>5. StoreAgrees' BY DEF StoreAgrees, UnsyncedIsAbsent
  <2> QED BY <2>1, <2>2, <2>3, <2>4, <2>5
<1>3. ASSUME NEW c \in Clusters, Deliver(c) PROVE IInv'
  <2> USE <1>3 DEF Deliver
  <2>1. TypeOK' BY DEF TypeOK
  <2>2. WorkersHold' BY DEF WorkersHold
  <2>3. UnsyncedIsAbsent' BY DEF UnsyncedIsAbsent
  <2>4. SeenIsCached' BY DEF SeenIsCached
  <2>5. StoreAgrees' BY DEF StoreAgrees
  <2> QED BY <2>1, <2>2, <2>3, <2>4, <2>5
<1>4. ASSUME NEW c \in Clusters, EventHandler(c) PROVE IInv'
  <2> USE <1>4 DEF EventHandler
  <2>1. TypeOK' BY DEF TypeOK
  <2>2. WorkersHold' BY DEF WorkersHold
  <2>3. UnsyncedIsAbsent' BY DEF UnsyncedIsAbsent
  <2>4. SeenIsCached' BY DEF SeenIsCached
  <2>5. StoreAgrees' BY DEF StoreAgrees
  <2> QED BY <2>1, <2>2, <2>3, <2>4, <2>5
<1>5. ASSUME NEW c \in Clusters, Begin(c) PROVE IInv'
  <2> USE <1>5 DEF Begin
  <2>1. TypeOK' BY DEF TypeOK
  <2>2. WorkersHold' BY DEF WorkersHold, TypeOK
  <2>3. UnsyncedIsAbsent' BY DEF UnsyncedIsAbsent
  <2>4. SeenIsCached' BY DEF SeenIsCached, TypeOK
  <2>5. StoreAgrees' BY DEF StoreAgrees, TypeOK
  <2> QED BY <2>1, <2>2, <2>3, <2>4, <2>5
<1>6. ASSUME NEW c \in Clusters, AddOrUpdateClusterServiceTarget(c) PROVE IInv'
  <2> USE <1>6 DEF AddOrUpdateClusterServiceTarget, Refuse, Return
  <2>1. TypeOK'
    <3>1. CASE Refuse(c) BY <3>1 DEF TypeOK
    <3>2. CASE ~Refuse(c)
      <4>1. store' \in Entry BY <3>2, AddedEntry
      <4> QED BY <3>2, <4>1 DEF TypeOK
    <3> QED BY <3>1, <3>2
  <2>2. WorkersHold' BY DEF WorkersHold, TypeOK
  <2>3. UnsyncedIsAbsent' BY DEF UnsyncedIsAbsent, TypeOK, Members
  <2>4. SeenIsCached' BY DEF SeenIsCached, TypeOK
  <2>5. StoreAgrees' BY DEF StoreAgrees, SeenIsCached, WorkersHold, TypeOK, Members, Service, Entry
  <2> QED BY <2>1, <2>2, <2>3, <2>4, <2>5
<1>7. ASSUME NEW c \in Clusters, DeleteClusterServiceTarget(c) PROVE IInv'
  <2> USE <1>7 DEF DeleteClusterServiceTarget
  <2>1. TypeOK' BY DEF TypeOK, Entry, Members
  <2>2. WorkersHold' BY DEF WorkersHold, TypeOK
  <2>3. UnsyncedIsAbsent' BY DEF UnsyncedIsAbsent, TypeOK, Members, Entry
  <2>4. SeenIsCached' BY DEF SeenIsCached, TypeOK
  <2>5. StoreAgrees' BY DEF StoreAgrees, SeenIsCached, WorkersHold, TypeOK, Members, Entry
  <2> QED BY <2>1, <2>2, <2>3, <2>4, <2>5
<1>8. ASSUME NEW c \in Clusters, Lookup(c) PROVE IInv'
  <2> USE <1>8 DEF Lookup, Refuse, Return
  <2>1. TypeOK'
    <3>1. CASE store = None BY <3>1 DEF TypeOK
    <3>2. CASE store # None BY <3>2 DEF TypeOK
    <3> QED BY <3>1, <3>2
  <2>2. WorkersHold' BY DEF WorkersHold, TypeOK
  <2>3. UnsyncedIsAbsent' BY DEF UnsyncedIsAbsent, TypeOK
  <2>4. SeenIsCached' BY DEF SeenIsCached, TypeOK
  <2>5. StoreAgrees' BY DEF StoreAgrees, TypeOK
  <2> QED BY <2>1, <2>2, <2>3, <2>4, <2>5
<1>9. ASSUME NEW c \in Clusters, GetService(c) PROVE IInv'
  <2> USE <1>9 DEF GetService
  <2>1. TypeOK' BY DEF TypeOK
  <2>2. WorkersHold' BY DEF WorkersHold
  <2>3. UnsyncedIsAbsent' BY DEF UnsyncedIsAbsent
  <2>4. SeenIsCached' BY DEF SeenIsCached
  <2>5. StoreAgrees' BY DEF StoreAgrees
  <2> QED BY <2>1, <2>2, <2>3, <2>4, <2>5
<1>10. ASSUME NEW c \in Clusters, PrepareCreate(c) PROVE IInv'
  <2> USE <1>10 DEF PrepareCreate, Deref
  <2>1. TypeOK'
    <3>1. remoteSvc[c].ports \in Ports BY DEF TypeOK, Service
    <3>2. Deref(c) \in Entry BY DEF TypeOK, WorkersHold
    <3>3. [Deref(c) EXCEPT !.ports = remoteSvc[c].ports] \in Entry BY <3>1, <3>2 DEF Entry
    <3> HIDE DEF Deref
    <3> QED BY <3>3 DEF TypeOK
  <2>2. WorkersHold' BY DEF WorkersHold, TypeOK, Service, Entry
  <2>3. UnsyncedIsAbsent' BY DEF UnsyncedIsAbsent
  <2>4. SeenIsCached' BY DEF SeenIsCached
  <2>5. StoreAgrees' BY DEF StoreAgrees
  <2> QED BY <2>1, <2>2, <2>3, <2>4, <2>5
<1>11. ASSUME NEW c \in Clusters, PrepareUpdate(c) PROVE IInv'
  <2> USE <1>11 DEF PrepareUpdate, Deref
  <2>1. TypeOK' BY DEF TypeOK
  <2>2. WorkersHold' BY DEF WorkersHold, TypeOK
  <2>3. UnsyncedIsAbsent' BY DEF UnsyncedIsAbsent
  <2>4. SeenIsCached' BY DEF SeenIsCached
  <2>5. StoreAgrees' BY DEF StoreAgrees
  <2> QED BY <2>1, <2>2, <2>3, <2>4, <2>5
<1>12. ASSUME NEW c \in Clusters, Panic(c) PROVE IInv'
  <2> USE <1>12 DEF Panic, Restart, All
  <2>1. TypeOK' BY DEF TypeOK
  <2>2. WorkersHold' BY DEF WorkersHold
  <2>3. UnsyncedIsAbsent' BY DEF UnsyncedIsAbsent, Members
  <2>4. SeenIsCached' BY DEF SeenIsCached
  <2>5. StoreAgrees' BY DEF StoreAgrees
  <2> QED BY <2>1, <2>2, <2>3, <2>4, <2>5
<1>13. ASSUME NEW c \in Clusters, CreateService(c) PROVE IInv'
  <2> USE <1>13 DEF CreateService, Write, Refuse, Return
  <2>1. TypeOK'
    <3>1. left' \in [Hazards -> Nat]
      BY SpendLeft, "fault" \in Hazards DEF TypeOK, Hazards
    <3>2. local' \in Entry \cup {None}
      BY DEF TypeOK
    <3> QED BY <3>1, <3>2 DEF TypeOK
  <2>2. WorkersHold' BY DEF WorkersHold, TypeOK
  <2>3. UnsyncedIsAbsent' BY DEF UnsyncedIsAbsent, TypeOK
  <2>4. SeenIsCached' BY DEF SeenIsCached, TypeOK
  <2>5. StoreAgrees' BY DEF StoreAgrees, TypeOK
  <2> QED BY <2>1, <2>2, <2>3, <2>4, <2>5
<1>14. ASSUME NEW c \in Clusters, UpdateService(c) PROVE IInv'
  <2> USE <1>14 DEF UpdateService, Write, Refuse, Return
  <2>1. TypeOK'
    <3>1. left' \in [Hazards -> Nat]
      BY SpendLeft, "fault" \in Hazards DEF TypeOK, Hazards
    <3>2. local' \in Entry \cup {None}
      BY DEF TypeOK, WorkersHold, Entry
    <3> QED BY <3>1, <3>2 DEF TypeOK
  <2>2. WorkersHold' BY DEF WorkersHold, TypeOK
  <2>3. UnsyncedIsAbsent' BY DEF UnsyncedIsAbsent, TypeOK
  <2>4. SeenIsCached' BY DEF SeenIsCached, TypeOK
  <2>5. StoreAgrees' BY DEF StoreAgrees, TypeOK
  <2> QED BY <2>1, <2>2, <2>3, <2>4, <2>5
<1>15. ASSUME NEW c \in Clusters, DeleteService(c) PROVE IInv'
  <2> USE <1>15 DEF DeleteService, Write, Return
  <2>1. TypeOK'
    <3>1. left' \in [Hazards -> Nat]
      BY SpendLeft, "fault" \in Hazards DEF TypeOK, Hazards
    <3> QED BY <3>1 DEF TypeOK
  <2>2. WorkersHold' BY DEF WorkersHold, TypeOK
  <2>3. UnsyncedIsAbsent' BY DEF UnsyncedIsAbsent, TypeOK
  <2>4. SeenIsCached' BY DEF SeenIsCached, TypeOK
  <2>5. StoreAgrees' BY DEF StoreAgrees, TypeOK
  <2> QED BY <2>1, <2>2, <2>3, <2>4, <2>5
<1>16. ASSUME NEW c \in Clusters, Fault(c) PROVE IInv'
  <2> USE <1>16 DEF Fault, Return
  <2>1. TypeOK'
    <3>1. left' \in [Hazards -> Nat]
      BY SpendLeft, "fault" \in Hazards DEF TypeOK, Hazards
    <3> QED BY <3>1 DEF TypeOK
  <2>2. WorkersHold' BY DEF WorkersHold, TypeOK
  <2>3. UnsyncedIsAbsent' BY DEF UnsyncedIsAbsent
  <2>4. SeenIsCached' BY DEF SeenIsCached
  <2>5. StoreAgrees' BY DEF StoreAgrees
  <2> QED BY <2>1, <2>2, <2>3, <2>4, <2>5
<1>17. CASE Crash
  <2>1. left' \in [Hazards -> Nat]
    BY <1>17, SpendLeft DEF Crash, TypeOK, Hazards
  <2> QED
    BY <1>17, <2>1 DEF Crash, Restart, All, TypeOK, WorkersHold, UnsyncedIsAbsent, SeenIsCached,
                       StoreAgrees, Members
<1>18. CASE UNCHANGED vars
  BY <1>18 DEF vars, TypeOK, WorkersHold, UnsyncedIsAbsent, SeenIsCached, StoreAgrees, Members
<1> QED
  BY <1>1, <1>2, <1>3, <1>4, <1>5, <1>6, <1>7, <1>8, <1>9, <1>10, <1>11, <1>12, <1>13, <1>14,
     <1>15, <1>16, <1>17, <1>18
  DEF Next, Informer, Reconcile

\* The store and the runners' workers keep the invariant for ever.
LEMMA Invariance == Spec => []IInv
BY InitIInv, StepIInv, PTL DEF Spec

-----------------------------------------------------------------------------
\* Every variable stays in its range, and no worker's pointer into the store
\* outlives the entry.
THEOREM TypeCorrect == Spec => []TypeOK
<1>1. IInv => TypeOK BY DEF IInv
<1> QED BY <1>1, Invariance, PTL

\* For every set of clusters, whatever their runners do at the same time, and
\* through faults and restarts: the store lists a settled cluster exactly if it
\* has the service.
THEOREM StoreIsRight == Spec => []StoreFollowsClusters
<1>1. IInv => StoreFollowsClusters
  BY DEF IInv, StoreAgrees, StoreFollowsClusters, Settled
<1> QED BY <1>1, Invariance, PTL

-----------------------------------------------------------------------------
\* A runner that adds is in the store from its addition to its reconcile's end,
\* and only such a runner creates the local service.
AdderIsIn == \A c \in Clusters :
    /\ pc[c] \notin {"idle", "add", "remove"} /\ remoteSvc[c] # None => c \in Members(store)
    /\ pc[c] = "creating" => remoteSvc[c] # None

\* Without an entry, a local service has a runner that will look at the name
\* again or is about to delete the service.
StaleWillGo ==
    store = None /\ local # None /\ left["crash"] = Budget["crash"] /\ ~panicked =>
        \E c \in Clusters : c \in event \cup owed \/ pc[c] \in {"add", "remove", "delete"}

BudgetFalls == left["crash"] <= Budget["crash"]

GoesInv == AdderIsIn /\ StaleWillGo /\ BudgetFalls

\* A crash uses up some of its budget, for ever.
LEMMA StepBudgetFalls == IInv /\ GoesInv /\ [Next]_vars =>
    BudgetFalls' /\ (left'["crash"] = left["crash"] \/ left'["crash"] # Budget["crash"])
<1> SUFFICES ASSUME IInv, GoesInv, [Next]_vars
             PROVE  /\ BudgetFalls'
                    /\ left'["crash"] = left["crash"] \/ left'["crash"] # Budget["crash"]
  OBVIOUS
<1>1. left["crash"] \in Nat /\ Budget["crash"] \in Nat
  BY ConstantsAssumption DEF IInv, TypeOK, Hazards
<1>2. CASE Crash
  <2>1. left'["crash"] = left["crash"] - 1
    BY <1>2 DEF Crash, Spend, IInv, TypeOK, Hazards
  <2> QED BY <1>1, <1>2, <2>1 DEF GoesInv, BudgetFalls
<1>3. ASSUME UNCHANGED left \/ Spend("change") \/ Spend("fault")
      PROVE  left'["crash"] = left["crash"]
  BY <1>3 DEF Spend, IInv, TypeOK, Hazards
<1>4. CASE ~Crash
  <2>1. UNCHANGED left \/ Spend("change") \/ Spend("fault")
    BY <1>4
    DEF Next, vars, Change, Informer, InitialList, Deliver, EventHandler, Begin, Reconcile,
        AddOrUpdateClusterServiceTarget, DeleteClusterServiceTarget, Lookup, GetService,
        PrepareCreate, PrepareUpdate, Panic, CreateService, UpdateService, DeleteService,
        Fault, Write, Refuse
  <2>2. left'["crash"] = left["crash"] BY <1>3, <2>1
  <2> QED BY <2>2 DEF GoesInv, BudgetFalls
<1> QED BY <1>2, <1>4

\* How a reconcile ends does not matter to the others, and a failed one is owed.
LEMMA ReturnGoes ==
    ASSUME IInv, GoesInv, NEW c \in Clusters, pc[c] # "idle", NEW ok \in BOOLEAN, Return(c, ok),
           pc[c] \notin {"add", "remove", "delete"} \/ ~ok \/ local' = None,
           local' = local \/ local' = None \/ local # None \/ store # None,
           left'["crash"] = left["crash"]
    PROVE  AdderIsIn' /\ StaleWillGo'
<1> USE DEF watchVars, Return, IInv, TypeOK
<1>1. AdderIsIn' BY DEF GoesInv, AdderIsIn
<1>2. StaleWillGo'
  <2> SUFFICES ASSUME store = None, local' # None, left["crash"] = Budget["crash"], ~panicked
               PROVE  (\E d \in Clusters :
                         d \in event \cup owed \/ pc[d] \in {"add", "remove", "delete"})'
    BY DEF StaleWillGo
  <2>1. PICK d \in Clusters : d \in event \cup owed \/ pc[d] \in {"add", "remove", "delete"}
    BY DEF GoesInv, StaleWillGo
  <2>2. owed \subseteq owed' /\ (~ok => c \in owed') /\ event' = event
    OBVIOUS
  <2>3. d # c => pc'[d] = pc[d]
    OBVIOUS
  <2> QED BY <2>1, <2>2, <2>3
<1> QED BY <1>1, <1>2

\* A removal that empties the entry is itself about to delete, an addition makes
\* one, and between the two no request puts the local service back unseen.
LEMMA StepGoes == IInv /\ GoesInv /\ [Next]_vars => GoesInv'
<1> SUFFICES ASSUME IInv, GoesInv, [Next]_vars PROVE AdderIsIn' /\ StaleWillGo'
  BY StepBudgetFalls DEF GoesInv
<1>1. ASSUME NEW c \in Clusters, Change(c) \/ Informer(c)
      PROVE  AdderIsIn' /\ StaleWillGo'
  <2>1. /\ UNCHANGED <<local, store, pc, remoteSvc, panicked>>
        /\ event \subseteq event' \cup owed' /\ owed \subseteq owed'
        /\ left'["crash"] = left["crash"]
    BY <1>1
    DEF Change, Informer, InitialList, Deliver, EventHandler, clusterVars, watchVars,
        workerVars, Spend, IInv, TypeOK, Hazards
  <2> QED BY <2>1 DEF GoesInv, AdderIsIn, StaleWillGo
<1>2. ASSUME NEW c \in Clusters, Begin(c)
      PROVE  AdderIsIn' /\ StaleWillGo'
  BY <1>2 DEF Begin, GoesInv, AdderIsIn, StaleWillGo, IInv, TypeOK, clusterVars, watchVars
<1>3. ASSUME NEW c \in Clusters, AddOrUpdateClusterServiceTarget(c), ~Refuse(c)
      PROVE  AdderIsIn' /\ StaleWillGo'
  <2>1. store' \in Entry /\ store' # None
    BY <1>3, AddedEntry, ConstantsAssumption DEF IInv
  <2>2. store'.clusters = Members(store) \cup {c} /\ Members(store') = store'.clusters
    BY <1>3, <2>1 DEF AddOrUpdateClusterServiceTarget, Members
  <2> QED BY <1>3, <2>1, <2>2
      DEF AddOrUpdateClusterServiceTarget, GoesInv, AdderIsIn, StaleWillGo, IInv, TypeOK
<1>4. ASSUME NEW c \in Clusters, DeleteClusterServiceTarget(c)
      PROVE  AdderIsIn' /\ StaleWillGo'
  <2> USE <1>4 DEF DeleteClusterServiceTarget, IInv, clusterVars, watchVars
  <2>1. remoteSvc[c] = None /\ UNCHANGED remoteSvc BY DEF WorkersHold
  <2>2. CASE Members(store) \subseteq {c}
    BY <2>1, <2>2 DEF GoesInv, AdderIsIn, StaleWillGo, TypeOK
  <2>3. CASE ~(Members(store) \subseteq {c})
    <3>1. store \in Entry /\ store # None BY <2>3 DEF TypeOK, Members
    <3>2. store' = [store EXCEPT !.clusters = @ \ {c}] BY <2>3
    <3>3. store' \in Entry /\ store'.clusters = store.clusters \ {c} /\ store' # None
      BY <3>1, <3>2, ConstantsAssumption DEF Entry
    <3>4. Members(store') = Members(store) \ {c} BY <3>1, <3>3 DEF Members
    <3> QED BY <2>1, <2>3, <3>3, <3>4 DEF GoesInv, AdderIsIn, StaleWillGo, TypeOK
  <2> QED BY <2>2, <2>3
<1>5. ASSUME NEW c \in Clusters,
             \/ Lookup(c) /\ ~Refuse(c)
             \/ GetService(c) \/ PrepareCreate(c) \/ PrepareUpdate(c)
      PROVE  AdderIsIn' /\ StaleWillGo'
  <2>1. /\ UNCHANGED <<local, event, owed, store, remoteSvc, panicked, left>>
        /\ \E p \in {"get", "create", "update", "creating", "updating"} :
             pc' = [pc EXCEPT ![c] = p]
        /\ pc[c] \notin {"idle", "add", "remove", "delete"}
    BY <1>5 DEF Lookup, GetService, PrepareCreate, PrepareUpdate, clusterVars, watchVars
  <2>2. AdderIsIn'
    <3>1. PrepareCreate(c) => remoteSvc[c] # None BY DEF PrepareCreate
    <3>2. pc'[c] = "creating" => PrepareCreate(c)
      BY <1>5 DEF Lookup, GetService, PrepareCreate, PrepareUpdate, IInv, TypeOK
    <3> QED BY <2>1, <3>1, <3>2 DEF GoesInv, AdderIsIn, IInv, TypeOK
  <2>3. StaleWillGo' BY <2>1 DEF GoesInv, StaleWillGo, IInv, TypeOK
  <2> QED BY <2>2, <2>3
<1>6. ASSUME NEW c \in Clusters, pc[c] # "idle", Return(c, FALSE), UNCHANGED local,
             UNCHANGED left \/ Spend("fault")
      PROVE  AdderIsIn' /\ StaleWillGo'
  BY <1>6, ReturnGoes DEF Spend, IInv, TypeOK, Hazards
<1>7. ASSUME NEW c \in Clusters, NEW v, Write(c, v), pc[c] \in {"creating", "updating", "delete"},
             v = None \/ (pc[c] # "delete" /\ (local # None \/ store # None))
      PROVE  AdderIsIn' /\ StaleWillGo'
  BY <1>7, ReturnGoes DEF Write, Spend, IInv, TypeOK, Hazards
<1>8. ASSUME NEW c \in Clusters, CreateService(c)
      PROVE  AdderIsIn' /\ StaleWillGo'
  <2>1. pc[c] = "creating" /\ store # None
    BY <1>8 DEF CreateService, GoesInv, AdderIsIn, Members
  <2> QED BY <1>6, <1>7, <1>8, <2>1 DEF CreateService, Refuse
<1>9. ASSUME NEW c \in Clusters, UpdateService(c)
      PROVE  AdderIsIn' /\ StaleWillGo'
  BY <1>6, <1>7, <1>9 DEF UpdateService, Refuse
<1>10. CASE Crash \/ \E c \in Clusters : Panic(c)
  <2>1. AdderIsIn' BY <1>10 DEF Crash, Panic, Restart, All, AdderIsIn
  <2>2. panicked' \/ left'["crash"] # Budget["crash"]
    <3>1. CASE Crash
      <4>1. left'["crash"] # left["crash"]
        BY <3>1 DEF Crash, Spend, IInv, TypeOK, Hazards
      <4> QED BY <3>1, <4>1, StepBudgetFalls
    <3> QED BY <1>10, <3>1 DEF Panic
  <2> QED BY <2>1, <2>2 DEF StaleWillGo
<1>11. CASE UNCHANGED vars
  BY <1>11 DEF vars, clusterVars, watchVars, workerVars, GoesInv, AdderIsIn, StaleWillGo
<1>12. ASSUME NEW c \in Clusters, Reconcile(c), ~Panic(c)
      PROVE  AdderIsIn' /\ StaleWillGo'
  <2>1. CASE Refuse(c) /\ pc[c] # "idle" BY <1>6, <2>1 DEF Refuse
  <2>2. CASE Fault(c) BY <1>6, <2>2 DEF Fault
  <2>3. CASE DeleteService(c)
    <3>1. Write(c, None) /\ pc[c] \in {"creating", "updating", "delete"}
      BY <2>3 DEF DeleteService
    <3> QED BY <1>7, <3>1
  <2>4. AddOrUpdateClusterServiceTarget(c) \/ Lookup(c) => pc[c] # "idle"
    BY DEF AddOrUpdateClusterServiceTarget, Lookup
  <2> QED BY <1>3, <1>4, <1>5, <1>8, <1>9, <1>12, <2>1, <2>2, <2>3, <2>4 DEF Reconcile
<1> QED BY <1>1, <1>2, <1>10, <1>11, <1>12 DEF Next

\* The local service does not outlive the entry, whatever the runners do at the
\* same time and however often their requests fail: it is gone when they settle.
THEOREM LocalGoes == Spec => []LocalGoesWithStore
<1>1. Init => GoesInv
  BY ConstantsAssumption DEF Init, All, GoesInv, AdderIsIn, StaleWillGo, BudgetFalls, Hazards
<1>2. GoesInv => LocalGoesWithStore
  BY DEF GoesInv, StaleWillGo, LocalGoesWithStore, Quiet, Settled
<1> QED BY <1>1, <1>2, StepGoes, Invariance, PTL DEF Spec

-----------------------------------------------------------------------------
\* Each runner uses its serviceQueue as a level-triggered list, which queue.go
\* implements: other clusters' runners do not touch it.
THEOREM QueuesAreUsed == Spec => UsesLevelQueue
<1>1. Init => \A c \in Clusters : Queue(c)!Init
  BY DEF Init, All, Queue!Init
<1>2. ASSUME TypeOK, [Next]_vars, NEW c \in Clusters
      PROVE  [Queue(c)!Next \/ Restart]_(Queue(c)!vars)
  <2> USE DEF Queue!vars
  <2>1. ASSUME UNCHANGED vars \/ \E d \in Clusters : Change(d)
        PROVE  UNCHANGED Queue(c)!vars
    BY <2>1 DEF Change, vars, workerVars
  <2>2. ASSUME NEW d \in Clusters, Informer(d)
        PROVE  UNCHANGED Queue(c)!vars \/ Queue(c)!Notify({"name"})
    BY <2>2
    DEF Informer, InitialList, Deliver, EventHandler, workerVars, Queue!Notify
  <2>3. ASSUME NEW d \in Clusters, Begin(d)
        PROVE  UNCHANGED Queue(c)!vars \/ Queue(c)!Begin("name")
    BY <1>2, <2>3 DEF Begin, TypeOK, Queue!Begin
  <2>4. ASSUME NEW d \in Clusters, Reconcile(d)
        PROVE  UNCHANGED Queue(c)!vars \/ Queue(c)!Succeed \/ Queue(c)!Fail \/ Restart
    <3>1. ASSUME pc[d] # "idle", NEW ok \in BOOLEAN, Return(d, ok)
          PROVE  UNCHANGED Queue(c)!vars \/ Queue(c)!Succeed \/ Queue(c)!Fail
      BY <1>2, <3>1 DEF Return, TypeOK, Queue!Succeed, Queue!Fail
    <3>2. ASSUME pc[d] # "idle", NEW p, p # "idle", pc' = [pc EXCEPT ![d] = p], owed' = owed
          PROVE  UNCHANGED Queue(c)!vars
      BY <1>2, <3>2 DEF TypeOK
    <3>3. CASE Panic(d)
      BY <3>3 DEF Panic
    <3>4. CASE ~Panic(d)
      BY <2>4, <3>1, <3>2, <3>4
      DEF Reconcile, AddOrUpdateClusterServiceTarget, DeleteClusterServiceTarget, Lookup,
          GetService, PrepareCreate, PrepareUpdate, CreateService, UpdateService,
          DeleteService, Fault, Write, Refuse
    <3> QED BY <3>3, <3>4
  <2>5. {"name"} \in SUBSET {"name"} /\ "name" \in {"name"}
    OBVIOUS
  <2>6. ASSUME Crash PROVE Restart
    BY <2>6 DEF Crash
  <2> QED BY <1>2, <2>1, <2>2, <2>3, <2>4, <2>5, <2>6 DEF Next, Queue!Next
<1>3. TypeOK /\ [Next]_vars =>
        [\A c \in Clusters :
            UNCHANGED Queue(c)!vars \/ Queue(c)!Next \/ Restart]_vars
  BY <1>2
<1> QED BY <1>1, <1>3, TypeCorrect, PTL DEF Spec, UsesLevelQueue

=============================================================================
