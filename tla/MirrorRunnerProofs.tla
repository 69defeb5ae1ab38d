------------------------- MODULE MirrorRunnerProofs -------------------------
(***************************************************************************)
(* Theorems about MirrorRunner, for all sets of names and contents, every  *)
(* bound on the disturbances and every setting of serviceSync and          *)
(* resyncPeriod.                                                           *)
(***************************************************************************)
EXTENDS MirrorRunner, TLAPS

\* Run starts the workers and the endpoints informer last.
WorkersWait ==
    /\ phase # "running" => ~synced["endpoints"] /\ \A k \in Kinds : pc[k] = "idle"
    /\ syncOk => phase = "running"

\* Nothing is queued, announced or reconciled that the store never held.
OnlyKnown ==
    \A k \in Kinds :
        /\ ~synced[k] => known[k] = {}
        /\ \A n \in Names \ known[k] :
            cache[k][n] = None /\ n \notin owed[k] /\ event[k] # n /\ key[k] # n

\* While the workers wait, everything the stores held is still to be done.
KnownIsPending ==
    phase # "running" => \A k \in Kinds : \A n \in known[k] : Pending(k, n)

\* Until the service sync ends, every stale mirror is among those it will look at.
StaleIsFound ==
    \A n \in Names \ (known["service"] \cup disturbed["service"]) :
        local["service"][n] # None =>
            /\ phase = "waiting" /\ listed => n \in mirrors
            /\ phase = "syncing" => n \in todo

\* The inductive invariant.  SettledIsMirrored needs SeenIsCurrent when a
\* worker's write makes its key settled, and KnownIsPending when the workers
\* start; NoStaleMirror needs StaleIsFound when the sync ends and OnlyKnown
\* when a worker creates a mirror.
IInv ==
    /\ TypeOK /\ SeenIsCurrent /\ SettledIsMirrored /\ NoStaleMirror
    /\ WorkersWait /\ OnlyKnown /\ KnownIsPending /\ StaleIsFound

-----------------------------------------------------------------------------
(* Facts about the operators. *)

\* An object is not None, and None is no object.
LEMMA NoneIsNoValue ==
    ASSUME NEW k \in Kinds
    PROVE  None \notin Value(k) /\ None \in Object(k) /\ Value(k) \subseteq Object(k)
BY ConstantsAssumption DEF Object

\* Writing one object of one kind leaves the others alone.
LEMMA StoreUpdate ==
    ASSUME NEW f \in Stores, NEW k \in Kinds, NEW n \in Names, NEW v \in Object(k),
           NEW g, g = [f EXCEPT ![k][n] = v]
    PROVE  /\ g \in Stores
           /\ \A j \in Kinds, x \in Names : g[j][x] = IF j = k /\ x = n THEN v ELSE f[j][x]
<1>1. f \in [Kinds -> [Names -> AnyObject]] /\ \A j \in Kinds : f[j] \in [Names -> Object(j)]
  BY DEF Stores, AnyObject
<1>2. v \in AnyObject
  BY DEF AnyObject
<1>3. g \in [Kinds -> [Names -> AnyObject]]
  BY <1>1, <1>2
<1>4. \A j \in Kinds : g[j] = IF j = k THEN [f[k] EXCEPT ![n] = v] ELSE f[j]
  BY <1>1
<1>5. \A j \in Kinds : g[j] \in [Names -> Object(j)]
  BY <1>1, <1>4
<1>6. \A j \in Kinds, x \in Names : g[j][x] = IF j = k /\ x = n THEN v ELSE f[j][x]
  BY <1>1, <1>4
<1> QED
  BY <1>3, <1>5, <1>6 DEF Stores, AnyObject

\* So does replacing all objects of one kind.
LEMMA StoreReplace ==
    ASSUME NEW f \in Stores, NEW k \in Kinds, NEW row \in [Names -> Object(k)],
           NEW g, g = [f EXCEPT ![k] = row]
    PROVE  /\ g \in Stores
           /\ \A j \in Kinds, x \in Names : g[j][x] = IF j = k THEN row[x] ELSE f[j][x]
<1>1. f \in [Kinds -> [Names -> AnyObject]] /\ \A j \in Kinds : f[j] \in [Names -> Object(j)]
  BY DEF Stores, AnyObject
<1>2. row \in [Names -> AnyObject]
  BY DEF AnyObject
<1> QED
  BY <1>1, <1>2 DEF Stores, AnyObject

\* The empty stores of a process that starts.
LEMMA EmptyStores == Both(EmptyStore) \in Stores
BY NoneIsNoValue DEF Both, EmptyStore, Stores, AnyObject

\* A disturbance uses up some of its budget.
LEMMA SpendType ==
    ASSUME left \in [Hazards -> Nat], NEW h \in Hazards, Spend(h)
    PROVE  left' \in [Hazards -> Nat]
BY DEF Spend

-----------------------------------------------------------------------------
(* Type correctness. *)

\* The first process starts with the types right.
LEMMA InitType == Init => TypeOK
<1> SUFFICES ASSUME Init PROVE TypeOK
  OBVIOUS
<1>1. PICK s \in [Names -> Object("service")], mi \in [Names -> Object("service")],
           e \in [Names -> Object("endpoints")], f \in [Names -> Object("endpoints")] :
        /\ remote = [k \in Kinds |-> IF k = "service" THEN s ELSE e]
        /\ local = [k \in Kinds |-> IF k = "service" THEN mi ELSE f]
  BY DEF Init
<1>2. remote \in Stores /\ local \in Stores
  BY <1>1 DEF Stores, AnyObject, Kinds
<1>3. cache \in Stores
  BY EmptyStores DEF Init, Boot
<1>4. None \in AnyObject /\ \A k \in Kinds : None \in Object(k)
  BY NoneIsNoValue DEF AnyObject, Kinds
<1>5. left \in [Hazards -> Nat]
  BY ConstantsAssumption DEF Init
<1> QED
  BY <1>2, <1>3, <1>4, <1>5 DEF Init, Boot, Both, TypeOK

\* Type correctness of a step of the clusters.
LEMMA ClusterType ==
    ASSUME TypeOK, Cluster PROVE TypeOK'
<1>1. ASSUME NEW k \in Kinds, NEW n \in Names, Change(k, n)
      PROVE  TypeOK'
  <2>1. PICK v \in Object(k) : remote' = [remote EXCEPT ![k][n] = v]
    BY <1>1 DEF Change
  <2>2. remote' \in Stores
    BY <2>1, StoreUpdate DEF TypeOK
  <2>3. left' \in [Hazards -> Nat]
    BY <1>1, SpendType DEF Change, TypeOK, Hazards
  <2> QED
    BY <1>1, <2>2, <2>3 DEF Change, TypeOK, watchVars, workerVars, startVars
<1>2. ASSUME NEW k \in Kinds, NEW n \in Names, Tamper(k, n)
      PROVE  TypeOK'
  <2>1. PICK v \in Object(k) : local' = [local EXCEPT ![k][n] = v]
    BY <1>2 DEF Tamper
  <2>2. local' \in Stores
    BY <2>1, StoreUpdate DEF TypeOK
  <2>3. left' \in [Hazards -> Nat]
    BY <1>2, SpendType DEF Tamper, TypeOK, Hazards
  <2>4. gc' \subseteq Names /\ disturbed' \in [Kinds -> SUBSET Names] /\ fresh' \in BOOLEAN
    BY <1>2 DEF Tamper, TypeOK
  <2> QED
    BY <1>2, <2>2, <2>3, <2>4 DEF Tamper, TypeOK, watchVars, workerVars, startVars
<1>3. ASSUME NEW n \in Names, CollectEndpoints(n)
      PROVE  TypeOK'
  <2>1. local' \in Stores
    BY <1>3, StoreUpdate, NoneIsNoValue DEF CollectEndpoints, TypeOK, Kinds
  <2>2. gc' \subseteq Names /\ disturbed' \in [Kinds -> SUBSET Names]
    BY <1>3 DEF CollectEndpoints, TypeOK
  <2> QED
    BY <1>3, <2>1, <2>2 DEF CollectEndpoints, TypeOK, watchVars, workerVars, startVars
<1> QED
  BY <1>1, <1>2, <1>3 DEF Cluster

\* Type correctness of a step of an informer.
LEMMA InformerType ==
    ASSUME TypeOK, NEW k \in Kinds, Informer(k) PROVE TypeOK'
<1>1. ASSUME InitialList(k)
      PROVE  TypeOK'
  <2>1. remote[k] \in [Names -> Object(k)]
    BY DEF TypeOK, Stores
  <2>2. cache' \in Stores
    BY <1>1, <2>1, StoreReplace DEF InitialList, TypeOK
  <2>3. /\ synced' \in [Kinds -> BOOLEAN]
        /\ known' \in [Kinds -> SUBSET Names] /\ owed' \in [Kinds -> SUBSET Names]
    BY <1>1 DEF InitialList, TypeOK
  <2> QED
    BY <1>1, <2>2, <2>3 DEF InitialList, TypeOK, clusterVars, workerVars, startVars
<1>2. ASSUME NEW n \in Names, Deliver(k, n)
      PROVE  TypeOK'
  <2>1. remote[k][n] \in Object(k)
    BY DEF TypeOK, Stores
  <2>2. cache' \in Stores
    BY <1>2, <2>1, StoreUpdate DEF Deliver, TypeOK
  <2>3. known' \in [Kinds -> SUBSET Names] /\ event' \in [Kinds -> Names \cup {NoName}]
    BY <1>2 DEF Deliver, TypeOK
  <2> QED
    BY <1>2, <2>2, <2>3 DEF Deliver, TypeOK, clusterVars, workerVars, startVars
<1>3. ASSUME EventHandler(k)
      PROVE  TypeOK'
  <2>1. owed' \in [Kinds -> SUBSET Names] /\ event' \in [Kinds -> Names \cup {NoName}]
    BY <1>3 DEF EventHandler, TypeOK
  <2> QED
    BY <1>3, <2>1 DEF EventHandler, TypeOK, clusterVars, workerVars, startVars
<1>4. ASSUME NEW n \in Names, Resync(k, n)
      PROVE  TypeOK'
  BY <1>4 DEF Resync, TypeOK, clusterVars, watchVars, workerVars, startVars
<1> QED
  BY <1>1, <1>2, <1>3, <1>4 DEF Informer, Watch

\* Type correctness of a step of Run.
LEMMA RunType ==
    ASSUME TypeOK, Run PROVE TypeOK'
<1>1. CASE ListMirrors
  BY <1>1 DEF ListMirrors, TypeOK, clusterVars, watchVars, workerVars
<1>2. CASE SyncStart
  BY <1>2 DEF SyncStart, TypeOK, clusterVars, watchVars, workerVars
<1>3. CASE SyncDone
  BY <1>3 DEF SyncDone, TypeOK, clusterVars, watchVars, workerVars
<1>4. ASSUME NEW n \in Names, SyncDelete(n)
      PROVE  TypeOK'
  <2>1. local' \in Stores
    BY <1>4, StoreUpdate, NoneIsNoValue DEF SyncDelete, TypeOK, Kinds
  <2>2. disturbed' \in [Kinds -> SUBSET Names] /\ gc' \subseteq Names /\ todo' \subseteq Names
    BY <1>4 DEF SyncDelete, TypeOK
  <2>3. left' \in [Hazards -> Nat] /\ phase' \in {"waiting", "syncing", "running"}
    BY <1>4, SpendType DEF SyncDelete, TypeOK, Hazards
  <2> QED
    BY <1>4, <2>1, <2>2, <2>3 DEF SyncDelete, TypeOK, watchVars, workerVars
<1>5. ASSUME NEW n \in Names, SyncAbort(n)
      PROVE  TypeOK'
  <2>1. left' \in [Hazards -> Nat]
    BY <1>5, SpendType DEF SyncAbort, TypeOK, Hazards
  <2> QED
    BY <1>5, <2>1 DEF SyncAbort, TypeOK, clusterVars, watchVars, workerVars
<1> QED
  BY <1>1, <1>2, <1>3, <1>4, <1>5 DEF Run

\* What a reconcile that returns leaves behind.
LEMMA ReturnType ==
    ASSUME TypeOK, NEW k \in Kinds, NEW ok \in BOOLEAN, key[k] # NoName, Return(k, ok)
    PROVE  /\ pc' \in [Kinds -> {"idle", "delete", "get", "create", "update"}]
           /\ key' \in [Kinds -> Names \cup {NoName}]
           /\ seen' \in [Kinds -> AnyObject]
           /\ \A j \in Kinds : /\ seen'[j] \in Object(j)
                               /\ key'[j] = NoName <=> pc'[j] = "idle"
                               /\ seen'[j] = None <=> pc'[j] \in {"idle", "delete"}
           /\ fresh' \in BOOLEAN
           /\ owed' \in [Kinds -> SUBSET Names]
<1>1. None \in AnyObject /\ None \in Object(k)
  BY NoneIsNoValue DEF AnyObject
<1>2. key[k] \in Names
  BY DEF TypeOK
<1>3. owed' \in [Kinds -> SUBSET Names]
  BY <1>2 DEF Return, TypeOK
<1> QED
  BY <1>1, <1>3 DEF Return, TypeOK

\* A worker's write puts an object of the right kind into the local cluster.
LEMMA WriteType ==
    ASSUME TypeOK, NEW k \in Kinds, NEW v \in Object(k), key[k] # NoName,
           Write(k, v), gc' \subseteq Names
    PROVE  TypeOK'
<1>1. key[k] \in Names
  BY DEF TypeOK
<1>2. PICK ok \in BOOLEAN : Return(k, ok) /\ (UNCHANGED left \/ Spend("fault"))
  BY DEF Write
<1>3. local' \in Stores
  BY <1>1, StoreUpdate DEF Write, TypeOK
<1>4. disturbed' \in [Kinds -> SUBSET Names]
  BY DEF Write, TypeOK
<1>5. left' \in [Hazards -> Nat]
  BY <1>2, SpendType DEF TypeOK, Hazards
<1>6. UNCHANGED <<remote, watchVars, startVars>>
  BY <1>2 DEF Return
<1> QED
  BY <1>2, <1>3, <1>4, <1>5, <1>6, ReturnType DEF TypeOK, watchVars, startVars

\* So does one that is refused, or that fails.
LEMMA RefuseType ==
    ASSUME TypeOK, NEW k \in Kinds, key[k] # NoName,
           Return(k, FALSE), UNCHANGED <<local, gc, disturbed>>,
           UNCHANGED left \/ Spend("fault")
    PROVE  TypeOK'
<1>1. left' \in [Hazards -> Nat]
  BY SpendType DEF TypeOK, Hazards
<1>2. UNCHANGED <<remote, watchVars, startVars>>
  BY DEF Return
<1> QED
  BY <1>1, <1>2, ReturnType DEF TypeOK, watchVars, startVars

\* What UpdateService sends for a mirror with the ports of its original.
LEMMA UpdatedPorts ==
    ASSUME NEW mirror \in Value("service"), NEW original \in Value("service")
    PROVE  /\ [mirror EXCEPT !.ports = original.ports] \in Value("service")
           /\ [mirror EXCEPT !.ports = original.ports].ports = original.ports
BY DEF Value

\* Type correctness of a step of a worker.
LEMMA WorkerType ==
    ASSUME TypeOK, NEW k \in Kinds,
           Reconcile(k) \/ \E n \in Names : Begin(k, n)
    PROVE  TypeOK'
<1>1. ASSUME NEW n \in Names, Begin(k, n)
      PROVE  TypeOK'
  <2>1. cache[k][n] \in Object(k) /\ cache[k][n] \in AnyObject
    BY DEF TypeOK, Stores, AnyObject
  <2>2. owed' \in [Kinds -> SUBSET Names]
    BY <1>1 DEF Begin, TypeOK
  <2>3. n # NoName
    BY ConstantsAssumption
  <2> QED
    BY <1>1, <2>1, <2>2, <2>3 DEF Begin, TypeOK, clusterVars, watchVars, startVars
<1>2. ASSUME pc[k] # "idle"
      PROVE  key[k] # NoName /\ key[k] \in Names /\ seen[k] \in Object(k)
  BY <1>2 DEF TypeOK
<1>3. CASE Delete(k)
  <2>1. gc' \subseteq Names
    BY <1>2, <1>3 DEF Delete, TypeOK
  <2> QED
    BY <1>2, <1>3, <2>1, WriteType, NoneIsNoValue DEF Delete
<1>4. CASE Get(k)
  BY <1>2, <1>4 DEF Get, TypeOK, clusterVars, watchVars, startVars
<1>5. CASE Create(k)
  <2>1. CASE Refuse(k)
    BY <1>2, <1>5, <2>1, RefuseType DEF Create, Refuse
  <2>2. CASE Write(k, seen[k]) /\ UNCHANGED gc
    BY <1>2, <1>5, <2>2, WriteType DEF Create, TypeOK
  <2> QED
    BY <1>5, <2>1, <2>2 DEF Create
<1>6. CASE k = "service" /\ UpdateService
  <2>1. CASE Refuse(k)
    BY <1>2, <1>6, <2>1, RefuseType DEF UpdateService, Refuse
  <2> DEFINE mirror == local["service"][key["service"]]
             v == [mirror EXCEPT !.ports = seen["service"].ports]
  <2>2. CASE mirror # None /\ Write("service", v) /\ UNCHANGED gc
    <3>1. mirror \in Value("service") /\ seen["service"] \in Value("service")
      BY <1>2, <1>6, <2>2 DEF UpdateService, TypeOK, Stores, Object
    <3>2. v \in Object("service")
      BY <3>1, UpdatedPorts DEF Object
    <3>3. key["service"] # NoName /\ gc' \subseteq Names
      BY <1>2, <1>6, <2>2 DEF UpdateService, TypeOK
    <3> QED
      BY <1>6, <2>2, <3>2, <3>3, WriteType
  <2> QED
    BY <1>6, <2>1, <2>2 DEF UpdateService
<1>7. CASE k = "endpoints" /\ UpdateEndpoints
  <2>1. CASE Refuse(k)
    BY <1>2, <1>7, <2>1, RefuseType DEF UpdateEndpoints, Refuse
  <2>2. CASE Write(k, seen[k]) /\ UNCHANGED gc
    BY <1>2, <1>7, <2>2, WriteType DEF UpdateEndpoints, TypeOK
  <2> QED
    BY <1>7, <2>1, <2>2 DEF UpdateEndpoints
<1>8. CASE Fault(k)
  BY <1>2, <1>8, RefuseType DEF Fault
<1> QED
  BY <1>1, <1>3, <1>4, <1>5, <1>6, <1>7, <1>8 DEF Reconcile

\* So does every later one.
LEMMA RestartType ==
    ASSUME TypeOK, ProcessDies PROVE TypeOK' /\ Restart
<1>1. Restart /\ \E h \in Hazards : Spend(h)
  BY DEF ProcessDies, Crash, Tombstone, Hazards
<1>2. cache' \in Stores
  BY <1>1, EmptyStores DEF Restart
<1>3. None \in AnyObject /\ \A k \in Kinds : None \in Object(k)
  BY NoneIsNoValue DEF AnyObject, Kinds
<1>4. left' \in [Hazards -> Nat]
  BY <1>1, SpendType DEF TypeOK
<1> QED
  BY <1>1, <1>2, <1>3, <1>4 DEF Restart, Both, TypeOK, clusterVars

\* Type correctness of every step.
LEMMA NextType ==
    ASSUME TypeOK, [Next]_vars PROVE TypeOK'
<1>1. CASE UNCHANGED vars
  BY <1>1 DEF vars, clusterVars, watchVars, workerVars, startVars, TypeOK
<1> QED
  BY <1>1, ClusterType, RunType, RestartType, InformerType, WorkerType DEF Next

\* Type correctness: no reachable state of the runner holds an object of the
\* wrong kind, or a worker that has a key but no step to do.
THEOREM TypeCorrect == Spec => []TypeOK
BY InitType, NextType, PTL DEF Spec

-----------------------------------------------------------------------------
(* The inductive invariant. *)

\* A process that has just started knows and does nothing.
LEMMA InitInv == Init => IInv
<1> SUFFICES ASSUME Init PROVE IInv
  OBVIOUS
<1>1. TypeOK
  BY InitType
<1>2. SeenIsCurrent /\ SettledIsMirrored /\ NoStaleMirror
  BY DEF Init, Boot, Both, SeenIsCurrent, SettledIsMirrored, NoStaleMirror, Kinds
<1>3. WorkersWait /\ KnownIsPending /\ StaleIsFound
  BY DEF Init, Boot, Both, WorkersWait, KnownIsPending, StaleIsFound, Kinds
<1>4. OnlyKnown
  BY ConstantsAssumption DEF Init, Boot, Both, EmptyStore, OnlyKnown
<1> QED
  BY <1>1, <1>2, <1>3, <1>4 DEF IInv

\* Steps outside the process touch neither its stores nor its queues.
LEMMA ClusterInv ==
    ASSUME IInv, Cluster PROVE IInv'
<1>1. TypeOK' /\ TypeOK /\ local \in Stores /\ local' \in Stores
  BY ClusterType DEF IInv, TypeOK
<1>2. UNCHANGED <<cache, synced, event, known, owed, pc, key, seen>>
      /\ UNCHANGED <<phase, mirrors, listed, todo, syncOk>>
  BY DEF Cluster, Change, Tamper, CollectEndpoints, watchVars, workerVars, startVars
<1>3. \A k \in Kinds, n \in Names :
        n \notin disturbed'[k] => n \notin disturbed[k] /\ local'[k][n] = local[k][n]
  <2>1. ASSUME NEW k \in Kinds, NEW n \in Names, Change(k, n)
        PROVE  UNCHANGED <<local, disturbed>>
    BY <2>1 DEF Change
  <2>2. ASSUME NEW k \in Kinds, NEW n \in Names, Tamper(k, n)
        PROVE  \A j \in Kinds, x \in Names :
                 x \notin disturbed'[j] => x \notin disturbed[j] /\ local'[j][x] = local[j][x]
    <3>1. PICK v \in Object(k) : local' = [local EXCEPT ![k][n] = v]
      BY <2>2 DEF Tamper
    <3>2. \A j \in Kinds, x \in Names :
            local'[j][x] = IF j = k /\ x = n THEN v ELSE local[j][x]
      BY <1>1, <3>1 DEF Stores
    <3> QED
      BY <1>1, <2>2, <3>2 DEF Tamper, TypeOK
  <2>3. ASSUME NEW n \in Names, CollectEndpoints(n)
        PROVE  \A j \in Kinds, x \in Names :
                 x \notin disturbed'[j] => x \notin disturbed[j] /\ local'[j][x] = local[j][x]
    <3>1. CASE UNCHANGED <<local, disturbed>>
      BY <3>1
    <3>2. CASE /\ local' = [local EXCEPT !["endpoints"][n] = None]
               /\ disturbed' = [disturbed EXCEPT !["endpoints"] = @ \cup {n}]
      <4>1. \A j \in Kinds, x \in Names :
              local'[j][x] = IF j = "endpoints" /\ x = n THEN None ELSE local[j][x]
        BY <1>1, <3>2 DEF Kinds, Stores
      <4> QED
        BY <1>1, <3>2, <4>1 DEF TypeOK, Kinds
    <3> QED
      BY <2>3, <3>1, <3>2 DEF CollectEndpoints
  <2> QED
    BY <2>1, <2>2, <2>3 DEF Cluster
<1>4. SeenIsCurrent'
  BY <1>2 DEF IInv, SeenIsCurrent, Pending
<1>5. SettledIsMirrored'
  BY <1>1, <1>2, <1>3 DEF IInv, SettledIsMirrored, Settled, Pending, Mirrored, TypeOK
<1>6. NoStaleMirror' /\ StaleIsFound'
  BY <1>2, <1>3 DEF IInv, NoStaleMirror, StaleIsFound, Kinds
<1>7. WorkersWait' /\ OnlyKnown' /\ KnownIsPending'
  BY <1>2 DEF IInv, WorkersWait, OnlyKnown, KnownIsPending, Pending
<1> QED
  BY <1>1, <1>4, <1>5, <1>6, <1>7 DEF IInv

\* An informer's step only adds work: what changes in its store is due.
MoreWork ==
    /\ \A j \in Kinds, n \in Names :
        /\ Pending(j, n) => Pending(j, n)'
        /\ Pending(j, n)' => Pending(j, n) \/ n \in known'[j]
        /\ cache'[j][n] # cache[j][n] \/ n \in known'[j] \ known[j] =>
            /\ Pending(j, n)' /\ n \in known'[j]
            /\ j = "endpoints" => phase = "running"
    /\ \A j \in Kinds :
        /\ known[j] \subseteq known'[j]
        /\ ~synced'[j] => ~synced[j] /\ known'[j] = known[j]
    /\ synced'["endpoints"] => synced["endpoints"] \/ phase = "running"

\* The informers keep the invariant.
LEMMA InformerInv ==
    ASSUME IInv, NEW k \in Kinds, Informer(k) PROVE IInv'
<1>1. TypeOK' /\ TypeOK /\ cache \in Stores /\ cache' \in Stores
  BY InformerType DEF IInv, TypeOK
<1>2. UNCHANGED <<local, disturbed, pc, key, seen, phase, mirrors, listed, todo, syncOk>>
  BY DEF Informer, Watch, InitialList, Deliver, EventHandler, Resync,
         clusterVars, watchVars, workerVars, startVars
<1>3. MoreWork
  <2>1. CASE InitialList(k)
    <3>1. remote[k] \in [Names -> Object(k)]
      BY <1>1 DEF TypeOK, Stores
    <3>2. \A j \in Kinds, n \in Names :
            cache'[j][n] = IF j = k THEN remote[k][n] ELSE cache[j][n]
      BY <1>1, <2>1, <3>1 DEF InitialList, Stores
    <3>3. known[k] = {} /\ \A n \in Names : cache[k][n] = None
      BY <2>1 DEF InitialList, IInv, OnlyKnown
    <3> QED
      BY <1>1, <2>1, <3>2, <3>3 DEF MoreWork, InitialList, Started, Pending, TypeOK
  <2>2. ASSUME NEW n \in Names, Deliver(k, n)
        PROVE  MoreWork
    <3>1. remote[k][n] \in Object(k)
      BY <1>1 DEF TypeOK, Stores
    <3>2. \A j \in Kinds, x \in Names :
            cache'[j][x] = IF j = k /\ x = n THEN remote[k][n] ELSE cache[j][x]
      BY <1>1, <2>2, <3>1 DEF Deliver, Stores
    <3>3. k = "endpoints" => phase = "running"
      BY <2>2 DEF Deliver, IInv, WorkersWait
    <3> QED
      BY <1>1, <2>2, <3>2, <3>3, ConstantsAssumption DEF MoreWork, Deliver, Pending, TypeOK
  <2>3. CASE EventHandler(k)
    <3>1. UNCHANGED <<cache, synced, known>>
      BY <2>3 DEF EventHandler
    <3>2. /\ event' = [event EXCEPT ![k] = NoName]
          /\ owed' = [owed EXCEPT ![k] = @ \cup {event[k]}]
          /\ event[k] \in Names
      BY <1>1, <2>3 DEF EventHandler, TypeOK
    <3>3. \A j \in Kinds, n \in Names : Pending(j, n)' <=> Pending(j, n)
      BY <1>1, <3>2, ConstantsAssumption DEF Pending, TypeOK
    <3> QED
      BY <3>1, <3>3 DEF MoreWork
  <2>4. ASSUME NEW n \in Names, Resync(k, n)
        PROVE  MoreWork
    BY <1>1, <2>4 DEF Resync, watchVars, MoreWork, Pending, TypeOK, IInv, OnlyKnown
  <2> QED
    BY <2>1, <2>2, <2>3, <2>4 DEF Informer, Watch
<1>4. SeenIsCurrent'
  BY <1>1, <1>2, <1>3 DEF IInv, SeenIsCurrent, TypeOK, MoreWork
<1>5. SettledIsMirrored'
  BY <1>1, <1>2, <1>3 DEF IInv, SettledIsMirrored, Settled, Mirrored, TypeOK, MoreWork
<1>6. NoStaleMirror' /\ StaleIsFound'
  BY <1>2, <1>3 DEF IInv, NoStaleMirror, StaleIsFound, Kinds, MoreWork
<1>7. WorkersWait'
  BY <1>2, <1>3 DEF IInv, WorkersWait, MoreWork
<1>8. OnlyKnown'
  BY <1>1, <1>2, <1>3 DEF IInv, OnlyKnown, Pending, TypeOK, MoreWork
<1>9. KnownIsPending'
  BY <1>1, <1>2, <1>3 DEF IInv, KnownIsPending, TypeOK, MoreWork
<1> QED
  BY <1>1, <1>4, <1>5, <1>6, <1>7, <1>8, <1>9 DEF IInv

\* Run's steps neither add nor remove work; the workers start when all that
\* the stores held is due.
LEMMA RunInv ==
    ASSUME IInv, Run PROVE IInv'
<1>1. TypeOK' /\ TypeOK /\ local \in Stores
  BY RunType DEF IInv, TypeOK
<1>2. UNCHANGED <<cache, synced, event, known, owed, pc, key, seen>>
  BY DEF Run, ListMirrors, SyncStart, SyncDone, SyncDelete, SyncAbort,
         clusterVars, watchVars, workerVars
<1>3. phase # "running" /\ ~syncOk /\ \A k \in Kinds : \A n \in known[k] : Pending(k, n)
  BY DEF Run, ListMirrors, SyncStart, SyncDone, SyncDelete, SyncAbort,
         IInv, WorkersWait, KnownIsPending
<1>4. SeenIsCurrent' /\ OnlyKnown' /\ KnownIsPending'
  BY <1>2, <1>3 DEF IInv, SeenIsCurrent, OnlyKnown, KnownIsPending, Pending
<1>5. SettledIsMirrored'
  BY <1>2, <1>3 DEF SettledIsMirrored, Settled, Pending
<1>6. WorkersWait' /\ NoStaleMirror' /\ StaleIsFound'
  <2>1. CASE ListMirrors
    BY <2>1, <1>1, <1>2, <1>3 DEF ListMirrors, clusterVars, IInv, TypeOK,
       WorkersWait, NoStaleMirror, StaleIsFound
  <2>2. CASE SyncStart
    BY <2>2, <1>1, <1>2, <1>3 DEF SyncStart, clusterVars, IInv, TypeOK,
       WorkersWait, OnlyKnown, NoStaleMirror, StaleIsFound, Kinds
  <2>3. CASE SyncDone
    BY <2>3, <1>1, <1>2, <1>3 DEF SyncDone, clusterVars, IInv, TypeOK,
       WorkersWait, NoStaleMirror, StaleIsFound
  <2>4. ASSUME NEW n \in Names, SyncDelete(n)
        PROVE  WorkersWait' /\ NoStaleMirror' /\ StaleIsFound'
    <3>1. \A x \in Names : local'["service"][x] = IF x = n THEN None ELSE local["service"][x]
      BY <1>1, <2>4 DEF SyncDelete, Stores, Kinds
    <3>2. \A x \in Names \ {n} :
            /\ x \in disturbed'["service"] <=> x \in disturbed["service"]
            /\ phase' = "syncing" => (x \in todo' <=> x \in todo)
      BY <1>1, <2>4 DEF SyncDelete, TypeOK, Kinds
    <3>3. ~syncOk' /\ phase = "syncing" /\ phase' # "waiting"
      BY <1>3, <2>4 DEF SyncDelete
    <3> QED
      BY <1>2, <1>3, <3>1, <3>2, <3>3 DEF IInv, WorkersWait, NoStaleMirror, StaleIsFound, Kinds
  <2>5. ASSUME NEW n \in Names, SyncAbort(n)
        PROVE  WorkersWait' /\ NoStaleMirror' /\ StaleIsFound'
    BY <2>5, <1>1, <1>2, <1>3 DEF SyncAbort, clusterVars, IInv, TypeOK,
       WorkersWait, NoStaleMirror, StaleIsFound
  <2> QED
    BY <2>1, <2>2, <2>3, <2>4, <2>5 DEF Run
<1> QED
  BY <1>1, <1>4, <1>5, <1>6 DEF IInv

\* A process that starts knows nothing, and so satisfies everything.
LEMMA RestartInv ==
    ASSUME IInv, ProcessDies PROVE IInv'
<1>1. TypeOK' /\ Restart
  BY RestartType DEF IInv
<1>2. SeenIsCurrent' /\ SettledIsMirrored' /\ NoStaleMirror'
  BY <1>1 DEF Restart, Both, SeenIsCurrent, SettledIsMirrored, NoStaleMirror, Kinds
<1>3. WorkersWait' /\ KnownIsPending' /\ StaleIsFound'
  BY <1>1 DEF Restart, Both, WorkersWait, KnownIsPending, StaleIsFound, Kinds
<1>4. OnlyKnown'
  BY <1>1, ConstantsAssumption DEF Restart, Both, EmptyStore, OnlyKnown
<1> QED
  BY <1>1, <1>2, <1>3, <1>4 DEF IInv

\* A worker takes a key that is due and reads the store.
LEMMA BeginInv ==
    ASSUME IInv, NEW k \in Kinds, NEW n \in Names, Begin(k, n) PROVE IInv'
<1>1. TypeOK' /\ TypeOK
  BY WorkerType DEF IInv
<1>2. UNCHANGED <<local, disturbed, cache, synced, event, known>>
      /\ UNCHANGED <<phase, mirrors, listed, todo, syncOk>>
  BY DEF Begin, clusterVars, watchVars, startVars
<1>3. /\ phase = "running" /\ pc[k] = "idle" /\ n \in owed[k] /\ key[k] = NoName
      /\ \A j \in Kinds :
            /\ key'[j] = IF j = k THEN n ELSE key[j]
            /\ seen'[j] = IF j = k THEN cache[k][n] ELSE seen[j]
            /\ j # k => pc'[j] = pc[j]
  BY <1>1 DEF Begin, TypeOK
<1>4. \A j \in Kinds, x \in Names :
        /\ Pending(j, x)' => Pending(j, x)
        /\ (j # k \/ x # n) => (Pending(j, x) => Pending(j, x)')
  BY <1>1, <1>2 DEF Begin, Pending, TypeOK
<1>5. SeenIsCurrent'
  BY <1>1, <1>2, <1>3, <1>4, ConstantsAssumption DEF IInv, SeenIsCurrent, TypeOK
<1>6. SettledIsMirrored'
  BY <1>1, <1>2, <1>3, <1>4, ConstantsAssumption DEF IInv, SettledIsMirrored, Settled, Mirrored, TypeOK
<1>7. OnlyKnown'
  BY <1>1, <1>2, <1>3, <1>4 DEF IInv, OnlyKnown, Pending, TypeOK
<1>8. WorkersWait' /\ KnownIsPending' /\ NoStaleMirror' /\ StaleIsFound'
  BY <1>2, <1>3 DEF IInv, WorkersWait, KnownIsPending, NoStaleMirror, StaleIsFound
<1> QED
  BY <1>1, <1>5, <1>6, <1>7, <1>8 DEF IInv

\* A GET changes no more than the worker's step.
LEMMA GetInv ==
    ASSUME IInv, NEW k \in Kinds, Get(k) PROVE IInv'
<1>1. TypeOK' /\ TypeOK
  BY WorkerType DEF IInv, Reconcile
<1>2. UNCHANGED <<local, disturbed, cache, synced, event, known, owed, key, seen>>
      /\ UNCHANGED <<phase, mirrors, listed, todo, syncOk>>
  BY DEF Get, clusterVars, watchVars, startVars
<1>3. phase = "running" /\ \A j \in Kinds : pc'[j] # "idle" => pc[j] # "idle"
  BY <1>1 DEF Get, IInv, WorkersWait, TypeOK
<1>4. SeenIsCurrent'
  BY <1>2, <1>3 DEF IInv, SeenIsCurrent, Pending
<1>5. SettledIsMirrored' /\ OnlyKnown'
  BY <1>2 DEF IInv, SettledIsMirrored, Settled, Mirrored, OnlyKnown, Pending
<1>6. WorkersWait' /\ KnownIsPending' /\ NoStaleMirror' /\ StaleIsFound'
  BY <1>2, <1>3 DEF IInv, WorkersWait, KnownIsPending, NoStaleMirror, StaleIsFound
<1> QED
  BY <1>1, <1>4, <1>5, <1>6 DEF IInv

\* What a successful write makes of the mirror of an object last seen as w.
Matches(v, w) == IF w = None THEN v = None ELSE v # None /\ v.ports = w.ports

\* A reconcile ends: either its key is due again, or it wrote what the store
\* holds now, because a key whose object changed since is due as well.
LEMMA ReturnInv ==
    ASSUME IInv, NEW k \in Kinds, NEW ok \in BOOLEAN, NEW n \in Names, key[k] = n,
           pc[k] # "idle", Return(k, ok), TypeOK',
           \/ ~ok /\ UNCHANGED <<local, disturbed>>
           \/ /\ \E v \in Object(k) : local' = [local EXCEPT ![k][n] = v] /\ Matches(v, seen[k])
              /\ disturbed' = [disturbed EXCEPT ![k] = @ \ {n}]
    PROVE  IInv'
<1>1. TypeOK /\ phase = "running" /\ n \in known[k] /\ n # NoName
  BY ConstantsAssumption DEF IInv, TypeOK, WorkersWait, OnlyKnown
<1>2. UNCHANGED <<cache, synced, event, known, phase, mirrors, listed, todo, syncOk>>
  BY DEF Return, watchVars, startVars
<1>3. \A j \in Kinds :
        /\ key'[j] = IF j = k THEN NoName ELSE key[j]
        /\ pc'[j] = IF j = k THEN "idle" ELSE pc[j]
        /\ seen'[j] = IF j = k THEN None ELSE seen[j]
        /\ owed'[j] = IF j = k /\ ~ok THEN owed[j] \cup {n} ELSE owed[j]
  BY <1>1 DEF Return, TypeOK
<1>4. \A j \in Kinds, x \in Names :
        Pending(j, x)' <=> Pending(j, x) \/ (j = k /\ x = n /\ ~ok)
  BY <1>2, <1>3 DEF Pending
<1>5. /\ \A j \in Kinds, x \in Names :
            j # k \/ x # n =>
                /\ local'[j][x] = local[j][x]
                /\ x \in disturbed'[j] <=> x \in disturbed[j]
      /\ \/ ~ok /\ UNCHANGED <<local, disturbed>>
         \/ Matches(local'[k][n], seen[k])
  <2>1. CASE ~ok /\ UNCHANGED <<local, disturbed>>
    BY <2>1
  <2>2. ASSUME NEW v \in Object(k), local' = [local EXCEPT ![k][n] = v], Matches(v, seen[k]),
               disturbed' = [disturbed EXCEPT ![k] = @ \ {n}]
        PROVE  /\ \A j \in Kinds, x \in Names :
                    j # k \/ x # n =>
                        /\ local'[j][x] = local[j][x]
                        /\ x \in disturbed'[j] <=> x \in disturbed[j]
               /\ Matches(local'[k][n], seen[k])
    <3>1. local \in Stores
      BY <1>1 DEF TypeOK
    <3>2. \A j \in Kinds, x \in Names : local'[j][x] = IF j = k /\ x = n THEN v ELSE local[j][x]
      BY <2>2, <3>1 DEF Stores
    <3>3. \A j \in Kinds, x \in Names :
            j # k \/ x # n => (x \in disturbed'[j] <=> x \in disturbed[j])
      BY <1>1, <2>2 DEF TypeOK
    <3> QED
      BY <2>2, <3>2, <3>3
  <2> QED
    BY <2>1, <2>2
<1>6. SeenIsCurrent'
  BY <1>1, <1>2, <1>3, <1>4 DEF IInv, SeenIsCurrent, TypeOK
<1>7. ~Pending(k, n)' /\ n \notin disturbed'[k] => Mirrored(k, n, cache)'
  <2>1. CASE ~ok /\ UNCHANGED <<local, disturbed>>
    BY <1>1, <1>4, <2>1
  <2>2. CASE Matches(local'[k][n], seen[k])
    <3>1. ~Pending(k, n)' => seen[k] = cache[k][n]
      BY <1>4 DEF IInv, SeenIsCurrent
    <3> QED
      BY <1>2, <2>2, <3>1 DEF Matches, Mirrored
  <2> QED
    BY <1>5, <2>1, <2>2
<1>8. SettledIsMirrored'
  <2> SUFFICES ASSUME NEW j \in Kinds, NEW x \in known'[j],
                      Settled(j, x)', x \notin disturbed'[j]
               PROVE  Mirrored(j, x, cache)'
    BY DEF SettledIsMirrored
  <2>1. x \in Names /\ x \in known[j]
    BY <1>1, <1>2 DEF TypeOK
  <2>2. CASE j = k /\ x = n
    BY <1>7, <2>2 DEF Settled
  <2>3. CASE j # k \/ x # n
    <3>1. Settled(j, x) /\ x \notin disturbed[j] /\ local'[j][x] = local[j][x]
      BY <1>1, <1>2, <1>3, <1>4, <1>5, <2>1, <2>3 DEF Settled
    <3> QED
      BY <1>2, <2>1, <3>1 DEF IInv, SettledIsMirrored, Mirrored
  <2> QED
    BY <2>2, <2>3
<1>9. OnlyKnown'
  <2>1. \A x \in Names : x # NoName
    BY ConstantsAssumption
  <2> SUFFICES ASSUME NEW j \in Kinds
               PROVE  /\ ~synced'[j] => known'[j] = {}
                      /\ \A x \in Names \ known'[j] :
                            cache'[j][x] = None /\ x \notin owed'[j] /\ event'[j] # x /\ key'[j] # x
    BY DEF OnlyKnown
  <2>2. /\ ~synced[j] => known[j] = {}
        /\ \A x \in Names \ known[j] :
              cache[j][x] = None /\ x \notin owed[j] /\ event[j] # x /\ key[j] # x
    BY DEF IInv, OnlyKnown
  <2>3. /\ known'[j] = known[j] /\ synced'[j] = synced[j]
        /\ cache'[j] = cache[j] /\ event'[j] = event[j]
    BY <1>2
  <2>4. ASSUME NEW x \in Names, x \notin known[j]
        PROVE  x \notin owed'[j] /\ key'[j] # x
    <3>1. x \notin owed[j] /\ key[j] # x /\ x # NoName
      BY <2>1, <2>2, <2>4
    <3>2. j = k => x # n
      BY <1>1, <2>4
    <3>3. /\ key'[j] = IF j = k THEN NoName ELSE key[j]
          /\ owed'[j] = IF j = k /\ ~ok THEN owed[j] \cup {n} ELSE owed[j]
      BY <1>3
    <3> QED
      BY <3>1, <3>2, <3>3
  <2> QED
    BY <2>2, <2>3, <2>4
<1>10. NoStaleMirror' /\ StaleIsFound'
  BY <1>1, <1>2, <1>5 DEF IInv, NoStaleMirror, StaleIsFound, Kinds
<1>11. WorkersWait' /\ KnownIsPending'
  BY <1>1, <1>2 DEF IInv, WorkersWait, KnownIsPending
<1> QED
  BY <1>6, <1>8, <1>9, <1>10, <1>11 DEF IInv

\* The steps of a reconcile.
LEMMA ReconcileInv ==
    ASSUME IInv, NEW k \in Kinds, Reconcile(k) PROVE IInv'
<1>1. TypeOK' /\ TypeOK
  BY WorkerType DEF IInv
<1>2. CASE Get(k)
  BY <1>2, GetInv
<1>3. CASE ~Get(k)
  <2> DEFINE n == key[k]
  <2>1. pc[k] # "idle" /\ key[k] \in Names /\ seen[k] \in Object(k)
    BY <1>1, <1>3 DEF Reconcile, Delete, Create, Fault, UpdateService, UpdateEndpoints, TypeOK
  <2>2. ASSUME NEW v \in Object(k), Write(k, v), Matches(v, seen[k])
        PROVE  IInv'
    <3>1. PICK ok \in BOOLEAN : Return(k, ok)
      BY <2>2 DEF Write
    <3>2. /\ local' = [local EXCEPT ![k][key[k]] = v]
          /\ disturbed' = [disturbed EXCEPT ![k] = @ \ {key[k]}]
      BY <2>2 DEF Write
    <3> QED
      BY <1>1, <2>1, <2>2, <3>1, <3>2, ReturnInv
  <2>3. ASSUME Return(k, FALSE), UNCHANGED <<local, disturbed>>
        PROVE  IInv'
    BY <1>1, <2>1, <2>3, ReturnInv
  <2>4. CASE Delete(k)
    <3>1. Write(k, None) /\ Matches(None, seen[k])
      BY <1>1, <2>4 DEF Delete, TypeOK, Matches
    <3> QED
      BY <2>2, <3>1, NoneIsNoValue
  <2>5. CASE Create(k)
    <3>1. Matches(seen[k], seen[k])
      BY <1>1, <2>5 DEF Create, TypeOK, Matches
    <3> QED
      BY <2>1, <2>2, <2>3, <2>5, <3>1 DEF Create, Refuse
  <2>6. CASE k = "service" /\ UpdateService
    <3>1. CASE Refuse(k)
      BY <2>3, <3>1 DEF Refuse
    <3> DEFINE mirror == local["service"][key["service"]]
               v == [mirror EXCEPT !.ports = seen["service"].ports]
    <3>2. CASE mirror # None /\ Write("service", v)
      <4>1. mirror \in Value("service") /\ seen["service"] \in Value("service")
        <5>1. pc["service"] = "update" /\ key["service"] \in Names
          BY <2>1, <2>6 DEF UpdateService
        <5>2. seen["service"] \in Object("service") /\ seen["service"] # None
          BY <1>1, <5>1 DEF TypeOK, Kinds
        <5>3. mirror \in Object("service")
          BY <1>1, <5>1 DEF TypeOK, Stores, Kinds
        <5> QED
          BY <3>2, <5>2, <5>3 DEF Object
      <4>2. v \in Object("service") /\ v # None /\ seen["service"] # None
        BY <4>1, UpdatedPorts, NoneIsNoValue DEF Object, Kinds
      <4>3. Matches(v, seen["service"])
        BY <4>1, <4>2, UpdatedPorts DEF Matches
      <4> QED
        BY <2>2, <2>6, <3>2, <4>2, <4>3
    <3> QED
      BY <2>6, <3>1, <3>2 DEF UpdateService
  <2>7. CASE k = "endpoints" /\ UpdateEndpoints
    <3>1. Matches(seen[k], seen[k])
      BY <1>1, <2>7 DEF UpdateEndpoints, TypeOK, Matches
    <3> QED
      BY <2>1, <2>2, <2>3, <2>7, <3>1 DEF UpdateEndpoints, Refuse
  <2>8. CASE Fault(k)
    BY <2>3, <2>8 DEF Fault
  <2> QED
    BY <1>3, <2>4, <2>5, <2>6, <2>7, <2>8 DEF Reconcile
<1> QED
  BY <1>2, <1>3

\* Every step of the clusters, the informers, Run and the workers keeps it.
LEMMA StepInv == IInv /\ [Next]_vars => IInv'
<1> SUFFICES ASSUME IInv, [Next]_vars PROVE IInv'
  OBVIOUS
<1>1. CASE UNCHANGED vars
  BY <1>1 DEF vars, clusterVars, watchVars, workerVars, startVars, IInv, TypeOK,
     SeenIsCurrent, SettledIsMirrored, Settled, Mirrored, NoStaleMirror, WorkersWait,
     OnlyKnown, KnownIsPending, StaleIsFound, Pending
<1> QED
  BY <1>1, ClusterInv, RunInv, RestartInv, InformerInv, ReconcileInv, BeginInv DEF Next

\* So it holds for ever.
LEMMA Invariance == Spec => []IInv
BY InitInv, StepInv, PTL DEF Spec

\* reconcileService, reconcileEndpoints: a reconcile works on what the store
\* holds now, or its key is due again.
THEOREM ReconcilesSeeTheStore == Spec => []SeenIsCurrent
<1>1. IInv => SeenIsCurrent
  BY DEF IInv
<1> QED
  BY <1>1, Invariance, PTL

\* The mirror of an object that the store has held is right whenever nothing is
\* left to do for it, whatever was lost, refused, retried or restarted.
THEOREM SettledMirrors == Spec => []SettledIsMirrored
<1>1. IInv => SettledIsMirrored
  BY DEF IInv
<1> QED
  BY <1>1, Invariance, PTL

\* ServiceSync: a sync that ended well has found every stale mirror, and no
\* worker makes a new one afterwards.
THEOREM SyncFindsStaleMirrors == Spec => []NoStaleMirror
<1>1. IInv => NoStaleMirror
  BY DEF IInv
<1> QED
  BY <1>1, Invariance, PTL

-----------------------------------------------------------------------------
\* Run leaves its first wait only when the remote cluster's services are listed.
SyncWaits == phase # "waiting" => synced["service"]

\* Nothing but a restart takes a list back, and a restart begins with the wait.
LEMMA SyncWaitsInvariance == Spec => []SyncWaits
<1>1. Init => SyncWaits
  BY DEF Init, Boot, SyncWaits
<1>2. TypeOK /\ SyncWaits /\ [Next]_vars => SyncWaits'
  <2> SUFFICES ASSUME TypeOK, SyncWaits, [Next]_vars PROVE SyncWaits'
    OBVIOUS
  <2> USE DEF SyncWaits
  <2>1. CASE Cluster
    BY <2>1 DEF Cluster, Change, Tamper, CollectEndpoints, watchVars, startVars
  <2>2. CASE Run
    BY <2>2
    DEF Run, ListMirrors, SyncStart, SyncDone, SyncDelete, SyncAbort, watchVars
  <2>3. CASE ProcessDies
    BY <2>3 DEF ProcessDies, Crash, Tombstone, Restart
  <2>4. ASSUME NEW k \in Kinds, Informer(k) PROVE SyncWaits'
    BY <2>4
    DEF Informer, Watch, InitialList, Deliver, EventHandler, Resync, watchVars, startVars,
        TypeOK, Kinds
  <2>5. ASSUME NEW k \in Kinds, Reconcile(k) \/ \E n \in Names : Begin(k, n) PROVE SyncWaits'
    BY <2>5
    DEF Reconcile, Delete, Get, Create, UpdateService, UpdateEndpoints, Fault, Begin, Write,
        Refuse, Return, watchVars, startVars
  <2>6. CASE UNCHANGED vars
    BY <2>6 DEF vars, watchVars, startVars
  <2> QED BY <2>1, <2>2, <2>3, <2>4, <2>5, <2>6 DEF Next
<1> QED BY <1>1, <1>2, TypeCorrect, PTL DEF Spec

\* A worker removes the mirror of its key, which its store does not hold.
LEMMA WorkerRemoves ==
    ASSUME IInv, NEW k \in Kinds, Reconcile(k) \/ \E m \in Names : Begin(k, m),
           NEW j \in Kinds, NEW n \in Names, local[j][n] # None, local'[j][n] = None
    PROVE  synced[j] /\ (cache[j][n] = None \/ Pending(j, n))
<1>1. TypeOK /\ local \in Stores
  BY DEF IInv, TypeOK
<1>2. ASSUME NEW v \in Object(k), key[k] \in Names, local' = [local EXCEPT ![k][key[k]] = v]
      PROVE  j = k /\ n = key[k] /\ v = None
  <2>1. \A i \in Kinds, x \in Names :
          local'[i][x] = IF i = k /\ x = key[k] THEN v ELSE local[i][x]
    BY <1>1, <1>2 DEF Stores
  <2> QED BY <2>1
<1>3. CASE Delete(k)
  <2>1. key[k] \in Names /\ pc[k] # "idle" /\ seen[k] = None
    BY <1>1, <1>3 DEF Delete, TypeOK
  <2>2. j = k /\ n = key[k]
    BY <1>2, <1>3, <2>1, NoneIsNoValue DEF Delete, Write
  <2>3. synced[k]
    BY <2>1 DEF IInv, OnlyKnown
  <2> QED BY <2>1, <2>2, <2>3 DEF IInv, SeenIsCurrent
<1>4. CASE Create(k) \/ (k = "endpoints" /\ UpdateEndpoints)
  <2>1. key[k] \in Names /\ seen[k] \in Object(k) /\ seen[k] # None
    BY <1>1, <1>4 DEF Create, UpdateEndpoints, TypeOK
  <2>2. local' = [local EXCEPT ![k][key[k]] = seen[k]]
    BY <1>4 DEF Create, UpdateEndpoints, Refuse, Write
  <2> QED BY <1>2, <2>1, <2>2
<1>5. CASE k = "service" /\ UpdateService
  <2> DEFINE mirror == local["service"][key["service"]]
             v == [mirror EXCEPT !.ports = seen["service"].ports]
  <2>1. key[k] \in Names /\ seen[k] \in Value(k)
    BY <1>1, <1>5 DEF UpdateService, TypeOK, Object
  <2>2. local' = [local EXCEPT ![k][key[k]] = v] /\ mirror # None
    BY <1>5 DEF UpdateService, Refuse, Write
  <2>3. mirror \in Value("service")
    BY <1>1, <1>5, <2>1, <2>2 DEF Stores, Object
  <2>4. v \in Object("service") /\ v # None
    BY <1>5, <2>1, <2>3, UpdatedPorts, NoneIsNoValue DEF Object
  <2> HIDE DEF v
  <2> QED BY <1>2, <1>5, <2>1, <2>2, <2>4
<1>6. CASE Get(k) \/ Fault(k) \/ \E m \in Names : Begin(k, m)
  BY <1>6 DEF Get, Fault, Begin, clusterVars
<1> QED BY <1>3, <1>4, <1>5, <1>6 DEF Reconcile

\* Neither the startup sync nor a worker removes the mirror of a service or of
\* endpoints that the operator knows to be there: what the sync may wrongly take
\* for stale is due, because the workers have not begun.
THEOREM LiveMirrorsAreKept == Spec => LiveMirrorIsKept
<1>1. ASSUME IInv, SyncWaits, [Next]_vars, NEW k \in Kinds, NEW n \in Names,
             local[k][n] # None, local'[k][n] = None, n \notin disturbed'[k]
      PROVE  synced[k] /\ (cache[k][n] = None \/ Pending(k, n))
  <2>1. TypeOK /\ local \in Stores
    BY <1>1 DEF IInv, TypeOK
  <2>2. CASE Cluster
    <3>1. ASSUME NEW j \in Kinds, NEW m \in Names, Tamper(j, m)
          PROVE  FALSE
      <4>1. PICK v \in Object(j) : local' = [local EXCEPT ![j][m] = v]
        BY <3>1 DEF Tamper
      <4>2. k = j /\ n = m
        BY <1>1, <2>1, <4>1 DEF Stores
      <4> QED BY <1>1, <2>1, <3>1, <4>2 DEF Tamper, TypeOK
    <3>2. ASSUME NEW m \in Names, CollectEndpoints(m)
          PROVE  FALSE
      <4>1. local' = [local EXCEPT !["endpoints"][m] = None] /\ disturbed' = [disturbed EXCEPT !["endpoints"] = @ \cup {m}]
        BY <1>1, <3>2 DEF CollectEndpoints
      <4>2. k = "endpoints" /\ n = m
        BY <1>1, <2>1, <4>1 DEF Stores, Kinds
      <4> QED BY <1>1, <2>1, <4>1, <4>2 DEF TypeOK
    <3>3. ASSUME NEW j \in Kinds, NEW m \in Names, Change(j, m)
          PROVE  FALSE
      BY <1>1, <3>3 DEF Change
    <3> QED BY <2>2, <3>1, <3>2, <3>3 DEF Cluster
  <2>3. CASE Run
    <3>1. PICK m \in Names : SyncDelete(m)
      BY <1>1, <2>3
      DEF Run, ListMirrors, SyncStart, SyncDone, SyncAbort, clusterVars
    <3>2. k = "service" /\ phase = "syncing"
      BY <1>1, <2>1, <3>1 DEF SyncDelete, Stores, Kinds
    <3>3. cache[k][n] # None => n \in known[k]
      BY <1>1 DEF IInv, OnlyKnown
    <3> QED BY <1>1, <3>2, <3>3 DEF SyncWaits, IInv, KnownIsPending
  <2>4. CASE ProcessDies \/ UNCHANGED vars
    BY <1>1, <2>4 DEF ProcessDies, Crash, Tombstone, Restart, vars, clusterVars
  <2>5. ASSUME NEW j \in Kinds, Informer(j)
        PROVE  FALSE
    BY <1>1, <2>5
    DEF Informer, Watch, InitialList, Deliver, EventHandler, Resync, clusterVars
  <2>6. ASSUME NEW j \in Kinds, Reconcile(j) \/ \E m \in Names : Begin(j, m)
        PROVE  synced[k] /\ (cache[k][n] = None \/ Pending(k, n))
    BY <1>1, <2>6, WorkerRemoves
  <2> QED BY <1>1, <2>2, <2>3, <2>4, <2>5, <2>6 DEF Next
<1>2. IInv /\ SyncWaits /\ [Next]_vars =>
        [\A k \in Kinds, n \in Names :
            local[k][n] # None /\ local'[k][n] = None /\ n \notin disturbed'[k] =>
                synced[k] /\ (cache[k][n] = None \/ Pending(k, n))]_vars
  BY <1>1
<1> QED BY <1>2, Invariance, SyncWaitsInvariance, PTL DEF Spec, LiveMirrorIsKept

-----------------------------------------------------------------------------
\* What the worker of kind j does to its queue, or to another one's: a reconcile
\* takes an owed key, and one that ends gives its key back only if it failed.
LEMMA WorkerUsesQueue ==
    ASSUME TypeOK, NEW j \in Kinds, Reconcile(j) \/ \E n \in Names : Begin(j, n),
           NEW k \in Kinds
    PROVE  [Queue(k)!Next]_(Queue(k)!vars)
<1> USE DEF Queue!vars
<1>1. ASSUME j # k
      PROVE  UNCHANGED <<owed[k], key[k]>>
  BY <1>1
  DEF Reconcile, Delete, Get, Create, UpdateService, UpdateEndpoints, Fault, Begin, Write,
      Refuse, Return, TypeOK
<1>2. ASSUME j = k, NEW n \in Names, Begin(k, n)
      PROVE  Queue(k)!Begin(n)
  BY <1>2 DEF Begin, TypeOK, Queue!Begin
<1>3. ASSUME j = k, key[k] # NoName, NEW ok \in BOOLEAN, Return(k, ok)
      PROVE  Queue(k)!Succeed \/ Queue(k)!Fail
  BY <1>3 DEF Return, TypeOK, Queue!Succeed, Queue!Fail
<1>4. ASSUME j = k, Get(k)
      PROVE  UNCHANGED Queue(k)!vars
  BY <1>4 DEF Get
<1>5. ASSUME j = k, Reconcile(k), ~Get(k)
      PROVE  key[k] # NoName /\ \E ok \in BOOLEAN : Return(k, ok)
  BY <1>5
  DEF Reconcile, Delete, Create, UpdateService, UpdateEndpoints, Fault, Write, Refuse, TypeOK
<1> QED
  BY <1>1, <1>2, <1>3, <1>4, <1>5 DEF Queue!Next

\* The runner is written for any level-triggered list and uses its two queues as
\* one: with RefinesLevelQueue of WorkQueueProofs, queue.go may stand behind it.
THEOREM QueuesAreUsed == Spec => UsesLevelQueue
<1>1. Init => \A k \in Kinds : Queue(k)!Init
  BY DEF Init, Boot, Both, Queue!Init
<1>2. ASSUME TypeOK, [Next]_vars, NEW k \in Kinds
      PROVE  [Queue(k)!Next \/ Restart]_(Queue(k)!vars)
  <2> USE DEF Queue!vars
  <2>1. CASE Cluster \/ Run \/ UNCHANGED vars
    BY <2>1
    DEF Cluster, Change, Tamper, CollectEndpoints, Run, ListMirrors, SyncStart, SyncDone,
        SyncDelete, SyncAbort, vars, workerVars
  <2>2. CASE ProcessDies
    BY <2>2 DEF ProcessDies, Crash, Tombstone
  <2>3. ASSUME NEW j \in Kinds, Informer(j)
        PROVE  [Queue(k)!Next]_(Queue(k)!vars)
    <3>1. key[k]' = key[k]
      BY <2>3
      DEF Informer, Watch, InitialList, Deliver, EventHandler, Resync, workerVars
    <3>2. PICK ms \in SUBSET Names : owed' = [owed EXCEPT ![j] = @ \cup ms]
      <4>1. CASE InitialList(j)
        <5>1. {n \in Names : remote[j][n] # None} \in SUBSET Names
          OBVIOUS
        <5>2. owed' = [owed EXCEPT ![j] = @ \cup {n \in Names : remote[j][n] # None}]
          BY <4>1 DEF InitialList
        <5> QED BY <5>1, <5>2
      <4>2. CASE EventHandler(j)
        <5>1. {event[j]} \in SUBSET Names
          BY <1>2, <4>2 DEF EventHandler, TypeOK
        <5>2. owed' = [owed EXCEPT ![j] = @ \cup {event[j]}]
          BY <4>2 DEF EventHandler
        <5> QED BY <5>1, <5>2
      <4>3. ASSUME NEW n \in Names, Deliver(j, n)
            PROVE  owed' = [owed EXCEPT ![j] = @ \cup {}]
        BY <1>2, <4>3 DEF Deliver, TypeOK
      <4>4. ASSUME NEW n \in Names, Resync(j, n)
            PROVE  owed' = [owed EXCEPT ![j] = @ \cup {n}]
        BY <4>4 DEF Resync
      <4>5. {} \in SUBSET Names /\ \A n \in Names : {n} \in SUBSET Names
        OBVIOUS
      <4> QED BY <2>3, <4>1, <4>2, <4>3, <4>4, <4>5 DEF Informer, Watch
    <3> DEFINE ks == IF j = k THEN ms ELSE {}
    <3>3. Queue(k)!Notify(ks) /\ ks \in SUBSET Names
      BY <1>2, <3>1, <3>2 DEF Queue!Notify, TypeOK
    <3> QED BY <3>3 DEF Queue!Next
  <2>4. ASSUME NEW j \in Kinds, Reconcile(j) \/ \E n \in Names : Begin(j, n)
        PROVE  [Queue(k)!Next]_(Queue(k)!vars)
    BY <1>2, <2>4, WorkerUsesQueue
  <2> QED BY <1>2, <2>1, <2>2, <2>3, <2>4 DEF Next
<1>3. TypeOK /\ [Next]_vars =>
        [\A k \in Kinds :
            UNCHANGED Queue(k)!vars \/ Queue(k)!Next \/ Restart]_vars
  BY <1>2
<1> QED BY <1>1, <1>3, TypeCorrect, PTL DEF Spec, UsesLevelQueue
=============================================================================
