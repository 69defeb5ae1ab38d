---------------------------- MODULE MirrorRunner ----------------------------
(***************************************************************************)
(* mirror_runner.go: one runner mirrors the services and the endpoints of  *)
(* one remote cluster into a local namespace.                              *)
(*                                                                         *)
(* Goroutines: one informer and one queue worker per kind, and Run, which  *)
(* waits for two informers, deletes stale mirrors (ServiceSync) and only   *)
(* then starts the workers and the endpoints informer.  The queues are the *)
(* work lists of LevelQueue: a set `owed' and a worker per kind.           *)
(*                                                                         *)
(* External: the remote cluster, whose objects change at any time; the     *)
(* local API server; and its endpoints controller, which removes the       *)
(* endpoints of a service that was deleted.                                *)
(***************************************************************************)
EXTENDS Naturals, FiniteSets

CONSTANTS Names,          \* remote namespace/name pairs, and so mirror names
          Ports,          \* contents: ports of a service, subsets of endpoints
          Headless,       \* which of TRUE, FALSE services may be
          NoName, None,   \* no key, no object
          SyncEnabled,    \* config serviceSync
          ResyncEnabled,  \* config resyncPeriod > 0
          Budget          \* bound on each kind of external disturbance

Kinds == {"service", "endpoints"}
Hazards == {"change", "fault", "crash", "tamper"}
\* What a client sees of an object of kind k; endpoints are never headless.
Value(k) == [ports : Ports, headless : IF k = "service" THEN Headless ELSE {FALSE}]
Object(k) == Value(k) \cup {None}

ASSUME ConstantsAssumption ==
    /\ NoName \notin Names
    /\ \A k \in Kinds : None \notin Value(k)
    /\ SyncEnabled \in BOOLEAN /\ ResyncEnabled \in BOOLEAN
    /\ Budget \in [Hazards -> Nat]

VARIABLES
    remote, local,  \* [kind][name]: objects in the two clusters
    gc,             \* names whose local endpoints the controller will remove
    cache, synced,  \* the informers' stores, and HasSynced
    event,          \* the key an informer is about to hand to its handler
    owed,           \* work lists of serviceQueue and endpointsQueue
    pc, key, seen,  \* each worker: step, key, and the cached object it read
    fresh,          \* no one wrote the mirror service since the worker's GET
    phase,          \* where Run stands
    mirrors, listed,  \* mirrorServiceWatcher's store, and HasSynced
    todo, syncOk,   \* ServiceSync: mirrors to delete, and how it ended
    left,           \* disturbances left of Budget
    known,          \* history: names cached since the process started
    disturbed       \* history: mirrors last written by someone else

clusterVars == <<remote, local, gc, disturbed>>
watchVars == <<cache, synced, event, known>>
workerVars == <<pc, key, seen, fresh>>
startVars == <<phase, mirrors, listed, todo, syncOk>>
vars == <<clusterVars, watchVars, owed, workerVars, startVars, left>>

Both(v) == [k \in Kinds |-> v]
EmptyStore == [n \in Names |-> None]

\* A process that has just started.
Boot ==
    /\ cache = Both(EmptyStore) /\ synced = Both(FALSE)
    /\ event = Both(NoName) /\ known = Both({}) /\ owed = Both({})
    /\ pc = Both("idle") /\ key = Both(NoName) /\ seen = Both(None) /\ fresh = FALSE
    /\ phase = "waiting" /\ mirrors = {} /\ listed = FALSE
    /\ todo = {} /\ syncOk = FALSE

\* The local namespace may hold mirrors that earlier processes made.
Init ==
    /\ Boot
    /\ \E s, m \in [Names -> Object("service")], e, f \in [Names -> Object("endpoints")] :
        /\ remote = [k \in Kinds |-> IF k = "service" THEN s ELSE e]
        /\ local = [k \in Kinds |-> IF k = "service" THEN m ELSE f]
    /\ gc = {}
    /\ disturbed = Both({})
    /\ left = Budget

Spend(h) == left[h] > 0 /\ left' = [left EXCEPT ![h] = @ - 1]

\* The process is started again; the clusters keep their objects.
Restart ==
    /\ cache' = Both(EmptyStore) /\ synced' = Both(FALSE)
    /\ event' = Both(NoName) /\ known' = Both({}) /\ owed' = Both({})
    /\ pc' = Both("idle") /\ key' = Both(NoName) /\ seen' = Both(None) /\ fresh' = FALSE
    /\ phase' = "waiting" /\ mirrors' = {} /\ listed' = FALSE
    /\ todo' = {} /\ syncOk' = FALSE
    /\ UNCHANGED clusterVars

-----------------------------------------------------------------------------
(* The clusters. *)

\* An object of the remote cluster is created, modified or deleted.
\* clusterIP is immutable: a service turns headless only by being recreated.
Change(k, n) ==
    /\ Spend("change")
    /\ \E v \in Object(k) :
        /\ v # remote[k][n]
        /\ (v # None /\ remote[k][n] # None) => v.headless = remote[k][n].headless
        /\ remote' = [remote EXCEPT ![k][n] = v]
    /\ UNCHANGED <<local, gc, disturbed, watchVars, owed, workerVars, startVars>>

\* Someone else writes a mirror: a person, or the operator's previous pod
\* while a rollout replaces it.
Tamper(k, n) ==
    /\ Spend("tamper")
    /\ \E v \in Object(k) \ {local[k][n]} :
        /\ local' = [local EXCEPT ![k][n] = v]
        /\ gc' = IF k = "service" /\ v = None THEN gc \cup {n} ELSE gc
    /\ disturbed' = [disturbed EXCEPT ![k] = @ \cup {n}]
    /\ fresh' = (fresh /\ ~(k = "service" /\ key[k] = n))
    /\ UNCHANGED <<remote, watchVars, owed, pc, key, seen, startVars>>

\* "Deleting a service should also clear the related endpoints": the local
\* endpoints controller does, some time later, if the service is still absent.
CollectEndpoints(n) ==
    /\ n \in gc
    /\ gc' = gc \ {n}
    /\ IF local["service"][n] = None
         THEN /\ local' = [local EXCEPT !["endpoints"][n] = None]
              /\ disturbed' = [disturbed EXCEPT !["endpoints"] = @ \cup {n}]
         ELSE UNCHANGED <<local, disturbed>>
    /\ UNCHANGED <<remote, watchVars, owed, workerVars, startVars, left>>

-----------------------------------------------------------------------------
(* Informers (kube/service_watcher.go, kube/endpoints_watcher.go). *)

\* The endpoints informer is started by Run, after the service sync.
Started(k) == k = "endpoints" => phase = "running"

\* The first list fills the store and every object in it is an Added event.
InitialList(k) ==
    /\ ~synced[k] /\ Started(k)
    /\ synced' = [synced EXCEPT ![k] = TRUE]
    /\ cache' = [cache EXCEPT ![k] = remote[k]]
    /\ LET names == {n \in Names : remote[k][n] # None}
       IN /\ known' = [known EXCEPT ![k] = names]
          /\ owed' = [owed EXCEPT ![k] = @ \cup names]
    /\ UNCHANGED <<clusterVars, event, workerVars, startVars, left>>

\* A watch event, or a relist that skips the states in between, updates the
\* store first ...
Deliver(k, n) ==
    /\ synced[k] /\ event[k] = NoName
    /\ cache[k][n] # remote[k][n]
    /\ cache' = [cache EXCEPT ![k][n] = remote[k][n]]
    /\ known' = [known EXCEPT ![k] = @ \cup {n}]
    /\ event' = [event EXCEPT ![k] = n]
    /\ UNCHANGED <<clusterVars, synced, owed, workerVars, startVars, left>>

\* The watch was interrupted and the object was deleted meanwhile: the relist
\* finds it missing and hands the handler a tombstone instead of the object.
\* `obj.(*v1.Service)' panics on it, which ends the process.
Tombstone(k, n) ==
    /\ synced[k] /\ event[k] = NoName
    /\ cache[k][n] # None /\ remote[k][n] = None
    /\ Spend("fault")
    /\ Restart

\* Mutant of EventHandler: an event for the key in progress is dropped.
DropDuringReconcile(k) ==
    /\ event[k] # NoName
    /\ owed' = IF key[k] = event[k] THEN owed
               ELSE [owed EXCEPT ![k] = @ \cup {event[k]}]
    /\ event' = [event EXCEPT ![k] = NoName]
    /\ UNCHANGED <<clusterVars, cache, synced, known, workerVars, startVars, left>>

\* ... and then calls the handler, which adds the key to the queue.
EventHandler(k) ==
    /\ event[k] # NoName
    /\ owed' = [owed EXCEPT ![k] = @ \cup {event[k]}]
    /\ event' = [event EXCEPT ![k] = NoName]
    /\ UNCHANGED <<clusterVars, cache, synced, known, workerVars, startVars, left>>

\* Mutant of Resync: resyncPeriod is not passed to the informer.
NoResync(k, n) == FALSE /\ UNCHANGED vars

\* Every resyncPeriod each object of the store is a Modified event again.
Resync(k, n) ==
    /\ ResyncEnabled /\ synced[k]
    /\ cache[k][n] # None
    /\ owed' = [owed EXCEPT ![k] = @ \cup {n}]
    /\ UNCHANGED <<clusterVars, watchVars, workerVars, startVars, left>>

-----------------------------------------------------------------------------
(* Run. *)

\* mirrorServiceWatcher, which has no handler, lists the labelled mirrors and
\* may see them change until ServiceSync reads its store.
ListMirrors ==
    /\ phase = "waiting"
    /\ mirrors' = {n \in Names : local["service"][n] # None}
    /\ listed' = TRUE
    /\ UNCHANGED <<clusterVars, watchVars, owed, workerVars, phase, todo, syncOk, left>>

\* Mutant of SyncStart: Run does not wait for the services of the remote cluster.
SyncStartEarly ==
    /\ phase = "waiting" /\ listed
    /\ phase' = IF SyncEnabled THEN "syncing" ELSE "running"
    /\ todo' = IF SyncEnabled
                 THEN {n \in mirrors : cache["service"][n] = None} ELSE {}
    /\ mirrors' = {}
    /\ UNCHANGED <<clusterVars, watchVars, owed, workerVars, listed, syncOk, left>>

\* Both WaitForNamedCacheSync returned: ServiceSync reads the two stores.
SyncStart ==
    /\ phase = "waiting" /\ synced["service"] /\ listed
    /\ phase' = IF SyncEnabled THEN "syncing" ELSE "running"
    /\ todo' = IF SyncEnabled
                 THEN {n \in mirrors : cache["service"][n] = None} ELSE {}
    /\ mirrors' = {}
    /\ UNCHANGED <<clusterVars, watchVars, owed, workerVars, listed, syncOk, left>>

\* ServiceSync deletes one stale mirror.
SyncDelete(n) ==
    /\ phase = "syncing" /\ n \in todo
    /\ local["service"][n] # None
    /\ local' = [local EXCEPT !["service"][n] = None]
    /\ disturbed' = [disturbed EXCEPT !["service"] = @ \ {n}]
    /\ gc' = gc \cup {n}
    /\ \/ todo' = todo \ {n} /\ UNCHANGED <<phase, left>>
       \/ todo' = {} /\ phase' = "running" /\ Spend("fault")   \* the reply is lost
    /\ UNCHANGED <<remote, watchVars, owed, workerVars, mirrors, listed, syncOk>>

\* Mutant of SyncAbort: a failed delete is skipped and the sync reports success.
SyncSkip(n) ==
    /\ phase = "syncing" /\ n \in todo
    /\ IF local["service"][n] = None THEN UNCHANGED left ELSE Spend("fault")
    /\ todo' = todo \ {n}
    /\ UNCHANGED <<clusterVars, watchVars, owed, workerVars, phase, mirrors, listed, syncOk>>

\* Any error of a delete, NotFound included, ends ServiceSync.
SyncAbort(n) ==
    /\ phase = "syncing" /\ n \in todo
    /\ IF local["service"][n] = None THEN UNCHANGED left ELSE Spend("fault")
    /\ todo' = {} /\ phase' = "running"
    /\ UNCHANGED <<clusterVars, watchVars, owed, workerVars, mirrors, listed, syncOk>>

SyncDone ==
    /\ phase = "syncing" /\ todo = {}
    /\ phase' = "running"
    /\ syncOk' = TRUE
    /\ UNCHANGED <<clusterVars, watchVars, owed, workerVars, mirrors, listed, todo, left>>

-----------------------------------------------------------------------------
(* The queue workers: reconcileService and reconcileEndpoints. *)

\* Mutant of Begin: the NotFound of the store is not told from a found object.
BeginIgnoresNotFound(k, n) ==
    /\ phase = "running" /\ pc[k] = "idle"
    /\ n \in owed[k]
    /\ owed' = [owed EXCEPT ![k] = @ \ {n}]
    /\ key' = [key EXCEPT ![k] = n]
    /\ seen' = [seen EXCEPT ![k] = cache[k][n]]
    /\ pc' = [pc EXCEPT ![k] = "get"]
    /\ UNCHANGED <<clusterVars, watchVars, fresh, startVars, left>>

\* processItem takes a key and the reconcile reads the store.  An event that
\* comes between the two leaves the key owed once more.
Begin(k, n) ==
    /\ phase = "running" /\ pc[k] = "idle"
    /\ n \in owed[k]
    /\ owed' \in {owed, [owed EXCEPT ![k] = @ \ {n}]}
    /\ key' = [key EXCEPT ![k] = n]
    /\ seen' = [seen EXCEPT ![k] = cache[k][n]]
    /\ pc' = [pc EXCEPT ![k] = IF cache[k][n] = None THEN "delete" ELSE "get"]
    /\ UNCHANGED <<clusterVars, watchVars, fresh, startVars, left>>

\* Mutant of Return: the error is swallowed, so the key is not queued again.
ReturnNil(k, ok) ==
    /\ pc' = [pc EXCEPT ![k] = "idle"]
    /\ key' = [key EXCEPT ![k] = NoName]
    /\ seen' = [seen EXCEPT ![k] = None]
    /\ fresh' = (fresh /\ k # "service")
    /\ UNCHANGED <<owed, remote, watchVars, startVars>>

\* Mutant of Return: a reconcile that went well takes its key off the work list,
\* and an event that came meanwhile with it.
ReturnClears(k, ok) ==
    /\ pc' = [pc EXCEPT ![k] = "idle"]
    /\ key' = [key EXCEPT ![k] = NoName]
    /\ seen' = [seen EXCEPT ![k] = None]
    /\ fresh' = (fresh /\ k # "service")
    /\ owed' = [owed EXCEPT ![k] = IF ok THEN @ \ {key[k]} ELSE @ \cup {key[k]}]
    /\ UNCHANGED <<remote, watchVars, startVars>>

\* The reconcile returns; a key whose reconcile failed is queued again.
Return(k, ok) ==
    /\ pc' = [pc EXCEPT ![k] = "idle"]
    /\ key' = [key EXCEPT ![k] = NoName]
    /\ seen' = [seen EXCEPT ![k] = None]
    /\ fresh' = (fresh /\ k # "service")
    /\ owed' = IF ok THEN owed ELSE [owed EXCEPT ![k] = @ \cup {key[k]}]
    /\ UNCHANGED <<remote, watchVars, startVars>>

\* The API server carries out the worker's write; its reply may be lost.
Write(k, v) ==
    /\ local' = [local EXCEPT ![k][key[k]] = v]
    /\ disturbed' = [disturbed EXCEPT ![k] = @ \ {key[k]}]
    /\ \/ Return(k, TRUE) /\ UNCHANGED left
       \/ Return(k, FALSE) /\ Spend("fault")

\* The API server refuses the worker's write.
Refuse(k) == Return(k, FALSE) /\ UNCHANGED <<local, gc, disturbed, left>>

\* Delete the mirror of an object that is gone; NotFound is no error here.
Delete(k) ==
    /\ pc[k] = "delete"
    /\ gc' = IF k = "service" /\ local[k][key[k]] # None THEN gc \cup {key[k]} ELSE gc
    /\ Write(k, None)

\* GET the mirror: create it if it is missing, update it otherwise.
Get(k) ==
    /\ pc[k] = "get"
    /\ pc' = [pc EXCEPT ![k] = IF local[k][key[k]] = None THEN "create" ELSE "update"]
    /\ fresh' = (fresh \/ k = "service")
    /\ UNCHANGED <<clusterVars, watchVars, owed, key, seen, startVars, left>>

\* CreateService, createEndpoints: AlreadyExists is an error.
Create(k) ==
    /\ pc[k] = "create"
    /\ IF local[k][key[k]] = None
         THEN Write(k, seen[k]) /\ UNCHANGED gc
         ELSE Refuse(k)

\* UpdateService sends the fetched service back with new ports, so the API
\* server refuses it if the service changed or went.  headless stays.
UpdateService ==
    /\ pc["service"] = "update"
    /\ LET mirror == local["service"][key["service"]]
       IN IF fresh /\ mirror # None
            THEN /\ Write("service", [mirror EXCEPT !.ports = seen["service"].ports])
                 /\ UNCHANGED gc
            ELSE Refuse("service")

\* updateEndpoints sends no resourceVersion: the last writer wins.  For
\* endpoints that went meanwhile API servers either create them or refuse.
UpdateEndpoints ==
    /\ pc["endpoints"] = "update"
    /\ \/ Write("endpoints", seen["endpoints"]) /\ UNCHANGED gc
       \/ local["endpoints"][key["endpoints"]] = None /\ Refuse("endpoints")

\* Any API call may fail without effect.
Fault(k) ==
    /\ pc[k] # "idle"
    /\ Return(k, FALSE)
    /\ Spend("fault")
    /\ UNCHANGED <<local, gc, disturbed>>

\* The process dies and is started again.
Crash == Spend("crash") /\ Restart

-----------------------------------------------------------------------------
Cluster == \E k \in Kinds, n \in Names :
    Change(k, n) \/ Tamper(k, n) \/ CollectEndpoints(n)

\* What an informer always does in the end.
Watch(k) == InitialList(k) \/ EventHandler(k) \/ \E n \in Names : Deliver(k, n)

Informer(k) == Watch(k) \/ \E n \in Names : Resync(k, n)

ProcessDies == Crash \/ \E k \in Kinds, n \in Names : Tombstone(k, n)

Run ==
    \/ ListMirrors \/ SyncStart \/ SyncDone
    \/ \E n \in Names : SyncDelete(n) \/ SyncAbort(n)

\* The steps of a reconcile; an API call is assumed to end.
Reconcile(k) ==
    \/ Delete(k) \/ Get(k) \/ Create(k) \/ Fault(k)
    \/ k = "service" /\ UpdateService
    \/ k = "endpoints" /\ UpdateEndpoints

Next ==
    \/ Cluster \/ Run \/ ProcessDies
    \/ \E k \in Kinds :
        Informer(k) \/ Reconcile(k) \/ \E n \in Names : Begin(k, n)

Spec == Init /\ [][Next]_vars

\* Go schedules every goroutine, watches deliver, timers fire and the endpoints
\* controller runs.  Begin is LevelQueue's fairness, which queue.go implements.
\* No cluster change, fault or crash ever has to happen.
Fairness ==
    /\ WF_vars(ListMirrors) /\ WF_vars(SyncStart) /\ WF_vars(SyncDone)
    /\ \A n \in Names : WF_vars(SyncDelete(n) \/ SyncAbort(n)) /\ WF_vars(CollectEndpoints(n))
    /\ \A k \in Kinds :
        /\ WF_vars(Watch(k)) /\ WF_vars(Reconcile(k))
        /\ \A n \in Names : WF_vars(Resync(k, n)) /\ SF_vars(Begin(k, n))

FairSpec == Spec /\ Fairness

-----------------------------------------------------------------------------
AnyObject == UNION {Object(k) : k \in Kinds}
Stores == {f \in [Kinds -> [Names -> AnyObject]] :
              \A k \in Kinds : f[k] \in [Names -> Object(k)]}

\* Every variable stays in its range; a worker holds a key exactly while it
\* reconciles, and an object exactly while it brings its mirror up to date.
TypeOK ==
    /\ remote \in Stores /\ local \in Stores /\ cache \in Stores
    /\ gc \subseteq Names /\ mirrors \subseteq Names /\ todo \subseteq Names
    /\ owed \in [Kinds -> SUBSET Names]
    /\ known \in [Kinds -> SUBSET Names]
    /\ disturbed \in [Kinds -> SUBSET Names]
    /\ synced \in [Kinds -> BOOLEAN]
    /\ event \in [Kinds -> Names \cup {NoName}]
    /\ key \in [Kinds -> Names \cup {NoName}]
    /\ pc \in [Kinds -> {"idle", "delete", "get", "create", "update"}]
    /\ seen \in [Kinds -> AnyObject]
    /\ \A k \in Kinds :
        /\ seen[k] \in Object(k)
        /\ key[k] = NoName <=> pc[k] = "idle"
        /\ seen[k] = None <=> pc[k] \in {"idle", "delete"}
    /\ fresh \in BOOLEAN /\ listed \in BOOLEAN /\ syncOk \in BOOLEAN
    /\ phase \in {"waiting", "syncing", "running"}
    /\ left \in [Hazards -> Nat]

\* The key of an object whose store entry changed, or whose reconcile failed.
Pending(k, n) == n \in owed[k] \/ event[k] = n

\* A reconcile works on what the store holds now, unless its key is already due
\* again: the order `store first, then queue.Add' of the informers, and Add
\* during a reconcile, lose no update.
SeenIsCurrent ==
    \A k \in Kinds :
        pc[k] # "idle" /\ ~Pending(k, key[k]) => seen[k] = cache[k][key[k]]

\* Nothing is left to do for the key.
Settled(k, n) == phase = "running" /\ ~Pending(k, n) /\ key[k] # n

\* The mirror has the contents of its original.  A service mirror keeps the
\* headless setting it was created with.
Mirrored(k, n, original) ==
    IF original[k][n] = None
      THEN local[k][n] = None
      ELSE local[k][n] # None /\ local[k][n].ports = original[k][n].ports

\* reconcileService, reconcileEndpoints: once an object that the store has held
\* is settled, its mirror is right, unless somebody else wrote it since: no
\* interleaving of events, errors, lost replies and restarts loses a change.
SettledIsMirrored ==
    \A k \in Kinds : \A n \in known[k] :
        Settled(k, n) /\ n \notin disturbed[k] => Mirrored(k, n, cache)

\* ServiceSync "checks for stale mirrors (services) under the local namespace
\* and deletes them": when it ends well the only mirrors left are those of
\* services that the store holds or has held, and those that others made.
NoStaleMirror ==
    syncOk => \A n \in Names \ (known["service"] \cup disturbed["service"]) :
        local["service"][n] = None

\* Run waits "for service watchers to sync" before ServiceSync, and workers read the
\* store: no step of the operator removes a mirror, unless the remote cluster has
\* been listed and the original is not there or is about to be looked at again.
LiveMirrorIsKept ==
    [][\A k \in Kinds, n \in Names :
        local[k][n] # None /\ local'[k][n] = None /\ n \notin disturbed'[k] =>
            synced[k] /\ (cache[k][n] = None \/ Pending(k, n))]_vars

\* serviceQueue and endpointsQueue are used as queue.go allows: handlers name keys
\* at any time, a reconcile takes an owed key and gives back a failed one, and
\* nothing else forgets a key, except the end of the process.
Queue(k) == INSTANCE LevelQueue WITH
    Keys <- Names, NoKey <- NoName, owed <- owed[k], current <- key[k], open <- TRUE
UsesLevelQueue ==
    /\ \A k \in Kinds : Queue(k)!Init
    /\ [][\A k \in Kinds :
            UNCHANGED Queue(k)!vars \/ Queue(k)!Next \/ Restart]_vars

\* README "watches for kubernetes services and endpoints in a target cluster
\* and mirrors them": with resyncs every mirror catches up in the end, even
\* after someone else changed it.
MirrorsCatchUp ==
    <>[]\A k \in Kinds, n \in Names : remote[k][n] # None => Mirrored(k, n, remote)

\* README serviceSync "delete records that cannot be located": after a sync that
\* ended well, service mirrors without an original go in the end.
StaleMirrorsGo ==
    <>[]syncOk => <>[]\A n \in Names \ disturbed["service"] :
        remote["service"][n] = None => local["service"][n] = None

-----------------------------------------------------------------------------
(* A claim of the documentation that the code does not keep. *)

\* README "watches for kubernetes services and endpoints in a target cluster
\* and mirrors them", with resyncPeriod at its default 0.  In the code a
\* service that is deleted and recreated takes the mirrored endpoints with
\* it, and no event of the original endpoints brings them back.
EndpointsCatchUp ==
    <>[]\A n \in Names :
        remote["endpoints"][n] # None /\ remote["service"][n] # None =>
            Mirrored("endpoints", n, remote)
=============================================================================
