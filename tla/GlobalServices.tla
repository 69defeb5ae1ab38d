--------------------------- MODULE GlobalServices ---------------------------
(***************************************************************************)
(* global_runner.go, the service half, over globalservice.go.              *)
(*                                                                         *)
(* Every cluster has a GlobalRunner with an informer and a queue worker of *)
(* its own.  All runners share the GlobalServiceStore and one local        *)
(* service per global name, which a worker changes after it changed the    *)
(* store: this module is about their interleavings.  Names do not meet in  *)
(* the store or in the API, so one global name is enough.                  *)
(*                                                                         *)
(* Assumption: a method of the store runs alone.  The code has no lock for *)
(* that; GlobalServiceStore takes the methods apart, and says when calls   *)
(* that overlap do what they do here.                                      *)
(***************************************************************************)
EXTENDS Naturals, FiniteSets

CONSTANTS Clusters,   \* the local cluster and the remote ones
          Ports,      \* what the README calls fungible: the latest caller's wins
          Services,   \* the services that a cluster may offer under the name
          None,       \* no object, a nil pointer
          Live,       \* a pointer to the entry that is in the store
          Calm,       \* TRUE: services are only removed while nothing else happens
          Budget      \* bound on each kind of disturbance

Hazards == {"change", "fault", "crash"}
\* hints: the service has the routing strategy label, so that the global one
\* gets the topology annotation; fungible like the ports.
Service == [ports : Ports, hints : BOOLEAN, headless : BOOLEAN]
Entry == [ports : Ports, hints : BOOLEAN, headless : BOOLEAN, clusters : SUBSET Clusters]

ASSUME ConstantsAssumption ==
    /\ Services \subseteq Service
    /\ None \notin Service \cup Entry \cup {Live}
    /\ Live \notin Entry
    /\ Calm \in BOOLEAN
    /\ Budget \in [Hazards -> Nat]

VARIABLES
    remote,        \* the service in each cluster
    local,         \* the local service gl-<namespace>-73736d-<name>
    cache, synced, event,  \* per cluster: informer store, HasSynced, key on its way
    owed,          \* clusters whose serviceQueue holds the name
    store,         \* globalServiceStore's entry for the name
    pc, remoteSvc, gsvc, call,  \* each worker: step, variables, API request
    fresh,         \* workers whose GET of the local service is still current
    panicked,      \* history: a nil pointer was dereferenced
    left

clusterVars == <<remote, local>>
watchVars == <<cache, synced, event>>
workerVars == <<pc, remoteSvc, gsvc, call, fresh>>
vars == <<clusterVars, watchVars, owed, store, workerVars, panicked, left>>

All(v) == [c \in Clusters |-> v]

Init ==
    /\ remote \in [Clusters -> Services \cup {None}]
    /\ local = None
    /\ cache = All(None) /\ synced = {} /\ event = {} /\ owed = {}
    /\ store = None
    /\ pc = All("idle") /\ remoteSvc = All(None) /\ gsvc = All(None) /\ call = All(None)
    /\ fresh = {}
    /\ panicked = FALSE
    /\ left = Budget

Spend(h) == left[h] > 0 /\ left' = [left EXCEPT ![h] = @ - 1]

\* Clusters of a store entry or of the local service's annotation.
Members(e) == IF e = None THEN {} ELSE e.clusters

\* The runner of c has nothing to do.
Settled(c) ==
    /\ c \in synced /\ c \notin event \cup owed
    /\ pc[c] = "idle"
    /\ cache[c] = remote[c]

Quiet == \A c \in Clusters : Settled(c)

-----------------------------------------------------------------------------
\* A cluster's service is created, modified or removed.  Under Calm a removal
\* waits until all is quiet, and everything else until the removal is done.
Change(c) ==
    /\ Spend("change")
    /\ \E v \in (Services \cup {None}) \ {remote[c]} :
        /\ (v # None /\ remote[c] # None) => v.headless = remote[c].headless
        /\ Calm => Quiet \/ (v # None /\ \A d \in Clusters : remote[d] = None => Settled(d))
        /\ remote' = [remote EXCEPT ![c] = v]
    /\ UNCHANGED <<local, watchVars, owed, store, workerVars, panicked>>

(* The informer of c, see MirrorRunner. *)

InitialList(c) ==
    /\ c \notin synced
    /\ synced' = synced \cup {c}
    /\ cache' = [cache EXCEPT ![c] = remote[c]]
    /\ owed' = IF remote[c] = None THEN owed ELSE owed \cup {c}
    /\ UNCHANGED <<clusterVars, event, store, workerVars, panicked, left>>

Deliver(c) ==
    /\ c \in synced \ event
    /\ cache[c] # remote[c]
    /\ cache' = [cache EXCEPT ![c] = remote[c]]
    /\ event' = event \cup {c}
    /\ UNCHANGED <<clusterVars, synced, owed, store, workerVars, panicked, left>>

EventHandler(c) ==
    /\ c \in event
    /\ owed' = owed \cup {c}
    /\ event' = event \ {c}
    /\ UNCHANGED <<clusterVars, cache, synced, store, workerVars, panicked, left>>

-----------------------------------------------------------------------------
(* reconcileGlobalService, in the runner of c. *)

\* The worker takes the name and reads the service from its informer.
Begin(c) ==
    /\ pc[c] = "idle" /\ c \in synced \cap owed
    /\ owed' \in {owed, owed \ {c}}
    /\ remoteSvc' = [remoteSvc EXCEPT ![c] = cache[c]]
    /\ pc' = [pc EXCEPT ![c] = IF cache[c] = None THEN "remove" ELSE "add"]
    /\ UNCHANGED <<clusterVars, watchVars, store, gsvc, call, fresh, panicked, left>>

\* Mutant of Return: errors are logged and swallowed.
ReturnNil(c, ok) ==
    /\ pc' = [pc EXCEPT ![c] = "idle"]
    /\ remoteSvc' = [remoteSvc EXCEPT ![c] = None]
    /\ gsvc' = [gsvc EXCEPT ![c] = None]
    /\ call' = [call EXCEPT ![c] = None]
    /\ UNCHANGED <<owed, remote, watchVars, store, panicked>>

\* Mutant of Return: a reconcile that went well takes the name off the work list,
\* and an event that came meanwhile with it.
ReturnClears(c, ok) ==
    /\ pc' = [pc EXCEPT ![c] = "idle"]
    /\ remoteSvc' = [remoteSvc EXCEPT ![c] = None]
    /\ gsvc' = [gsvc EXCEPT ![c] = None]
    /\ call' = [call EXCEPT ![c] = None]
    /\ owed' = IF ok THEN owed \ {c} ELSE owed \cup {c}
    /\ UNCHANGED <<remote, watchVars, store, panicked>>

\* The reconcile returns; a name whose reconcile failed is queued again.
Return(c, ok) ==
    /\ pc' = [pc EXCEPT ![c] = "idle"]
    /\ remoteSvc' = [remoteSvc EXCEPT ![c] = None]
    /\ gsvc' = [gsvc EXCEPT ![c] = None]
    /\ call' = [call EXCEPT ![c] = None]
    /\ owed' = IF ok THEN owed ELSE owed \cup {c}
    /\ UNCHANGED <<remote, watchVars, store, panicked>>

Refuse(c) == Return(c, FALSE) /\ UNCHANGED <<local, fresh, left>>

\* AddOrUpdateClusterServiceTarget: ports and hints of the latest caller win; a
\* headless mismatch is an error that leaves the entry alone.
AddOrUpdateClusterServiceTarget(c) ==
    /\ pc[c] = "add"
    /\ IF store # None /\ store.headless # remoteSvc[c].headless
         THEN Refuse(c)
         ELSE /\ store' = [ports |-> remoteSvc[c].ports, hints |-> remoteSvc[c].hints,
                           headless |-> remoteSvc[c].headless,
                           clusters |-> Members(store) \cup {c}]
              /\ pc' = [pc EXCEPT ![c] = "lookup"]
              /\ UNCHANGED <<clusterVars, watchVars, owed, remoteSvc, gsvc, call, fresh,
                             panicked, left>>

\* Mutant of DeleteClusterServiceTarget: the whole entry goes with any cluster.
DeleteEntry(c) ==
    /\ pc[c] = "remove"
    /\ store' = None
    /\ gsvc' = [d \in Clusters |-> IF gsvc[d] = Live THEN store ELSE gsvc[d]]
    /\ pc' = [pc EXCEPT ![c] = "delete"]
    /\ UNCHANGED <<clusterVars, watchVars, owed, remoteSvc, call, fresh, panicked, left>>

\* DeleteClusterServiceTarget: nil if no cluster is left, or there was no entry.
\* A worker that still holds the deleted entry keeps what it was.
DeleteClusterServiceTarget(c) ==
    /\ pc[c] = "remove"
    /\ IF Members(store) \subseteq {c}
         THEN /\ store' = None
              /\ gsvc' = [d \in Clusters |-> IF gsvc[d] = Live THEN store ELSE gsvc[d]]
              /\ pc' = [pc EXCEPT ![c] = "delete"]
         ELSE /\ store' = [store EXCEPT !.clusters = @ \ {c}]
              /\ pc' = [pc EXCEPT ![c] = "lookup"]
              /\ UNCHANGED gsvc
    /\ UNCHANGED <<clusterVars, watchVars, owed, remoteSvc, call, fresh, panicked, left>>

\* Mutant of Lookup: the error of Get is not checked.
LookupUnchecked(c) ==
    /\ pc[c] = "lookup"
    /\ gsvc' = [gsvc EXCEPT ![c] = Live]
    /\ pc' = [pc EXCEPT ![c] = "get"]
    /\ UNCHANGED <<clusterVars, watchVars, owed, store, remoteSvc, call, fresh, panicked, left>>

\* globalServiceStore.Get: another runner may have deleted the entry meanwhile.
Lookup(c) ==
    /\ pc[c] = "lookup"
    /\ IF store = None
         THEN Refuse(c)
         ELSE /\ gsvc' = [gsvc EXCEPT ![c] = Live]
              /\ pc' = [pc EXCEPT ![c] = "get"]
              /\ UNCHANGED <<clusterVars, watchVars, owed, store, remoteSvc, call, fresh,
                             panicked, left>>

\* Mutant of GetService: any error is taken for NotFound.
GetServiceAnyError(c) ==
    /\ pc[c] = "get"
    /\ \/ pc' = [pc EXCEPT ![c] = IF local = None THEN "create" ELSE "update"] /\ UNCHANGED left
       \/ pc' = [pc EXCEPT ![c] = "create"] /\ Spend("fault")
    /\ fresh' = fresh \cup {c}
    /\ UNCHANGED <<clusterVars, watchVars, owed, store, remoteSvc, gsvc, call, panicked>>

\* GET the local service.
GetService(c) ==
    /\ pc[c] = "get"
    /\ pc' = [pc EXCEPT ![c] = IF local = None THEN "create" ELSE "update"]
    /\ fresh' = fresh \cup {c}
    /\ UNCHANGED <<clusterVars, watchVars, owed, store, remoteSvc, gsvc, call, panicked, left>>

\* The entry the worker's pointer leads to.
Deref(c) == IF gsvc[c] = Live THEN store ELSE gsvc[c]

\* The arguments of CreateService: the ports are those of the runner's own
\* service, the rest comes from the entry.
PrepareCreate(c) ==
    /\ pc[c] = "create" /\ remoteSvc[c] # None
    /\ call' = [call EXCEPT ![c] = [Deref(c) EXCEPT !.ports = remoteSvc[c].ports]]
    /\ pc' = [pc EXCEPT ![c] = "creating"]
    /\ UNCHANGED <<clusterVars, watchVars, owed, store, remoteSvc, gsvc, fresh, panicked, left>>

PrepareUpdate(c) ==
    /\ pc[c] = "update"
    /\ call' = [call EXCEPT ![c] = Deref(c)]
    /\ pc' = [pc EXCEPT ![c] = "updating"]
    /\ UNCHANGED <<clusterVars, watchVars, owed, store, remoteSvc, gsvc, fresh, panicked, left>>

\* The API server writes the local service; its reply may be lost.
Write(c, v) ==
    /\ local' = v
    /\ fresh' = {}
    /\ \/ Return(c, TRUE) /\ UNCHANGED left
       \/ Return(c, FALSE) /\ Spend("fault")

\* AlreadyExists is an error.
CreateService(c) ==
    /\ pc[c] = "creating"
    /\ IF local = None THEN Write(c, call[c]) ELSE Refuse(c)

\* Mutant of UpdateService: no resourceVersion is sent, so any update is accepted.
UpdateUnconditionally(c) ==
    /\ pc[c] = "updating"
    /\ IF local # None
         THEN Write(c, [call[c] EXCEPT !.headless = local.headless])
         ELSE Refuse(c)

\* The API server refuses an update of a service that changed or went since
\* the GET.  clusterIP stays as it was.
UpdateService(c) ==
    /\ pc[c] = "updating"
    /\ IF local # None /\ c \in fresh
         THEN Write(c, [call[c] EXCEPT !.headless = local.headless])
         ELSE Refuse(c)

\* NotFound is no error.
DeleteService(c) == pc[c] = "delete" /\ Write(c, None)

\* An API call fails without effect.
Fault(c) ==
    /\ pc[c] \in {"get", "creating", "updating", "delete"}
    /\ Return(c, FALSE)
    /\ Spend("fault")
    /\ UNCHANGED <<local, fresh>>

\* A new process: the store is memory, so it is lost too.
Restart ==
    /\ cache' = All(None) /\ synced' = {} /\ event' = {} /\ owed' = {}
    /\ store' = None
    /\ pc' = All("idle") /\ remoteSvc' = All(None) /\ gsvc' = All(None) /\ call' = All(None)
    /\ fresh' = {}
    /\ UNCHANGED clusterVars

\* `remoteSvc.Spec.Ports' where remoteSvc is nil: the process dies.
Panic(c) ==
    /\ pc[c] = "create" /\ remoteSvc[c] = None
    /\ panicked' = TRUE
    /\ Restart
    /\ UNCHANGED left

Crash == Spend("crash") /\ Restart /\ UNCHANGED panicked

-----------------------------------------------------------------------------
Informer(c) == InitialList(c) \/ Deliver(c) \/ EventHandler(c)

Reconcile(c) ==
    \/ AddOrUpdateClusterServiceTarget(c) \/ DeleteClusterServiceTarget(c)
    \/ Lookup(c) \/ GetService(c) \/ PrepareCreate(c) \/ PrepareUpdate(c) \/ Panic(c)
    \/ CreateService(c) \/ UpdateService(c) \/ DeleteService(c) \/ Fault(c)

Next ==
    \/ \E c \in Clusters : Change(c) \/ Informer(c) \/ Begin(c) \/ Reconcile(c)
    \/ Crash

Spec == Init /\ [][Next]_vars

\* Every goroutine is scheduled and every API call returns.
Fairness ==
    \A c \in Clusters :
        /\ WF_vars(Informer(c)) /\ WF_vars(Reconcile(c)) /\ SF_vars(Begin(c))

FairSpec == Spec /\ Fairness

-----------------------------------------------------------------------------
\* Every variable stays in its range; a worker holds a pointer to the store's
\* entry only while there is one.
TypeOK ==
    /\ remote \in [Clusters -> Service \cup {None}]
    /\ cache \in [Clusters -> Service \cup {None}]
    /\ remoteSvc \in [Clusters -> Service \cup {None}]
    /\ gsvc \in [Clusters -> Entry \cup {Live, None}]
    /\ call \in [Clusters -> Entry \cup {None}]
    /\ store \in Entry \cup {None}
    /\ local \in Entry \cup {None}
    /\ pc \in [Clusters -> {"idle", "add", "remove", "lookup", "get", "create", "update",
                            "creating", "updating", "delete"}]
    /\ {synced, event, owed, fresh} \subseteq SUBSET Clusters
    /\ panicked \in BOOLEAN
    /\ left \in [Hazards -> Nat]
    /\ \A c \in Clusters : gsvc[c] = Live => store # None

\* AddOrUpdateClusterServiceTarget, DeleteClusterServiceTarget: the store lists
\* exactly the clusters that have the service, once their runners are settled,
\* whatever the other runners do meanwhile, and all agree on headless.
StoreFollowsClusters ==
    \A c \in Clusters : Settled(c) =>
        /\ c \in Members(store) <=> remote[c] # None
        /\ remote[c] # None => store.headless = remote[c].headless

\* The runners' serviceQueues are used as queue.go allows, see MirrorRunner; of
\* each only the one global name is modelled.
Queue(c) == INSTANCE LevelQueue WITH
    Keys <- {"name"}, NoKey <- "none",
    owed <- IF c \in owed THEN {"name"} ELSE {},
    current <- IF pc[c] = "idle" THEN "none" ELSE "name", open <- TRUE
UsesLevelQueue ==
    /\ \A c \in Clusters : Queue(c)!Init
    /\ [][\A c \in Clusters :
            UNCHANGED Queue(c)!vars \/ Queue(c)!Next \/ Restart]_vars

\* reconcileGlobalService: when all runners are settled the local service has
\* the ports, the topology annotation and the clusters of the store's entry.
LocalFollowsStore ==
    Quiet /\ store # None =>
        /\ local # None
        /\ local.ports = store.ports /\ local.hints = store.hints
        /\ local.clusters = store.clusters

\* "If the returned global service is nil, then we should try to delete the
\* local service": once no cluster is left the local service does not stay,
\* however the runners' steps fell together: one may update it for the entry it
\* still holds while another deletes both.  A new process does not know what an
\* earlier one left behind.
LocalGoesWithStore ==
    Quiet /\ store = None /\ left["crash"] = Budget["crash"] /\ ~panicked => local = None

\* "we should try to delete the local service", only then: no step removes the
\* local service while some cluster has the service, in whatever state the runner
\* of that cluster is, and also after a restart.
ServiceIsKept ==
    [][local # None /\ local' = None => \A c \in Clusters : remote[c] = None]_vars

\* reconcileGlobalService goes on with a nil remoteSvc if other clusters are
\* left, and never dereferences it.
NoPanic == ~panicked

\* README "create a single ClusterIP (or headless) service": in the end the
\* local service names exactly the clusters that have the service.
GlobalServiceCatchesUp ==
    <>[]((\E c \in Clusters : remote[c] # None) =>
            Members(local) = {c \in Clusters : remote[c] # None})

=============================================================================
