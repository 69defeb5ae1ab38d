# Verification of semaphore-service-mirror

TLA+ specifications of semaphore-service-mirror, TLC configurations that
model-check them on small instances, and TLAPS proofs for every value of their
constants. Paths below are relative to the repository root.

To check one module, inside this directory:

    tlc -workers 2 -config WorkQueue.cfg MCWorkQueue
    tlapm WorkQueueProofs.tla

## 1. The system

The operator runs in one Kubernetes cluster (*local*) and watches several
*remote* ones. It does two things.

* **Mirroring.** For each remote cluster a `MirrorRunner` copies the labelled
  services and endpoints into a local namespace under the name
  `<prefix>-<namespace>-73736d-<name>`.
* **Global services.** For each cluster, the local one included, a
  `GlobalRunner` contributes its labelled services to one shared local service
  `gl-<namespace>-73736d-<name>`, and copies its endpointslices so that they back
  that service.

Every runner is built from *informers* (`kube/*_watcher.go`: a cached copy of a
cluster's objects that calls a handler on every change) and *queues*
(`queue.go`: a rate-limited work queue with one worker). Handlers only put keys
on queues; workers read the informer's cache and talk to the local API server.

### Components, their state and their operations

| component | source | state | operations |
|---|---|---|---|
| queue | `queue.go` | client-go's work queue; the list `requeued` and the metric made of it | `Add`, `Run`/`processItem`, `requeue`, `forget`, `Stop` |
| watchers | `kube/service_watcher.go`, `endpoints_watcher.go`, `endpointslice_watcher.go` | the informer's store, `HasSynced`, a stop channel | first list, watch events, resync, `Get`, `List`, `Stop` |
| API calls | `kube/common.go` | none; the cluster's objects | `GetService`, `CreateService`, `UpdateService`, `DeleteService` |
| mirror runner | `mirror_runner.go` | two queues, four watchers, `initialised` | `Run`, two event handlers, `reconcileService`, `reconcileEndpoints`, `ServiceSync`, `Stop` |
| global services | `global_runner.go` (service half) | a queue and a watcher per cluster; the shared local service | `Run`, event handler, `reconcileGlobalService` |
| global service store | `globalservice.go`, `inSlice` and `removeFromSlice` of `utils.go` | a Go map from name to a shared object, one per process, without a lock | `AddOrUpdateClusterServiceTarget`, `DeleteClusterServiceTarget`, `Get` |
| endpointslices | `global_runner.go` (endpointslice half) | a queue and two watchers per cluster; a shared label map | event handler, `reconcileEndpointSlice`, `EndpointSliceSync` |
| names | `utils.go`, `config.go` | none | the three name generators; the prefix of a remote |
| startup and health | `main.go`, `runner.go` | the list of runners, `initialised` flags | starting a goroutine per runner, `/healthz`, stopping |
| backoff | `backoff/` | attempt counter | `ForAttempt`, `Retry` |
| configuration | `config.go` | none that changes | `parseConfig` |
| client, metrics, logging, manifests | `kube/client.go`, `metrics/`, `log/`, `deploy/` | none that changes | plumbing |

### How they interact

    remote cluster --watch--> informer: store update, then handler
                                   handler --Add(key)--> queue
    queue --key--> worker: reads the informer's store,
                   (global) changes the shared store,
                   GET / create / update / delete in the local cluster
    worker --error--> requeue with a delay --> queue

Shared by several goroutines: an informer's store (written by the informer, read
by the worker and by the startup syncs), `queue.requeued` (worker only), the
global service store (every `GlobalRunner`'s worker, no lock), the local
cluster's objects (all workers, the endpoints controller, other clients).

### What is hard, and what makes it correct

The list with lines is `hazards` in `PROJECT.json`. In short:

* *Queue*: events during a reconcile, retries racing with events, shutdown with
  keys in flight. Correct if no key that was named is lost, none is worked on
  twice at a time, none is starved, and the metric is exact.
* *Mirror runner*: the worker acts on a copy that may be stale at every API call;
  replies are lost; the process restarts; the startup sync compares two caches
  filled at different times; a local controller deletes endpoints behind the
  operator's back. Correct if a mirror for which nothing is due equals its
  original, a stale mirror goes, and every change is followed in the end.
* *Global services*: the shared store is changed first and the shared local
  service later, by several workers. Correct if the store follows the clusters,
  and the local service follows the store.
* *Store*: two methods at the same time. Correct if each call takes effect; in the
  code it does only until a write falls into another method's window.
* *Endpointslices, names*: two objects with one mirror name. Correct if each
  mirror has one owner.
* *Startup*: waits that never end, remotes whose client cannot be made, and
  several runners that write into one namespace. Correct if a cluster that does
  not answer costs the others nothing, the health endpoint says neither too much
  nor too little, and no runner takes another's mirror.

## 2. The modules

| module | models | over |
|---|---|---|
| `LevelQueue` | the abstract promise of a queue: a key that was named is owed a reconcile that begins later; failed ones are owed again | |
| `WorkQueue` | `queue.go` and client-go's work queue under it; implements `LevelQueue` | `LevelQueue` |
| `MirrorRunner` | `mirror_runner.go`, its informers, workers, startup sync and the two clusters | `LevelQueue` |
| `EndpointSlices` | the endpointslice half of all `GlobalRunner`s: informers, workers, startup syncs, and the mirror slices of one namespace | `LevelQueue` |
| `GlobalServices` | the service half of all `GlobalRunner`s with the shared store and the shared local service | `LevelQueue` |
| `Members` | the abstract promise of the store for one name: a set each cluster joins and leaves on its own | |
| `GlobalServiceStore` | `globalservice.go`, one memory access per step; implements `Members` until a write falls into another caller's window | `Members` |
| `Names` | the name generators of `utils.go` for services | |
| `Startup` | `main.go` and `config.go`: one process with all its runners, its health, and the mirror services of all remotes in one namespace | `Names` |
| `WorkQueueProofs`, `MirrorRunnerProofs`, `GlobalServicesProofs`, `GlobalServicesCalmProofs`, `GlobalServiceStoreProofs`, `EndpointSlicesProofs`, `StartupProofs` | the theorems | the module named |
| `MC*` | TLC instances: sets of model values and budgets | the module named |

Definitions whose comment begins with "Mutant of" are not part of any
specification: each is a plausible bug in the definition it names, kept to show
that the properties notice it.

### `WorkQueue` (queue.go)

`dirty`, `pending`, `waiting` and `shuttingDown` are the state of client-go's
queue, external to the repository: a key is *dirty* from `Add` until `Get` hands
it out; `pending` is the FIFO; a key added while it is being processed stays out
of the FIFO until `Done`. `requeued` and `gauge` are queue.go's own. The worker's
loop is `pc`: `metrics` (updateMetrics), `get` (the blocking Get), `reconcile`
(inside reconcileFunc), `done` (the deferred Done), `stopped`. `ReconcileOK` and
`ReconcileErr` are processItem's two outcomes with `forget` and `requeue`.

`LevelQueue` has only `owed`, `current` and `open`. The refinement maps `owed` to
`dirty \cup waiting` and `current` to the key being reconciled. The runners'
modules use exactly this: a variable `owed`, actions `Begin` that may or may not
leave the key owed (`owed' \in {owed, owed \ {k}}`, LevelQueue's Begin), and a
`Return` that puts a failed key back. `UsesLevelQueue`, in each of them, says that
they do no more: seen from one queue, every step is one of `LevelQueue`'s, or the
end of the process (`Restart`, `Crash`). `Queue(k)` is the instance of `LevelQueue`
for the kind or the cluster `k`. It is never shut down there: `Stop` is called when
the process ends.

### `MirrorRunner` (mirror_runner.go)

One runner, both kinds of objects. `remote` and `local` are the two clusters, by
kind and name; a name of the model stands for a remote namespace/name pair and
for the mirror name made from it. `cache`, `synced`, `event` are the informers:
`Deliver` updates the store *and then* `EventHandler` names the key, as client-go
does; `Deliver` takes the newest object and so also stands for a relist that
skips states. `Run` is `ListMirrors`, `SyncStart`, `SyncDelete`/`SyncAbort`,
`SyncDone` and the value of `phase`; workers and the endpoints informer exist
only in phase `running`. A reconcile is `Begin` (take the key, read the store),
then one step per API call: `Delete`, or `Get` followed by `Create` or
`UpdateService`/`UpdateEndpoints`. Every call can fail without effect (`Fault`)
or take effect and lose its reply (`Write`'s second disjunct). `fresh` says that
nobody wrote the mirror service since the worker's GET, which is what the
resourceVersion of the update compares; `updateEndpoints` builds a new object and
sends none. `Crash` restarts the process and keeps the clusters. So does
`Tombstone`: when a watch was interrupted and an object was deleted meanwhile, the
relist hands the handler a tombstone, the type assertion `obj.(*v1.Service)`
(`kube/service_watcher.go:77`, and the same in the other two watchers) panics in
the informer's goroutine, and the process ends.

History variables: `known` (names the store has held since the start) and
`disturbed` (mirrors last written by someone else, the endpoints controller
included). They restrict properties to what the operator can answer for.

### `GlobalServices` (global_runner.go over globalservice.go)

One global name, since names meet neither in the store nor in the API. A worker's
steps are those of `reconcileGlobalService`: `AddOrUpdateClusterServiceTarget` or
`DeleteClusterServiceTarget`, `Lookup` (the store's Get), `GetService`, reading
the entry for the request (`PrepareCreate`, `PrepareUpdate`), and the request. An
entry keeps the ports and the topology hints of the latest caller, and the
headless setting of its creator. A worker holds a *pointer* to the entry: `gsvc = Live` while the entry is in the
map, and the last contents once it was deleted, so that a worker may write what a
deleted entry said. `PrepareCreate` needs a service of its own (`remoteSvc`);
`Panic` is the same line with a nil one. The request's ports, hints and cluster list
are fixed at the Prepare step; the annotations map is in truth shared with the entry
until the request is encoded, which only moves that instant.

Two assumptions are made explicit. A method of the store runs alone
(`GlobalServiceStore` shows what happens otherwise). And the constant `Calm`:
when TRUE a cluster loses its service only while every runner is settled, and
nothing else changes until the removal is through. That the local service
is right and stays holds only then; without it `global_deleted` and `global_panic` find the
two counterexamples. What does *not* need `Calm` is checked without it: the
store (`StoreFollowsClusters`), and that the local service goes when the last
cluster has left (`LocalGoesWithStore`). There two runners may remove their clusters
at the same time, one updating the local service from the entry it still holds while
the other deletes both. A restart loses the names an earlier process had in its
store, and a panic ends the process, so the property excepts both.

### `GlobalServiceStore` (globalservice.go)

The map's pointer for one name, the `clusters` slice of each object, and for every
caller the step, the pointer and the slice it has read. Each step is one access to
shared memory, and callers overlap freely, as nothing in the code keeps them apart.

The methods are right until one caller's write falls into another's window, which
the history variable `raced` records. A method reads and relies on it later: on the map's pointer from the
lookup on, on the list of clusters between `inSlice` and the append or the removal,
on its length between the check for an empty list and the delete from the map.
`Hits(d)` is a step of another caller that writes what `d` relies on. Until the
first such step the store does what its comments promise
(`UnracedCallsTakeEffect`, `NoEmptyEntry`, `ImplementsMembers`); with it a cluster
may be lost (`store_racing`). Overlaps that hit nothing are not excluded: calls that
only read, as a resync makes them, a runner that looks up while another appends, or
one that adds to a list another has just emptied.

### `EndpointSlices` (global_runner.go, endpointslice half)

A source is a record of cluster, namespace and name; its mirror is called
`gl-<name>`, so `MirrorName` forgets the other two and sources may share a mirror.
A mirror is what the writing runner makes of it: its sync label (`cluster`), the
global service it is labelled for (`namespace`, and the service in `contents`), the
hints for local zones or for the zone `remote` (`Hints`), and the addresses and
ports. Informers, workers, lost replies and restarts are as in `MirrorRunner`. A
slice without a service name (`Unlabelled`) fails on every attempt; `Begin` leaves
such an attempt out, as it changes nothing. The update builds a new object without
a resourceVersion and fails if there is none to update.

Each runner's `Run` waits for the cache of originals and for the list of mirrors,
and deletes the mirrors it lists and has no original for. The list comes from the
cluster the runner *watches*: `Labelled` is the local namespace for the local
runner, and any set of names the cluster's own slices may have for a remote one,
made by an operator that runs there. The deletes go to the local namespace.

Whom a property can hold responsible needs two notions. `Alone(s)`: no other source
has the mirror name of `s`. `writer`: the source whose worker wrote the mirror
last. A shared mirror is only promised to be right for its last writer.

### `Names` and `Startup` (utils.go, main.go, config.go)

`Names` writes a name as the sequence of its parts between dashes, so that joining
with a dash is concatenation and a namespace or a prefix may itself contain dashes.
`Apart` says that of two prefixes neither is the beginning of the other.

`Startup` is one process. `main` goes through `parse` (flags, file, `parseConfig`
as `Accepted`, the routing label), `client` (the local client and `GlobalRunner`),
`remotes` (the loop, with `next`), `serving` and `down`; every error is `os.Exit`,
which ends the runners that work already. Each runner is a goroutine with a
`stage`: `spawned`, `waiting` (its watchers run and `initialised` is set), `syncing`,
`running` (its queues run). What is of interest here is what runners do to each other:
all write mirror services into one namespace, under names made from their
prefixes, and delete by name and label. So an informer's first list is one step, an
event and its handler are one (`Deliver`), and the requests of a reconcile are one
(`Reconcile`, or `ReconcileFails` if the local cluster does not answer, whether they
were carried out or not); `MirrorRunner` has each of them. What is kept apart is the
decision and the deed. `cache` is the informer's copy, some way behind the cluster;
`Begin` takes a key and decides by the copy to write or to delete (`doing`, `key`),
and the requests follow later, whatever has happened to the copy meanwhile. Likewise
`SyncStart` compares the copy with the mirrors and `SyncDelete` deletes one by one
(`todo`), until an error ends the sync (`SyncAbort`). A delete decided on an older
copy may thus take the mirror of a service that has come back, as in the code: TLC
finds it in the worker and in the sync. `NoMirrorIsTaken` says that only the
service's own runner does so, and only if it will look again.

Clusters answer or not: `Outage` and `Answer`.

## 3. Properties and runs

Bounds: every external disturbance (a change in a cluster, a failed call or lost
reply, a restart, a foreign write) is counted in `left` and starts at `Budget` (in
`Startup` at one of `Budgets`).
Nothing else is bounded; resyncs, retries and relists are free.

| run | instance | shows |
|---|---|---|
| `queue` | 3 keys; 14 410 states | no key is stranded outside the FIFO or handed out twice (`FifoIsDirty`); `requeued` is exactly the failed keys (`RequeuedIsFailed`), all of them scheduled (`CountedIsScheduled`); the metric is exact (`GaugeIsExact`); Stop ends the worker (`StopEndsWorker`); `LevelQueue` with its fairness is implemented |
| `mirror` | 1 name (service and endpoints), 2 contents, 2 changes, 1 fault, 1 restart, 1 foreign write, with resync; 654 k states | a reconcile works on what the store holds or its key is due again (`SeenIsCurrent`); a mirror with nothing due is right (`SettledIsMirrored`); a sync that ended well left no stale mirror (`NoStaleMirror`); no step of the operator removes the mirror of an object that it knows to be there (`LiveMirrorIsKept`); the queues are used as `LevelQueue` allows (`UsesLevelQueue`); every mirror catches up (`MirrorsCatchUp`); stale service mirrors go once a sync has ended well (`StaleMirrorsGo`) |
| `mirror_endpoints_lost` | 1 name, mirrored at the start, 2 changes, no sync, no resync; the defaults | **violation** of `EndpointsCatchUp`, see 4 |
| `global_store` | 2 clusters, ClusterIP or headless, 2 changes, 1 fault, 1 restart; 680 k states | the store follows the clusters (`StoreFollowsClusters`); the local service does not outlive the last cluster, although updates and deletes of the two runners overlap (`LocalGoesWithStore`); the queues are used as `LevelQueue` allows (`UsesLevelQueue`); pointers into the store do not dangle (`TypeOK`) |
| `global_service` | 2 clusters, 2 contents that differ in ports and hints, 2 changes, 1 fault, 1 restart, `Calm`; 861 k states | the local service follows the store, ports and hints included (`LocalFollowsStore`), no nil service is met (`NoPanic`), it is removed only when no cluster has the service (`ServiceIsKept`), and its clusters become those that have the service (`GlobalServiceCatchesUp`) |
| `global_panic` | 2 clusters, 2 changes | **violation** of `NoPanic` |
| `global_deleted` | 2 clusters, 2 changes | **violation** of `LocalFollowsStore` |
| `store` | 3 clusters, 4 addresses; 15 k states | until a write falls into another caller's window, each call takes effect (`UnracedCallsTakeEffect`), no empty entry stays (`NoEmptyEntry`), and `Members` is implemented (`ImplementsMembers`) |
| `store_racing` | 2 clusters, 4 addresses | **violation** of `CallsTakeEffect` |
| `slices` | 2 clusters, 3 slices of which 2 share a name, 1 change, 1 fault, 1 restart; 322 k states | a settled slice has its mirror if nothing shares it or it wrote it last (`SettledSliceIsMirrored`); the local runner's sync leaves no stale mirror (`NoStaleLocalSlice`); no sync or worker removes the mirror of a live slice (`LiveMirrorIsKept`); the queues are used as `LevelQueue` allows (`UsesLevelQueue`); slices that share no name catch up (`SlicesCatchUp`) |
| `slices_sync` | 2 clusters, 2 slices, no disturbance | **violation** of `NoStaleRemoteSlice` |
| `startup` | 2 remotes, 3 config files, 2 services, 2 changes, or 1 outage with 1 change or 1 crash; 526 k states | healthy means that all runners were started (`HealthyMeansStarted`), and stays so although a cluster never answers (`HealthDoesNotWait`); no runner takes the mirror of a live service of another cluster, and its own only if it will look again (`NoMirrorIsTaken`); what a runner's queue has done with has its mirror, whatever the other runner did (`DoneIsMirrored`); clusters that answer are mirrored whatever the others do (`AnsweringIsMirrored`) |

Why these bounds are enough. Keys of a queue interact through their order only;
three are needed for a key to wait behind one key while another is processed.
Names do not interact in `MirrorRunner` except in the startup sync, where one
delete that fails skips another; the theorems of section 5, which hold for any set
of names, cover the safety properties beyond the one name TLC checks. Two changes make the shortest harmful
sequences (delete and recreate; change during the handling of a change), and one
fault, restart and foreign write each can then fall anywhere between them. In
`startup`, where there are two runners and everything meets everything, the kinds of
disturbance are combined by twos (`SmallBudgets`). Two
contents suffice for "old" and "new".

Four runs begin in a part of `Init` (`LiveInit`, `MirroredInit` of the MC modules), the rest of
which other steps or a symmetry reach. `mirror` starts with the originals absent
or with content `p1` (renaming contents is a symmetry), and service mirrors in
line with them: changes and the restart set them apart. `mirror_endpoints_lost`
starts where the finding does, with everything mirrored. `global_service` starts
with the service in cluster `a`, with `p1`, and in `b` the same or absent. `slices`
starts without mirrors, which the restart makes up for, and `startup` with every
cluster answering, one service in the first remote, and a mirror of the second
remote whose original is gone. `Init`
itself is what the theorems speak about. Two
clusters make every race of `GlobalServices`: runners meet in the store and in
the local service, always pairwise. In `slices` the three slices are one that is
alone in its cluster's mirrors and two that meet in one; in `startup` the configs
are a good one, one whose second remote has no client, so that the process dies
after it has started the runners of the first, and one that `parseConfig` refuses;
the two services, `c` in namespace `a-b` and `b-c` in `a`, differ by the separator
only. `CHECK_DEADLOCK` is off where the system may
come to rest: everything is settled and the budget is spent, or the worker has
returned after Stop. `store` runs with it on, as calls may always come. Its
`CONSTRAINT Unraced` cuts off the states after the first hit: `raced` is never
reset, and all three properties have `~raced` as a premise, so they hold there as
they are written. Four addresses are one more than the callers can hold at a time.

### Fairness

* *Workers and informers* are goroutines that are always scheduled, and API calls
  are assumed to end, so steps of a reconcile, handlers and first lists are weakly
  fair. The code does nothing for that: `kube/client.go` sets no timeout and the
  calls use a background context, so it rests on the API server, which ends slow
  requests, and on the connection. What happens when a cluster never answers is
  the subject of `Startup`, where nothing makes a cluster answer: `Answer` is not
  fair, and only the properties' premises speak of clusters that do.
* *Begin* is strongly fair per name: that is `LevelQueue`'s fairness, and run
  `queue` checks that `WorkQueue` implements it from the weak fairness of its one
  worker and of its timers, thanks to the FIFO.
* *Informers* (`Watch` in `MirrorRunner`, `Informer` elsewhere: first list, store
  update, handler) are weakly fair as a whole: a watch delivers what has changed,
  and changes are finite.
* *Resync* is weakly fair if `resyncPeriod` is set; the endpoints controller's
  `CollectEndpoints` too.
* In `GlobalServices` one `Begin` per cluster is strongly fair, as its queue also
  holds other names. A runner's queues start after its endpointslice watchers have
  synced, which the same fairness assumes.
* *main* is weakly fair in `Startup`, and so is its restart by the kubelet.
* Changes, faults, crashes, outages and foreign writes are never forced, and the budget
  makes them end: a system that is disturbed for ever need not catch up.

## 4. Where the code and its documentation differ

1. **Recreating a service loses its mirrored endpoints**
   (`mirror_endpoints_lost`). When the service is deleted `reconcileService` deletes
   its mirror (`mirror_runner.go:175`), and the local cluster clears the endpoints of
   a service that is gone. When the service is recreated so is its mirror, but the
   original endpoints did not change, so nothing is queued for them. Only a resync
   repairs it, and `resyncPeriod` defaults to 0. If the mirror is back before the
   cluster has cleared the endpoints, they stay: `CollectEndpoints` acts only while
   there is no service.
2. **A nil dereference** (`global_panic`). If one cluster leaves a global service,
   another stays, and the local service is missing at that moment, the create
   reads `remoteSvc.Spec.Ports` of a nil service (`global_runner.go:195`).
3. **The last leaver deletes a service that has been joined again**
   (`global_deleted`). Between the store's answer "nil" and the delete
   (`global_runner.go:168`) another cluster's runner may join and bring the local
   service up to date. The delete then removes it and nothing is queued.
4. **The store is not safe for concurrent callers** (`store_racing`). Two runners
   that add the same new name both find no entry; one cluster is lost.
5. **The startup sync of endpointslices lists the wrong cluster** (`slices_sync`).
   The watcher of mirrors gets the client of the watched cluster
   (`global_runner.go:90`), so a remote runner never finds a stale mirror in the
   local namespace. `EndpointSliceSync` "checks for stale mirrors (endpointslices)
   under the local namespace and deletes them" (`global_runner.go:240`). What it
   finds in the remote cluster it would delete in the local one; `LiveMirrorIsKept`
   shows that this harms no live slice.

Modelled but without a run of their own, as the code or its comments promise
nothing else:

* `ServiceSync` ends at the first delete that fails, NotFound included
  (`mirror_runner.go:237`), and is never tried again: the other stale mirrors stay
  (`SyncAbort`). The code says so itself: "Error syncing services, skipping..".
* A mirror keeps its headless setting when a delete and recreate of the original is
  coalesced into one update (`kube/common.go:47`; the comment at `:44` expects that
  update to fail).
* A cluster whose service is recreated with the other headless setting is refused
  by its own old entry on every retry (`globalservice.go:69`), until a restart.
* A global service whose last cluster leaves while the operator is down stays for
  ever, since the service half of a `GlobalRunner` has no startup sync
  (`global_runner.go:125`). That is why `LocalGoesWithStore` speaks of a process that
  was not restarted, and `GlobalServiceCatchesUp` of names that some cluster has.
* Slices of two clusters or namespaces with one name overwrite and delete each
  other's mirror (`utils.go:39` "relies on kubernetes suffixes for endpointslices
  to not collide"). The properties ask for `Alone` or for the last writer.
* `parseConfig` does not look whether prefixes are apart (`config.go:129`). With
  prefixes `cluster` and `cluster-a`, namespaces `a-x` and `x`, or with one prefix
  for two remotes, runners take each other's mirrors: `NoMirrorIsTaken`,
  `DoneIsMirrored` and `AnsweringIsMirrored` have `OwnersApart` as a premise. A
  prefix `gl`, likewise, lets a mirror have the name of a global service.
* A remote whose client cannot be made ends the whole process (`main.go:98`), the
  runners that were started before it included, on every restart:
  `AnsweringIsMirrored` has `Usable` as a premise.

## 5. Proofs

Checked by TLAPS, for every value of the constants that satisfies the named
`ASSUME`s. These ask only that the "no object" values are not objects, and that
flags and budgets have their types.

* **`WorkQueueProofs`**: `TypeCorrect`, `FifoHoldsDirtyKeys` (the FIFO is the dirty
  keys without the one in progress, each once), `RequeuedKeysFailed` (`requeued` is
  the failed keys, each once), `CountedKeysAreScheduled`, all from one
  `QueueInvariant`; `GaugeIsRight`, and `RefinesLevelQueue` (safety of the
  refinement). Lemmas on sequences without duplicates: appending a new element,
  dropping the head, removing the first occurrence. The invariants need each
  other: that an appended key is new to the FIFO follows from FIFO = dirty keys.
* **`MirrorRunnerProofs`**: `TypeCorrect`, `ReconcilesSeeTheStore`
  (`SeenIsCurrent`), `SettledMirrors` (`SettledIsMirrored`) and
  `SyncFindsStaleMirrors` (`NoStaleMirror`), from one inductive invariant. None of
  the properties is inductive alone. `SettledIsMirrored` says what holds when
  nothing is due; that a *successful* last write makes it hold needs
  `SeenIsCurrent` (the worker writes what the store holds, or the key is due). A
  mirror not being stale needs that no worker creates one for a name the store
  never held (`KnownIsPending`, `OnlyKnown`), and that workers do nothing before
  the sync is over (`WorkersWait`). That the sync leaves none needs that its list
  of deletes contained every stale mirror (`StaleIsFound`). `LiveMirrorsAreKept` is
  an action property, from the same invariant and `SyncWaits`: a worker removes only
  the mirror of a key whose object its store does not hold, or which is due again;
  the sync runs only once the services are listed, and then every key of the store
  is still due (`KnownIsPending`), so even a delete decided on an older list is
  followed by another look. `QueuesAreUsed` is the refinement of `LevelQueue`, queue
  by queue; here, and in the next two modules, it needs type correctness only, since
  a worker holds a key exactly while it is not idle.
* **`GlobalServicesProofs`**: `TypeCorrect` and `StoreIsRight`
  (`StoreFollowsClusters`). The invariant follows the cluster through a
  reconcile: before its worker reaches the store it holds what the informer has
  (`SeenIsCached`), after that the store agrees with the informer
  (`StoreAgrees`), unless the name is due again; a runner that has not listed yet
  is not in the store (`UnsyncedIsAbsent`). Other runners never disturb this: an
  addition keeps the membership of others and the headless setting, and an entry
  is deleted only when no other cluster is in it. `LocalGoes` (`LocalGoesWithStore`),
  for every interleaving: only a runner that adds creates the local service, and it is
  in the store from its addition to its request (`AdderIsIn`), so once the entry is
  gone nobody creates it, and an update of a service that is gone fails; and as long
  as the local service stands without an entry, some runner has the name due, or is
  about to delete (`StaleWillGo`). `QueuesAreUsed`, as above.
* **`GlobalServicesCalmProofs`**: under `Calm`, `LocalIsRight` (`LocalFollowsStore`),
  `NilIsNotRead` (`NoPanic`) and
  `OnlyTheLastDeletes` (the action property `ServiceIsKept`), from the invariant
  `CalmInv` on top of the one above. Its core says what `Calm` comes to: while a
  runner has a removal to deal with, all others are settled (`LeavesAlone`), and what
  a busy runner holds agrees with its cluster on whether there is a service
  (`NamesAreCurrent`). So nobody deletes the entry under a worker that holds it, and
  who goes on to delete the local service was the last (`EntryStays`); a cluster that
  leaves others behind finds the local service there, so it never gets to the create
  with its nil service (`LeaverFindsLocal`). The properties speak of quiet states
  only; their inductive form says who still has to act. `LocalWillAgree`: the local
  service agrees with the store and no update that the API server would still accept
  says otherwise, or some runner is on its way to a write that agrees (`WillWrite`),
  step by step of its reconcile; a create counts only if its own ports are the
  store's. TLC checked `CalmInv` on instances of two and three clusters before the
  proof. `Calm` is a condition on the clusters and not on the operator: without it
  the runs `global_deleted` and `global_panic` break the properties.
* **`GlobalServiceStoreProofs`**: `CallsAreKept` (`UnracedCallsTakeEffect`),
  `EmptyEntriesGo` (`NoEmptyEntry`) and `StoreImplementsMembers`
  (`ImplementsMembers`), for callers that overlap in any way. The invariant is about
  the time before the first hit: what a caller has looked up and read is still so
  (`CallerIsCurrent`), and an entry with an empty list has a caller that is about to
  delete it (`EmptyIsDying`).
* **`EndpointSlicesProofs`**: `TypeCorrect`, `SettledSlices`
  (`SettledSliceIsMirrored`), `SyncFindsStaleSlices` (`NoStaleLocalSlice`) and
  `LiveMirrorsAreKept` (the action property `LiveMirrorIsKept`). The argument is
  that of `MirrorRunner` with one part more: several runners delete in one
  namespace. `OwnNames` says that a runner, the remote ones with their wrong
  listing included, deletes only names that slices of its own cluster have; so a
  slice that is alone with its name has only its own runner to fear, and that one
  syncs only while all it knows is still due (`KnownIsPending`).
* **`StartupProofs`**: about names, for sequences of parts of any length:
  `ApartNamesDiffer`, `SeparatorTellsNames` (under one prefix the separator tells
  namespace and name apart, if the namespace does not contain it) and
  `GlobalNamesDiffer`. About the process: `TypeCorrect`, `HealthIsHonest`
  (`HealthyMeansStarted`), `MirrorsAreNotTaken` (`NoMirrorIsTaken`) and
  `DoneServicesAreMirrored` (`DoneIsMirrored`). The invariant says that the list of
  runners is what `main` has launched by the time it is where it is
  (`RunnersLaunched`), that workers and syncs are at it only in their stage
  (`RunnersWork`), and, in `TypeOK`, that every mirror is one that a configured
  remote makes. Then the two theorems on names give each mirror one owner
  (`OneOwner`): a reconcile reaches the mirror of its own key only, and a startup
  sync only those with its own prefix. What either has decided agrees with the
  informer's copy, or the key is due again (`WorkIsCurrent`): an event changes the
  copy and queues the key in one step. That is `MirrorsAreNotTaken`, and with it
  `SeenIsMirrored` is inductive, before the startup sync too: what an informer has
  told a runner of is due, or being worked on, or has its mirror.

Only model-checked: all liveness properties and the fairness half of the
refinement (temporal reasoning about ENABLED is out of the prover's reach). Every
invariant and every safety action property that a passing run checks is a theorem.

## 6. What is not modelled, and what comes next

Not modelled, and why:

* **`backoff/`**: `Run` returns an error only if a wait ends because its channel was
  closed, and nobody closes it (`mirror_runner.go:122`, `global_runner.go:110`). So
  `RetryWithBackoff` calls `Run` once and `ForAttempt` is never reached.
* **`kube/client.go`**: TLS and tokens. That a client cannot be made is the field
  `client` of a remote in `Startup`. That calls have no timeout is the assumption
  under Fairness.
* **`metrics/`, `log/`, manifests**: registration and wording. The one metric with
  logic is the gauge of `WorkQueue`.
* Parsing and formatting of keys (client-go's own key function makes them), JSON
  and durations of the config, labels and annotations other than the list of
  clusters, the topology hints, the sync labels and the target service.
* The memory model under the store: the annotations map of an entry is changed
  (`globalservice.go:98`) while a request that was given the same map may be
  encoded. `GlobalServiceStore` shows the missing lock on the list of clusters;
  `GlobalServices` fixes a request at one instant.
* Two clusters with one name. `parseConfig` accepts them (`config.go:123`); they
  would be one member of a global service. The modules take names as distinct.
* Endpoints that were deleted while the operator was down: there is no startup sync
  for them (`mirror_runner.go:141`) and nothing is promised.

What is left to do, in order:

1. A runner over `WorkQueue` itself, in place of the sets of `LevelQueue`, that
   implements `MirrorRunner`. `UsesLevelQueue` shows one direction, that the runner
   asks no more of a queue than `LevelQueue` gives.
2. A refinement from `Startup`'s coarse runner to `MirrorRunner`.
3. The store of `GlobalServiceStore` put under the runners of `GlobalServices`,
   where its methods are one step each.
4. The lemmas on `owed`, `Begin` and `Return` that three proofs share, stated once.
