--------------------------- MODULE EndpointSlices ---------------------------
(***************************************************************************)
(* global_runner.go, the endpointslice half: every cluster has a           *)
(* GlobalRunner that copies the cluster's labelled endpointslices into one *)
(* local namespace, where they back the global services.                   *)
(*                                                                         *)
(* A mirror slice is called gl-<name>: neither the cluster nor the         *)
(* namespace of the original is part of it, so slices that share a name    *)
(* share a mirror.  `Alone' tells the others from those.                   *)
(*                                                                         *)
(* The queues are the work lists of LevelQueue.  External: the clusters'   *)
(* objects and the local API server, which accepts an update without a     *)
(* resourceVersion but does not create an object that an update names.     *)
(***************************************************************************)
EXTENDS Naturals, FiniteSets

CONSTANTS Clusters, Local,  \* all clusters, and the one the operator runs in
          Sources,          \* slices: records with cluster, namespace and name
          Contents,         \* addresses and ports of a slice, and its service
          Unlabelled,       \* contents without kubernetes.io/service-name
          NoSource, None,   \* no key, no object
          SyncEnabled,      \* config endpointSliceSync
          Budget            \* bound on each kind of disturbance

Hazards == {"change", "fault", "crash"}
Value == Contents \cup {Unlabelled, None}

\* generateGlobalEndpointSliceName; the prefix `gl-' is the same for all.
MirrorName(s) == s.name
Mirrors == {MirrorName(s) : s \in Sources}
Of(c) == {s \in Sources : s.cluster = c}

\* The slice that the runner of s's cluster writes: its labels name the runner
\* and the global service, of which the namespace is a part; the hints of its
\* endpoints are the local zones or the zone `remote', which is nobody's.
Hints(c) == IF c = Local THEN "local zones" ELSE "remote"
MirrorOf(s, v) == [cluster |-> s.cluster, namespace |-> s.namespace,
                   hints |-> Hints(s.cluster), contents |-> v]
Written(n) == {MirrorOf(s, v) : s \in {t \in Sources : MirrorName(t) = n}, v \in Contents}

ASSUME ConstantsAssumption ==
    /\ Local \in Clusters
    /\ \A s \in Sources : s.cluster \in Clusters
    /\ NoSource \notin Sources
    /\ None \notin Contents \cup {Unlabelled} /\ Unlabelled \notin Contents
    /\ \A n \in Mirrors : None \notin Written(n)
    /\ SyncEnabled \in BOOLEAN
    /\ Budget \in [Hazards -> Nat]

VARIABLES
    remote, local,   \* the originals, and the mirrors in the local namespace
    cache, synced,   \* endpointSliceWatchers' stores, and HasSynced
    event,           \* per cluster: the key on its way to the handler
    owed,            \* keys in the endpointSliceQueues
    pc, key, seen,   \* each worker: step, key, and the cached slice it read
    phase,           \* where each runner's Run stands
    mirrors, listed, \* mirrorEndpointSliceWatchers' stores, and HasSynced
    todo, syncOk,    \* EndpointSliceSync: mirrors to delete; runners that did well
    left,            \* disturbances left of Budget
    known,           \* history: sources cached since the process started
    writer           \* history: the source whose worker wrote the mirror last

clusterVars == <<remote, local, writer>>
watchVars == <<cache, synced, event, known>>
workerVars == <<pc, key, seen>>
startVars == <<phase, mirrors, listed, todo, syncOk>>
vars == <<clusterVars, watchVars, owed, workerVars, startVars, left>>

All(v) == [c \in Clusters |-> v]

Boot ==
    /\ cache = [s \in Sources |-> None] /\ synced = {} /\ event = All(NoSource)
    /\ known = {} /\ owed = {}
    /\ pc = All("idle") /\ key = All(NoSource) /\ seen = All(None)
    /\ phase = All("waiting") /\ mirrors = All({}) /\ listed = {}
    /\ todo = All({}) /\ syncOk = {}

\* Earlier processes may have left mirrors behind.
Init ==
    /\ Boot
    /\ remote \in [Sources -> Value]
    /\ local \in [Mirrors -> {None} \cup UNION {Written(n) : n \in Mirrors}]
    /\ \A n \in Mirrors : local[n] \in Written(n) \cup {None}
    /\ writer = [n \in Mirrors |-> NoSource]
    /\ left = Budget

Spend(h) == left[h] > 0 /\ left' = [left EXCEPT ![h] = @ - 1]

-----------------------------------------------------------------------------
\* A slice is created, modified or deleted in its cluster.
Change(s) ==
    /\ Spend("change")
    /\ \E v \in Value \ {remote[s]} : remote' = [remote EXCEPT ![s] = v]
    /\ UNCHANGED <<local, writer, watchVars, owed, workerVars, startVars>>

(* The informer of c (kube/endpointslice_watcher.go). *)

InitialList(c) ==
    /\ c \notin synced
    /\ synced' = synced \cup {c}
    /\ cache' = [s \in Sources |-> IF s \in Of(c) THEN remote[s] ELSE cache[s]]
    /\ LET found == {s \in Of(c) : remote[s] # None}
       IN known' = known \cup found /\ owed' = owed \cup found
    /\ UNCHANGED <<clusterVars, event, workerVars, startVars, left>>

\* The store is updated first ...
Deliver(c, s) ==
    /\ s \in Of(c)
    /\ c \in synced /\ event[c] = NoSource
    /\ cache[s] # remote[s]
    /\ cache' = [cache EXCEPT ![s] = remote[s]]
    /\ known' = known \cup {s}
    /\ event' = [event EXCEPT ![c] = s]
    /\ UNCHANGED <<clusterVars, synced, owed, workerVars, startVars, left>>

\* Mutant of EndpointSliceEventHandler: events for the slice in progress are lost.
DropDuringReconcile(c) ==
    /\ event[c] # NoSource
    /\ owed' = IF key[c] = event[c] THEN owed ELSE owed \cup {event[c]}
    /\ event' = [event EXCEPT ![c] = NoSource]
    /\ UNCHANGED <<clusterVars, cache, synced, known, workerVars, startVars, left>>

\* ... and then the handler queues the key, whatever the kind of event.
EndpointSliceEventHandler(c) ==
    /\ event[c] # NoSource
    /\ owed' = owed \cup {event[c]}
    /\ event' = [event EXCEPT ![c] = NoSource]
    /\ UNCHANGED <<clusterVars, cache, synced, known, workerVars, startVars, left>>

-----------------------------------------------------------------------------
(* Run and EndpointSliceSync, in the runner of c. *)

\* What a watcher of slices labelled with c finds.  The watcher has the client
\* of the watched cluster and not of the local one.  In a remote cluster the
\* mirrors labelled c, if any, are those that an operator there makes of c's
\* own slices, now or in the past.
Labelled(c) ==
    IF c = Local
      THEN {{n \in Mirrors : local[n] # None /\ local[n].cluster = c}}
      ELSE SUBSET {MirrorName(s) : s \in Of(c)}

\* One list at any time before the sync stands for all that the store may hold
\* by then: before the sync no one but the runner of c labels a mirror with c.
ListMirrors(c) ==
    /\ phase[c] = "waiting" /\ c \notin listed
    /\ \E found \in Labelled(c) : mirrors' = [mirrors EXCEPT ![c] = found]
    /\ listed' = listed \cup {c}
    /\ UNCHANGED <<clusterVars, watchVars, owed, workerVars, phase, todo, syncOk, left>>

\* The mirrors that c's cached slices have or will have.
Originals(c) == {MirrorName(s) : s \in {t \in Of(c) : cache[t] # None}}

\* Mutant of SyncStart: Run does not wait for the cache of the originals.
SyncStartEarly(c) ==
    /\ phase[c] = "waiting" /\ c \in listed
    /\ phase' = [phase EXCEPT ![c] = IF SyncEnabled THEN "syncing" ELSE "running"]
    /\ todo' = [todo EXCEPT ![c] = IF SyncEnabled THEN mirrors[c] \ Originals(c) ELSE {}]
    /\ mirrors' = [mirrors EXCEPT ![c] = {}]
    /\ UNCHANGED <<clusterVars, watchVars, owed, workerVars, listed, syncOk, left>>

\* Both watchers have synced: EndpointSliceSync reads their stores.
SyncStart(c) ==
    /\ phase[c] = "waiting" /\ c \in synced /\ c \in listed
    /\ phase' = [phase EXCEPT ![c] = IF SyncEnabled THEN "syncing" ELSE "running"]
    /\ todo' = [todo EXCEPT ![c] = IF SyncEnabled THEN mirrors[c] \ Originals(c) ELSE {}]
    /\ mirrors' = [mirrors EXCEPT ![c] = {}]
    /\ UNCHANGED <<clusterVars, watchVars, owed, workerVars, listed, syncOk, left>>

\* The delete goes to the local namespace, whatever cluster was listed.
SyncDelete(c, n) ==
    /\ phase[c] = "syncing" /\ n \in todo[c]
    /\ local[n] # None
    /\ local' = [local EXCEPT ![n] = None]
    /\ writer' = [writer EXCEPT ![n] = NoSource]
    /\ \/ todo' = [todo EXCEPT ![c] = @ \ {n}] /\ UNCHANGED <<phase, left>>
       \/ /\ todo' = [todo EXCEPT ![c] = {}]             \* the reply is lost
          /\ phase' = [phase EXCEPT ![c] = "running"]
          /\ Spend("fault")
    /\ UNCHANGED <<remote, watchVars, owed, workerVars, mirrors, listed, syncOk>>

\* Mutant of SyncAbort: a failed delete is skipped and the sync goes on.
SyncSkip(c, n) ==
    /\ phase[c] = "syncing" /\ n \in todo[c]
    /\ IF local[n] = None THEN UNCHANGED left ELSE Spend("fault")
    /\ todo' = [todo EXCEPT ![c] = @ \ {n}]
    /\ UNCHANGED <<clusterVars, watchVars, owed, workerVars, phase, mirrors, listed, syncOk>>

\* Any error of a delete, NotFound included, ends EndpointSliceSync.
SyncAbort(c, n) ==
    /\ phase[c] = "syncing" /\ n \in todo[c]
    /\ IF local[n] = None THEN UNCHANGED left ELSE Spend("fault")
    /\ todo' = [todo EXCEPT ![c] = {}]
    /\ phase' = [phase EXCEPT ![c] = "running"]
    /\ UNCHANGED <<clusterVars, watchVars, owed, workerVars, mirrors, listed, syncOk>>

SyncDone(c) ==
    /\ phase[c] = "syncing" /\ todo[c] = {}
    /\ phase' = [phase EXCEPT ![c] = "running"]
    /\ syncOk' = syncOk \cup {c}
    /\ UNCHANGED <<clusterVars, watchVars, owed, workerVars, mirrors, listed, todo, left>>

-----------------------------------------------------------------------------
(* reconcileEndpointSlice, in the worker of c. *)

\* Mutant of Begin: the NotFound of the store is not told from a found slice.
BeginIgnoresNotFound(c, s) ==
    /\ s \in Of(c) \cap owed
    /\ phase[c] = "running" /\ pc[c] = "idle"
    /\ cache[s] # Unlabelled
    /\ owed' \in {owed, owed \ {s}}
    /\ key' = [key EXCEPT ![c] = s]
    /\ seen' = [seen EXCEPT ![c] = cache[s]]
    /\ pc' = [pc EXCEPT ![c] = "get"]
    /\ UNCHANGED <<clusterVars, watchVars, startVars, left>>

\* The worker takes a key and reads the slice from its informer.  Without a
\* service name the reconcile fails at once and the key is queued again, which
\* changes nothing here.
Begin(c, s) ==
    /\ s \in Of(c) \cap owed
    /\ phase[c] = "running" /\ pc[c] = "idle"
    /\ cache[s] # Unlabelled
    /\ owed' \in {owed, owed \ {s}}
    /\ key' = [key EXCEPT ![c] = s]
    /\ seen' = [seen EXCEPT ![c] = cache[s]]
    /\ pc' = [pc EXCEPT ![c] = IF cache[s] = None THEN "delete" ELSE "get"]
    /\ UNCHANGED <<clusterVars, watchVars, startVars, left>>

\* Mutant of Return: the error is swallowed.
ReturnNil(c, ok) ==
    /\ pc' = [pc EXCEPT ![c] = "idle"]
    /\ key' = [key EXCEPT ![c] = NoSource]
    /\ seen' = [seen EXCEPT ![c] = None]
    /\ UNCHANGED <<owed, remote, watchVars, startVars>>

\* Mutant of Return: a reconcile that went well takes its key off the work list,
\* and an event that came meanwhile with it.
ReturnClears(c, ok) ==
    /\ pc' = [pc EXCEPT ![c] = "idle"]
    /\ key' = [key EXCEPT ![c] = NoSource]
    /\ seen' = [seen EXCEPT ![c] = None]
    /\ owed' = IF ok THEN owed \ {key[c]} ELSE owed \cup {key[c]}
    /\ UNCHANGED <<remote, watchVars, startVars>>

\* A key whose reconcile failed is queued again.
Return(c, ok) ==
    /\ pc' = [pc EXCEPT ![c] = "idle"]
    /\ key' = [key EXCEPT ![c] = NoSource]
    /\ seen' = [seen EXCEPT ![c] = None]
    /\ owed' = IF ok THEN owed ELSE owed \cup {key[c]}
    /\ UNCHANGED <<remote, watchVars, startVars>>

\* The API server carries out a write; its reply may be lost.
Write(c, v) ==
    /\ local' = [local EXCEPT ![MirrorName(key[c])] = v]
    /\ writer' = [writer EXCEPT ![MirrorName(key[c])] = key[c]]
    /\ \/ Return(c, TRUE) /\ UNCHANGED left
       \/ Return(c, FALSE) /\ Spend("fault")

Refuse(c) == Return(c, FALSE) /\ UNCHANGED <<local, writer, left>>

\* deleteEndpointSlice: NotFound is no error here.  Whose mirror it is, is not
\* looked at.
DeleteEndpointSlice(c) == pc[c] = "delete" /\ Write(c, None)

GetEndpointSlice(c) ==
    /\ pc[c] = "get"
    /\ pc' = [pc EXCEPT ![c] = IF local[MirrorName(key[c])] = None THEN "create" ELSE "update"]
    /\ UNCHANGED <<clusterVars, watchVars, owed, key, seen, startVars, left>>

\* AlreadyExists is an error.
CreateEndpointSlice(c) ==
    /\ pc[c] = "create"
    /\ IF local[MirrorName(key[c])] = None THEN Write(c, MirrorOf(key[c], seen[c])) ELSE Refuse(c)

\* The update is built anew: whatever is there is replaced, labels included.
UpdateEndpointSlice(c) ==
    /\ pc[c] = "update"
    /\ IF local[MirrorName(key[c])] # None THEN Write(c, MirrorOf(key[c], seen[c])) ELSE Refuse(c)

\* An API call fails without effect.
Fault(c) ==
    /\ pc[c] # "idle"
    /\ Return(c, FALSE)
    /\ Spend("fault")
    /\ UNCHANGED <<local, writer>>

\* The process, with all its runners, dies and is started again.
Crash ==
    /\ Spend("crash")
    /\ cache' = [s \in Sources |-> None] /\ synced' = {} /\ event' = All(NoSource)
    /\ known' = {} /\ owed' = {}
    /\ pc' = All("idle") /\ key' = All(NoSource) /\ seen' = All(None)
    /\ phase' = All("waiting") /\ mirrors' = All({}) /\ listed' = {}
    /\ todo' = All({}) /\ syncOk' = {}
    /\ UNCHANGED clusterVars

-----------------------------------------------------------------------------
Informer(c) ==
    \/ InitialList(c) \/ EndpointSliceEventHandler(c)
    \/ \E s \in Sources : Deliver(c, s)

Run(c) ==
    \/ ListMirrors(c) \/ SyncStart(c) \/ SyncDone(c)
    \/ \E n \in Mirrors : SyncDelete(c, n) \/ SyncAbort(c, n)

Reconcile(c) ==
    \/ DeleteEndpointSlice(c) \/ GetEndpointSlice(c)
    \/ CreateEndpointSlice(c) \/ UpdateEndpointSlice(c) \/ Fault(c)

Next ==
    \/ \E s \in Sources : Change(s)
    \/ \E c \in Clusters :
        Informer(c) \/ Run(c) \/ Reconcile(c) \/ \E s \in Sources : Begin(c, s)
    \/ Crash

Spec == Init /\ [][Next]_vars

\* As in MirrorRunner: goroutines are scheduled, watches deliver, API calls end,
\* and Begin has the fairness of LevelQueue.
Fairness ==
    \A c \in Clusters :
        /\ WF_vars(Informer(c)) /\ WF_vars(Run(c)) /\ WF_vars(Reconcile(c))
        /\ \A s \in Of(c) : SF_vars(Begin(c, s))

FairSpec == Spec /\ Fairness

-----------------------------------------------------------------------------
\* Every variable stays in its range; a mirror is always one that some source of
\* its name would have, and a worker only handles slices of its own cluster.
TypeOK ==
    /\ remote \in [Sources -> Value] /\ cache \in [Sources -> Value]
    /\ DOMAIN local = Mirrors /\ \A n \in Mirrors : local[n] \in Written(n) \cup {None}
    /\ writer \in [Mirrors -> Sources \cup {NoSource}]
    /\ {synced, listed, syncOk} \subseteq SUBSET Clusters
    /\ known \subseteq Sources /\ owed \subseteq Sources
    /\ event \in [Clusters -> Sources \cup {NoSource}]
    /\ key \in [Clusters -> Sources \cup {NoSource}]
    /\ seen \in [Clusters -> Contents \cup {None}]
    /\ pc \in [Clusters -> {"idle", "delete", "get", "create", "update"}]
    /\ \A c \in Clusters :
        /\ event[c] \in Of(c) \cup {NoSource} /\ key[c] \in Of(c) \cup {NoSource}
        /\ key[c] = NoSource <=> pc[c] = "idle"
        /\ seen[c] = None <=> pc[c] \in {"idle", "delete"}
    /\ phase \in [Clusters -> {"waiting", "syncing", "running"}]
    /\ mirrors \in [Clusters -> SUBSET Mirrors] /\ todo \in [Clusters -> SUBSET Mirrors]
    /\ left \in [Hazards -> Nat]

Pending(s) == s \in owed \/ event[s.cluster] = s
Settled(s) == phase[s.cluster] = "running" /\ ~Pending(s) /\ key[s.cluster] # s

\* No other slice of any cluster or namespace has the same mirror.
Alone(s) == \A t \in Sources : MirrorName(t) = MirrorName(s) => t = s

Mirrored(s, v) ==
    local[MirrorName(s)] = IF v = None THEN None ELSE MirrorOf(s, v)

\* reconcileEndpointSlice: once a slice that was seen is settled its mirror is
\* right, provided nothing else has the name, or this slice was the last to
\* write: no order of events, errors, lost replies, syncs of the other clusters
\* and restarts leaves an outdated mirror.
SettledSliceIsMirrored ==
    \A s \in known :
        Settled(s) /\ (Alone(s) \/ writer[MirrorName(s)] = s) => Mirrored(s, cache[s])

\* EndpointSliceSync of the local cluster's runner "checks for stale mirrors
\* (endpointslices) under the local namespace and deletes them": if it ends well
\* every mirror labelled with that runner belongs to a slice it has seen.
NoStaleSlice(c) ==
    c \in syncOk => \A n \in Mirrors :
        local[n] # None /\ local[n].cluster = c => \E s \in known \cap Of(c) : MirrorName(s) = n
NoStaleLocalSlice == NoStaleSlice(Local)

\* No step, of a worker or of a startup sync of whatever runner, removes the
\* mirror of a slice that is in its cluster, unless the runner has listed the
\* cluster and has not seen the slice yet, or is about to look at it again.
LiveMirrorIsKept ==
    [][\A s \in Sources :
        Alone(s) /\ local[MirrorName(s)] # None /\ local'[MirrorName(s)] = None =>
            s.cluster \in synced /\ (cache[s] = None \/ Pending(s))]_vars

\* The endpointSliceQueues are used as queue.go allows, see MirrorRunner: a key
\* enters the queue of its own cluster only, and only a reconcile takes it out.
Queue(c) == INSTANCE LevelQueue WITH
    Keys <- Of(c), NoKey <- NoSource, owed <- owed \cap Of(c), current <- key[c], open <- TRUE
UsesLevelQueue ==
    /\ \A c \in Clusters : Queue(c)!Init
    /\ [][\A c \in Clusters :
            UNCHANGED Queue(c)!vars \/ Queue(c)!Next \/ Crash]_vars

\* README "mirror endpointslices from remote clusters to target the new global
\* service": in the end every slice has its mirror, and one that is deleted after
\* its runner has seen it loses it, if nothing shares its name.
SlicesCatchUp ==
    <>[]\A s \in Sources :
        /\ Alone(s)
        /\ remote[s] \in Contents \/ (remote[s] = None /\ s \in known)
        => Mirrored(s, remote[s])

-----------------------------------------------------------------------------
(* A claim of the code's comments that the code does not keep. *)

\* The same comment, for the runner of a remote cluster.  Its watcher of mirrors
\* lists the remote cluster: stale mirrors of the local namespace stay.
NoStaleRemoteSlice == \A c \in Clusters \ {Local} : NoStaleSlice(c)
=============================================================================
