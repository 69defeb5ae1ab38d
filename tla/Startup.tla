------------------------------- MODULE Startup -------------------------------
(***************************************************************************)
(* main.go with config.go: one process starts a MirrorRunner and a         *)
(* GlobalRunner per remote cluster and a GlobalRunner for the local one,   *)
(* serves their health, and lets them work in one local namespace.         *)
(*                                                                         *)
(* This module is about what main and the runners do to each other, so a   *)
(* runner is coarser here: an informer's list, or an event with its        *)
(* handler, is one step, and so are the requests of a reconcile after it   *)
(* has read the informer's copy.  MirrorRunner, GlobalServices and         *)
(* EndpointSlices look inside them.                                        *)
(*                                                                         *)
(* External: clusters, which may not answer; the kubelet, which starts a   *)
(* process that ended again.                                               *)
(***************************************************************************)
EXTENDS Names, FiniteSets

CONSTANTS MaxRemotes,  \* bound on the number of configured remote clusters
          Files,       \* config files
          Settings,    \* the global settings that must be given
          Flags,       \* those that a flag or an environment variable gives
          Originals,   \* services of remote clusters: namespace and name
          None,        \* an empty string
          Budgets      \* bounds on each kind of disturbance

Remotes == 1 .. MaxRemotes
Local == 0
Clusters == Remotes \cup {Local}
Runners == ({"mirror"} \X Remotes) \cup ({"global"} \X Clusters)
Hazards == {"change", "outage", "crash"}

\* A remote's entry.  kubeconfig: a path is given; api: URL, CA and token path
\* are given; client: what these name can be read.
Remote == [name : STRING \cup {None}, prefix : Seq(Part), kubeconfig : BOOLEAN,
           api : BOOLEAN, client : BOOLEAN]

ASSUME ConstantsAssumption ==
    /\ MaxRemotes \in Nat
    /\ Budgets \subseteq [Hazards -> Nat]
    /\ \A f \in Files :
        /\ f.settings \subseteq Settings
        /\ f.remotes \in Seq(Remote) /\ Len(f.remotes) <= MaxRemotes
        /\ {f.labelParses, f.localClient, f.serviceSync} \subseteq BOOLEAN
    /\ Originals \subseteq [namespace : Seq(Part), name : Seq(Part)] /\ None \notin Originals

VARIABLES
    config,       \* the config file of this deployment
    main, next,   \* where main stands, and the remote its loop is at
    runners,      \* the slice that the health handler and Stop go through
    stage,        \* where each runner's Run stands
    initialised,  \* runners whose flag is set
    listed,       \* mirror runners' first lists: "services", "mirrors"
    cache,        \* each serviceWatcher's copy of its cluster's services
    due,          \* work lists of the mirror runners' serviceQueues
    doing, key,   \* what each one's worker is about to do, and for which key
    todo,         \* mirrors that each one's startup sync has yet to delete
    originals,    \* services to mirror in each remote cluster
    mirrors,      \* mirror services in the local namespace: name, prefix label
    answering,    \* clusters whose API answers
    left          \* disturbances left of one of Budgets

syncVars == <<listed, cache, due, doing, key, todo>>
processVars == <<main, next, runners, stage, initialised, syncVars>>
clusterVars == <<config, originals, mirrors, answering>>
vars == <<processVars, clusterVars, left>>

Configured == DOMAIN config.remotes

\* generateMirrorName and the label mirror-svc-prefix-sync.
NameOf(i, o) == MirrorName(config.remotes[i].prefix, o.namespace, o.name)
MirrorOf(i, o) == [name |-> NameOf(i, o), prefix |-> config.remotes[i].prefix]

Each(v) == [i \in Remotes |-> v]

\* Earlier processes may have left mirrors of services that are gone.
Init ==
    /\ config \in Files
    /\ main = "parse" /\ next = 1
    /\ runners = {} /\ stage = [r \in Runners |-> "none"] /\ initialised = {}
    /\ listed = Each({}) /\ cache = Each({}) /\ due = Each({}) /\ todo = Each({})
    /\ doing = Each("idle") /\ key = Each(None)
    /\ originals \in [Remotes -> SUBSET Originals]
    /\ mirrors \in SUBSET {MirrorOf(i, o) : i \in Configured, o \in Originals}
    /\ answering \in SUBSET Clusters
    /\ left \in Budgets

Spend(h) == left[h] > 0 /\ left' = [left EXCEPT ![h] = @ - 1]

-----------------------------------------------------------------------------
(* The clusters. *)

\* A cluster stops to answer, for a while or for ever.
Outage(c) ==
    /\ c \in answering /\ Spend("outage")
    /\ answering' = answering \ {c}
    /\ UNCHANGED <<processVars, config, originals, mirrors>>

Answer(c) ==
    /\ answering' = answering \cup {c}
    /\ UNCHANGED <<processVars, config, originals, mirrors, left>>

Toggle(S, o) == IF o \in S THEN S \ {o} ELSE S \cup {o}

\* A service comes or goes.
Change(i, o) ==
    /\ Spend("change")
    /\ originals' = [originals EXCEPT ![i] = Toggle(@, o)]
    /\ UNCHANGED <<processVars, config, mirrors, answering>>

-----------------------------------------------------------------------------
(* main. *)

\* The process is gone, with all its goroutines.
Exit ==
    /\ main' = "down" /\ next' = 1
    /\ runners' = {} /\ stage' = [r \in Runners |-> "none"] /\ initialised' = {}
    /\ listed' = Each({}) /\ cache' = Each({}) /\ due' = Each({}) /\ todo' = Each({})
    /\ doing' = Each("idle") /\ key' = Each(None)
    /\ UNCHANGED clusterVars

\* os.Exit(1)
Fail == Exit /\ UNCHANGED left

Restart ==
    /\ main = "down"
    /\ main' = "parse"
    /\ UNCHANGED <<next, runners, stage, initialised, syncVars, clusterVars, left>>

\* parseConfig.  That two remotes have one name or prefix is not looked at.
Accepted(f) ==
    /\ Settings \subseteq Flags \cup f.settings
    /\ f.local # None
    /\ f.remotes # <<>>
    /\ \A i \in DOMAIN f.remotes :
        LET r == f.remotes[i]
        IN r.name # None /\ (r.api \/ r.kubeconfig) /\ r.prefix # <<>>

\* Mutant of ParseConfig: the error of parseConfig is not looked at.
ParseUnchecked ==
    /\ main = "parse"
    /\ IF config.labelParses
         THEN /\ main' = "client"
              /\ UNCHANGED <<next, runners, stage, initialised, syncVars, clusterVars, left>>
         ELSE Fail

\* Go on only with a config that is complete, and whose label can be parsed.
ParseConfig ==
    /\ main = "parse"
    /\ IF Accepted(config) /\ config.labelParses
         THEN /\ main' = "client"
              /\ UNCHANGED <<next, runners, stage, initialised, syncVars, clusterVars, left>>
         ELSE Fail

\* Append runners to the slice and start their goroutines.
Launch(new) ==
    /\ runners' = runners \cup new
    /\ stage' = [r \in Runners |-> IF r \in new THEN "spawned" ELSE stage[r]]

\* The local cluster's client and GlobalRunner.
StartLocal ==
    /\ main = "client"
    /\ IF config.localClient
         THEN /\ Launch({<<"global", Local>>})
              /\ main' = "remotes"
              /\ UNCHANGED <<next, initialised, syncVars, clusterVars, left>>
         ELSE Fail

\* Mutant of StartRemote: `go' is missing, so Retry returns only with Run.
StartRemoteAndWait ==
    /\ main = "remotes" /\ next \in Configured
    /\ \A r \in runners : stage[r] = "running"
    /\ IF config.remotes[next].client
         THEN /\ Launch({<<"mirror", next>>, <<"global", next>>})
              /\ next' = next + 1
              /\ UNCHANGED <<main, initialised, syncVars, clusterVars, left>>
         ELSE Fail

\* Mutant of StartRemote: a remote without a client is left out.
StartRemoteOrSkip ==
    /\ main = "remotes" /\ next \in Configured
    /\ IF config.remotes[next].client
         THEN Launch({<<"mirror", next>>, <<"global", next>>})
         ELSE UNCHANGED <<runners, stage>>
    /\ next' = next + 1
    /\ UNCHANGED <<main, initialised, syncVars, clusterVars, left>>

\* One round of main's loop.  A remote without a client ends the process, after
\* earlier rounds have started their runners.
StartRemote ==
    /\ main = "remotes" /\ next \in Configured
    /\ IF config.remotes[next].client
         THEN /\ Launch({<<"mirror", next>>, <<"global", next>>})
              /\ next' = next + 1
              /\ UNCHANGED <<main, initialised, syncVars, clusterVars, left>>
         ELSE Fail

ListenAndServe ==
    /\ main = "remotes" /\ next \notin Configured
    /\ main' = "serving"
    /\ UNCHANGED <<next, runners, stage, initialised, syncVars, clusterVars, left>>

\* http.ListenAndServe returns an error: main stops the runners and returns.
ListenFails == main = "serving" /\ Spend("crash") /\ Exit

Crash == main # "down" /\ Spend("crash") /\ Exit

\* Mutant of Healthy: the flag is set at the end of Run and not before the waits.
HealthyOnceSynced == main = "serving" /\ \A r \in runners : stage[r] = "running"

\* /healthz answers 200.
Healthy == main = "serving" /\ runners \subseteq initialised

-----------------------------------------------------------------------------
(* Run of each runner.  Its channel stopCh is never closed, so the waits only *)
(* end well, Run never returns an error and backoff.Retry calls it once.      *)

\* Start the service watchers, set the flag, and wait.
Run(r) ==
    /\ stage[r] = "spawned"
    /\ stage' = [stage EXCEPT ![r] = "waiting"]
    /\ initialised' = initialised \cup {r}
    /\ UNCHANGED <<main, next, runners, syncVars, clusterVars, left>>

\* The two waits of a GlobalRunner, for services and then for endpointslices,
\* end when the cluster has answered; then its queues start.
GlobalSynced(c) ==
    /\ stage[<<"global", c>>] = "waiting"
    /\ c \in answering
    /\ stage' = [stage EXCEPT ![<<"global", c>>] = "running"]
    /\ UNCHANGED <<main, next, runners, initialised, syncVars, clusterVars, left>>

\* serviceWatcher lists the remote cluster and queues what it finds.
ListServices(i) ==
    /\ stage[<<"mirror", i>>] = "waiting" /\ "services" \notin listed[i]
    /\ i \in answering
    /\ listed' = [listed EXCEPT ![i] = @ \cup {"services"}]
    /\ cache' = [cache EXCEPT ![i] = originals[i]]
    /\ due' = [due EXCEPT ![i] = @ \cup originals[i]]
    /\ UNCHANGED <<main, next, runners, stage, initialised, doing, key, todo, clusterVars, left>>

\* Then it follows the cluster, some way behind: an event changes the copy and
\* queues the key.
Deliver(i, o) ==
    /\ "services" \in listed[i]
    /\ i \in answering
    /\ o \in cache[i] <=> o \notin originals[i]
    /\ cache' = [cache EXCEPT ![i] = Toggle(@, o)]
    /\ due' = [due EXCEPT ![i] = @ \cup {o}]
    /\ UNCHANGED <<main, next, runners, stage, initialised, listed, doing, key, todo,
                   clusterVars, left>>

\* mirrorServiceWatcher lists the local namespace.
ListMirrors(i) ==
    /\ stage[<<"mirror", i>>] = "waiting" /\ "mirrors" \notin listed[i]
    /\ Local \in answering
    /\ listed' = [listed EXCEPT ![i] = @ \cup {"mirrors"}]
    /\ UNCHANGED <<main, next, runners, stage, initialised, cache, due, doing, key, todo,
                   clusterVars, left>>

\* Mutant of Stale: mirrorServiceWatcher has no label for the prefix.
StaleAnyPrefix(i) ==
    {m \in mirrors : m.name \notin {NameOf(i, o) : o \in cache[i]}}

\* Mirrors with the runner's label and without an original in its copy.  Nobody
\* else writes these before the sync if the prefixes are apart, so the watcher's
\* list of them is current.
Stale(i) ==
    {m \in mirrors : /\ m.prefix = config.remotes[i].prefix
                     /\ m.name \notin {NameOf(i, o) : o \in cache[i]}}

\* The waits are over: ServiceSync compares, and deletes one by one later.
SyncStart(i) ==
    /\ stage[<<"mirror", i>>] = "waiting" /\ listed[i] = {"services", "mirrors"}
    /\ IF config.serviceSync
         THEN /\ stage' = [stage EXCEPT ![<<"mirror", i>>] = "syncing"]
              /\ todo' = [todo EXCEPT ![i] = Stale(i)]
         ELSE /\ stage' = [stage EXCEPT ![<<"mirror", i>>] = "running"]
              /\ UNCHANGED todo
    /\ UNCHANGED <<main, next, runners, initialised, listed, cache, due, doing, key,
                   clusterVars, left>>

SyncDelete(i, m) ==
    /\ stage[<<"mirror", i>>] = "syncing" /\ m \in todo[i] \cap mirrors
    /\ Local \in answering
    /\ mirrors' = mirrors \ {m}
    /\ todo' = [todo EXCEPT ![i] = @ \ {m}]
    /\ UNCHANGED <<main, next, runners, stage, initialised, listed, cache, due, doing, key,
                   config, originals, answering, left>>

\* An error, NotFound included, ends the sync.  The delete may have been done.
SyncAbort(i) ==
    /\ stage[<<"mirror", i>>] = "syncing"
    /\ \E m \in todo[i] :
        /\ m \in mirrors => Local \notin answering
        /\ mirrors' \in {mirrors, mirrors \ {m}}
    /\ todo' = [todo EXCEPT ![i] = {}]
    /\ stage' = [stage EXCEPT ![<<"mirror", i>>] = "running"]
    /\ UNCHANGED <<main, next, runners, initialised, listed, cache, due, doing, key,
                   config, originals, answering, left>>

\* After the sync the queues start.
SyncDone(i) ==
    /\ stage[<<"mirror", i>>] = "syncing" /\ todo[i] = {}
    /\ stage' = [stage EXCEPT ![<<"mirror", i>>] = "running"]
    /\ UNCHANGED <<main, next, runners, initialised, syncVars, clusterVars, left>>

\* reconcileService takes a key and decides by the informer's copy.
Begin(i, o) ==
    /\ stage[<<"mirror", i>>] = "running" /\ doing[i] = "idle" /\ o \in due[i]
    /\ due' = [due EXCEPT ![i] = @ \ {o}]
    /\ doing' = [doing EXCEPT ![i] = IF o \in cache[i] THEN "write" ELSE "delete"]
    /\ key' = [key EXCEPT ![i] = o]
    /\ UNCHANGED <<main, next, runners, stage, initialised, listed, cache, todo,
                   clusterVars, left>>

\* The mirrors once the decision is carried out.  An update changes neither the
\* name nor the labels of a mirror that is there.
Written(i) ==
    LET there == {m \in mirrors : m.name = NameOf(i, key[i])}
    IN IF doing[i] = "delete" THEN mirrors \ there
       ELSE IF there = {} THEN mirrors \cup {MirrorOf(i, key[i])} ELSE mirrors

Return(i) ==
    /\ doing' = [doing EXCEPT ![i] = "idle"] /\ key' = [key EXCEPT ![i] = None]
    /\ UNCHANGED <<main, next, runners, stage, initialised, listed, cache, todo,
                   config, originals, answering, left>>

\* Its requests to the local cluster, whatever has happened to the copy since.
Reconcile(i) ==
    /\ doing[i] # "idle" /\ Local \in answering
    /\ mirrors' = Written(i)
    /\ Return(i)
    /\ UNCHANGED due

\* Mutant of ReconcileFails: the key is not queued again.
ReconcileGivesUp(i) ==
    /\ doing[i] # "idle" /\ Local \notin answering
    /\ mirrors' \in {mirrors, Written(i)}
    /\ Return(i)
    /\ UNCHANGED due

\* One of them fails, whether it was carried out or not, and the key is requeued.
ReconcileFails(i) ==
    /\ doing[i] # "idle" /\ Local \notin answering
    /\ mirrors' \in {mirrors, Written(i)}
    /\ Return(i)
    /\ due' = [due EXCEPT ![i] = @ \cup {key[i]}]

-----------------------------------------------------------------------------
Main == ParseConfig \/ StartLocal \/ StartRemote \/ ListenAndServe \/ Restart

MirrorRunner(i) ==
    \/ Run(<<"mirror", i>>) \/ ListServices(i) \/ ListMirrors(i)
    \/ SyncStart(i) \/ (\E m \in todo[i] : SyncDelete(i, m)) \/ SyncAbort(i) \/ SyncDone(i)
    \/ Reconcile(i) \/ ReconcileFails(i)
    \/ \E o \in Originals : Deliver(i, o) \/ Begin(i, o)

GlobalRunner(c) == Run(<<"global", c>>) \/ GlobalSynced(c)

Next ==
    \/ Main \/ ListenFails \/ Crash
    \/ \E c \in Clusters : GlobalRunner(c) \/ Outage(c) \/ Answer(c)
    \/ \E i \in Remotes : MirrorRunner(i) \/ \E o \in Originals : Change(i, o)

Spec == Init /\ [][Next]_vars

\* main and the goroutines are scheduled, and the kubelet restarts the process.
\* Nothing makes a cluster answer.
Fairness ==
    /\ WF_vars(Main)
    /\ \A c \in Clusters : WF_vars(GlobalRunner(c))
    /\ \A i \in Remotes : WF_vars(MirrorRunner(i))

FairSpec == Spec /\ Fairness

-----------------------------------------------------------------------------
Stages == {"none", "spawned", "waiting", "syncing", "running"}

\* Every variable stays in its range; past parseConfig the config is complete,
\* and every mirror is one that a configured remote makes.
TypeOK ==
    /\ config \in Files
    /\ main \in {"parse", "client", "remotes", "serving", "down"}
    /\ main \notin {"parse", "down"} => Accepted(config)
    /\ next \in 1 .. Len(config.remotes) + 1
    /\ runners \subseteq Runners /\ initialised \subseteq Runners
    /\ stage \in [Runners -> Stages]
    /\ listed \in [Remotes -> SUBSET {"services", "mirrors"}]
    /\ cache \in [Remotes -> SUBSET Originals]
    /\ due \in [Remotes -> SUBSET Originals]
    /\ doing \in [Remotes -> {"idle", "write", "delete"}]
    /\ key \in [Remotes -> Originals \cup {None}]
    /\ \A i \in Remotes : doing[i] # "idle" => key[i] \in Originals
    /\ todo \in [Remotes -> SUBSET {MirrorOf(i, o) : i \in Configured, o \in Originals}]
    /\ originals \in [Remotes -> SUBSET Originals]
    /\ mirrors \subseteq {MirrorOf(i, o) : i \in Configured, o \in Originals}
    /\ answering \subseteq Clusters
    /\ left \in [Hazards -> Nat]

\* listenAndServe "verify that all runners have started": the process answers
\* that it is healthy only if the watchers of every configured cluster run, so
\* never while some remote has no client.
HealthyMeansStarted ==
    Healthy => \A r \in ({"global"} \X (Configured \cup {Local})) \cup ({"mirror"} \X Configured) :
        stage[r] \notin {"none", "spawned"}

\* The names do not run into each other.
OwnersApart ==
    /\ \A i, j \in Configured :
        i # j => Apart(config.remotes[i].prefix, config.remotes[j].prefix)
    /\ \A o \in Originals : Plain(o.namespace)

HasMirror(i, o) == \E m \in mirrors : m.name = NameOf(i, o)

\* Separator "to prevent clashes", and the label for the prefix: if the prefixes
\* are apart, no runner of another cluster removes the mirror of a service that is
\* there, by a reconcile or by its startup sync.  Its own runner may, if it decided
\* so on an older copy of the cluster, but only if it will look at it again.
NoMirrorIsTaken ==
    [][OwnersApart =>
        \A i \in Configured : \A o \in originals[i] : HasMirror(i, o) =>
            \/ HasMirror(i, o)'
            \/ /\ doing'[i] # doing[i] \/ todo'[i] # todo[i]
               /\ o \in due'[i] \/ ("services" \in listed'[i] /\ o \notin cache'[i])]_vars

\* Several runners over one namespace: a service that a running runner's queue has
\* done with has its mirror, whatever the other runners' startup syncs and workers
\* did, if the prefixes are apart.
DoneIsMirrored ==
    OwnersApart =>
        \A i \in Configured : stage[<<"mirror", i>>] = "running" =>
            \A o \in cache[i] \ (due[i] \cup {key[i]}) : HasMirror(i, o)

Usable ==
    /\ Accepted(config) /\ config.labelParses /\ config.localClient
    /\ \A i \in Configured : config.remotes[i].client

\* main.go "verify that all runners have started or kick the app otherwise via a
\* liveness probe": a cluster that never answers does not make the process
\* unhealthy, which would take the other runners with it.
HealthDoesNotWait == <>[](Usable => Healthy)

\* main's goroutines: a remote cluster that answers is mirrored in the end if the
\* local one answers too, whether the other clusters do or not.
AnsweringIsMirrored ==
    <>[]\A i \in Configured :
        Usable /\ OwnersApart /\ {i, Local} \subseteq answering =>
            \A o \in originals[i] : HasMirror(i, o)
=============================================================================
