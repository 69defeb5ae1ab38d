---------------------- MODULE GlobalServicesCalmProofs ----------------------
(***************************************************************************)
(* Theorems about the local service of GlobalServices, for every set of    *)
(* clusters and services, through faults and restarts.  They hold under    *)
(* Calm: a cluster loses its service only while all runners are settled,   *)
(* and until the removal is through nothing else changes.  Services may    *)
(* come and be modified at any time otherwise.                             *)
(***************************************************************************)
EXTENDS GlobalServicesProofs

\* The runner of c has a removal to deal with.
Leaving(c) == c \in synced /\ remote[c] = None /\ ~Settled(c)

\* What Calm comes to: a removal meets runners that are settled and stay so.
LeavesAlone == \A c, d \in Clusters : Leaving(c) /\ d # c => Settled(d)

\* A runner that is busy knows whether there is a service or not.
NamesAreCurrent == \A c \in Clusters :
    /\ c \in event \cup owed \/ pc[c] # "idle" => (cache[c] = None <=> remote[c] = None)
    /\ pc[c] # "idle" => (remoteSvc[c] = None <=> remote[c] = None)

\* Between the store's Get and the request the entry is not deleted, and a worker
\* that deletes the local service is the last.
Requesting == {"get", "create", "update", "creating", "updating"}
EntryStays == \A c \in Clusters :
    /\ gsvc[c] # None => gsvc[c] = Live /\ pc[c] \in Requesting
    /\ pc[c] \in Requesting \cup {"lookup"} => store # None
    /\ pc[c] = "delete" => store = None /\ remoteSvc[c] = None
    /\ pc[c] = "create" => remoteSvc[c] # None

\* A cluster that leaves others behind leaves the local service to them.
LeaverFindsLocal == \A c \in Clusters : Leaving(c) /\ store # None => local # None

Agrees(e) ==
    e # None /\ e.ports = store.ports /\ e.hints = store.hints /\ e.clusters = store.clusters

\* What the runner of c writes next is what the store says now.  A create sends
\* the runner's own ports.
WillWrite(c) ==
    \/ c \in event \cup owed
    \/ pc[c] \in {"add", "remove", "update"}
    \/ pc[c] \in {"lookup", "get"} /\ (local # None \/ remoteSvc[c].ports = store.ports)
    \/ pc[c] = "create" /\ remoteSvc[c].ports = store.ports
    \/ pc[c] \in {"creating", "updating"} /\ Agrees(call[c])

\* The local service agrees with the store, and no request under way that the
\* API server would accept says otherwise; or somebody is about to make it agree.
LocalWillAgree == store # None =>
    \/ \E c \in Clusters : WillWrite(c)
    \/ /\ Agrees(local)
       /\ \A c \in fresh : pc[c] = "updating" => Agrees(call[c])

CalmInv ==
    /\ LeavesAlone /\ NamesAreCurrent /\ EntryStays /\ LeaverFindsLocal
    /\ LocalWillAgree /\ NoPanic

\* A process that starts finds its workers idle and its store empty.
LEMMA InitCalm == Init => CalmInv
<1> SUFFICES ASSUME Init PROVE CalmInv OBVIOUS
<1>1. LeavesAlone /\ LeaverFindsLocal
  BY DEF Init, LeavesAlone, LeaverFindsLocal, Leaving
<1>2. NamesAreCurrent /\ EntryStays
  BY DEF Init, All, NamesAreCurrent, EntryStays, Requesting
<1>3. LocalWillAgree /\ NoPanic
  BY DEF Init, LocalWillAgree, NoPanic
<1> QED BY <1>1, <1>2, <1>3 DEF CalmInv

-----------------------------------------------------------------------------
\* A settled runner writes nothing.
LEMMA SettledIsSilent ==
    ASSUME NEW c \in Clusters, Settled(c) PROVE ~WillWrite(c) /\ ~Leaving(c)
BY DEF Settled, WillWrite, Leaving

\* So the local service agrees with the store when all are settled.
LEMMA QuietAgrees ==
    ASSUME LocalWillAgree, Quiet, store # None PROVE Agrees(local)
BY SettledIsSilent DEF LocalWillAgree, Quiet

\* The clusters: Calm lets one leave only if all are settled, and lets services
\* come and change only if nobody leaves.
LEMMA ChangeCalm ==
    ASSUME Calm, IInv, CalmInv, NEW c \in Clusters, Change(c)
    PROVE  CalmInv'
<1> USE DEF clusterVars, watchVars, workerVars
<1>1. PICK v \in (Services \cup {None}) \ {remote[c]} :
        /\ Quiet \/ (v # None /\ \A d \in Clusters : remote[d] = None => Settled(d))
        /\ remote' = [remote EXCEPT ![c] = v]
  BY DEF Change
<1>2. /\ UNCHANGED <<local, cache, synced, event, owed, store, pc, remoteSvc, gsvc, call, fresh, panicked>>
      /\ \A d \in Clusters : remote'[d] = IF d = c THEN v ELSE remote[d]
  BY <1>1 DEF Change, IInv, TypeOK
<1>3. \A d \in Clusters : remote[d] = None => Settled(d)
  BY <1>1 DEF Quiet
<1>4. \A d \in Clusters \ {c} : Settled(d)' <=> Settled(d)
  BY <1>2 DEF Settled
<1>5. \A d \in Clusters : Leaving(d)' => d = c /\ v = None /\ Quiet
  BY <1>1, <1>2, <1>3, <1>4 DEF Leaving
<1>6. LeavesAlone'
  BY <1>4, <1>5 DEF LeavesAlone, Quiet
<1>7. NamesAreCurrent'
  <2>1. CASE remote[c] # None /\ v # None
    BY <1>2, <2>1 DEF CalmInv, NamesAreCurrent
  <2>2. CASE Settled(c)
    BY <1>2, <2>2 DEF CalmInv, NamesAreCurrent, Settled
  <2> QED BY <1>1, <1>3, <2>1, <2>2 DEF Quiet
<1>8. EntryStays' /\ LocalWillAgree' /\ NoPanic'
  BY <1>2 DEF CalmInv, EntryStays, LocalWillAgree, WillWrite, Agrees, NoPanic
<1>9. LeaverFindsLocal'
  BY <1>2, <1>5, QuietAgrees DEF CalmInv, LeaverFindsLocal, Agrees
<1> QED BY <1>6, <1>7, <1>8, <1>9 DEF CalmInv

-----------------------------------------------------------------------------
(* A step of the runner of c. *)

\* It leaves the clusters alone, and what is to say about the others.
StepOf(c) ==
    /\ UNCHANGED remote
    /\ \A d \in Clusters \ {c} :
        /\ d \in synced' <=> d \in synced
        /\ d \in event' <=> d \in event
        /\ d \in owed' <=> d \in owed
        /\ cache'[d] = cache[d] /\ pc'[d] = pc[d]
        /\ remoteSvc'[d] = remoteSvc[d] /\ call'[d] = call[d]

\* Nobody else is leaving while a runner is at work.
LEMMA WorksAlone ==
    ASSUME CalmInv, NEW c \in Clusters, ~Settled(c), c \in synced, StepOf(c), c \in synced'
    PROVE  /\ \A d \in Clusters \ {c} : Settled(d)' <=> Settled(d)
           /\ \A d \in Clusters : Leaving(d)' => d = c /\ Leaving(c)
           /\ LeavesAlone'
<1>1. \A d \in Clusters \ {c} : Settled(d)' <=> Settled(d)
  BY DEF StepOf, Settled
<1>2. \A d \in Clusters \ {c} : ~Leaving(d)
  BY DEF CalmInv, LeavesAlone
<1>3. \A d \in Clusters : Leaving(d)' => d = c /\ Leaving(c)
  BY <1>1, <1>2 DEF Leaving, StepOf
<1> QED BY <1>1, <1>3 DEF CalmInv, LeavesAlone

\* What another runner is about to write it still is, as long as the store stays
\* and the local service, if there is one.
LEMMA StillWillWrite ==
    ASSUME NEW c \in Clusters, NEW d \in Clusters \ {c}, StepOf(c), UNCHANGED store,
           UNCHANGED local \/ local' # None, WillWrite(d)
    PROVE  WillWrite(d)'
BY DEF StepOf, WillWrite, Agrees

\* Nothing that an informer does is seen by the store or the local service.
LEMMA InformerCalm ==
    ASSUME IInv, CalmInv, NEW c \in Clusters, Informer(c)
    PROVE  CalmInv'
<1> USE DEF clusterVars, watchVars, workerVars
<1>1. UNCHANGED <<remote, local, store, pc, remoteSvc, gsvc, call, fresh, panicked, left>>
  BY DEF Informer, InitialList, Deliver, EventHandler
<1>2. StepOf(c)
  BY <1>1 DEF Informer, InitialList, Deliver, EventHandler, StepOf, IInv, TypeOK
<1>3. WillWrite(c) => WillWrite(c)'
  BY <1>1 DEF Informer, InitialList, Deliver, EventHandler, WillWrite, Agrees
<1>4. LocalWillAgree'
  BY <1>1, <1>2, <1>3, StillWillWrite DEF CalmInv, LocalWillAgree, Agrees
<1>5. EntryStays' /\ NoPanic'
  BY <1>1 DEF CalmInv, EntryStays, NoPanic
<1>6. NamesAreCurrent'
  <2>1. \A d \in Clusters \ {c} :
          /\ d \in (event \cup owed)' \/ pc'[d] # "idle" => (cache'[d] = None <=> remote'[d] = None)
          /\ pc'[d] # "idle" => (remoteSvc'[d] = None <=> remote'[d] = None)
    BY <1>2 DEF StepOf, CalmInv, NamesAreCurrent
  <2>2. /\ c \in (event \cup owed)' \/ pc'[c] # "idle" => (cache'[c] = None <=> remote'[c] = None)
        /\ pc'[c] # "idle" => (remoteSvc'[c] = None <=> remote'[c] = None)
    BY <1>1 DEF Informer, InitialList, Deliver, EventHandler, CalmInv, NamesAreCurrent, IInv, TypeOK
  <2> QED BY <2>1, <2>2 DEF NamesAreCurrent
<1>7. LeavesAlone' /\ LeaverFindsLocal'
  <2>1. CASE c \in synced
    <3>1. c \in synced' /\ ~Settled(c)
      BY <2>1 DEF Informer, InitialList, Deliver, EventHandler, Settled
    <3> QED BY <1>1, <1>2, <2>1, <3>1, WorksAlone DEF CalmInv, LeaverFindsLocal
  <2>2. CASE c \notin synced
    <3>1. InitialList(c)
      BY <2>2 DEF Informer, Deliver, EventHandler, IInv, UnsyncedIsAbsent
    <3>2. ~Leaving(c)'
      BY <2>2, <3>1 DEF InitialList, Leaving, Settled, IInv, TypeOK, UnsyncedIsAbsent
    <3>3. \A d \in Clusters \ {c} : (Settled(d)' <=> Settled(d)) /\ (Leaving(d)' <=> Leaving(d))
      BY <1>2 DEF StepOf, Settled, Leaving
    <3>4. \A d \in Clusters : ~Leaving(d)'
      BY <2>2, <3>2, <3>3 DEF CalmInv, LeavesAlone, Settled
    <3> QED BY <3>4 DEF LeavesAlone, LeaverFindsLocal
  <2> QED BY <2>1, <2>2
<1> QED BY <1>4, <1>5, <1>6, <1>7 DEF CalmInv

\* A worker takes what its informer has, and knows by that whether it removes.
LEMMA BeginCalm ==
    ASSUME IInv, CalmInv, NEW c \in Clusters, Begin(c)
    PROVE  CalmInv'
<1> USE DEF clusterVars, watchVars, workerVars
<1>1. UNCHANGED <<remote, local, cache, synced, event, store, gsvc, call, fresh, panicked, left>>
  BY DEF Begin
<1>2. /\ StepOf(c) /\ c \in synced /\ ~Settled(c) /\ c \in owed
      /\ remoteSvc'[c] = cache[c]
      /\ pc'[c] = IF cache[c] = None THEN "remove" ELSE "add"
  BY DEF Begin, StepOf, Settled, IInv, TypeOK
<1>3. LeavesAlone' /\ LeaverFindsLocal'
  BY <1>1, <1>2, WorksAlone DEF CalmInv, LeaverFindsLocal
<1>4. NamesAreCurrent'
  <2>1. cache[c] = None <=> remote[c] = None
    BY <1>2 DEF CalmInv, NamesAreCurrent
  <2>2. ASSUME NEW d \in Clusters \ {c}
        PROVE  /\ d \in (event \cup owed)' \/ pc'[d] # "idle" => (cache'[d] = None <=> remote'[d] = None)
               /\ pc'[d] # "idle" => (remoteSvc'[d] = None <=> remote'[d] = None)
    BY <1>2 DEF StepOf, CalmInv, NamesAreCurrent
  <2> QED BY <1>1, <1>2, <2>1, <2>2 DEF NamesAreCurrent
<1>5. EntryStays'
  BY <1>1, <1>2 DEF CalmInv, EntryStays, StepOf, Begin, Requesting
<1>6. LocalWillAgree'
  <2>1. WillWrite(c)'
    BY <1>2 DEF WillWrite
  <2> QED BY <2>1 DEF LocalWillAgree
<1>7. NoPanic'
  BY <1>1 DEF CalmInv, NoPanic
<1> QED BY <1>3, <1>4, <1>5, <1>6, <1>7 DEF CalmInv

\* While a worker is at its reconcile all other removals wait.
LEMMA AtWork ==
    ASSUME IInv, CalmInv, NEW c \in Clusters, pc[c] # "idle", StepOf(c),
           UNCHANGED <<cache, synced, event>>,
           remoteSvc'[c] = remoteSvc[c] \/ pc'[c] = "idle"
    PROVE  /\ \A d \in Clusters : Leaving(d)' => d = c /\ Leaving(c)
           /\ LeavesAlone' /\ NamesAreCurrent'
<1>1. c \in synced /\ ~Settled(c)
  BY DEF IInv, UnsyncedIsAbsent, Settled
<1>2. NamesAreCurrent'
  <2>1. cache[c] = None <=> remote[c] = None
    BY DEF CalmInv, NamesAreCurrent
  <2> QED BY <2>1 DEF CalmInv, NamesAreCurrent, StepOf
<1> QED BY <1>1, <1>2, WorksAlone

\* A cluster at work on a removal is leaving, and finds all others settled.
LEMMA RemoverIsAlone ==
    ASSUME IInv, CalmInv, NEW c \in Clusters, pc[c] # "idle", remoteSvc[c] = None
    PROVE  Leaving(c) /\ remote[c] = None /\ \A d \in Clusters \ {c} : Settled(d)
<1>1. Leaving(c) /\ remote[c] = None
  BY DEF IInv, UnsyncedIsAbsent, CalmInv, NamesAreCurrent, Leaving, Settled
<1> QED BY <1>1 DEF CalmInv, LeavesAlone

\* However a reconcile ends, all is kept that the local service has no part in.
LEMMA ReturnCalm ==
    ASSUME IInv, CalmInv, NEW c \in Clusters, NEW ok \in BOOLEAN, pc[c] # "idle",
           Return(c, ok),
           UNCHANGED local \/ local' # None \/ store = None
    PROVE  /\ LeavesAlone' /\ NamesAreCurrent' /\ EntryStays' /\ LeaverFindsLocal'
           /\ NoPanic' /\ StepOf(c) /\ UNCHANGED <<remote, store, event>>
           /\ c \in owed' <=> c \in owed \/ ~ok
<1> USE DEF watchVars
<1>1. /\ StepOf(c) /\ UNCHANGED <<remote, cache, synced, event, store, panicked>>
      /\ pc'[c] = "idle" /\ gsvc'[c] = None
      /\ \A d \in Clusters \ {c} : gsvc'[d] = gsvc[d]
      /\ c \in owed' <=> c \in owed \/ ~ok
  BY DEF Return, StepOf, IInv, TypeOK
<1>2. LeavesAlone' /\ NamesAreCurrent' /\ \A d \in Clusters : Leaving(d)' => d = c /\ Leaving(c)
  BY <1>1, AtWork
<1>3. EntryStays'
  BY <1>1 DEF CalmInv, EntryStays, StepOf, Requesting
<1>4. LeaverFindsLocal'
  BY <1>1, <1>2 DEF CalmInv, LeaverFindsLocal
<1>5. NoPanic'
  BY <1>1 DEF CalmInv, NoPanic
<1> QED BY <1>1, <1>2, <1>3, <1>4, <1>5

\* A reconcile that failed is tried again.
LEMMA FailedCalm ==
    ASSUME IInv, CalmInv, NEW c \in Clusters, pc[c] # "idle",
           Return(c, FALSE), UNCHANGED local
    PROVE  CalmInv'
<1>1. /\ LeavesAlone' /\ NamesAreCurrent' /\ EntryStays' /\ LeaverFindsLocal'
      /\ NoPanic' /\ StepOf(c) /\ UNCHANGED <<remote, store, event>>
      /\ c \in owed'
  BY ReturnCalm
<1>2. LocalWillAgree'
  BY <1>1 DEF LocalWillAgree, WillWrite
<1> QED BY <1>1, <1>2 DEF CalmInv

\* What a create or an update wrote agrees with the store, or else someone is
\* about to write again.
LEMMA WroteCalm ==
    ASSUME IInv, CalmInv, NEW c \in Clusters, pc[c] \in Requesting,
           NEW v, v # None, Write(c, v),
           Agrees(v) \/ c \in event \cup owed \/ \E d \in Clusters \ {c} : WillWrite(d)
    PROVE  CalmInv'
<1>1. PICK ok \in BOOLEAN : Return(c, ok)
  BY DEF Write
<1>2. local' = v /\ fresh' = {} /\ store # None /\ pc[c] # "idle"
  BY DEF Write, CalmInv, EntryStays, Requesting
<1>3. /\ LeavesAlone' /\ NamesAreCurrent' /\ EntryStays' /\ LeaverFindsLocal'
      /\ NoPanic' /\ StepOf(c) /\ UNCHANGED <<remote, store, event>>
      /\ c \in owed' <=> c \in owed \/ ~ok
  BY <1>1, <1>2, ReturnCalm
<1>4. LocalWillAgree'
  <2>1. CASE Agrees(v)
    BY <1>2, <1>3, <2>1 DEF LocalWillAgree, Agrees
  <2>2. CASE c \in event \cup owed
    BY <1>3, <2>2 DEF LocalWillAgree, WillWrite
  <2>3. CASE \E d \in Clusters \ {c} : WillWrite(d)
    BY <1>2, <1>3, <2>3, StillWillWrite DEF LocalWillAgree
  <2> QED BY <2>1, <2>2, <2>3
<1> QED BY <1>3, <1>4 DEF CalmInv

\* CreateService meets no local service, so the store's last word is still to be
\* written: by this request, or by another runner.
LEMMA CreateCalm ==
    ASSUME IInv, CalmInv, NEW c \in Clusters, CreateService(c)
    PROVE  CalmInv'
<1>1. pc[c] = "creating" /\ pc[c] # "idle" /\ pc[c] \in Requesting /\ call[c] # None /\ store # None
  BY DEF CreateService, Requesting, IInv, WorkersHold, CalmInv, EntryStays
<1>2. CASE Refuse(c)
  BY <1>1, <1>2, FailedCalm DEF Refuse
<1>3. CASE local = None /\ Write(c, call[c])
  <2>1. PICK d \in Clusters : WillWrite(d)
    BY <1>1, <1>3 DEF CalmInv, LocalWillAgree, Agrees
  <2>2. d = c => c \in event \cup owed \/ Agrees(call[c])
    BY <1>1, <2>1 DEF WillWrite
  <2> QED BY <1>1, <1>3, <2>1, <2>2, WroteCalm
<1> QED BY <1>2, <1>3 DEF CreateService

\* UpdateService is refused if somebody wrote since the GET; if not, it writes
\* what the store says, or somebody else is about to.
LEMMA UpdateCalm ==
    ASSUME IInv, CalmInv, NEW c \in Clusters, UpdateService(c)
    PROVE  CalmInv'
<1>1. pc[c] = "updating" /\ pc[c] # "idle" /\ pc[c] \in Requesting /\ call[c] \in Entry /\ store # None
  BY DEF UpdateService, Requesting, IInv, TypeOK, WorkersHold, CalmInv, EntryStays
<1>2. CASE Refuse(c)
  BY <1>1, <1>2, FailedCalm DEF Refuse
<1> DEFINE v == [call[c] EXCEPT !.headless = local.headless]
<1>3. CASE local # None /\ c \in fresh /\ Write(c, v)
  <2>1. /\ local.headless \in BOOLEAN
        /\ v.ports = call[c].ports /\ v.hints = call[c].hints /\ v.clusters = call[c].clusters
        /\ v \in Entry
    BY <1>1, <1>3 DEF Entry, IInv, TypeOK
  <2>2. v # None
    BY <2>1, ConstantsAssumption
  <2>3. Agrees(call[c]) => Agrees(v)
    BY <2>1, <2>2 DEF Agrees
  <2>4. Agrees(call[c]) \/ \E d \in Clusters : WillWrite(d)
    BY <1>1, <1>3 DEF CalmInv, LocalWillAgree
  <2>5. WillWrite(c) => c \in event \cup owed \/ Agrees(call[c])
    BY <1>1 DEF WillWrite
  <2> HIDE DEF v
  <2> QED BY <1>1, <1>3, <2>2, <2>3, <2>4, <2>5, WroteCalm
<1> QED BY <1>2, <1>3 DEF UpdateService

\* DeleteService: the store has been left by all.
LEMMA DeleteCalm ==
    ASSUME IInv, CalmInv, NEW c \in Clusters, DeleteService(c)
    PROVE  CalmInv'
<1>1. pc[c] = "delete" /\ pc[c] # "idle" /\ store = None
  BY DEF DeleteService, CalmInv, EntryStays
<1>2. PICK ok \in BOOLEAN : Return(c, ok)
  BY DEF DeleteService, Write
<1>3. local' = None
  BY DEF DeleteService, Write
<1>4. /\ LeavesAlone' /\ NamesAreCurrent' /\ EntryStays' /\ LeaverFindsLocal'
      /\ NoPanic' /\ UNCHANGED store
  BY <1>1, <1>2, <1>3, ReturnCalm
<1> QED BY <1>1, <1>3, <1>4 DEF CalmInv, LocalWillAgree

\* AddOrUpdateClusterServiceTarget: the caller writes the local service next.
LEMMA AddCalm ==
    ASSUME IInv, CalmInv, NEW c \in Clusters, AddOrUpdateClusterServiceTarget(c)
    PROVE  CalmInv'
<1> USE DEF clusterVars, watchVars, workerVars
<1>1. pc[c] = "add" /\ pc[c] # "idle" /\ remoteSvc[c] # None
  BY DEF AddOrUpdateClusterServiceTarget, IInv, WorkersHold
<1>2. CASE Refuse(c)
  BY <1>1, <1>2, FailedCalm DEF Refuse
<1>3. ASSUME ~Refuse(c) PROVE CalmInv'
  <2>1. /\ store' = [ports |-> remoteSvc[c].ports, hints |-> remoteSvc[c].hints,
                     headless |-> remoteSvc[c].headless, clusters |-> Members(store) \cup {c}]
        /\ pc' = [pc EXCEPT ![c] = "lookup"]
        /\ UNCHANGED <<remote, local, cache, synced, event, owed, remoteSvc, gsvc, call, fresh,
                       panicked, left>>
    BY <1>3 DEF AddOrUpdateClusterServiceTarget
  <2>2. store' # None
    <3>1. Members(store) \subseteq Clusters
      BY DEF IInv, TypeOK, Members, Entry
    <3>2. remoteSvc[c] \in Service
      BY <1>1 DEF IInv, TypeOK
    <3>3. store' \in Entry
      BY <2>1, <3>1, <3>2 DEF Service, Entry
    <3> QED BY <3>3, ConstantsAssumption
  <2>3. StepOf(c) /\ pc'[c] = "lookup"
    BY <2>1 DEF StepOf, IInv, TypeOK
  <2>4. LeavesAlone' /\ NamesAreCurrent' /\ \A d \in Clusters : Leaving(d)' => d = c /\ Leaving(c)
    BY <1>1, <2>1, <2>3, AtWork
  <2>5. ~Leaving(c)
    BY <1>1 DEF CalmInv, NamesAreCurrent, Leaving
  <2>6. EntryStays'
    <3>1. \A d \in Clusters : pc[d] # "delete"
      <4> SUFFICES ASSUME NEW d \in Clusters, pc[d] = "delete" PROVE FALSE
        OBVIOUS
      <4>1. remoteSvc[d] = None /\ pc[d] # "idle" /\ d # c
        BY <1>1 DEF CalmInv, EntryStays
      <4> QED BY <1>1, <4>1, RemoverIsAlone DEF Settled
    <3> QED BY <1>1, <2>1, <2>2, <2>3, <3>1 DEF CalmInv, EntryStays, StepOf, Requesting
  <2>7. LocalWillAgree'
    <3>1. store'.ports = remoteSvc'[c].ports
      BY <2>1
    <3>2. WillWrite(c)'
      BY <2>3, <3>1 DEF WillWrite
    <3> QED BY <3>2 DEF LocalWillAgree
  <2>8. LeaverFindsLocal'
    BY <2>2, <2>4, <2>5 DEF LeaverFindsLocal
  <2>9. NoPanic'
    BY <2>1 DEF CalmInv, NoPanic
  <2> QED BY <2>4, <2>6, <2>7, <2>8, <2>9 DEF CalmInv
<1> QED BY <1>2, <1>3

\* DeleteClusterServiceTarget, with all other runners settled: the last cluster
\* goes on to delete the local service, another one finds it and updates it.
LEMMA RemoveCalm ==
    ASSUME IInv, CalmInv, NEW c \in Clusters, DeleteClusterServiceTarget(c)
    PROVE  CalmInv'
<1> USE DEF clusterVars, watchVars, workerVars
<1>1. pc[c] = "remove" /\ pc[c] # "idle" /\ remoteSvc[c] = None
  BY DEF DeleteClusterServiceTarget, IInv, WorkersHold
<1>2. Leaving(c) /\ remote[c] = None /\ \A d \in Clusters \ {c} : Settled(d)
  BY <1>1, RemoverIsAlone
<1>3. \A d \in Clusters : gsvc[d] = None /\ (d # c => pc[d] = "idle")
  BY <1>1, <1>2 DEF CalmInv, EntryStays, Settled, Requesting
<1>4. UNCHANGED <<remote, local, cache, synced, event, owed, remoteSvc, call, fresh, panicked, left>>
  BY DEF DeleteClusterServiceTarget
<1>5. /\ StepOf(c) /\ \A d \in Clusters : gsvc'[d] = None /\ (d # c => pc'[d] = "idle")
      /\ \/ store' = None /\ pc'[c] = "delete"
         \/ store # None /\ pc'[c] = "lookup"
            /\ store' = [store EXCEPT !.clusters = @ \ {c}]
  BY <1>3, <1>4, ConstantsAssumption DEF DeleteClusterServiceTarget, StepOf, IInv, TypeOK, Members
<1>6. LeavesAlone' /\ NamesAreCurrent' /\ \A d \in Clusters : Leaving(d)' => d = c /\ Leaving(c)
  BY <1>1, <1>4, <1>5, AtWork
<1>7. store # None => local # None
  BY <1>2 DEF CalmInv, LeaverFindsLocal
<1>8. LeaverFindsLocal' /\ NoPanic'
  BY <1>4, <1>5, <1>7 DEF CalmInv, LeaverFindsLocal, NoPanic
<1>9. CASE store' = None /\ pc'[c] = "delete"
  <2>1. EntryStays'
    BY <1>1, <1>4, <1>5, <1>9 DEF EntryStays, Requesting
  <2>2. LocalWillAgree'
    BY <1>9 DEF LocalWillAgree
  <2> QED BY <1>6, <1>8, <2>1, <2>2 DEF CalmInv
<1>10. CASE store # None /\ pc'[c] = "lookup" /\ store' = [store EXCEPT !.clusters = @ \ {c}]
  <2>1. store' # None
    <3>1. store' \in Entry
      BY <1>10 DEF IInv, TypeOK, Entry
    <3> QED BY <3>1, ConstantsAssumption
  <2>2. EntryStays'
    BY <1>5, <1>10, <2>1 DEF EntryStays, Requesting
  <2>3. WillWrite(c)'
    BY <1>4, <1>7, <1>10 DEF WillWrite
  <2>4. LocalWillAgree'
    BY <2>3 DEF LocalWillAgree
  <2> QED BY <1>6, <1>8, <2>2, <2>4 DEF CalmInv
<1> QED BY <1>5, <1>9, <1>10

\* A step towards the request, of a worker with an entry: whoever was to write
\* still is.
LEMMA AdvanceCalm ==
    ASSUME IInv, CalmInv, NEW c \in Clusters, pc[c] \in Requesting \cup {"lookup"},
           StepOf(c), pc'[c] \in Requesting,
           UNCHANGED <<remote, local, cache, synced, event, owed, store, remoteSvc, panicked, left>>,
           \A d \in Clusters \ {c} : gsvc'[d] = gsvc[d],
           fresh' \subseteq fresh \cup {c},
           gsvc'[c] = Live,
           pc'[c] = "create" => remoteSvc[c] # None,
           WillWrite(c) => WillWrite(c)',
           pc'[c] = "updating" => WillWrite(c)'
    PROVE  CalmInv'
<1>1. pc[c] # "idle" /\ store # None
  BY DEF Requesting, CalmInv, EntryStays
<1>2. LeavesAlone' /\ NamesAreCurrent' /\ \A d \in Clusters : Leaving(d)' => d = c /\ Leaving(c)
  BY <1>1, AtWork
<1>3. EntryStays'
  BY <1>1, ConstantsAssumption DEF CalmInv, EntryStays, StepOf, Requesting
<1>4. LeaverFindsLocal' /\ NoPanic'
  BY <1>1, <1>2 DEF CalmInv, LeaverFindsLocal, NoPanic
<1>5. LocalWillAgree'
  <2>1. CASE \E d \in Clusters : WillWrite(d)
    BY <2>1, StillWillWrite DEF LocalWillAgree
  <2>2. CASE /\ Agrees(local)
             /\ \A d \in fresh : pc[d] = "updating" => Agrees(call[d])
    <3>1. Agrees(local)'
      BY <2>2 DEF Agrees
    <3>2. ASSUME NEW d \in fresh', pc'[d] = "updating", d # c
          PROVE  Agrees(call[d])'
      <4>1. d \in Clusters
        BY <3>2 DEF IInv, TypeOK
      <4> QED BY <2>2, <3>2, <4>1 DEF StepOf, Agrees
    <3> QED BY <3>1, <3>2 DEF LocalWillAgree
  <2> QED BY <1>1, <2>1, <2>2 DEF CalmInv, LocalWillAgree
<1> QED BY <1>2, <1>3, <1>4, <1>5 DEF CalmInv

\* The store's Get always finds the entry.
LEMMA LookupCalm ==
    ASSUME IInv, CalmInv, NEW c \in Clusters, Lookup(c)
    PROVE  CalmInv'
<1> USE DEF clusterVars, watchVars, workerVars
<1>1. pc[c] = "lookup" /\ store # None
  BY DEF Lookup, CalmInv, EntryStays, Requesting
<1>2. /\ gsvc' = [gsvc EXCEPT ![c] = Live] /\ pc' = [pc EXCEPT ![c] = "get"]
      /\ UNCHANGED <<remote, local, cache, synced, event, owed, store, remoteSvc, call, fresh,
                     panicked, left>>
  BY <1>1 DEF Lookup
<1>3. /\ pc'[c] = "get" /\ StepOf(c) /\ gsvc'[c] = Live
      /\ \A d \in Clusters \ {c} : gsvc'[d] = gsvc[d]
  BY <1>2 DEF StepOf, IInv, TypeOK
<1>4. WillWrite(c) => WillWrite(c)'
  BY <1>1, <1>2, <1>3 DEF WillWrite
<1> QED BY <1>1, <1>2, <1>3, <1>4, AdvanceCalm DEF Requesting

\* A runner without a service of its own finds the local service there.
LEMMA GetCalm ==
    ASSUME IInv, CalmInv, NEW c \in Clusters, GetService(c)
    PROVE  CalmInv'
<1> USE DEF clusterVars, watchVars, workerVars
<1>1. pc[c] = "get" /\ store # None /\ gsvc[c] = Live
  BY DEF GetService, IInv, WorkersHold, CalmInv, EntryStays, Requesting
<1>2. /\ pc' = [pc EXCEPT ![c] = IF local = None THEN "create" ELSE "update"]
      /\ UNCHANGED <<remote, local, cache, synced, event, owed, store, remoteSvc, gsvc, call,
                     panicked, left>>
      /\ fresh' = fresh \cup {c}
  BY DEF GetService
<1>3. StepOf(c) /\ pc'[c] = IF local = None THEN "create" ELSE "update"
  BY <1>2 DEF StepOf, IInv, TypeOK
<1>4. local = None => remoteSvc[c] # None
  BY <1>1, RemoverIsAlone DEF CalmInv, LeaverFindsLocal
<1>5. WillWrite(c) => WillWrite(c)'
  BY <1>1, <1>2, <1>3 DEF WillWrite
<1> QED BY <1>1, <1>2, <1>3, <1>4, <1>5, AdvanceCalm DEF Requesting

\* The request of an update says what the store says.
LEMMA PrepareUpdateCalm ==
    ASSUME IInv, CalmInv, NEW c \in Clusters, PrepareUpdate(c)
    PROVE  CalmInv'
<1> USE DEF clusterVars, watchVars, workerVars
<1>1. pc[c] = "update" /\ store # None /\ gsvc[c] = Live
  BY DEF PrepareUpdate, IInv, WorkersHold, CalmInv, EntryStays, Requesting
<1>2. /\ call' = [call EXCEPT ![c] = store] /\ pc' = [pc EXCEPT ![c] = "updating"]
      /\ UNCHANGED <<remote, local, cache, synced, event, owed, store, remoteSvc, gsvc, fresh,
                     panicked, left>>
  BY <1>1 DEF PrepareUpdate, Deref
<1>3. StepOf(c) /\ pc'[c] = "updating" /\ call'[c] = store
  BY <1>2 DEF StepOf, IInv, TypeOK
<1>4. WillWrite(c)'
  BY <1>1, <1>2, <1>3 DEF WillWrite, Agrees
<1> QED BY <1>1, <1>2, <1>3, <1>4, AdvanceCalm DEF Requesting

\* The request of a create has the runner's own ports; if these are not the
\* store's, another runner has changed them since and writes after.
LEMMA PrepareCreateCalm ==
    ASSUME IInv, CalmInv, NEW c \in Clusters, PrepareCreate(c)
    PROVE  CalmInv'
<1> USE DEF clusterVars, watchVars, workerVars
<1>1. pc[c] = "create" /\ store # None /\ gsvc[c] = Live
  BY DEF PrepareCreate, IInv, WorkersHold, CalmInv, EntryStays, Requesting
<1> DEFINE v == [store EXCEPT !.ports = remoteSvc[c].ports]
<1>2. /\ call' = [call EXCEPT ![c] = v] /\ pc' = [pc EXCEPT ![c] = "creating"]
      /\ UNCHANGED <<remote, local, cache, synced, event, owed, store, remoteSvc, gsvc, fresh,
                     panicked, left>>
  BY <1>1 DEF PrepareCreate, Deref
<1>3. v # None /\ v.ports = remoteSvc[c].ports /\ v.hints = store.hints /\ v.clusters = store.clusters
  <2>1. store \in Entry /\ remoteSvc[c] \in Service
    BY <1>1 DEF IInv, TypeOK, PrepareCreate
  <2>2. v \in Entry
    BY <2>1 DEF Entry, Service
  <2>3. v # None
    BY <2>2, ConstantsAssumption
  <2> QED BY <2>1, <2>3 DEF Entry
<1> HIDE DEF v
<1>4. StepOf(c) /\ pc'[c] = "creating" /\ call'[c] = v
  BY <1>2 DEF StepOf, IInv, TypeOK
<1>5. WillWrite(c) => WillWrite(c)'
  BY <1>1, <1>2, <1>3, <1>4 DEF WillWrite, Agrees
<1> QED BY <1>1, <1>2, <1>4, <1>5, AdvanceCalm DEF Requesting

\* A new process has forgotten the store, and with it that it has to agree.
LEMMA CrashCalm ==
    ASSUME IInv, CalmInv, Crash
    PROVE  CalmInv'
<1>1. synced' = {} /\ event' = {} /\ owed' = {} /\ store' = None /\ UNCHANGED panicked
      /\ \A c \in Clusters : pc'[c] = "idle" /\ gsvc'[c] = None
  BY DEF Crash, Restart, All
<1>2. LeavesAlone' /\ LeaverFindsLocal' /\ NamesAreCurrent' /\ EntryStays'
  BY <1>1, ConstantsAssumption
  DEF LeavesAlone, LeaverFindsLocal, Leaving, NamesAreCurrent, EntryStays, Requesting
<1>3. LocalWillAgree' /\ NoPanic'
  BY <1>1 DEF LocalWillAgree, CalmInv, NoPanic
<1> QED BY <1>2, <1>3 DEF CalmInv

\* The nil dereference is out of reach, and every other step keeps the invariant.
LEMMA StepCalm == ASSUME Calm PROVE IInv /\ CalmInv /\ [Next]_vars => CalmInv'
<1> SUFFICES ASSUME IInv, CalmInv, [Next]_vars PROVE CalmInv'
  OBVIOUS
<1>1. ASSUME NEW c \in Clusters, Reconcile(c)
      PROVE  CalmInv'
  <2>1. CASE Fault(c)
    BY <2>1, FailedCalm DEF Fault
  <2>2. ~Panic(c)
    BY DEF Panic, CalmInv, EntryStays
  <2> QED
    BY <1>1, <2>1, <2>2, AddCalm, RemoveCalm, LookupCalm, GetCalm, PrepareCreateCalm,
       PrepareUpdateCalm, CreateCalm, UpdateCalm, DeleteCalm
    DEF Reconcile
<1>2. CASE UNCHANGED vars
  BY <1>2
  DEF vars, clusterVars, watchVars, workerVars, CalmInv, LeavesAlone, Leaving, Settled,
      NamesAreCurrent, EntryStays, LeaverFindsLocal, LocalWillAgree, WillWrite, Agrees,
      NoPanic
<1> QED BY <1>1, <1>2, ChangeCalm, InformerCalm, BeginCalm, CrashCalm DEF Next

\* So both invariants hold for ever.
LEMMA CalmInvariance == ASSUME Calm PROVE Spec => [](IInv /\ CalmInv)
<1>1. IInv /\ CalmInv /\ [Next]_vars => (IInv /\ CalmInv)'
  BY StepIInv, StepCalm
<1>2. Init => IInv /\ CalmInv
  BY InitIInv, InitCalm
<1> QED BY <1>1, <1>2, PTL DEF Spec

-----------------------------------------------------------------------------
\* reconcileGlobalService: under Calm, whatever services come and change and
\* whoever writes in between, the local service of settled runners is the store's
\* entry: no runner's older view overwrites a newer one.
THEOREM LocalIsRight == ASSUME Calm PROVE Spec => []LocalFollowsStore
<1>1. CalmInv => LocalFollowsStore
  BY QuietAgrees DEF CalmInv, LocalFollowsStore, Agrees
<1> QED BY <1>1, CalmInvariance, PTL

\* Under Calm, no runner creates the local service from a service it does not
\* have.
THEOREM NilIsNotRead == ASSUME Calm PROVE Spec => []NoPanic
<1>1. CalmInv => NoPanic
  BY DEF CalmInv
<1> QED BY <1>1, CalmInvariance, PTL

\* Under Calm, only the last cluster's runner deletes the local service.
THEOREM OnlyTheLastDeletes == ASSUME Calm PROVE Spec => ServiceIsKept
<1>1. ASSUME IInv, CalmInv, [Next]_vars, local # None, local' = None
      PROVE  \A c \in Clusters : remote[c] = None
  <2>1. ASSUME NEW c \in Clusters, NEW v, v # None, Write(c, v)
        PROVE  FALSE
    BY <1>1, <2>1 DEF Write
  <2>2. PICK c \in Clusters : DeleteService(c)
    <3>1. ASSUME NEW c \in Clusters, CreateService(c) PROVE FALSE
      BY <1>1, <2>1, <3>1 DEF CreateService, Refuse, IInv, WorkersHold
    <3>2. ASSUME NEW c \in Clusters, UpdateService(c) PROVE FALSE
      <4>1. call[c] \in Entry
        BY <3>2, <1>1 DEF UpdateService, IInv, TypeOK, WorkersHold
      <4>2. [call[c] EXCEPT !.headless = local.headless] # None
        BY <1>1, <4>1, ConstantsAssumption DEF IInv, TypeOK, Entry
      <4> QED BY <1>1, <2>1, <3>2, <4>2 DEF UpdateService, Refuse
    <3>3. ASSUME NEW c \in Clusters,
                 Change(c) \/ Informer(c) \/ Begin(c) \/ AddOrUpdateClusterServiceTarget(c)
                 \/ DeleteClusterServiceTarget(c) \/ Lookup(c) \/ GetService(c) \/ PrepareCreate(c)
                 \/ PrepareUpdate(c) \/ Panic(c) \/ Fault(c)
          PROVE  UNCHANGED local
      BY <3>3
      DEF Change, Informer, InitialList, Deliver, EventHandler, Begin,
          AddOrUpdateClusterServiceTarget, DeleteClusterServiceTarget, Lookup, GetService,
          PrepareCreate, PrepareUpdate, Panic, Restart, Fault, Refuse, clusterVars
    <3>4. CASE Crash
      BY <1>1, <3>4 DEF Crash, Restart, clusterVars
    <3>5. CASE UNCHANGED vars
      BY <1>1, <3>5 DEF vars, clusterVars
    <3> QED BY <1>1, <3>1, <3>2, <3>3, <3>4, <3>5 DEF Next, Reconcile
  <2>3. pc[c] = "delete" /\ store = None /\ remoteSvc[c] = None
    BY <1>1, <2>2 DEF DeleteService, CalmInv, EntryStays
  <2>4. remote[c] = None /\ \A d \in Clusters \ {c} : Settled(d)
    BY <1>1, <2>3, RemoverIsAlone
  <2>5. ASSUME NEW d \in Clusters \ {c} PROVE remote[d] = None
    BY <1>1, <2>3, <2>4 DEF IInv, StoreAgrees, Settled, Members
  <2> QED BY <2>4, <2>5
<1>2. IInv /\ CalmInv /\ [Next]_vars
        => [local # None /\ local' = None => \A c \in Clusters : remote[c] = None]_vars
  BY <1>1
<1> QED BY <1>2, CalmInvariance, PTL DEF Spec, ServiceIsKept
=============================================================================
