------------------------ MODULE EndpointSlicesProofs ------------------------
(***************************************************************************)
(* Theorems about EndpointSlices, for all clusters, slices and contents,   *)
(* every bound on the disturbances and both settings of endpointSliceSync. *)
(***************************************************************************)
EXTENDS EndpointSlices, TLAPS

\* Run starts the worker of a runner last, and the sync after the first list.
WorkersWait ==
    \A c \in Clusters :
        /\ phase[c] # "running" => pc[c] = "idle"
        /\ phase[c] # "waiting" => c \in synced

\* A reconcile works on what the store holds, or its key is due again.
SeenIsCurrent ==
    \A c \in Clusters :
        pc[c] # "idle" /\ ~Pending(key[c]) => seen[c] = cache[key[c]]

\* Nothing is announced, queued or reconciled that no store has held.
OnlyKnown ==
    /\ owed \subseteq known
    /\ \A c \in Clusters : event[c] \in known \cup {NoSource} /\ key[c] \in known \cup {NoSource}
    /\ \A s \in Sources : cache[s] # None => s \in known

\* While the worker waits, everything the store held is still to be done.
KnownIsPending == \A s \in known : phase[s.cluster] # "running" => Pending(s)

\* A runner has listed, and will delete, only names its own cluster's slices have.
OwnNames ==
    \A c \in Clusters : \A n \in mirrors[c] \cup todo[c] : \E s \in Of(c) : MirrorName(s) = n

\* Until the local runner's sync ends, every stale mirror labelled with it is
\* among those it will look at.
Kept(n) == \E s \in known \cap Of(Local) : MirrorName(s) = n
StaleIsFound ==
    \A n \in Mirrors :
        local[n] # None /\ local[n].cluster = Local =>
            /\ phase[Local] = "waiting" /\ Local \in listed => n \in mirrors[Local]
            /\ phase[Local] = "syncing" => n \in todo[Local] \/ Kept(n)

\* The inductive invariant.  SettledSliceIsMirrored needs SeenIsCurrent when a
\* worker's write settles its key, KnownIsPending when the workers start, and
\* OwnNames when another runner's sync deletes; NoStaleLocalSlice needs
\* StaleIsFound when the sync ends and OnlyKnown when a worker writes.
IInv ==
    /\ TypeOK /\ SeenIsCurrent /\ SettledSliceIsMirrored /\ NoStaleLocalSlice
    /\ WorkersWait /\ OnlyKnown /\ KnownIsPending /\ OwnNames /\ StaleIsFound

-----------------------------------------------------------------------------
(* Facts about the operators. *)

\* A slice belongs to one cluster and has a mirror name.
LEMMA SourceFacts ==
    /\ \A s \in Sources : s.cluster \in Clusters /\ s \in Of(s.cluster) /\ MirrorName(s) \in Mirrors
    /\ \A c \in Clusters : \A s \in Of(c) : s \in Sources /\ s.cluster = c
    /\ NoSource \notin Sources /\ Local \in Clusters
BY ConstantsAssumption DEF Of, Mirrors

\* What a worker writes has its runner's label and is one of the mirrors of its
\* name; no mirror is None.
LEMMA WrittenFacts ==
    /\ \A s \in Sources, v \in Contents :
        /\ MirrorOf(s, v) \in Written(MirrorName(s)) /\ MirrorOf(s, v) # None
        /\ MirrorOf(s, v).cluster = s.cluster
    /\ \A n \in Mirrors : \A w \in Written(n) :
        w # None /\ \E s \in Of(w.cluster) : MirrorName(s) = n
<1>1. \A s \in Sources, v \in Contents :
        MirrorOf(s, v) \in Written(MirrorName(s)) /\ MirrorOf(s, v).cluster = s.cluster
  BY DEF Written, MirrorOf
<1>2. ASSUME NEW n \in Mirrors, NEW w \in Written(n)
      PROVE  w # None /\ \E s \in Of(w.cluster) : MirrorName(s) = n
  <2>1. PICK s \in Sources, v \in Contents : MirrorName(s) = n /\ w = MirrorOf(s, v)
    BY DEF Written
  <2>2. w.cluster = s.cluster BY <2>1 DEF MirrorOf
  <2> QED BY <2>1, <2>2, SourceFacts, ConstantsAssumption
<1> QED BY <1>1, <1>2, SourceFacts

\* A disturbance is taken off the budget.
LEMMA SpendLeft ==
    ASSUME left \in [Hazards -> Nat], NEW h \in Hazards, Spend(h)
    PROVE  left' \in [Hazards -> Nat]
BY DEF Spend

-----------------------------------------------------------------------------
\* The process that starts.
LEMMA InitIInv == Init => IInv
<1> SUFFICES ASSUME Init PROVE IInv OBVIOUS
<1> USE DEF Init, Boot, All
<1>1. TypeOK BY ConstantsAssumption DEF TypeOK, Value
<1>2. SeenIsCurrent /\ SettledSliceIsMirrored
  BY DEF SeenIsCurrent, SettledSliceIsMirrored
<1>3. NoStaleLocalSlice BY DEF NoStaleLocalSlice, NoStaleSlice
<1>4. WorkersWait /\ OnlyKnown /\ KnownIsPending
  BY DEF WorkersWait, OnlyKnown, KnownIsPending
<1>5. OwnNames /\ StaleIsFound BY SourceFacts DEF OwnNames, StaleIsFound
<1> QED BY <1>1, <1>2, <1>3, <1>4, <1>5 DEF IInv

\* A cluster changes, which no runner knows yet.
LEMMA ChangeIInv ==
    ASSUME IInv, NEW s \in Sources, Change(s) PROVE IInv'
<1> USE DEF Change, IInv, watchVars, workerVars, startVars
<1>1. TypeOK'
  <2>1. left' \in [Hazards -> Nat] BY SpendLeft DEF Hazards, TypeOK
  <2> QED BY <2>1 DEF TypeOK
<1>2. SeenIsCurrent' BY DEF SeenIsCurrent, Pending
<1>3. SettledSliceIsMirrored'
  BY DEF SettledSliceIsMirrored, Settled, Pending, Mirrored
<1>4. NoStaleLocalSlice' BY DEF NoStaleLocalSlice, NoStaleSlice
<1>5. WorkersWait' /\ OnlyKnown' /\ KnownIsPending'
  BY DEF WorkersWait, OnlyKnown, KnownIsPending, Pending
<1>6. OwnNames' /\ StaleIsFound' BY DEF OwnNames, StaleIsFound, Kept
<1> QED BY <1>1, <1>2, <1>3, <1>4, <1>5, <1>6

\* The process starts again.
LEMMA CrashIInv == ASSUME IInv, Crash PROVE IInv'
<1> USE DEF Crash, IInv, clusterVars, All
<1>1. TypeOK'
  <2>1. left' \in [Hazards -> Nat] BY SpendLeft DEF Hazards, TypeOK
  <2> QED BY <2>1 DEF TypeOK, Value
<1>2. SeenIsCurrent' /\ SettledSliceIsMirrored'
  BY DEF SeenIsCurrent, SettledSliceIsMirrored
<1>3. NoStaleLocalSlice' BY DEF NoStaleLocalSlice, NoStaleSlice
<1>4. WorkersWait' /\ OnlyKnown' /\ KnownIsPending'
  BY DEF WorkersWait, OnlyKnown, KnownIsPending
<1>5. OwnNames' /\ StaleIsFound' BY SourceFacts DEF OwnNames, StaleIsFound
<1> QED BY <1>1, <1>2, <1>3, <1>4, <1>5

-----------------------------------------------------------------------------
\* The first list of a cluster: all that it finds is queued.
LEMMA InitialListIInv ==
    ASSUME IInv, NEW c \in Clusters, InitialList(c) PROVE IInv'
<1> USE DEF InitialList, IInv, clusterVars, workerVars, startVars
<1>1. TypeOK' BY SourceFacts DEF TypeOK
<1>2. phase[c] = "waiting" /\ pc[c] = "idle" BY DEF WorkersWait
<1>3. SeenIsCurrent'
  BY <1>2, SourceFacts DEF SeenIsCurrent, Pending, TypeOK
<1>4. SettledSliceIsMirrored'
  BY <1>2, SourceFacts DEF SettledSliceIsMirrored, Settled, Pending, Mirrored, KnownIsPending, TypeOK
<1>5. NoStaleLocalSlice' BY DEF NoStaleLocalSlice, NoStaleSlice
<1>6. WorkersWait' BY DEF WorkersWait
<1>7. OnlyKnown' BY DEF OnlyKnown, TypeOK
<1>8. KnownIsPending' BY DEF KnownIsPending, Pending
<1>9. OwnNames' /\ StaleIsFound' BY DEF OwnNames, StaleIsFound, Kept
<1> QED BY <1>1, <1>3, <1>4, <1>5, <1>6, <1>7, <1>8, <1>9

\* The store is updated and the key is on its way to the handler.
LEMMA DeliverIInv ==
    ASSUME IInv, NEW c \in Clusters, NEW s \in Sources, Deliver(c, s) PROVE IInv'
<1> USE DEF Deliver, IInv, clusterVars, workerVars, startVars
<1>1. s.cluster = c BY SourceFacts
<1>2. TypeOK' BY DEF TypeOK
<1>3. /\ \A t \in Sources : Pending(t) => Pending(t)'
      /\ Pending(s)' /\ \A t \in Sources \ {s} : cache'[t] = cache[t]
  BY <1>1, SourceFacts DEF Pending, TypeOK
<1>4. SeenIsCurrent' BY <1>3, SourceFacts DEF SeenIsCurrent, TypeOK
<1>5. SettledSliceIsMirrored'
  BY <1>3 DEF SettledSliceIsMirrored, Settled, Mirrored, TypeOK
<1>6. NoStaleLocalSlice' BY DEF NoStaleLocalSlice, NoStaleSlice
<1>7. WorkersWait' BY DEF WorkersWait
<1>8. OnlyKnown' BY DEF OnlyKnown, TypeOK
<1>9. KnownIsPending' BY <1>3 DEF KnownIsPending, TypeOK
<1>10. OwnNames' /\ StaleIsFound' BY DEF OwnNames, StaleIsFound, Kept
<1> QED BY <1>2, <1>4, <1>5, <1>6, <1>7, <1>8, <1>9, <1>10

\* The handler queues the key.
LEMMA HandlerIInv ==
    ASSUME IInv, NEW c \in Clusters, EndpointSliceEventHandler(c) PROVE IInv'
<1> USE DEF EndpointSliceEventHandler, IInv, clusterVars, workerVars, startVars
<1>1. TypeOK' BY DEF TypeOK
<1>2. \A t \in Sources : Pending(t) => Pending(t)'
  BY SourceFacts DEF Pending, TypeOK
<1>3. SeenIsCurrent' BY <1>2 DEF SeenIsCurrent, TypeOK
<1>4. SettledSliceIsMirrored'
  BY <1>2 DEF SettledSliceIsMirrored, Settled, Mirrored, TypeOK
<1>5. NoStaleLocalSlice' BY DEF NoStaleLocalSlice, NoStaleSlice
<1>6. WorkersWait' BY DEF WorkersWait
<1>7. OnlyKnown' BY DEF OnlyKnown, TypeOK
<1>8. KnownIsPending' BY <1>2 DEF KnownIsPending, TypeOK
<1>9. OwnNames' /\ StaleIsFound' BY DEF OwnNames, StaleIsFound, Kept
<1> QED BY <1>1, <1>3, <1>4, <1>5, <1>6, <1>7, <1>8, <1>9

-----------------------------------------------------------------------------
\* The mirrors are listed: for the local runner, all that have its label.
LEMMA ListMirrorsIInv ==
    ASSUME IInv, NEW c \in Clusters, ListMirrors(c) PROVE IInv'
<1> USE DEF ListMirrors, IInv, clusterVars, watchVars, workerVars
<1>1. PICK found \in Labelled(c) : mirrors' = [mirrors EXCEPT ![c] = found] OBVIOUS
<1>2. \A n \in found : n \in Mirrors /\ \E s \in Of(c) : MirrorName(s) = n
  <2>1. CASE c = Local
    <3>1. found = {n \in Mirrors : local[n] # None /\ local[n].cluster = c}
      BY <2>1, <1>1 DEF Labelled
    <3> QED BY <3>1, WrittenFacts DEF TypeOK
  <2>2. CASE c # Local BY <2>2, <1>1, SourceFacts DEF Labelled
  <2> QED BY <2>1, <2>2
<1>3. TypeOK' BY <1>1, <1>2 DEF TypeOK
<1>4. SeenIsCurrent' BY DEF SeenIsCurrent, Pending
<1>5. SettledSliceIsMirrored' BY DEF SettledSliceIsMirrored, Settled, Pending, Mirrored
<1>6. NoStaleLocalSlice' BY DEF NoStaleLocalSlice, NoStaleSlice
<1>7. WorkersWait' /\ OnlyKnown' /\ KnownIsPending'
  BY DEF WorkersWait, OnlyKnown, KnownIsPending, Pending
<1>8. OwnNames' BY <1>1, <1>2 DEF OwnNames, TypeOK
<1>9. StaleIsFound' BY <1>1, SourceFacts DEF StaleIsFound, Kept, Labelled, TypeOK
<1> QED BY <1>3, <1>4, <1>5, <1>6, <1>7, <1>8, <1>9

\* A runner that goes on to the sync or to its workers: what it knows is still
\* to be done, so nothing of its cluster becomes settled.
LEMMA PhaseKeepsSettled ==
    ASSUME IInv, NEW c \in Clusters, phase[c] # "running",
           NEW p \in {"syncing", "running"}, phase' = [phase EXCEPT ![c] = p],
           UNCHANGED <<remote, watchVars, owed, workerVars>>
    PROVE  /\ \A s \in known : Settled(s)' => Settled(s) /\ s.cluster # c
           /\ SeenIsCurrent' /\ OnlyKnown' /\ KnownIsPending'
<1> USE DEF IInv, watchVars, workerVars
<1>1. \A s \in known : Settled(s)' => Settled(s) /\ s.cluster # c
  BY SourceFacts DEF Settled, Pending, KnownIsPending, TypeOK
<1>2. SeenIsCurrent' BY DEF SeenIsCurrent, Pending
<1>3. OnlyKnown' BY DEF OnlyKnown
<1>4. KnownIsPending' BY SourceFacts DEF KnownIsPending, Pending, TypeOK
<1> QED BY <1>1, <1>2, <1>3, <1>4

\* The sync compares the two stores.
LEMMA SyncStartIInv ==
    ASSUME IInv, NEW c \in Clusters, SyncStart(c) PROVE IInv'
<1> USE DEF SyncStart, IInv, clusterVars, watchVars, workerVars
<1>1. TypeOK' BY DEF TypeOK
<1>2. /\ \A s \in known : Settled(s)' => Settled(s)
      /\ SeenIsCurrent' /\ OnlyKnown' /\ KnownIsPending'
  BY PhaseKeepsSettled
<1>3. SettledSliceIsMirrored' BY <1>2 DEF SettledSliceIsMirrored, Mirrored
<1>4. NoStaleLocalSlice' BY DEF NoStaleLocalSlice, NoStaleSlice
<1>5. WorkersWait' BY DEF WorkersWait, TypeOK
<1>6. OwnNames' BY DEF OwnNames, TypeOK
<1>7. StaleIsFound'
  <2> SUFFICES ASSUME NEW n \in Mirrors, local[n] # None, local[n].cluster = Local,
                      phase'[Local] # "running"
               PROVE  /\ phase'[Local] = "waiting" /\ Local \in listed' => n \in mirrors'[Local]
                      /\ phase'[Local] = "syncing" => n \in todo'[Local] \/ Kept(n)'
    BY DEF StaleIsFound
  <2>1. CASE c = Local
    <3>1. n \in mirrors[c] BY <2>1 DEF StaleIsFound
    <3>2. n \in Originals(c) => Kept(n)
      BY <2>1, SourceFacts DEF Originals, Kept, OnlyKnown
    <3>3. phase'[c] = "syncing" /\ SyncEnabled BY <2>1 DEF TypeOK
    <3>4. todo'[c] = mirrors[c] \ Originals(c) BY <3>3 DEF TypeOK
    <3> QED BY <2>1, <3>1, <3>2, <3>3, <3>4 DEF Kept
  <2>2. CASE c # Local BY <2>2, SourceFacts DEF StaleIsFound, Kept, TypeOK
  <2> QED BY <2>1, <2>2
<1> QED BY <1>1, <1>2, <1>3, <1>4, <1>5, <1>6, <1>7

\* The sync deletes one mirror that it has listed.
LEMMA SyncDeleteIInv ==
    ASSUME IInv, NEW c \in Clusters, NEW n \in Mirrors, SyncDelete(c, n) PROVE IInv'
<1> USE DEF SyncDelete, IInv, watchVars, workerVars
<1>1. TypeOK'
  <2>1. left' \in [Hazards -> Nat] BY SpendLeft DEF Hazards, TypeOK
  <2> QED BY <2>1 DEF TypeOK
<1>2. /\ phase' = phase \/ phase' = [phase EXCEPT ![c] = "running"]
      /\ \A d \in Clusters : todo'[d] \subseteq todo[d]
      /\ \A d \in Clusters : d # c => todo'[d] = todo[d] /\ phase'[d] = phase[d]
      /\ phase'[c] = "syncing" => todo'[c] = todo[c] \ {n}
  BY DEF TypeOK
<1>3. /\ \A s \in known : Settled(s)' => Settled(s) /\ s.cluster # c
      /\ SeenIsCurrent' /\ OnlyKnown' /\ KnownIsPending'
  <2>1. CASE phase' = phase
    <3>1. \A s \in known : Settled(s)' => Settled(s) /\ s.cluster # c
      BY <2>1 DEF Settled, Pending
    <3> QED BY <2>1, <3>1 DEF SeenIsCurrent, OnlyKnown, KnownIsPending, Pending
  <2>2. CASE phase' = [phase EXCEPT ![c] = "running"] BY <2>2, PhaseKeepsSettled
  <2> QED BY <1>2, <2>1, <2>2
<1>4. SettledSliceIsMirrored'
  <2> SUFFICES ASSUME NEW s \in known, Settled(s)', Alone(s) \/ writer'[MirrorName(s)] = s
               PROVE  Mirrored(s, cache[s])'
    BY DEF SettledSliceIsMirrored
  <2>1. s \in Sources /\ Settled(s) /\ s.cluster # c BY <1>3 DEF TypeOK
  <2>2. PICK t \in Of(c) : MirrorName(t) = n BY DEF OwnNames
  <2>3. MirrorName(s) # n
    BY <2>1, <2>2, SourceFacts DEF Alone, TypeOK
  <2>4. /\ local'[MirrorName(s)] = local[MirrorName(s)]
        /\ writer'[MirrorName(s)] = writer[MirrorName(s)]
    BY <2>1, <2>3, SourceFacts DEF TypeOK
  <2> QED BY <2>1, <2>4 DEF SettledSliceIsMirrored, Mirrored
<1>5. NoStaleLocalSlice' BY DEF NoStaleLocalSlice, NoStaleSlice, TypeOK
<1>6. WorkersWait' BY <1>2 DEF WorkersWait, TypeOK
<1>7. OwnNames' BY <1>2 DEF OwnNames
<1>8. StaleIsFound' BY <1>2, SourceFacts DEF StaleIsFound, Kept, TypeOK
<1> QED BY <1>1, <1>3, <1>4, <1>5, <1>6, <1>7, <1>8

\* The sync ends, early or with nothing left to delete.
LEMMA SyncEndIInv ==
    ASSUME IInv, NEW c \in Clusters,
           SyncDone(c) \/ \E n \in Mirrors : SyncAbort(c, n)
    PROVE  IInv'
<1> USE DEF IInv, clusterVars, watchVars, workerVars
<1>1. /\ phase[c] = "syncing" /\ phase' = [phase EXCEPT ![c] = "running"]
      /\ UNCHANGED <<clusterVars, watchVars, owed, workerVars, mirrors, listed>>
      /\ todo' = todo \/ todo' = [todo EXCEPT ![c] = {}]
      /\ left' \in [Hazards -> Nat]
      /\ syncOk' = syncOk \/ (syncOk' = syncOk \cup {c} /\ todo[c] = {})
  <2>1. CASE SyncDone(c) BY <2>1 DEF SyncDone, TypeOK
  <2>2. ASSUME NEW n \in Mirrors, SyncAbort(c, n)
        PROVE  left' \in [Hazards -> Nat]
    BY <2>2, SpendLeft DEF SyncAbort, TypeOK, Hazards
  <2> QED BY <2>1, <2>2 DEF SyncAbort
<1>2. TypeOK' BY <1>1 DEF TypeOK
<1>3. /\ \A s \in known : Settled(s)' => Settled(s)
      /\ SeenIsCurrent' /\ OnlyKnown' /\ KnownIsPending'
  BY <1>1, PhaseKeepsSettled
<1>4. SettledSliceIsMirrored' BY <1>1, <1>3 DEF SettledSliceIsMirrored, Mirrored
<1>5. NoStaleLocalSlice'
  BY <1>1, SourceFacts DEF NoStaleLocalSlice, NoStaleSlice, StaleIsFound, Kept
<1>6. WorkersWait' BY <1>1 DEF WorkersWait, TypeOK
<1>7. OwnNames' BY <1>1 DEF OwnNames, TypeOK
<1>8. StaleIsFound' BY <1>1, SourceFacts DEF StaleIsFound, Kept, TypeOK
<1> QED BY <1>2, <1>3, <1>4, <1>5, <1>6, <1>7, <1>8

-----------------------------------------------------------------------------
\* The worker takes a key, of which nothing is settled until it returns.
LEMMA BeginIInv ==
    ASSUME IInv, NEW c \in Clusters, NEW s \in Sources, Begin(c, s) PROVE IInv'
<1> USE DEF Begin, IInv, clusterVars, watchVars, startVars
<1>1. s.cluster = c /\ s # NoSource BY SourceFacts
<1>2. TypeOK' BY <1>1, SourceFacts DEF TypeOK, Value
<1>3. \A t \in Sources \ {s} : Pending(t)' <=> Pending(t) BY DEF Pending
<1>4. SeenIsCurrent' BY <1>1, <1>3, SourceFacts DEF SeenIsCurrent, TypeOK
<1>5. SettledSliceIsMirrored'
  BY <1>1, <1>3, SourceFacts DEF SettledSliceIsMirrored, Settled, Mirrored, TypeOK
<1>6. NoStaleLocalSlice' BY DEF NoStaleLocalSlice, NoStaleSlice
<1>7. WorkersWait' BY DEF WorkersWait, TypeOK
<1>8. OnlyKnown' BY DEF OnlyKnown, TypeOK
<1>9. KnownIsPending' BY <1>1, <1>3 DEF KnownIsPending, TypeOK
<1>10. OwnNames' /\ StaleIsFound' BY DEF OwnNames, StaleIsFound, Kept
<1> QED BY <1>2, <1>4, <1>5, <1>6, <1>7, <1>8, <1>9, <1>10

\* A worker that is at work has a known slice of its own cluster.
LEMMA AtWork ==
    ASSUME IInv, NEW c \in Clusters, pc[c] # "idle"
    PROVE  /\ key[c] \in Of(c) /\ key[c] \in known /\ key[c] \in Sources
           /\ MirrorName(key[c]) \in Mirrors
           /\ phase[c] = "running" /\ c \in synced
BY SourceFacts DEF IInv, TypeOK, WorkersWait, OnlyKnown

\* A reconcile that returns: no key gets settled but its own, and that only if
\* the reconcile was a success on what the store holds.
LEMMA ReturnKeeps ==
    ASSUME IInv, NEW c \in Clusters, pc[c] # "idle", NEW ok \in BOOLEAN, Return(c, ok)
    PROVE  /\ SeenIsCurrent' /\ WorkersWait' /\ OnlyKnown' /\ KnownIsPending' /\ OwnNames'
           /\ \A s \in known : Settled(s)' =>
                \/ s # key[c] /\ Settled(s)
                \/ s = key[c] /\ ok /\ seen[c] = cache[s]
<1> USE DEF Return, IInv, watchVars, startVars
<1>1. key[c] \in Of(c) /\ key[c] \in known /\ key[c] \in Sources /\ phase[c] = "running"
  BY AtWork
<1>2. \A s \in Sources : Pending(s) => Pending(s)' BY DEF Pending
<1>3. SeenIsCurrent' BY <1>2 DEF SeenIsCurrent, TypeOK
<1>4. WorkersWait' BY DEF WorkersWait, TypeOK
<1>5. OnlyKnown' BY <1>1 DEF OnlyKnown, TypeOK
<1>6. KnownIsPending' BY <1>2 DEF KnownIsPending, TypeOK
<1>7. OwnNames' BY DEF OwnNames
<1>8. ASSUME NEW s \in known, Settled(s)'
      PROVE  \/ s # key[c] /\ Settled(s)
             \/ s = key[c] /\ ok /\ seen[c] = cache[s]
  <2>1. s \in Sources /\ ~Pending(s) BY <1>2, <1>8 DEF TypeOK, Settled
  <2>2. CASE s = key[c]
    <3>1. seen[c] = cache[s] BY <2>1, <2>2 DEF SeenIsCurrent
    <3>2. ok BY <1>8, <2>2 DEF Settled, Pending
    <3> QED BY <2>2, <3>1, <3>2
  <2>3. CASE s # key[c]
    BY <1>8, <2>1, <2>3, SourceFacts DEF Settled, TypeOK
  <2> QED BY <2>2, <2>3
<1> QED BY <1>3, <1>4, <1>5, <1>6, <1>7, <1>8

\* Types of what Return changes.
LEMMA ReturnType ==
    ASSUME TypeOK, NEW c \in Clusters, pc[c] # "idle", NEW ok \in BOOLEAN, Return(c, ok)
    PROVE  /\ owed' \subseteq Sources
           /\ key' \in [Clusters -> Sources \cup {NoSource}]
           /\ seen' \in [Clusters -> Contents \cup {None}]
           /\ pc' \in [Clusters -> {"idle", "delete", "get", "create", "update"}]
           /\ \A d \in Clusters :
                /\ key'[d] \in Of(d) \cup {NoSource}
                /\ key'[d] = NoSource <=> pc'[d] = "idle"
                /\ seen'[d] = None <=> pc'[d] \in {"idle", "delete"}
BY SourceFacts DEF TypeOK, Return

\* The worker's write reaches the mirror of its key.
LEMMA WriteIInv ==
    ASSUME IInv, NEW c \in Clusters, pc[c] # "idle",
           NEW v, Write(c, v),
           v = IF seen[c] = None THEN None ELSE MirrorOf(key[c], seen[c])
    PROVE  IInv'
<1> USE DEF Write, IInv
<1> DEFINE k == key[c]
           n == MirrorName(k)
<1>1. /\ k \in Of(c) /\ k \in known /\ k \in Sources /\ n \in Mirrors /\ k.cluster = c
  BY AtWork, SourceFacts
<1>2. PICK ok \in BOOLEAN : Return(c, ok) /\ (left' = left \/ Spend("fault")) OBVIOUS
<1>3. v \in Written(n) \cup {None} /\ (v # None => v.cluster = c)
  BY <1>1, WrittenFacts DEF TypeOK
<1>4. /\ \A x \in Mirrors : local'[x] = IF x = n THEN v ELSE local[x]
      /\ \A x \in Mirrors : writer'[x] = IF x = n THEN k ELSE writer[x]
  BY <1>1 DEF TypeOK
<1>5. UNCHANGED <<remote, watchVars, startVars>> BY <1>2 DEF Return
<1>6. TypeOK'
  <2>1. left' \in [Hazards -> Nat] BY <1>2, SpendLeft DEF Hazards, TypeOK
  <2>2. /\ DOMAIN local' = Mirrors /\ \A x \in Mirrors : local'[x] \in Written(x) \cup {None}
        /\ writer' \in [Mirrors -> Sources \cup {NoSource}]
    BY <1>1, <1>3, <1>4 DEF TypeOK
  <2> HIDE DEF Write
  <2> QED BY <1>2, <1>5, <2>1, <2>2, ReturnType DEF TypeOK, watchVars, startVars
<1> HIDE DEF Write, k, n
<1>7. /\ SeenIsCurrent' /\ WorkersWait' /\ OnlyKnown' /\ KnownIsPending' /\ OwnNames'
      /\ \A s \in known : Settled(s)' =>
            \/ s # k /\ Settled(s)
            \/ s = k /\ ok /\ seen[c] = cache[s]
  BY <1>2, ReturnKeeps DEF k
<1>8. SettledSliceIsMirrored'
  <2> SUFFICES ASSUME NEW s \in known, Settled(s)', Alone(s) \/ writer'[MirrorName(s)] = s
               PROVE  Mirrored(s, cache[s])'
    BY <1>5 DEF SettledSliceIsMirrored, watchVars
  <2>1. s \in Sources /\ MirrorName(s) \in Mirrors BY SourceFacts DEF TypeOK
  <2>2. CASE s = k
    <3>1. seen[c] = cache[s] BY <1>7, <2>2
    <3> QED BY <2>1, <2>2, <3>1, <1>4, <1>5 DEF Mirrored, k, n, watchVars
  <2>3. CASE s # k
    <3>1. Settled(s) BY <1>7, <2>3
    <3>2. MirrorName(s) # n BY <1>1, <1>4, <2>1, <2>3 DEF Alone, n
    <3> QED BY <2>1, <3>1, <3>2, <1>4, <1>5 DEF SettledSliceIsMirrored, Mirrored, watchVars
  <2> QED BY <2>2, <2>3
<1>9. \A x \in Mirrors : local'[x] # None /\ local'[x].cluster = Local =>
        Kept(x) \/ (local[x] # None /\ local[x].cluster = Local)
  BY <1>1, <1>3, <1>4 DEF Kept, n
<1>10. NoStaleLocalSlice'
  BY <1>5, <1>9 DEF NoStaleLocalSlice, NoStaleSlice, Kept, watchVars, startVars
<1>11. StaleIsFound'
  <2> SUFFICES ASSUME NEW x \in Mirrors, local'[x] # None, local'[x].cluster = Local
               PROVE  /\ phase[Local] = "waiting" /\ Local \in listed => x \in mirrors[Local]
                      /\ phase[Local] = "syncing" => x \in todo[Local] \/ Kept(x)
    BY <1>5 DEF StaleIsFound, Kept, watchVars, startVars
  <2>1. CASE local[x] # None /\ local[x].cluster = Local BY <2>1 DEF StaleIsFound
  <2>2. CASE ~(local[x] # None /\ local[x].cluster = Local)
    <3>1. c = Local BY <1>3, <1>4, <2>2
    <3> QED BY <3>1, AtWork
  <2> QED BY <2>1, <2>2
<1> QED BY <1>6, <1>7, <1>8, <1>10, <1>11

\* The reconcile fails without effect, and its key is queued again.
LEMMA FailIInv ==
    ASSUME IInv, NEW c \in Clusters, pc[c] # "idle", Return(c, FALSE),
           UNCHANGED <<local, writer>>, left' = left \/ Spend("fault")
    PROVE  IInv'
<1> USE DEF IInv
<1>1. UNCHANGED <<remote, watchVars, startVars>> BY DEF Return
<1>2. TypeOK'
  <2>1. left' \in [Hazards -> Nat] BY SpendLeft DEF Hazards, TypeOK
  <2> QED BY <1>1, <2>1, ReturnType DEF TypeOK, watchVars, startVars
<1>3. /\ SeenIsCurrent' /\ WorkersWait' /\ OnlyKnown' /\ KnownIsPending' /\ OwnNames'
      /\ \A s \in known : Settled(s)' => Settled(s)
  BY ReturnKeeps
<1>4. SettledSliceIsMirrored' BY <1>1, <1>3 DEF SettledSliceIsMirrored, Mirrored, watchVars
<1>5. NoStaleLocalSlice' BY <1>1 DEF NoStaleLocalSlice, NoStaleSlice, watchVars, startVars
<1>6. StaleIsFound' BY <1>1 DEF StaleIsFound, Kept, watchVars, startVars
<1> QED BY <1>2, <1>3, <1>4, <1>5, <1>6

\* The steps of reconcileEndpointSlice.
LEMMA ReconcileIInv ==
    ASSUME IInv, NEW c \in Clusters, Reconcile(c) PROVE IInv'
<1> USE DEF IInv
<1>1. ASSUME DeleteEndpointSlice(c) PROVE IInv'
  BY <1>1, WriteIInv DEF DeleteEndpointSlice, TypeOK
<1>2. ASSUME GetEndpointSlice(c) PROVE IInv'
  <2> USE <1>2 DEF GetEndpointSlice, clusterVars, watchVars, startVars
  <2>1. TypeOK' BY DEF TypeOK
  <2>2. SeenIsCurrent' BY DEF SeenIsCurrent, Pending, TypeOK
  <2>3. SettledSliceIsMirrored'
    BY DEF SettledSliceIsMirrored, Settled, Pending, Mirrored
  <2>4. NoStaleLocalSlice' BY DEF NoStaleLocalSlice, NoStaleSlice
  <2>5. WorkersWait' BY DEF WorkersWait, TypeOK
  <2>6. OnlyKnown' /\ KnownIsPending' BY DEF OnlyKnown, KnownIsPending, Pending
  <2>7. OwnNames' /\ StaleIsFound' BY DEF OwnNames, StaleIsFound, Kept
  <2> QED BY <2>1, <2>2, <2>3, <2>4, <2>5, <2>6, <2>7
<1>3. ASSUME CreateEndpointSlice(c) PROVE IInv'
  <2>1. pc[c] # "idle" /\ seen[c] # None BY <1>3 DEF CreateEndpointSlice, TypeOK
  <2>2. CASE Refuse(c) BY <2>1, <2>2, FailIInv DEF Refuse
  <2>3. CASE Write(c, MirrorOf(key[c], seen[c])) BY <2>1, <2>3, WriteIInv
  <2> QED BY <1>3, <2>2, <2>3 DEF CreateEndpointSlice
<1>4. ASSUME UpdateEndpointSlice(c) PROVE IInv'
  <2>1. pc[c] # "idle" /\ seen[c] # None BY <1>4 DEF UpdateEndpointSlice, TypeOK
  <2>2. CASE Refuse(c) BY <2>1, <2>2, FailIInv DEF Refuse
  <2>3. CASE Write(c, MirrorOf(key[c], seen[c])) BY <2>1, <2>3, WriteIInv
  <2> QED BY <1>4, <2>2, <2>3 DEF UpdateEndpointSlice
<1>5. ASSUME Fault(c) PROVE IInv'
  BY <1>5, FailIInv DEF Fault
<1> QED BY <1>1, <1>2, <1>3, <1>4, <1>5 DEF Reconcile

\* Every step keeps the invariant.
LEMMA StepIInv == IInv /\ [Next]_vars => IInv'
<1> SUFFICES ASSUME IInv, [Next]_vars PROVE IInv' OBVIOUS
<1>1. CASE UNCHANGED vars
  <2> USE <1>1 DEF vars, clusterVars, watchVars, workerVars, startVars, IInv
  <2>1. TypeOK' BY DEF TypeOK
  <2>2. SeenIsCurrent' /\ WorkersWait' /\ OnlyKnown' /\ KnownIsPending'
    BY DEF SeenIsCurrent, WorkersWait, OnlyKnown, KnownIsPending, Pending
  <2>3. SettledSliceIsMirrored'
    BY DEF SettledSliceIsMirrored, Settled, Pending, Mirrored
  <2>4. NoStaleLocalSlice' BY DEF NoStaleLocalSlice, NoStaleSlice
  <2>5. OwnNames' /\ StaleIsFound' BY DEF OwnNames, StaleIsFound, Kept
  <2> QED BY <2>1, <2>2, <2>3, <2>4, <2>5
<1>2. ASSUME NEW c \in Clusters, Informer(c) PROVE IInv'
  BY <1>2, InitialListIInv, DeliverIInv, HandlerIInv DEF Informer
<1>3. ASSUME NEW c \in Clusters, Run(c) PROVE IInv'
  BY <1>3, ListMirrorsIInv, SyncStartIInv, SyncDeleteIInv, SyncEndIInv DEF Run
<1> QED
  BY <1>1, <1>2, <1>3, ChangeIInv, BeginIInv, ReconcileIInv, CrashIInv DEF Next

-----------------------------------------------------------------------------
\* All parts of the invariant hold for ever, whatever the clusters, the runners
\* and the API server do.
THEOREM Invariance == Spec => []IInv
BY InitIInv, StepIInv, PTL DEF Spec

\* Every variable stays in its range; a mirror is one that a source of its name
\* would have, and a worker handles slices of its own cluster only.
THEOREM TypeCorrect == Spec => []TypeOK
BY Invariance, PTL DEF IInv

\* reconcileEndpointSlice: a slice with nothing due has its mirror, if no other
\* slice has the name or this one wrote it last.
THEOREM SettledSlices == Spec => []SettledSliceIsMirrored
BY Invariance, PTL DEF IInv

\* EndpointSliceSync of the local runner: if it ends well it has deleted every
\* stale mirror, and no worker makes a new one.
THEOREM SyncFindsStaleSlices == Spec => []NoStaleLocalSlice
BY Invariance, PTL DEF IInv

\* A step that removes the mirror of a slice with a name of its own is a sync or
\* a delete of that slice's runner, which has listed the cluster and does not
\* have the slice, or has it on its list.
LEMMA StepKeepsLive ==
    ASSUME IInv, [Next]_vars, NEW s \in Sources, Alone(s),
           local[MirrorName(s)] # None, local'[MirrorName(s)] = None
    PROVE  s.cluster \in synced /\ (cache[s] = None \/ Pending(s))
<1> USE DEF IInv
<1>1. MirrorName(s) \in Mirrors BY SourceFacts
<1>2. ASSUME NEW c \in Clusters, NEW n \in Mirrors, SyncDelete(c, n)
      PROVE  s.cluster \in synced /\ (cache[s] = None \/ Pending(s))
  <2>1. n = MirrorName(s) BY <1>1, <1>2 DEF SyncDelete, TypeOK
  <2>2. PICK t \in Of(c) : MirrorName(t) = n BY <1>2 DEF SyncDelete, OwnNames
  <2>3. s.cluster = c BY <2>1, <2>2, SourceFacts DEF Alone
  <2>4. phase[c] = "syncing" BY <1>2 DEF SyncDelete
  <2> QED BY <2>3, <2>4 DEF WorkersWait, OnlyKnown, KnownIsPending
<1>3. ASSUME NEW c \in Clusters, pc[c] # "idle", NEW v, Write(c, v), v = None, pc[c] = "delete"
      PROVE  s.cluster \in synced /\ (cache[s] = None \/ Pending(s))
  <2>1. key[c] \in Of(c) /\ c \in synced BY <1>3, AtWork
  <2>2. MirrorName(key[c]) = MirrorName(s) BY <1>1, <1>3 DEF Write, TypeOK
  <2>3. s = key[c] /\ s.cluster = c BY <2>1, <2>2, SourceFacts DEF Alone
  <2>4. seen[c] = None BY <1>3 DEF TypeOK
  <2> QED BY <1>3, <2>1, <2>3, <2>4 DEF SeenIsCurrent
<1>4. ASSUME NEW c \in Clusters, pc[c] \in {"create", "update"},
             Write(c, MirrorOf(key[c], seen[c]))
      PROVE  FALSE
  <2>1. key[c] \in Sources /\ seen[c] \in Contents BY <1>4, AtWork DEF TypeOK
  <2>2. MirrorOf(key[c], seen[c]) # None BY <2>1, WrittenFacts
  <2> QED BY <1>1, <1>4, <2>2 DEF Write, TypeOK
<1>5. local' # local OBVIOUS
<1>6. ASSUME NEW c \in Clusters, Reconcile(c)
      PROVE  s.cluster \in synced /\ (cache[s] = None \/ Pending(s))
  BY <1>3, <1>4, <1>5, <1>6
  DEF Reconcile, DeleteEndpointSlice, GetEndpointSlice, CreateEndpointSlice,
      UpdateEndpointSlice, Fault, Refuse, clusterVars
<1>7. ASSUME NEW c \in Clusters, Run(c)
      PROVE  s.cluster \in synced /\ (cache[s] = None \/ Pending(s))
  BY <1>2, <1>5, <1>7 DEF Run, ListMirrors, SyncStart, SyncDone, SyncAbort, clusterVars
<1>8. ASSUME NEW c \in Clusters PROVE ~Informer(c) /\ \A t \in Sources : ~Begin(c, t)
  BY <1>5
  DEF Informer, InitialList, Deliver, EndpointSliceEventHandler, Begin, clusterVars
<1>9. ~Crash /\ (\A t \in Sources : ~Change(t)) /\ vars' # vars
  BY <1>5 DEF Crash, Change, vars, clusterVars
<1> QED BY <1>6, <1>7, <1>8, <1>9 DEF Next

\* No startup sync and no worker of any runner removes the mirror of a slice that
\* is there, but in the two cases the property names.
THEOREM LiveMirrorsAreKept == Spec => LiveMirrorIsKept
<1>1. IInv /\ [Next]_vars =>
        [\A s \in Sources :
            Alone(s) /\ local[MirrorName(s)] # None /\ local'[MirrorName(s)] = None =>
                s.cluster \in synced /\ (cache[s] = None \/ Pending(s))]_vars
  BY StepKeepsLive
<1> QED BY <1>1, Invariance, PTL DEF Spec, LiveMirrorIsKept

-----------------------------------------------------------------------------
\* What the worker of cluster d does to its queue, or to another cluster's.
LEMMA WorkerUsesQueue ==
    ASSUME TypeOK, NEW d \in Clusters, Reconcile(d) \/ \E s \in Sources : Begin(d, s),
           NEW c \in Clusters
    PROVE  [Queue(c)!Next]_(Queue(c)!vars)
<1> USE DEF Queue!vars
<1>1. ASSUME d = c, NEW s \in Sources, Begin(c, s)
      PROVE  Queue(c)!Begin(s) /\ s \in Of(c)
  BY <1>1 DEF Begin, TypeOK, Queue!Begin
<1>2. ASSUME d # c, NEW s \in Sources, Begin(d, s)
      PROVE  UNCHANGED <<owed \cap Of(c), key[c]>>
  BY <1>2, SourceFacts DEF Begin, TypeOK
<1>3. CASE GetEndpointSlice(d)
  BY <1>3 DEF GetEndpointSlice
<1>4. ASSUME Reconcile(d), ~GetEndpointSlice(d)
      PROVE  key[d] # NoSource /\ key[d] \in Of(d) /\ \E ok \in BOOLEAN : Return(d, ok)
  BY <1>4
  DEF Reconcile, DeleteEndpointSlice, CreateEndpointSlice, UpdateEndpointSlice, Fault, Write,
      Refuse, TypeOK
<1>5. ASSUME d = c, key[c] # NoSource, key[c] \in Of(c), NEW ok \in BOOLEAN, Return(c, ok)
      PROVE  Queue(c)!Succeed \/ Queue(c)!Fail
  BY <1>5 DEF Return, TypeOK, Queue!Succeed, Queue!Fail
<1>6. ASSUME d # c, key[d] \in Of(d), NEW ok \in BOOLEAN, Return(d, ok)
      PROVE  UNCHANGED <<owed \cap Of(c), key[c]>>
  BY <1>6, SourceFacts DEF Return, TypeOK
<1> QED BY <1>1, <1>2, <1>3, <1>4, <1>5, <1>6 DEF Queue!Next

\* Each runner uses its endpointSliceQueue as a level-triggered list, which
\* queue.go implements: other clusters' runners do not touch it.
THEOREM QueuesAreUsed == Spec => UsesLevelQueue
<1>1. Init => \A c \in Clusters : Queue(c)!Init
  BY DEF Init, Boot, All, Queue!Init
<1>2. ASSUME TypeOK, [Next]_vars, NEW c \in Clusters
      PROVE  [Queue(c)!Next \/ Crash]_(Queue(c)!vars)
  <2> USE DEF Queue!vars
  <2>1. ASSUME UNCHANGED vars \/ \E s \in Sources : Change(s)
        PROVE  UNCHANGED Queue(c)!vars
    BY <2>1 DEF Change, vars, workerVars
  <2>2. ASSUME NEW d \in Clusters, Run(d)
        PROVE  UNCHANGED Queue(c)!vars
    BY <2>2 DEF Run, ListMirrors, SyncStart, SyncDone, SyncDelete, SyncAbort, workerVars
  <2>3. ASSUME NEW d \in Clusters, Informer(d)
        PROVE  [Queue(c)!Next]_(Queue(c)!vars)
    <3>1. PICK ks \in SUBSET Of(d) : owed' = owed \cup ks
      <4>1. CASE InitialList(d)
        <5>1. {s \in Of(d) : remote[s] # None} \in SUBSET Of(d)
          OBVIOUS
        <5> QED BY <4>1, <5>1 DEF InitialList
      <4>2. CASE EndpointSliceEventHandler(d)
        BY <1>2, <4>2 DEF EndpointSliceEventHandler, TypeOK
      <4>3. ASSUME NEW s \in Sources, Deliver(d, s)
            PROVE  owed' = owed \cup {}
        BY <4>3 DEF Deliver
      <4>4. {} \in SUBSET Of(d)
        OBVIOUS
      <4> QED BY <2>3, <4>1, <4>2, <4>3, <4>4 DEF Informer
    <3>2. key' = key
      BY <2>3
      DEF Informer, InitialList, EndpointSliceEventHandler, Deliver, workerVars
    <3>3. owed' \cap Of(c) = (owed \cap Of(c)) \cup (ks \cap Of(c))
      BY <3>1
    <3>4. Queue(c)!Notify(ks \cap Of(c))
      BY <3>2, <3>3 DEF Queue!Notify
    <3>5. ks \cap Of(c) \in SUBSET Of(c)
      OBVIOUS
    <3> QED BY <3>4, <3>5 DEF Queue!Next
  <2>4. ASSUME NEW d \in Clusters, Reconcile(d) \/ \E s \in Sources : Begin(d, s)
        PROVE  [Queue(c)!Next]_(Queue(c)!vars)
    BY <1>2, <2>4, WorkerUsesQueue
  <2> QED BY <1>2, <2>1, <2>2, <2>3, <2>4 DEF Next
<1>3. TypeOK /\ [Next]_vars =>
        [\A c \in Clusters :
            UNCHANGED Queue(c)!vars \/ Queue(c)!Next \/ Crash]_vars
  BY <1>2
<1> QED BY <1>1, <1>3, TypeCorrect, PTL DEF Spec, UsesLevelQueue
=============================================================================
