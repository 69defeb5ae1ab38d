---------------------- MODULE GlobalServiceStoreProofs ----------------------
(***************************************************************************)
(* Proofs about GlobalServiceStore, whose methods nothing keeps apart:     *)
(* calls of all clusters overlap in any way, and until a write falls into  *)
(* another caller's window none undoes what another runner did.            *)
(***************************************************************************)
EXTENDS GlobalServiceStore, TLAPS

Holding == {"addRead", "addWrite", "deleteRead", "deleteWrite", "put", "drop"}

TypeInv ==
    /\ store \in Objects \cup {None}
    /\ clusters \in [Objects -> SUBSET Clusters]
    /\ pc \in [Clusters -> {"idle", "create"} \cup Holding]
    /\ ptr \in [Clusters -> Objects \cup {None}]
    /\ snap \in [Clusters -> SUBSET Clusters]
    /\ last \in [Clusters -> {"add", "delete"}]
    /\ raced \in BOOLEAN
    /\ \A c \in Clusters : pc[c] \in Holding => ptr[c] # None

\* What a caller has looked up and read is still so, ...
CallerIsCurrent == \A c \in Clusters :
    /\ pc[c] = "create" => store = None
    /\ pc[c] \in Holding => ptr[c] = store
    /\ pc[c] = "addWrite" => snap[c] = clusters[store] /\ c \notin clusters[store]
    /\ pc[c] = "deleteWrite" => snap[c] = clusters[store] /\ c \in clusters[store]
    /\ pc[c] \in {"put", "drop"} => c \notin clusters[store]
    /\ pc[c] = "drop" => clusters[store] = {}

\* ... and an entry whose list is empty has a caller that is about to delete it.
EmptyIsDying ==
    store # None /\ CurrentMembers = {} => \E c \in Clusters : pc[c] \in {"put", "drop"}

\* Until a window is hit.
IInv == TypeInv /\ (~raced => CallerIsCurrent /\ EmptyIsDying /\ CallsTakeEffect)

\* The store begins empty and no method runs.
LEMMA InitIInv == Init => IInv
BY ConstantsAssumption
DEF Init, IInv, TypeInv, CallerIsCurrent, EmptyIsDying, CallsTakeEffect, CurrentMembers,
    Holding

-----------------------------------------------------------------------------
\* Every access leaves the memory well formed, whatever the others do.
LEMMA StepTypeInv ==
    ASSUME TypeInv, NEW c \in Clusters, Call(c), raced' \in BOOLEAN PROVE TypeInv'
<1> USE ConstantsAssumption DEF TypeInv, Holding, Return
<1>1. CASE AddLookup(c) BY <1>1 DEF AddLookup
<1>2. CASE AddCreate(c) BY <1>2 DEF AddCreate
<1>3. CASE AddRead(c) BY <1>3 DEF AddRead
<1>4. CASE AddWrite(c) BY <1>4 DEF AddWrite
<1>5. CASE DeleteLookup(c) BY <1>5 DEF DeleteLookup
<1>6. CASE DeleteRead(c) BY <1>6 DEF DeleteRead
<1>7. CASE DeleteWrite(c) BY <1>7 DEF DeleteWrite
<1>8. CASE DeletePut(c) BY <1>8 DEF DeletePut
<1>9. CASE DeleteDrop(c) BY <1>9 DEF DeleteDrop
<1> QED BY <1>1, <1>2, <1>3, <1>4, <1>5, <1>6, <1>7, <1>8, <1>9 DEF Call

\* An access that hits no other caller's window leaves what the callers have
\* read current, and its own call, when it ends, has taken effect.
LEMMA StepIInv == ASSUME IInv, [Next]_vars PROVE IInv'
<1>1. CASE UNCHANGED vars
  BY <1>1 DEF vars, IInv, TypeInv, CallerIsCurrent, EmptyIsDying, CallsTakeEffect,
              CurrentMembers
<1>2. ASSUME NEW c \in Clusters, Call(c),
             raced' = (raced \/ \E d \in Clusters \ {c} : Hits(d))
      PROVE  IInv'
  <2>1. TypeInv' BY <1>2, StepTypeInv DEF IInv, TypeInv
  <2> SUFFICES ASSUME ~raced'
               PROVE  CallerIsCurrent' /\ EmptyIsDying' /\ CallsTakeEffect'
    BY <2>1 DEF IInv
  <2>2. /\ TypeInv /\ CallerIsCurrent /\ EmptyIsDying /\ CallsTakeEffect
        /\ \A d \in Clusters \ {c} : ~Hits(d)
    BY <1>2 DEF IInv, TypeInv
  <2> USE <2>1, <2>2, ConstantsAssumption DEF TypeInv, Holding, Return, CurrentMembers
  <2>3. CASE AddLookup(c)
    BY <2>3 DEF AddLookup, CallerIsCurrent, EmptyIsDying, CallsTakeEffect
  <2>4. CASE AddCreate(c)
    <3> USE <2>4 DEF AddCreate, Hits
    <3>1. \A d \in Clusters \ {c} : pc[d] = "idle" BY DEF CallerIsCurrent
    <3>2. CallerIsCurrent' BY <3>1 DEF CallerIsCurrent
    <3>3. EmptyIsDying' BY DEF EmptyIsDying
    <3>4. CallsTakeEffect' BY <3>1 DEF CallsTakeEffect, CallerIsCurrent
    <3> QED BY <3>2, <3>3, <3>4
  <2>5. CASE AddRead(c)
    <3> USE <2>5 DEF AddRead
    <3>1. CallerIsCurrent' BY DEF CallerIsCurrent
    <3>2. EmptyIsDying' BY DEF EmptyIsDying
    <3>3. CallsTakeEffect' BY DEF CallsTakeEffect, CallerIsCurrent
    <3> QED BY <3>1, <3>2, <3>3
  <2>6. CASE AddWrite(c)
    <3> USE <2>6 DEF AddWrite
    <3>1. clusters'[store] = clusters[store] \cup {c} /\ ptr[c] = store /\ store # None
      BY DEF CallerIsCurrent
    <3>2. \A d \in Clusters \ {c} : pc[d] \notin {"addWrite", "deleteWrite", "drop"}
      BY <3>1 DEF Hits, CallerIsCurrent
    <3>3. CallerIsCurrent' BY <3>1, <3>2 DEF CallerIsCurrent
    <3>4. EmptyIsDying' BY <3>1 DEF EmptyIsDying
    <3>5. CallsTakeEffect' BY <3>1 DEF CallsTakeEffect
    <3> QED BY <3>3, <3>4, <3>5
  <2>7. CASE DeleteLookup(c)
    <3> USE <2>7 DEF DeleteLookup
    <3>1. CallerIsCurrent' BY DEF CallerIsCurrent
    <3>2. EmptyIsDying' BY DEF EmptyIsDying
    <3>3. CallsTakeEffect' BY DEF CallsTakeEffect
    <3> QED BY <3>1, <3>2, <3>3
  <2>8. CASE DeleteRead(c)
    <3> USE <2>8 DEF DeleteRead
    <3>1. CallerIsCurrent' BY DEF CallerIsCurrent
    <3>2. EmptyIsDying' BY DEF EmptyIsDying
    <3>3. CallsTakeEffect' BY DEF CallsTakeEffect
    <3> QED BY <3>1, <3>2, <3>3
  <2>9. CASE DeleteWrite(c)
    <3> USE <2>9 DEF DeleteWrite
    <3>1. clusters'[store] = clusters[store] \ {c} /\ ptr[c] = store /\ store # None
      BY DEF CallerIsCurrent
    <3>2. \A d \in Clusters \ {c} : pc[d] \notin {"addWrite", "deleteWrite", "drop"}
      BY <3>1 DEF Hits, CallerIsCurrent
    <3>3. CallerIsCurrent' BY <3>1, <3>2 DEF CallerIsCurrent
    <3>4. EmptyIsDying' BY DEF EmptyIsDying
    <3>5. CallsTakeEffect' BY <3>1 DEF CallsTakeEffect
    <3> QED BY <3>3, <3>4, <3>5
  <2>10. CASE DeletePut(c)
    <3> USE <2>10 DEF DeletePut
    <3>1. ptr[c] = store /\ store' = store /\ store # None BY DEF CallerIsCurrent
    <3>2. CallerIsCurrent' BY <3>1 DEF CallerIsCurrent
    <3>3. EmptyIsDying' BY <3>1 DEF EmptyIsDying
    <3>4. CallsTakeEffect' BY <3>1 DEF CallsTakeEffect, CallerIsCurrent
    <3> QED BY <3>2, <3>3, <3>4
  <2>11. CASE DeleteDrop(c)
    <3> USE <2>11 DEF DeleteDrop
    <3>1. store # None /\ clusters[store] = {} BY DEF CallerIsCurrent
    <3>2. \A d \in Clusters \ {c} : pc[d] = "idle" BY <3>1 DEF Hits
    <3>3. CallerIsCurrent' BY <3>2 DEF CallerIsCurrent
    <3>4. EmptyIsDying' BY DEF EmptyIsDying
    <3>5. CallsTakeEffect' BY <3>1, <3>2 DEF CallsTakeEffect
    <3> QED BY <3>3, <3>4, <3>5
  <2> QED BY <1>2, <2>3, <2>4, <2>5, <2>6, <2>7, <2>8, <2>9, <2>10, <2>11 DEF Call
<1> QED BY <1>1, <1>2 DEF Next

\* So it holds for ever.
LEMMA Invariance == Spec => []IInv
<1> QED BY InitIInv, StepIInv, PTL DEF Spec

-----------------------------------------------------------------------------
\* AddOrUpdateClusterServiceTarget and DeleteClusterServiceTarget, overlapping as
\* they may: for all clusters and objects, until a write falls into another
\* caller's window, a cluster is in the entry exactly if its latest call added it.
THEOREM CallsAreKept == Spec => []UnracedCallsTakeEffect
<1>1. IInv => UnracedCallsTakeEffect BY DEF IInv, UnracedCallsTakeEffect
<1> QED BY <1>1, Invariance, PTL

\* `if len(gsvc.clusters) == 0 { delete(gss.store, gsvcName)', decided after the
\* write that emptied the list: nor is then an entry without clusters left in the
\* map when no method runs.
THEOREM EmptyEntriesGo == Spec => []NoEmptyEntry
<1>1. IInv => NoEmptyEntry BY DEF IInv, EmptyIsDying, NoEmptyEntry, CurrentMembers
<1> QED BY <1>1, Invariance, PTL

\* Seen through the entry's list, every access of every caller lets one cluster
\* join or leave, or changes nothing, unless it hits a window: until then the
\* two methods implement Members without a lock.
THEOREM StoreImplementsMembers == Spec => ImplementsMembers
<1>1. Init => M!Init BY DEF Init, M!Init, CurrentMembers
<1>2. ASSUME IInv, [Next]_vars PROVE [raced' \/ M!Next]_CurrentMembers
  <2> SUFFICES ASSUME NEW c \in Clusters, Call(c), ~raced,
                      CurrentMembers' # CurrentMembers
               PROVE  M!Join(c) \/ M!Leave(c)
    BY <1>2 DEF Next, vars, M!Next, CurrentMembers
  <2> USE <1>2, ConstantsAssumption
      DEF IInv, TypeInv, CallerIsCurrent, Holding, CurrentMembers
  <2>1. CASE AddCreate(c) BY <2>1 DEF AddCreate, M!Join
  <2>2. CASE AddWrite(c) BY <2>2 DEF AddWrite, M!Join
  <2>3. CASE DeleteWrite(c) BY <2>3 DEF DeleteWrite, M!Leave
  <2>4. CASE DeletePut(c) BY <2>4 DEF DeletePut
  <2>5. CASE DeleteDrop(c) BY <2>5 DEF DeleteDrop
  <2>6. CASE AddLookup(c) \/ AddRead(c) \/ DeleteLookup(c) \/ DeleteRead(c)
    BY <2>6 DEF AddLookup, AddRead, DeleteLookup, DeleteRead
  <2> QED BY <2>1, <2>2, <2>3, <2>4, <2>5, <2>6 DEF Call
<1> QED BY <1>1, <1>2, Invariance, PTL DEF Spec, ImplementsMembers
=============================================================================
