------------------------- MODULE GlobalServiceStore -------------------------
(***************************************************************************)
(* globalservice.go: the store that all GlobalRunners share.               *)
(*                                                                         *)
(* Each runner's queue worker calls AddOrUpdateClusterServiceTarget and    *)
(* DeleteClusterServiceTarget for a name.  The store is a Go map from the  *)
(* name to a pointer; no lock guards the map or the objects.  This module  *)
(* takes the accesses of the methods to this memory one by one: each reads *)
(* first and writes what it made of it later.  What two callers do to each *)
(* other depends on whether such a window is hit, which `raced' records.   *)
(*                                                                         *)
(* An access is whole here.  The Go runtime may also stop the process when *)
(* it sees two accesses to the map collide: the crash of GlobalServices.   *)
(***************************************************************************)
EXTENDS Naturals, FiniteSets

CONSTANTS Clusters,
          Objects,     \* addresses of GlobalService objects
          None         \* nil

ASSUME ConstantsAssumption == None \notin Objects

VARIABLES store,       \* the pointer the map holds for the name, or None
          clusters,    \* the `clusters' slice of each object, as a set
          pc, ptr, snap,  \* each caller: step, gsvc, and the slice it has read
          last,        \* history: what each caller's latest finished call asked for
          raced        \* history: a caller's write has hit another one's window

vars == <<store, clusters, pc, ptr, snap, last, raced>>

Init ==
    /\ store = None
    /\ clusters = [o \in Objects |-> {}]
    /\ pc = [c \in Clusters |-> "idle"]
    /\ ptr = [c \in Clusters |-> None]
    /\ snap = [c \in Clusters |-> {}]
    /\ last = [c \in Clusters |-> "delete"]
    /\ raced = FALSE

Return(c, op) ==
    /\ pc' = [pc EXCEPT ![c] = "idle"]
    /\ ptr' = [ptr EXCEPT ![c] = None]
    /\ snap' = [snap EXCEPT ![c] = {}]
    /\ last' = [last EXCEPT ![c] = op]

-----------------------------------------------------------------------------
(* AddOrUpdateClusterServiceTarget *)

\* Look the name up in the map.
AddLookup(c) ==
    /\ pc[c] = "idle"
    /\ ptr' = [ptr EXCEPT ![c] = store]
    /\ pc' = [pc EXCEPT ![c] = IF store = None THEN "create" ELSE "addRead"]
    /\ UNCHANGED <<store, clusters, snap, last>>

\* There was no entry: a new object with this cluster goes into the map.
AddCreate(c) ==
    /\ pc[c] = "create"
    /\ \E o \in Objects \ ({store} \cup {ptr[d] : d \in Clusters}) :
        /\ store' = o
        /\ clusters' = [clusters EXCEPT ![o] = {c}]
    /\ Return(c, "add")

\* There was one: with the cluster in its list there is nothing to append.
AddRead(c) ==
    /\ pc[c] = "addRead"
    /\ IF c \in clusters[ptr[c]]
         THEN Return(c, "add")
         ELSE /\ snap' = [snap EXCEPT ![c] = clusters[ptr[c]]]
              /\ pc' = [pc EXCEPT ![c] = "addWrite"]
              /\ UNCHANGED <<ptr, last>>
    /\ UNCHANGED <<store, clusters>>

\* Mutant of AddWrite: the list is replaced, not appended to.
AddWriteReplaces(c) ==
    /\ pc[c] = "addWrite"
    /\ clusters' = [clusters EXCEPT ![ptr[c]] = {c}]
    /\ Return(c, "add")
    /\ UNCHANGED store

\* Append it to what was read.
AddWrite(c) ==
    /\ pc[c] = "addWrite"
    /\ clusters' = [clusters EXCEPT ![ptr[c]] = snap[c] \cup {c}]
    /\ Return(c, "add")
    /\ UNCHANGED store

-----------------------------------------------------------------------------
(* DeleteClusterServiceTarget *)

\* Without an entry there is nothing to do.
DeleteLookup(c) ==
    /\ pc[c] = "idle"
    /\ IF store = None
         THEN Return(c, "delete")
         ELSE /\ ptr' = [ptr EXCEPT ![c] = store]
              /\ pc' = [pc EXCEPT ![c] = "deleteRead"]
              /\ UNCHANGED <<snap, last>>
    /\ UNCHANGED <<store, clusters>>

\* A cluster that is not in the list is not removed from it.
DeleteRead(c) ==
    /\ pc[c] = "deleteRead"
    /\ snap' = [snap EXCEPT ![c] = clusters[ptr[c]]]
    /\ pc' = [pc EXCEPT ![c] = IF c \in clusters[ptr[c]] THEN "deleteWrite" ELSE "put"]
    /\ UNCHANGED <<store, clusters, ptr, last>>

\* Mutant of DeleteWrite: removeFromSlice drops the last element, unswapped.
DeleteWriteOther(c) ==
    /\ pc[c] = "deleteWrite"
    /\ \E d \in clusters[ptr[c]] : clusters' = [clusters EXCEPT ![ptr[c]] = @ \ {d}]
    /\ pc' = [pc EXCEPT ![c] = "put"]
    /\ UNCHANGED <<store, ptr, snap, last>>

\* removeFromSlice, at an index found before: in a list that has changed since
\* it may hit any cluster.  On an empty list it panics: the caller goes no further.
DeleteWrite(c) ==
    /\ pc[c] = "deleteWrite"
    /\ \E d \in clusters[ptr[c]] :
        /\ clusters[ptr[c]] = snap[c] => d = c
        /\ clusters' = [clusters EXCEPT ![ptr[c]] = @ \ {d}]
    /\ pc' = [pc EXCEPT ![c] = "put"]
    /\ UNCHANGED <<store, ptr, snap, last>>

\* The object is put back into the map.  Is its list empty?
DeletePut(c) ==
    /\ pc[c] = "put"
    /\ store' = ptr[c]
    /\ IF clusters[ptr[c]] = {}
         THEN /\ pc' = [pc EXCEPT ![c] = "drop"]
              /\ UNCHANGED <<ptr, snap, last>>
         ELSE Return(c, "delete")
    /\ UNCHANGED clusters

\* Mutant of DeleteDrop: an object without clusters stays in the map.
DeleteNothing(c) ==
    /\ pc[c] = "drop"
    /\ Return(c, "delete")
    /\ UNCHANGED <<store, clusters>>

\* It is: the name goes from the map.
DeleteDrop(c) ==
    /\ pc[c] = "drop"
    /\ store' = None
    /\ Return(c, "delete")
    /\ UNCHANGED clusters

-----------------------------------------------------------------------------
Call(c) ==
    \/ AddLookup(c) \/ AddCreate(c) \/ AddRead(c) \/ AddWrite(c)
    \/ DeleteLookup(c) \/ DeleteRead(c) \/ DeleteWrite(c) \/ DeletePut(c) \/ DeleteDrop(c)

\* This step hits d between an access and one that relies on it: the map's
\* pointer changes after the lookup, or the list after it was read.
Hits(d) ==
    /\ pc[d] # "idle"
    /\ \/ store' # store
       \/ /\ pc[d] \in {"addWrite", "deleteWrite", "drop"}
          /\ clusters'[ptr[d]] # clusters[ptr[d]]

Next == \E c \in Clusters :
    /\ Call(c)
    /\ raced' = (raced \/ \E d \in Clusters \ {c} : Hits(d))

Spec == Init /\ [][Next]_vars

-----------------------------------------------------------------------------
CurrentMembers == IF store = None THEN {} ELSE clusters[store]

\* "AddOrUpdateClusterServiceTarget will append a cluster to the GlobalService
\* clusters list", DeleteClusterServiceTarget "removes" it: a caller's cluster is in
\* the entry exactly if its latest call added it.  In the code it need not be.
CallsTakeEffect ==
    \A c \in Clusters : pc[c] = "idle" => (c \in CurrentMembers <=> last[c] = "add")

\* What the methods lack is protection of these windows and nothing else: calls
\* may overlap, and repeated ones, as resyncs make them, do so for ever, but as
\* long as no write falls into another caller's window all of them take effect.
UnracedCallsTakeEffect == ~raced => CallsTakeEffect

\* Nor does then an entry without clusters stay in the map, although one caller
\* may add to a list that another has just emptied.
NoEmptyEntry ==
    ~raced /\ (\A c \in Clusters : pc[c] = "idle") => (store = None <=> CurrentMembers = {})

\* The abstract promise, until a window is hit: each access of each caller
\* changes the membership of one cluster at most.
M == INSTANCE Members WITH members <- CurrentMembers
ImplementsMembers == M!Init /\ [][raced' \/ M!Next]_CurrentMembers
=============================================================================
