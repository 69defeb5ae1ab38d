----------------------------- MODULE WorkQueue ------------------------------
(***************************************************************************)
(* queue.go: the rate-limited queue in front of every reconcile function.  *)
(*                                                                         *)
(* The k8s.io/client-go workqueue under it is external.  Its state is      *)
(* `dirty' (keys to process), `pending' (the FIFO of the dirty keys that   *)
(* are not being processed), the key a worker holds, and `waiting' (keys   *)
(* of AddRateLimited whose delay has not expired).  queue.go adds the list *)
(* `requeued' and reports its length as a metric.  Each runner starts one  *)
(* worker, `go q.Run()', per queue.                                        *)
(***************************************************************************)
EXTENDS Naturals, SequencesExt

CONSTANTS Keys, NoKey

ASSUME NoKeyAssumption == NoKey \notin Keys

VARIABLES dirty, pending, waiting, shuttingDown,   \* client-go's workqueue
          requeued,     \* queue.requeued
          gauge,        \* the metric semaphore_service_mirror_queue_requeued_items
          pc, key,      \* where the worker's loop stands and the key it holds
          failed        \* history: keys whose latest reconcile failed

libVars == <<dirty, pending, waiting, shuttingDown>>
vars == <<libVars, requeued, gauge, pc, key, failed>>

Steps == {"metrics", "get", "reconcile", "done", "stopped"}

Init ==
    /\ dirty = {} /\ pending = <<>> /\ waiting = {} /\ shuttingDown = FALSE
    /\ requeued = <<>> /\ gauge = 0
    /\ pc = "metrics" /\ key = NoKey
    /\ failed = {}

\* Keys handed out by Get and not yet returned by Done.
Processing == IF pc \in {"reconcile", "done"} THEN {key} ELSE {}

-----------------------------------------------------------------------------
\* workqueue.Add for a key that is not dirty yet: it joins the FIFO, or, if
\* it is being processed, waits for Done.
Insert(k) ==
    /\ dirty' = dirty \cup {k}
    /\ pending' = IF k \in Processing THEN pending ELSE Append(pending, k)

\* queue.Add, called by the watchers' event handlers.  A dirty key is
\* dropped: the reconcile that is due will see the newest state.
Add(k) ==
    /\ ~shuttingDown
    /\ k \notin dirty
    /\ Insert(k)
    /\ UNCHANGED <<waiting, shuttingDown, requeued, gauge, pc, key, failed>>

\* The delay of a rate-limited key expires.
Expire(k) ==
    /\ k \in waiting
    /\ waiting' = waiting \ {k}
    /\ IF k \in dirty THEN UNCHANGED <<dirty, pending>> ELSE Insert(k)
    /\ UNCHANGED <<shuttingDown, requeued, gauge, pc, key, failed>>

\* queue.Stop.  client-go stops its timers, and keys waiting for one are lost.
Stop ==
    /\ ~shuttingDown
    /\ shuttingDown' = TRUE
    /\ waiting' = {}
    /\ UNCHANGED <<dirty, pending, requeued, gauge, pc, key, failed>>

-----------------------------------------------------------------------------
\* Mutant of AddRequeued: the list is not searched first.
AddRequeuedTwice(k) == Append(requeued, k)

\* addRequeued: the list is searched first, so a key appears in it once.
AddRequeued(k) == IF k \in Range(requeued) THEN requeued ELSE Append(requeued, k)

\* Mutant of RemoveRequeued: forget leaves the list alone.
KeepRequeued(k) == requeued

\* removeRequeued: the first occurrence goes.
RemoveRequeued(k) == RemoveFirst(requeued, k)

\* processItem: the blocking Get.
Get ==
    /\ pc = "get" /\ pending # <<>>
    /\ key' = Head(pending)
    /\ pending' = Tail(pending)
    /\ dirty' = dirty \ {Head(pending)}
    /\ pc' = "reconcile"
    /\ UNCHANGED <<waiting, shuttingDown, requeued, gauge, failed>>

\* Mutant of GetShutdown: processItem's answer is ignored and the loop goes on.
IgnoreShutdown ==
    /\ pc = "get" /\ pending = <<>> /\ shuttingDown
    /\ pc' = "metrics"
    /\ UNCHANGED <<libVars, requeued, gauge, key, failed>>

\* processItem: Get reports shutdown once the FIFO has drained; Run returns.
GetShutdown ==
    /\ pc = "get" /\ pending = <<>> /\ shuttingDown
    /\ pc' = "stopped"
    /\ UNCHANGED <<libVars, requeued, gauge, key, failed>>

\* reconcileFunc returned nil: queue.forget.
ReconcileOK ==
    /\ pc = "reconcile"
    /\ requeued' = RemoveRequeued(key)
    /\ failed' = failed \ {key}
    /\ pc' = "done"
    /\ UNCHANGED <<libVars, gauge, key>>

\* Mutant of ReconcileErr: the key is counted but not added again.
CountOnly ==
    /\ pc = "reconcile"
    /\ requeued' = AddRequeued(key)
    /\ failed' = failed \cup {key}
    /\ pc' = "done"
    /\ UNCHANGED <<libVars, gauge, key>>

\* reconcileFunc returned an error: queue.requeue.
ReconcileErr ==
    /\ pc = "reconcile"
    /\ waiting' = IF shuttingDown THEN waiting ELSE waiting \cup {key}
    /\ requeued' = AddRequeued(key)
    /\ failed' = failed \cup {key}
    /\ pc' = "done"
    /\ UNCHANGED <<dirty, pending, shuttingDown, gauge, key>>

\* Mutant of Done: a key leaves `dirty' when its reconcile ends, not when it begins.
DoneClearsDirty ==
    /\ pc = "done"
    /\ dirty' = dirty \ {key}
    /\ key' = NoKey
    /\ pc' = "metrics"
    /\ UNCHANGED <<pending, waiting, shuttingDown, requeued, gauge, failed>>

\* Mutant of Done: Done is missing on some return path.
NeverDone ==
    /\ pc = "done"
    /\ pc' = "metrics"
    /\ UNCHANGED <<libVars, requeued, gauge, key, failed>>

\* Mutant of Done: a key that was added meanwhile is not put back.
DoneStrandsKey ==
    /\ pc = "done"
    /\ key' = NoKey
    /\ pc' = "metrics"
    /\ UNCHANGED <<libVars, requeued, gauge, failed>>

\* The deferred workqueue.Done: a key added meanwhile goes to the FIFO now.
Done ==
    /\ pc = "done"
    /\ pending' = IF key \in dirty THEN Append(pending, key) ELSE pending
    /\ key' = NoKey
    /\ pc' = "metrics"
    /\ UNCHANGED <<dirty, waiting, shuttingDown, requeued, gauge, failed>>

\* Run: updateMetrics, before the first item and after each.
UpdateMetrics ==
    /\ pc = "metrics"
    /\ gauge' = Len(requeued)
    /\ pc' = "get"
    /\ UNCHANGED <<libVars, requeued, key, failed>>

Worker == Get \/ GetShutdown \/ ReconcileOK \/ ReconcileErr \/ Done \/ UpdateMetrics

Next == (\E k \in Keys : Add(k) \/ Expire(k)) \/ Stop \/ Worker

Spec == Init /\ [][Next]_vars

\* The worker goroutine keeps running, reconcile functions are assumed to return
\* (the code sets no timeout of its own on API calls), and timers fire.
Fairness == WF_vars(Worker) /\ \A k \in Keys : WF_vars(Expire(k))

FairSpec == Spec /\ Fairness

-----------------------------------------------------------------------------
\* Every variable stays in its range.
TypeOK ==
    /\ dirty \subseteq Keys /\ waiting \subseteq Keys /\ failed \subseteq Keys
    /\ pending \in Seq(Keys) /\ requeued \in Seq(Keys)
    /\ shuttingDown \in BOOLEAN
    /\ gauge \in Nat
    /\ pc \in Steps
    /\ key \in Keys \cup {NoKey}
    /\ (pc \in {"reconcile", "done"}) <=> key # NoKey

\* The FIFO holds each dirty key once, except the key being processed, which
\* Done puts back: no key is handed out twice at a time, none is stranded.
FifoIsDirty ==
    /\ IsInjective(pending)
    /\ Range(pending) = dirty \ Processing

\* requeued lists each key once and exactly the keys whose latest reconcile
\* failed (addRequeued's search, removeRequeued's break).
RequeuedIsFailed ==
    /\ IsInjective(requeued)
    /\ Range(requeued) = failed

\* README "Items that have been requeued but not reconciled yet": until
\* shutdown every key the metric counts is scheduled or being reconciled.
CountedIsScheduled ==
    ~shuttingDown =>
        \A k \in failed : k \in dirty \cup waiting \/ (pc = "reconcile" /\ key = k)

\* Between items the reported metric is the number of such keys.
GaugeIsExact == pc = "get" => gauge = Cardinality(failed)

\* The promise to the runners: queue.go implements the level-triggered list,
\* with its fairness.
LQ == INSTANCE LevelQueue WITH
        owed <- dirty \cup waiting,
        current <- IF pc = "reconcile" THEN key ELSE NoKey,
        open <- ~shuttingDown
ImplementsLevelQueue == LQ!Spec
ImplementsFairness == LQ!Fairness

\* Stop ends the worker: what is in the FIFO is drained and Run returns.
StopEndsWorker == shuttingDown ~> pc = "stopped"
=============================================================================
