----------------------------- MODULE LevelQueue -----------------------------
(***************************************************************************)
(* What queue.go promises the runners: a level-triggered work list.        *)
(*                                                                         *)
(* A key is owed a reconcile from the moment an event names it until a     *)
(* reconcile of it begins; a reconcile that fails makes the key owed       *)
(* again.  Keys are handed out one at a time.  WorkQueue implements this   *)
(* with a FIFO, a dirty set and a retry timer; MirrorRunner,               *)
(* EndpointSlices and GlobalServices are written against the sets `owed'   *)
(* and `current' only, and shown to use their queues in no other way.      *)
(***************************************************************************)
CONSTANTS Keys,      \* "namespace/name" keys of the watched objects
          NoKey      \* the worker holds no key

VARIABLES owed,      \* keys that must still be reconciled
          current,   \* the key being reconciled, or NoKey
          open       \* FALSE once the queue was shut down

vars == <<owed, current, open>>

Init == owed = {} /\ current = NoKey /\ open = TRUE

\* Events name the keys ks, an informer's first list many at once.  A queue that
\* was shut down ignores them.
Notify(ks) ==
    /\ open
    /\ owed' = owed \cup ks
    /\ UNCHANGED <<current, open>>

\* A reconcile of k begins.  An implementation may leave k owed, and so
\* reconcile it once more than needed.
Begin(k) ==
    /\ current = NoKey
    /\ k \in owed
    /\ current' = k
    /\ owed' \in {owed, owed \ {k}}
    /\ UNCHANGED open

Succeed ==
    /\ current # NoKey
    /\ current' = NoKey
    /\ UNCHANGED <<owed, open>>

\* A failed reconcile is retried, unless the queue was shut down meanwhile.
Fail ==
    /\ current # NoKey
    /\ current' = NoKey
    /\ owed' = IF open THEN owed \cup {current} ELSE owed
    /\ UNCHANGED open

\* Shutting down may forget keys that were waiting for a retry.
Close ==
    /\ open
    /\ open' = FALSE
    /\ owed' \in SUBSET owed
    /\ UNCHANGED current

Next ==
    \/ \E ks \in SUBSET Keys : Notify(ks)
    \/ \E k \in Keys : Begin(k)
    \/ Succeed \/ Fail \/ Close

Spec == Init /\ [][Next]_vars

\* Every owed key is handed out in its turn, and every reconcile ends.
Fairness ==
    /\ \A k \in Keys : SF_vars(Begin(k))
    /\ WF_vars(Succeed \/ Fail)

FairSpec == Spec /\ Fairness
=============================================================================
