-------------------------- MODULE MCEndpointSlices --------------------------
(* TLC instances of EndpointSlices. *)
EXTENDS EndpointSlices, TLC

CONSTANTS L, R, p1

Two == {L, R}
Slice(c, n) == [cluster |-> c, namespace |-> "ns", name |-> n]
\* `web' is in both clusters, the other two names are not.
Shared == {Slice(L, "web"), Slice(R, "web"), Slice(R, "api")}
Lonely == {Slice(L, "db"), Slice(R, "api")}
OneContent == {p1}
SliceBudget == [change |-> 1, fault |-> 1, crash |-> 1]
NoBudget == [change |-> 0, fault |-> 0, crash |-> 0]

LiveInit == Init /\ (\A n \in Mirrors : local[n] = None) /\ (\A s \in Sources : remote[s] # Unlabelled)
LiveSpec == LiveInit /\ [][Next]_vars /\ Fairness
=============================================================================
