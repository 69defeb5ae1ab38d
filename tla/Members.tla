------------------------------ MODULE Members -------------------------------
(***************************************************************************)
(* What GlobalServiceStore promises for one global name: a set of clusters *)
(* that each cluster's runner joins and leaves on its own.                 *)
(***************************************************************************)
CONSTANT Clusters
VARIABLE members

Init == members = {}
Join(c) == members' = members \cup {c}
Leave(c) == members' = members \ {c}
Next == \E c \in Clusters : Join(c) \/ Leave(c)
Spec == Init /\ [][Next]_members
=============================================================================
