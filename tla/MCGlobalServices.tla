-------------------------- MODULE MCGlobalServices --------------------------
(* TLC instances of GlobalServices. *)
EXTENDS GlobalServices, TLC

CONSTANTS a, b, p1, p2
TwoClusters == {a, b}
OnePort == {p1}
TwoPorts == {p1, p2}
Offer(p, hints, headless) == [ports |-> p, hints |-> hints, headless |-> headless]
OneService == {Offer(p1, FALSE, FALSE)}
\* Two services that differ in what is fungible, and two that differ in kind.
FungibleServices == {Offer(p1, FALSE, FALSE), Offer(p2, TRUE, FALSE)}
AnyKind == {Offer(p1, FALSE, FALSE), Offer(p1, FALSE, TRUE)}
Symmetry == Permutations(Clusters)

SafetyBudget == [change |-> 2, fault |-> 1, crash |-> 1]
ChangesOnly == [change |-> 2, fault |-> 0, crash |-> 0]

\* Renaming the two services or the clusters is a symmetry: the one that is there
\* at the start may as well be in a, with p1.  A change can set b apart from a.
LiveInit == Init /\ remote[a] # None /\ remote[a].ports = p1 /\ remote[b] \in {None, remote[a]}
LiveSpec == LiveInit /\ [][Next]_vars /\ Fairness
=============================================================================
