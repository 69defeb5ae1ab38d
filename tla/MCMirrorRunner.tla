--------------------------- MODULE MCMirrorRunner ---------------------------
(* TLC instances of MirrorRunner. *)
EXTENDS MirrorRunner

CONSTANTS n1, p1, p2

OneName == {n1}
OnePort == {p1}
TwoPorts == {p1, p2}
NotHeadless == {FALSE}
LiveBudget == [change |-> 2, fault |-> 1, crash |-> 1, tamper |-> 1]
ChangesOnly == [change |-> 2, fault |-> 0, crash |-> 0, tamper |-> 0]

\* The original that exists at the start may as well hold p1: renaming the
\* contents of a kind is a symmetry.  All else is left to changes and restarts.
LiveInit ==
    /\ Init
    /\ remote \in {Both(EmptyStore), [k \in Kinds |-> [n \in Names |-> [ports |-> p1, headless |-> FALSE]]]}
    /\ local = [k \in Kinds |-> IF k = "service" THEN remote[k] ELSE EmptyStore]
LiveSpec == LiveInit /\ [][Next]_vars /\ Fairness

\* The service and its endpoints are there and an earlier process mirrored both.
MirroredInit ==
    /\ Init
    /\ remote = [k \in Kinds |-> [n \in Names |-> [ports |-> p1, headless |-> FALSE]]]
    /\ local = remote
MirroredSpec == MirroredInit /\ [][Next]_vars /\ Fairness
=============================================================================
