------------------------ MODULE MCGlobalServiceStore ------------------------
(* TLC instances of GlobalServiceStore. *)
EXTENDS GlobalServiceStore

CONSTANTS a, b, c3, o1, o2, o3, o4
TwoClusters == {a, b}
ThreeClusters == {a, b, c3}
FourObjects == {o1, o2, o3, o4}

\* Once a window is hit the properties of this run say nothing more, and `raced'
\* is never reset: the states that follow need not be explored.
Unraced == ~raced
=============================================================================
