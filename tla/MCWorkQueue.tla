---------------------------- MODULE MCWorkQueue -----------------------------
(* TLC instance of WorkQueue. *)
EXTENDS WorkQueue

CONSTANTS k1, k2, k3
ThreeKeys == {k1, k2, k3}
=============================================================================
