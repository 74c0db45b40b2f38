----------------------------- MODULE MCHomeLock -----------------------------
(* A small instance of HomeLock, with its history, for TLC.                *)
EXTENDS HomeLockOrder

CONSTANTS p1, p2, p3

\* Three processes compete with one call each
ThreeCalls == 1..3
OneEach == [c \in ThreeCalls |-> CASE c = 1 -> p1 [] c = 2 -> p2 [] c = 3 -> p3]
=============================================================================
