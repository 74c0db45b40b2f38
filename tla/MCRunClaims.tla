----------------------------- MODULE MCRunClaims ----------------------------
(* RunClaims on one family: a root run and its worker, which the claims    *)
(* treat alike.                                                            *)
EXTENDS RunClaims, TLC

OneFamily == [r \in Runs |-> CHOOSE f \in Families : TRUE]
\* The cockpit writes once; the other process writes twice
Budget == [s \in Stores |-> IF s \in KeepLive THEN 1 ELSE 2]
Alike == Permutations(Runs)
=============================================================================
