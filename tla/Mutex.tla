------------------------------- MODULE Mutex --------------------------------
(* What a lock promises: at most one process holds it, a process takes it  *)
(* only when nobody holds it, and gives it back by releasing it or dying.  *)
CONSTANT Proc
VARIABLE holders

Init == holders = {}

Take(p) ==
  /\ holders = {}
  /\ holders' = {p}

Give(p) ==
  /\ p \in holders
  /\ holders' = holders \ {p}

Next == \E p \in Proc : Take(p) \/ Give(p)

Spec == Init /\ [][Next]_holders
=============================================================================
