--------------------------- MODULE HomeLockOrder ----------------------------
(* HomeLock with a history variable, to state in which order the lock      *)
(* serves its callers.                                                     *)
EXTENDS HomeLock

(* ahead[c]: the calls whose tickets were published when c listed its      *)
(* peers to choose its own.                                                *)
VARIABLE ahead

Ticketed == {c \in Call : pc[c] \in Waiting \cup {"operate"}}

HInit == Init /\ ahead = [c \in Call |-> {}]

HNext ==
  /\ Next
  /\ ahead' = [c \in Call |-> IF pc[c] = "list" /\ pc'[c] = "read"
                              THEN Ticketed ELSE ahead[c]]

HSpec == HInit /\ [][HNext]_<<vars, ahead>>

(* First come, first served: a call that finds a ticket already published  *)
(* enters its operation only after the owner of that ticket has come and   *)
(* gone.  The order of the names, which is arbitrary, settles only races.  *)
FirstComeFirstServed ==
  \A c \in Call : pc[c] = "operate" =>
    \A d \in ahead[c] : d \notin Ticketed \/ ~Confirmed(d) \/ ~Confirmed(c)
=============================================================================
