----------------------------- MODULE MCHomeStore ----------------------------
(* HomeStore on one file, which is a registry or any other kind of file    *)
(* for good, with two history variables about resets.                      *)
EXTENDS HomeStore

VARIABLES
  file,     \* what the file is: "registry" or "lock"
  emptied,  \* the empty registries that were put in place of a full one, or of
            \* an empty one that had been
  owed      \* the registry that was emptied last and not yet given back or given up

(* A registry holds registries and is never deleted by a caller; a lock or *)
(* a grant comes and goes and is never a registry.                         *)
Contents == IF file = "registry" THEN Full \cup Empty ELSE Opaque
Callers == IF file = "registry" THEN Contents ELSE Contents \cup {Absent}

Fits == live \in Contents \cup {Absent}

HInit ==
  /\ Init /\ emptied = {} /\ owed = None
  /\ file \in {"registry", "lock"} /\ Fits

Replaces == ReplaceLive /\ tx.next \in Empty
Empties  == Replaces /\ tx.prev \in Full

HNext ==
  /\ UNCHANGED file
  /\ Next
  /\ Fits'
  /\ (at = "idle" /\ tx'.op \in {"write", "create"}) =>
       tx'.next \in Callers /\ tx'.base \in Contents \cup {Absent, None}
  /\ emptied' = IF Replaces /\ tx.prev \in Full \cup emptied THEN emptied \cup {tx.next}
                ELSE IF Flag /\ tx.op = "demand" THEN emptied \cup {tx.prev}
                ELSE emptied
  /\ owed' = IF Empties /\ tx.op = "write" /\ owed = None THEN tx.prev
             ELSE IF ClearReset \/ (ReplaceLive /\ tx.op # "write") THEN None
             ELSE owed

HSpec == HInit /\ [][HNext]_<<vars, emptied, owed, file>>

(* "A crash before replacement must not turn an unchanged registry into a  *)
(* reset": a reset that counts names an empty registry that did come in    *)
(* place of a full one, at once or over another empty one, or that stands  *)
(* beside a backup of a full one.                                          *)
ResetsAreReal ==
  (outsiders = 0 /\ Effective) => reset.observed \in emptied

(* A write that empties a registry leaves a reset behind that counts, or   *)
(* will count after the next inspect, whatever crashed in between.         *)
EmptyingIsFlagged ==
  (outsiders = 0 /\ owed # None) =>
    /\ reset # None
    /\ Effective \/ (pending = reset.observed /\ live = pending)
=============================================================================
