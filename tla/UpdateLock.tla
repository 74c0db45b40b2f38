----------------------------- MODULE UpdateLock -----------------------------
(***************************************************************************)
(* application-update/lock.ts, withDirectoryLock(): a directory is the     *)
(* lock of an application update, its inode and mtime the identity, and a  *)
(* heartbeat that moves the mtime keeps it from looking stale.  Every      *)
(* await is a step.  A stale lock is removed by its path, so two callers   *)
(* that find the same one may remove a third's; the owner finds out when   *)
(* it next compares.  The beats of a live owner may come late (a suspended *)
(* machine), so any lock may look stale to whoever asks.                   *)
(***************************************************************************)
EXTENDS Integers, FiniteSets

CONSTANTS
  Call,      \* the calls of withDirectoryLock, in any process
  NoDir,
  MaxBeats   \* bound: the heartbeats

UpdatesAssumption == NoDir \notin Call

VARIABLES
  dir,       \* the directory at path: who made it, and its mtime
  at,        \* where each call is
  beat,      \* the calls whose heartbeat has compared and not yet touched
  mine,      \* acquired.ino: the maker of the directory the call takes for its own
  expected,  \* expectedMtime
  lost,      \* compromised
  won,       \* the calls whose operation ended with the lock still theirs
  met,       \* history: the pairs of calls whose operations overlapped and have not failed
  beats

vars == <<dir, at, beat, mine, expected, lost, won, met, beats>>

Time == 0..Cardinality(Call)

TypeOK ==
  /\ dir \in [by : Call \cup {NoDir}, mtime : Time] \cup {NoDir}
  /\ at \in [Call -> {"mkdir", "stat", "rmdir", "acquired", "operate", "finally", "over"}]
  /\ mine \in [Call -> Call \cup {NoDir}] /\ expected \in [Call -> Time]
  /\ beat \subseteq Call /\ lost \subseteq Call /\ won \subseteq Call
  /\ met \subseteq SUBSET Call /\ beats \in 0..MaxBeats

(* The directory of a process that died, or none.                          *)
Left == [by |-> NoDir, mtime |-> 0]

Init ==
  /\ dir \in {NoDir, Left} /\ at = [c \in Call |-> "mkdir"]
  /\ mine = [c \in Call |-> NoDir] /\ expected = [c \in Call |-> 0]
  /\ beat = {} /\ lost = {} /\ won = {} /\ met = {} /\ beats = 0

-----------------------------------------------------------------------------
Goes(c, to) == at' = [at EXCEPT ![c] = to]
Identity    == <<mine, expected>>
Ownership   == <<beat, lost, won, met, beats>>

(* The mtimes nobody expects; a new one is different from all of those.    *)
Unseen == CHOOSE t \in Time : \A c \in Call : expected[c] # t

\* Mutant of Owns: the identity of the directory is not compared
MutOwns(c) == c \notin lost /\ dir # NoDir

(* rawCheck(): inode and mtime are the expected ones.                      *)
Owns(c) == c \notin lost /\ dir # NoDir /\ dir.by = mine[c] /\ dir.mtime = expected[c]

(* The wait for the lock; a caller that gives up takes no further step.    *)
Mkdir(c) ==
  /\ at[c] = "mkdir"
  /\ IF dir = NoDir THEN dir' = [by |-> c, mtime |-> Unseen] /\ Goes(c, "acquired")
     ELSE UNCHANGED dir /\ Goes(c, "stat")
  /\ UNCHANGED <<Identity, Ownership>>

Stat(c) ==
  /\ at[c] = "stat"
  /\ \/ dir # NoDir /\ Goes(c, "rmdir")
     \/ Goes(c, "mkdir")
  /\ UNCHANGED <<dir, Identity, Ownership>>

Rmdir(c) ==
  /\ at[c] = "rmdir"
  /\ dir' = NoDir /\ Goes(c, "mkdir")
  /\ UNCHANGED <<Identity, Ownership>>

(* The identity is read from the path, after the mkdir.                    *)
Acquired(c) ==
  /\ at[c] = "acquired"
  /\ IF dir = NoDir THEN Goes(c, "over") /\ UNCHANGED <<Identity, met>>
     ELSE /\ mine' = [mine EXCEPT ![c] = dir.by]
          /\ expected' = [expected EXCEPT ![c] = dir.mtime]
          /\ met' = met \cup {{c, d} : d \in {d \in Call : at[d] = "operate"}}
          /\ Goes(c, "operate")
  /\ UNCHANGED <<dir, beat, lost, won, beats>>

(* The heartbeat: compare, then touch whatever is at the path.             *)
Compare(c) ==
  /\ at[c] \in {"operate", "finally"} /\ c \notin beat /\ beats < MaxBeats
  /\ beats' = beats + 1
  /\ IF Owns(c) THEN beat' = beat \cup {c} /\ UNCHANGED lost
     ELSE lost' = lost \cup {c} /\ UNCHANGED beat
  /\ UNCHANGED <<dir, at, Identity, won, met>>

Touch(c) ==
  /\ c \in beat /\ beat' = beat \ {c}
  /\ IF dir = NoDir THEN lost' = lost \cup {c} /\ UNCHANGED <<dir, expected>>
     ELSE /\ dir' = [dir EXCEPT !.mtime = Unseen]
          /\ expected' = [expected EXCEPT ![c] = Unseen] /\ UNCHANGED lost
  /\ UNCHANGED <<at, mine, won, met, beats>>

(* The operation fails, or succeeds and the lock is compared once more,    *)
(* when no heartbeat is under way.                                         *)
Failed(c) == met' = {pair \in met : c \notin pair} /\ UNCHANGED won

OperationFails(c) ==
  /\ at[c] = "operate" /\ Goes(c, "finally") /\ Failed(c)
  /\ UNCHANGED <<dir, Identity, beat, lost, beats>>

AssertOwned(c) ==
  /\ at[c] = "operate" /\ c \notin beat /\ Goes(c, "finally")
  /\ IF Owns(c) THEN won' = won \cup {c} /\ UNCHANGED <<lost, met>>
     ELSE lost' = lost \cup {c} /\ Failed(c)
  /\ UNCHANGED <<dir, beat, Identity, beats>>

(* finally: unless the loss was noticed, the directory at the path goes.   *)
Finally(c) ==
  /\ at[c] = "finally" /\ c \notin beat /\ Goes(c, "over")
  /\ dir' = IF c \in lost THEN dir ELSE NoDir
  /\ lost' = lost \ {c} /\ expected' = [expected EXCEPT ![c] = 0]
  /\ mine' = [mine EXCEPT ![c] = IF c \in won THEN @ ELSE NoDir]
  /\ UNCHANGED <<beat, won, met, beats>>

Next ==
  \E c \in Call :
    \/ Mkdir(c) \/ Stat(c) \/ Rmdir(c) \/ Acquired(c) \/ Compare(c) \/ Touch(c)
    \/ OperationFails(c) \/ AssertOwned(c) \/ Finally(c)

Spec == Init /\ [][Next]_vars

-----------------------------------------------------------------------------
(* A caller whose fresh directory was removed and made anew by another     *)
(* before it read the identity takes the other's for its own.              *)
Mistaken(c) == mine[c] \notin {c, NoDir}

(* Two updates that overlapped, since the lock of one was removed as stale *)
(* or with another's, are never both committed: one is told that its       *)
(* ownership changed; but for callers that are mistaken.                   *)
OneUpdateWins ==
  \A c, d \in won : c # d /\ {c, d} \in met => Mistaken(c) \/ Mistaken(d)
=============================================================================
