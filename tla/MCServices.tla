----------------------------- MODULE MCServices -----------------------------
(***************************************************************************)
(* Small instances of eight components that share no state, for one run:   *)
(* the initial state chooses the component (part) whose steps are taken,   *)
(* and the others stay as they begin.  Every behaviour is a behaviour of   *)
(* one of them, and every behaviour of each of them is one of this module. *)
(***************************************************************************)
EXTENDS Services

CONSTANTS p1, p2, NoClaim   \* the home lock: its processes

VARIABLES
  part,   \* the component that runs
  who,    \* the lock call, lease holder or worker whose end is asked for
  pc, claim, ticket, todo, dead, reused, held

\* A process of two calls, nested or in turn, and a second process; the token
\* of the first is unreadable.
Calls == 1..3
H == INSTANCE HomeLock WITH
       Call <- Calls, Proc <- {p1, p2}, Unconfirmed <- {p1},
       Owner <- [c \in Calls |-> IF c = 2 THEN p2 ELSE p1]

locks == <<pc, claim, ticket, todo, dead, reused, held>>
keys  == <<kind, receipt, enabled, archived, due, lease, place, why, seen, back, flight,
           tasks, tries, stale, talk, faults, crashes>>
trees == <<disk, mem, os, up, asks, failures, strays, losses>>
files == <<lock, guard, call, goal, fd, saw, again, gone, behind, mixed>>
dirs  == <<dir, update, beat, taken, expected, lost, won, met, beats>>
hooks == <<changes, settings, dispatches, queues, sending, seqs, posted, error, edits>>
slots == <<phase, aborted, active, queue>>

(* The components that do not run begin in one state, not in each of theirs. *)
SInit ==
  /\ Init /\ H!Init /\ A!Init /\ W!Init /\ P!Init /\ U!Init /\ N!Init /\ S!Init
  /\ \/ part = "root lease" /\ who = CHOOSE r \in Run : TRUE
     \/ part = "home lock" /\ who \in Calls
     \/ part = "workers" /\ who = CHOOSE w \in Worker : TRUE
     \/ part \in {"automations", "path lease", "update", "webhooks", "slots"} /\ who = "nobody"
  /\ part # "path lease" => lock = NoFile /\ guard = NoFile
  /\ part # "automations" => kind = "once"
  /\ part # "update" => dir = NoDir

(* One component takes a step of its own.                                  *)
Lease    == part = "root lease"  /\ Next
HomeLock == part = "home lock"   /\ H!Next
Keys     == part = "automations" /\ A!Next
Trees    == part = "workers"     /\ W!Next
Files    == part = "path lease"  /\ P!Next
Updates  == part = "update"      /\ U!Next
Hooks    == part = "webhooks"    /\ N!Next
Slots    == part = "slots"       /\ S!Next

SNext ==
  /\ UNCHANGED <<part, who>>
  /\ \/ Lease    /\ UNCHANGED <<locks, keys, trees, files, dirs, hooks, slots>>
     \/ HomeLock /\ UNCHANGED <<vars, keys, trees, files, dirs, hooks, slots>>
     \/ Keys     /\ UNCHANGED <<vars, locks, trees, files, dirs, hooks, slots>>
     \/ Trees    /\ UNCHANGED <<vars, locks, keys, files, dirs, hooks, slots>>
     \/ Files    /\ UNCHANGED <<vars, locks, keys, trees, dirs, hooks, slots>>
     \/ Updates  /\ UNCHANGED <<vars, locks, keys, trees, files, hooks, slots>>
     \/ Hooks    /\ UNCHANGED <<vars, locks, keys, trees, files, dirs, slots>>
     \/ Slots    /\ UNCHANGED <<vars, locks, keys, trees, files, dirs, hooks>>

(* The fairness of each component, of its own steps.                       *)
Fairness ==
  /\ WF_vars(part = "root lease" /\ PassOn)
  /\ \A r \in Run : /\ WF_vars(part = "root lease" /\ Return(r))
                   /\ WF_vars(part = "root lease" /\ Drop(r))
  /\ \A c \in Calls : /\ WF_locks(part = "home lock" /\ H!Progress(c))
                     /\ SF_locks(part = "home lock" /\ H!Expire(c))
  /\ WF_keys(part = "automations" /\ A!Tick)
  /\ SF_keys(part = "automations" /\ \E p \in Cockpit : A!Fire(p))
  /\ \A p \in Cockpit : /\ WF_keys(part = "automations" /\ A!Step(p))
                        /\ WF_keys(part = "automations" /\ A!Boot(p))
  /\ WF_trees(part = "workers" /\ W!Restart)
  /\ \A w \in Worker :
       /\ WF_trees(part = "workers" /\ up /\ UNCHANGED up /\ W!Engine(w))
       /\ WF_trees(part = "workers" /\ up /\ UNCHANGED up /\ W!Cleanup(w))
       /\ WF_trees(part = "workers" /\ UNCHANGED up /\ W!Leave(w))

SSpec ==
  SInit /\ [][SNext]_<<part, who, vars, locks, keys, trees, files, dirs, hooks, slots>> /\ Fairness

-----------------------------------------------------------------------------
(* What each component has begun and must bring to its end: a call of the  *)
(* home lock, a wait for the repository root, the archive of a once        *)
(* automation that has launched its task, the destroy of a worker.         *)
Begun ==
  \/ part = "home lock"   /\ pc[who] \in H!Active
  \/ part = "root lease"  /\ at[who] = "waiting"
  \/ part = "automations" /\ A!HasTask
  \/ part = "workers"     /\ W!DestroyBegun(who)

Ended ==
  \/ part = "home lock"   /\ pc[who] \in H!Stopped
  \/ part = "root lease"  /\ at[who] # "waiting"
  \/ part = "automations" /\ A!Archived
  \/ part = "workers"     /\ W!DestroyEnded(who)

(* Whatever is begun ends, whoever dies and whatever fails on the way:     *)
(* CallsEnd of HomeLock, WaitsEnd of RootLease, TasksAreArchived of        *)
(* Automations and DestroysEnd of Workers in one.                          *)
EverythingEnds == Begun ~> Ended
=============================================================================
