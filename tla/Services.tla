------------------------------ MODULE Services ------------------------------
(***************************************************************************)
(* The components that share no state with the others, under one set of    *)
(* names: RootLease is extended, the others are instances.  MCServices     *)
(* runs them, ServicesProofs proves their properties.                      *)
(***************************************************************************)
EXTENDS RootLease, Sequences, FiniteSets

CONSTANTS
  Cockpit, MaxTalk, MaxFaults, MaxCrashes,        \* automations; two bounds of others too
  Worker, Capacity, MaxGen, MaxDestroys, MaxStrays,
  Proc, Gone, NoProc, NoFile,                     \* the lease by path of the automations
  Call, NoDir, MaxBeats,                          \* the calls of application updates
  Hook, MaxAttempts, MaxChanges, MaxSettings,        \* webhooks
  Watch, Limit                                    \* CI waits

VARIABLES
  kind, receipt, enabled, archived, due, lease, place, why, seen, back, flight, tasks,
  tries, stale, talk, faults, crashes,
  disk, mem, os, up, asks, failures, strays, losses,
  lock, guard, call, goal, fd, saw, again, gone, behind, mixed,
  dir, update, beat, taken, expected, lost, won, met, beats,
  changes, settings, dispatches, queues, sending, seqs, posted, error, edits,
  phase, aborted, active, queue

A == INSTANCE Automations WITH Proc <- Cockpit, at <- place
W == INSTANCE Workers WITH MaxAsks <- MaxDestroys, faults <- failures, crashes <- losses
P == INSTANCE PathLease WITH at <- call, dead <- gone
U == INSTANCE UpdateLock WITH at <- update, mine <- taken
N == INSTANCE Webhooks WITH Attempts <- MaxAttempts
S == INSTANCE CiSlots WITH Wait <- Watch

(* What the theorems about these components assume.                        *)
ASSUME ServicesFit ==
  S!SlotsAssumption /\ U!UpdatesAssumption /\ P!FilesAssumption /\ W!WorkersAssumption

-----------------------------------------------------------------------------
(* A due automation launches its task at most once, whichever process      *)
(* looks at it and whichever of them dies, but for the histories that      *)
(* stale stands for (Automations).                                         *)
OneTask == A!OneTask

(* The timer tries a schedule once, whatever becomes of the launch, until  *)
(* the user enables it again, with the same exception (Automations).       *)
TriedOnce == A!TriedOnce

(* A worker's worktree is never removed while a process of it is alive     *)
(* (Workers).                                                              *)
NobodyLosesAWorktree == W!NobodyLosesAWorktree

(* A worktree goes only when what it proved has been kept (Workers).       *)
EvidenceOutlivesTheWorktree == W!EvidenceOutlivesTheWorktree

(* The workers of a parent that hold resources fit its capacity (Workers). *)
CapacityBoundsResources == W!CapacityBoundsResources

(* One process holds the poll lock, although an abandoned one is removed   *)
(* by its path, and one at a time does that, but for the history that      *)
(* mixed stands for: a new guard with the inode of one that was removed is *)
(* taken for it (PathLease).                                               *)
OneHolder == P!OneHolder

(* Of two updates that overlapped only one is told it went well            *)
(* (UpdateLock).                                                           *)
OneUpdateWins == U!OneUpdateWins

(* A webhook hears of the changes in their order, numbered without gaps    *)
(* (Webhooks).                                                             *)
DeliveriesInOrder == N!DeliveriesInOrder

(* An abort at any moment loses no watcher's slot (CiSlots).               *)
NoSlotIsLost == S!NoSlotIsLost
=============================================================================
