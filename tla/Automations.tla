---------------------------- MODULE Automations -----------------------------
(***************************************************************************)
(* automations/schedule-runner.ts, scheduler.ts, store.ts, service.ts,     *)
(* task-template.ts and server/automation-log-retry.ts: one receipt key of *)
(* an automation, that of a one-time schedule or of one GitHub event, and  *)
(* the task it may launch, shared by the cockpits open on a project.       *)
(*                                                                         *)
(* receipt is the status of the key's latest row in the receipts file.     *)
(* What a cockpit does under the project's lease it does in steps, each of *)
(* which ends in a durable write or an await, and may die between any two. *)
(* The lease of a dead process counts as free (see PathLease).  A launch   *)
(* that outlives the lease's ten minutes, edits of the definition and the  *)
(* late-start cutoff are left out.                                         *)
(***************************************************************************)
EXTENDS Integers, FiniteSets

CONSTANTS
  Proc,        \* the cockpits
  MaxTalk,     \* bound: the actions of the user
  MaxFaults,   \* bound: the writes of a receipt that fail
  MaxCrashes   \* bound: the crashes

VARIABLES
  kind,      \* what the key stands for: "once" or "event"
  receipt,   \* status of the latest receipt
  enabled,   \* definition.enabled
  archived,  \* definition.archived: "no" or its outcome
  due,       \* the schedule's instant has passed
  lease,     \* the cockpits that hold the project's lease
  at,        \* where each cockpit is in what it does
  why,       \* on whose behalf
  seen,      \* what a reconciliation found: a run with the receipt, or none
  back,      \* where each cockpit goes on after its reconciliation
  flight,    \* inFlightReservations: the cockpits whose launch is under way
  tasks,     \* the runs that carry the receipt
  tries,     \* launches by the timer since the user last enabled the schedule
  stale,     \* history, see WritesOff, Reserve and Misjudge
  talk, faults, crashes

definition == <<enabled, archived, due>>
history    == <<tasks, tries, stale>>
bounds     == <<talk, faults, crashes>>
vars == <<kind, receipt, definition, lease, at, why, back, seen, flight, history, bounds>>

Places == {"dead", "boot", "idle", "asked", "settle", "judged", "stopped", "settled",
           "run", "launch", "started", "failed", "failing", "released", "archive"}
Reasons == {"fire", "now", "retry", "enable", "pause", "cancel", "check"}

TypeOK ==
  /\ kind \in {"once", "event"}
  /\ receipt \in {"none", "reserved", "launched", "launch-error", "released"}
  /\ enabled \in BOOLEAN /\ archived \in {"no", "launched", "cancelled"} /\ due \in BOOLEAN
  /\ lease \subseteq Proc /\ flight \subseteq Proc /\ seen \in [Proc -> {"run", "lost", "old"}]
  /\ at \in [Proc -> Places] /\ back \in [Proc -> Places] /\ why \in [Proc -> Reasons]
  /\ tasks \in Nat /\ tries \in Nat /\ stale \in BOOLEAN
  /\ talk \in 0..MaxTalk /\ faults \in 0..MaxFaults /\ crashes \in 0..MaxCrashes

Init ==
  /\ kind \in {"once", "event"}
  /\ receipt = "none" /\ enabled = TRUE /\ archived = "no" /\ due = FALSE
  /\ lease = {} /\ flight = {} /\ seen = [p \in Proc |-> "old"]
  /\ at = [p \in Proc |-> "idle"] /\ back = at
  /\ why = [p \in Proc |-> "fire"]
  /\ tasks = 0 /\ tries = 0 /\ stale = FALSE
  /\ talk = 0 /\ faults = 0 /\ crashes = 0

-----------------------------------------------------------------------------
Goes(p, to) == at' = [at EXCEPT ![p] = to]
Ends(p)     == Goes(p, "idle") /\ lease' = lease \ {p}
Writes(ok)  == faults' = (IF ok THEN faults ELSE faults + 1) /\ faults' <= MaxFaults
               /\ UNCHANGED <<talk, crashes>>

(* underLease(), underOnceLease(), check(): the lease is free or refused.  *)
Takes(p, reason, to) ==
  /\ at[p] \in {"idle", "asked"} /\ lease = {}
  /\ lease' = {p} /\ Goes(p, to) /\ why' = [why EXCEPT ![p] = reason]
  /\ UNCHANGED <<kind, receipt, definition, back, seen, flight, history>>

Talks == talk < MaxTalk /\ talk' = talk + 1 /\ UNCHANGED <<faults, crashes>>

(* The timer of an enabled schedule, or of a poll that sees the event.     *)
Fire(p)  == kind = "once" /\ due /\ enabled /\ Takes(p, "fire", "settle") /\ UNCHANGED bounds
Check(p) == kind = "event" /\ Takes(p, "check", "run") /\ UNCHANGED bounds

(* Run now; enable, pause and cancel settle first.                         *)
RunNow(p) == kind = "once" /\ archived = "no" /\ Takes(p, "now", "run") /\ Talks
Command(p, reason) ==
  kind = "once" /\ Takes(p, reason, "settle") /\ Talks

(* Retry reads the receipt before it asks for the lease.                   *)
AskRetry(p) ==
  /\ at[p] = "idle" /\ receipt = "launch-error"
  /\ Goes(p, "asked") /\ Talks
  /\ UNCHANGED <<kind, receipt, definition, lease, why, back, seen, flight, history>>

Retry(p) == at[p] = "asked" /\ Takes(p, "retry", "run") /\ UNCHANGED bounds

RefuseRetry(p) ==
  /\ at[p] = "asked" /\ lease # {}
  /\ Goes(p, "idle")
  /\ UNCHANGED <<kind, receipt, definition, lease, why, back, seen, flight, history, bounds>>

-----------------------------------------------------------------------------
\* Mutant of Leftover: this process's own launch is not told apart
MutLeftover(p) == receipt = "reserved"

(* reconcileAutomationReceipts(): at boot without the lease, under it by   *)
(* settleOnce() and runOnce(), and by the context that a launch builds.    *)
(* First it reads the receipts and looks for runs that carry them.         *)
Leftover(p) == receipt = "reserved" /\ p \notin flight

LooksAgain(p) == kind = "once" /\ why[p] # "retry"

Judge(p) ==
  /\ at[p] \in {"boot", "settle", "run", "launch"} /\ Leftover(p)
  /\ at[p] = "run" => LooksAgain(p)
  /\ seen' = [seen EXCEPT ![p] = IF tasks > 0 THEN "run" ELSE "lost"]
  /\ back' = [back EXCEPT ![p] = CASE at[p] = "boot" -> "idle" [] at[p] = "settle" -> "settled"
                                   [] OTHER -> at[p]]
  /\ Goes(p, "judged")
  /\ UNCHANGED <<kind, receipt, definition, lease, why, flight, history, bounds>>

Skip(p) ==
  /\ at[p] \in {"boot", "settle"} /\ ~Leftover(p)
  /\ Goes(p, IF at[p] = "boot" THEN "idle" ELSE "settled")
  /\ UNCHANGED <<kind, receipt, definition, lease, why, back, seen, flight, history, bounds>>

(* A row that p writes: what others have found is no longer of the last    *)
(* reservation (history, to say when a launch is written off wrongly).     *)
Aged(p) == [q \in Proc |-> IF q # p /\ seen[q] = "lost" THEN "old" ELSE seen[q]]

(* appendReceipt() of a settling status ends the flight even if it fails;   *)
(* the error of a failed write ends what the cockpit was about.            *)
Settles(p, status, to, ok) ==
  /\ Writes(ok)
  /\ flight' = flight \ {p}
  /\ receipt' = IF ok THEN status ELSE receipt
  /\ seen' = IF ok THEN Aged(p) ELSE seen
  /\ IF ok /\ to # "idle" THEN Goes(p, to) /\ UNCHANGED lease ELSE Ends(p)
  /\ UNCHANGED <<kind, definition, why, back>>

(* A launch is written off while it is still under way elsewhere, after it *)
(* has made its task, or by one who has read an earlier reservation.       *)
WritesOff(p) == seen[p] = "old" \/ (seen[p] = "lost" /\ (tasks > 0 \/ flight \ {p} # {}))

\* Mutant of Stop: the definition stays enabled
MutStop(p) ==
  /\ at[p] \in {"judged", "failed"}
  /\ Goes(p, IF at[p] = "judged" THEN "stopped" ELSE "failing")
  /\ UNCHANGED <<kind, receipt, definition, lease, why, back, seen, flight, history, bounds>>

(* stopOnceSchedule() comes before the receipt of a lost or failed launch. *)
Stop(p) ==
  /\ \/ at[p] = "judged" /\ seen[p] # "run" /\ Goes(p, "stopped")
     \/ at[p] = "failed" /\ Goes(p, "failing")
  /\ enabled' = (enabled /\ kind # "once")
  /\ stale' = (stale \/ (at[p] = "judged" /\ WritesOff(p)))
  /\ UNCHANGED <<kind, receipt, archived, due, lease, why, back, seen, flight, tasks, tries, bounds>>

Reconcile(p, ok) ==
  /\ at[p] = "stopped" \/ (at[p] = "judged" /\ seen[p] = "run")
  /\ Settles(p, IF seen[p] = "run" THEN "launched" ELSE "launch-error", back[p], ok)
  /\ stale' = (stale \/ WritesOff(p))
  /\ UNCHANGED <<tasks, tries>>

-----------------------------------------------------------------------------
(* healArchive() and archive(): the first archive stands.                  *)
Archives(outcome) ==
  /\ archived' = IF archived = "no" THEN outcome ELSE archived
  /\ enabled' = FALSE /\ UNCHANGED due

Healed == receipt = "launched" /\ kind = "once"

Heal(p) ==
  /\ at[p] \in {"settled", "run"} /\ Healed
  /\ Archives("launched") /\ Ends(p)
  /\ UNCHANGED <<kind, receipt, why, back, seen, flight, history, bounds>>

Refused(p) ==
  \/ archived # "no"
  \/ at[p] = "settled" /\ why[p] = "fire" /\ ~enabled
  \/ at[p] = "settled" /\ why[p] = "enable" /\ due

Refuse(p) ==
  /\ at[p] \in {"settled", "run"} /\ ~Healed /\ Refused(p)
  /\ Ends(p)
  /\ UNCHANGED <<kind, receipt, definition, why, back, seen, flight, history, bounds>>

(* fireOnce() goes on to the launch; a command writes the definition.      *)
GoOn(p) ==
  /\ at[p] = "settled" /\ why[p] = "fire" /\ ~Healed /\ ~Refused(p)
  /\ Goes(p, "run")
  /\ UNCHANGED <<kind, receipt, definition, lease, why, back, seen, flight, history, bounds>>

Obey(p) ==
  /\ at[p] = "settled" /\ why[p] # "fire" /\ ~Healed /\ ~Refused(p)
  /\ IF why[p] = "cancel" THEN Archives("cancelled") /\ UNCHANGED tries
     ELSE /\ enabled' = (why[p] = "enable") /\ UNCHANGED <<archived, due>>
          /\ tries' = IF why[p] = "enable" THEN 0 ELSE tries
  /\ Ends(p)
  /\ UNCHANGED <<kind, receipt, why, back, seen, flight, tasks, stale, bounds>>

(* runOnce(), retry() and reserveReceipt(): which statuses may be launched. *)
(* Only the retry of an event does not look again under the lease, and     *)
(* when its row cannot be written (automation-log-retry.ts:68) it keeps it. *)
MayReserve(p) ==
  CASE why[p] = "check" -> receipt \in {"none", "released"}
    [] why[p] = "retry" -> receipt = "launch-error" \/ kind = "event"
    [] OTHER -> receipt \in {"none", "launch-error"}

Keeps(p) == why[p] = "retry" /\ kind = "event"

Reserve(p, ok) ==
  /\ at[p] = "run" /\ ~Healed /\ ~Refused(p) /\ MayReserve(p)
  /\ Writes(ok)
  /\ IF ok THEN /\ receipt' = "reserved" /\ flight' = flight \cup {p}
                /\ seen' = Aged(p) /\ Goes(p, "launch") /\ UNCHANGED lease
     ELSE /\ IF Keeps(p) THEN Goes(p, "idle") /\ UNCHANGED lease ELSE Ends(p)
          /\ UNCHANGED <<receipt, flight, seen>>
  /\ stale' = (stale \/ (why[p] = "retry" /\ receipt # "launch-error"))
  /\ UNCHANGED <<kind, definition, why, back, tasks, tries>>

Duplicate(p) ==
  /\ at[p] = "run" /\ ~Healed /\ ~Refused(p) /\ ~MayReserve(p)
  /\ ~(Leftover(p) /\ LooksAgain(p))
  /\ Ends(p)
  /\ UNCHANGED <<kind, receipt, definition, why, back, seen, flight, history, bounds>>

-----------------------------------------------------------------------------
(* The awaited launch: it makes the run that carries the receipt, it fails, *)
(* or an event's item no longer matches.                                   *)
Launch(p) ==
  /\ at[p] = "launch"
  /\ tasks' = tasks + 1
  /\ tries' = IF why[p] = "fire" THEN tries + 1 ELSE tries
  /\ Goes(p, "started")
  /\ UNCHANGED <<kind, receipt, definition, lease, why, back, seen, flight, stale, bounds>>

LaunchFails(p) ==
  /\ at[p] = "launch"
  /\ tries' = IF why[p] = "fire" THEN tries + 1 ELSE tries
  /\ \/ Goes(p, "failed")
     \/ kind = "event" /\ Goes(p, "released")
  /\ UNCHANGED <<kind, receipt, definition, lease, why, back, seen, flight, tasks, stale, bounds>>

Launched(p, ok) ==
  /\ at[p] = "started" /\ (kind = "event" => ok)
  /\ Settles(p, "launched", IF kind = "once" THEN "archive" ELSE "idle", ok)
  /\ UNCHANGED history

(* What fails after an event's launch, the write of its receipt or of a    *)
(* check's log row, is caught as if the launch itself had failed.          *)
Misjudge(p) ==
  /\ at[p] = "started" /\ kind = "event" /\ Writes(FALSE)
  /\ Goes(p, "failing") /\ flight' = flight \ {p} /\ stale' = TRUE
  /\ \/ UNCHANGED <<receipt, seen>>
     \/ why[p] = "check" /\ receipt' = "launched" /\ seen' = Aged(p)
  /\ UNCHANGED <<kind, definition, lease, why, back, tasks, tries>>

Failed(p, ok) ==
  /\ \/ at[p] = "failing" /\ Settles(p, "launch-error", "idle", ok)
     \/ at[p] = "released" /\ Settles(p, "released", "idle", ok)
  /\ UNCHANGED history

(* The receipt first, the archive second.                                  *)
Archive(p) ==
  /\ at[p] = "archive"
  /\ Archives("launched") /\ Ends(p)
  /\ UNCHANGED <<kind, receipt, why, back, seen, flight, history, bounds>>

-----------------------------------------------------------------------------
Crash(p) ==
  /\ at[p] # "dead" /\ crashes < MaxCrashes
  /\ Goes(p, "dead") /\ lease' = lease \ {p} /\ flight' = flight \ {p}
  /\ crashes' = crashes + 1
  /\ UNCHANGED <<kind, receipt, definition, why, back, seen, history, talk, faults>>

Boot(p) ==
  /\ at[p] = "dead" /\ Goes(p, "boot")
  /\ UNCHANGED <<kind, receipt, definition, lease, why, back, seen, flight, history, bounds>>

(* A lease that nobody will release is free after ten minutes.             *)
Expire ==
  /\ \E p \in lease : at[p] \in {"idle", "asked"}
  /\ lease' = {}
  /\ UNCHANGED <<kind, receipt, definition, at, why, back, seen, flight, history, bounds>>

(* The instant of the schedule passes.                                     *)
Tick ==
  /\ kind = "once" /\ ~due /\ due' = TRUE
  /\ UNCHANGED <<kind, receipt, enabled, archived, lease, at, why, back, seen, flight, history, bounds>>

Step(p) ==
  \/ Judge(p) \/ Skip(p) \/ Stop(p) \/ Heal(p) \/ Refuse(p) \/ GoOn(p) \/ Obey(p)
  \/ Duplicate(p) \/ Launch(p) \/ LaunchFails(p) \/ Misjudge(p) \/ Archive(p)
  \/ Retry(p) \/ RefuseRetry(p)
  \/ \E ok \in BOOLEAN :
       Reconcile(p, ok) \/ Reserve(p, ok) \/ Launched(p, ok) \/ Failed(p, ok)

User(p) ==
  \/ RunNow(p) \/ AskRetry(p) \/ \E reason \in {"enable", "pause", "cancel"} : Command(p, reason)

Next ==
  \/ \E p \in Proc : Fire(p) \/ Check(p) \/ Step(p) \/ User(p) \/ Crash(p) \/ Boot(p)
  \/ Tick \/ Expire

Spec == Init /\ [][Next]_vars

(* A cockpit goes on with what it has begun, a dead one is started again,  *)
(* and the timer of a due schedule comes round in some cockpit.            *)
FairSpec ==
  /\ Spec /\ WF_vars(Tick)
  /\ \A p \in Proc : WF_vars(Step(p)) /\ WF_vars(Boot(p))
  /\ SF_vars(\E p \in Proc : Fire(p))

-----------------------------------------------------------------------------
(* schedule-runner.ts:250: "one key, at most one task", over crashes,      *)
(* failed writes, retries and any number of cockpits, and service.ts:411:  *)
(* "Cancelled always means no task was created"; unless a launch that was  *)
(* alive in another cockpit, or had made its task, was written off as lost. *)
OneTask == ~stale => tasks <= 1 /\ (archived = "cancelled" => tasks = 0)

(* "Failed, which has no automatic exit": the timer tries a schedule once, *)
(* whatever becomes of the launch, until the user enables it again, with   *)
(* the same exception.                                                     *)
TriedOnce == ~stale => tries <= 1

(* The archive invariant: an enabled schedule that has made its task is    *)
(* archived in the end, whatever write failed and whoever died, with the   *)
(* same exception.                                                         *)
HasTask  == kind = "once" /\ enabled /\ tasks > 0
Archived == archived # "no" \/ stale
TasksAreArchived == HasTask ~> Archived
=============================================================================
