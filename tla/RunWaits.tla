------------------------------ MODULE RunWaits ------------------------------
(***************************************************************************)
(* workflows/run/wait-registry.ts, wait-watches.ts, wake-admission.ts,     *)
(* wake-retries.ts, input-delivery.ts and turn-settler.ts: the waits of one *)
(* run, from the agent's registration to the acknowledged delivery of the  *)
(* result, on the commits of runs/store.ts and runs/outcome-commit.ts.     *)
(*                                                                         *)
(* run.disk is the record in the database.  A commit writes the whole      *)
(* record; a move of the status stays in memory until a save or the next   *)
(* commit.  A refused commit changes nothing and throws, or, when it is    *)
(* best-effort, changes the memory alone.  A handler is a composition of   *)
(* operators on the record, and what it cannot know is its parameters:     *)
(* whether the runner accepts what is sent to it (sent) and whether the    *)
(* database takes the commit (ok).                                         *)
(*                                                                         *)
(* The run is an ordinary task with pull-request waits and waits that      *)
(* charge the budget of automatic wakes (timers, processes); messages of a *)
(* family and usage limits are left out, and the agent's own question is.  *)
(***************************************************************************)
EXTENDS Integers, FiniteSets

CONSTANTS
  Wait,         \* the waits the agent may register
  Charging,     \* those whose wake charges the budget (chargesBudget)
  MaxWakes,     \* MAX_AUTO_CONTINUES
  MaxAttempts,  \* MAX_WAKE_DELIVERY_ATTEMPTS
  LateAck,      \* the runner may acknowledge an input after the turn it opened
  MaxFaults,    \* bound: the commits the database refuses
  MaxRestarts,  \* bound: the restarts of the process
  MaxTalk       \* bound: the messages of the user

ASSUME RunWaitsAssumption ==
  /\ IsFiniteSet(Wait) /\ Charging \subseteq Wait
  /\ MaxWakes \in Nat \ {0} /\ MaxAttempts \in Nat \ {0}
  /\ LateAck \in BOOLEAN
  /\ MaxFaults \in Nat /\ MaxRestarts \in Nat /\ MaxTalk \in Nat

VARIABLES
  run,       \* the record in memory, what the manager keeps beside it, and disk
  faults, restarts, talk

vars == <<run, faults, restarts, talk>>

Phases   == {"none", "open", "resolved", "delivered", "cancelled"}
Statuses == {"running", "waiting", "queued", "failed", "cancelled", "done"}
\* dead: closed by itself, idle: by the idle timer, done: after cezar_done.
Sessions == {"none", "turn", "boundary", "dead", "idle", "done"}
\* restart: the continuation recovery queues for an interrupted turn, no wake.
Lines    == {"none", "wake", "reopen", "restart"}

Record == [status : Statuses, wait : [Wait -> Phases], wakes : 0..MaxWakes,
           failures : 0..(MaxAttempts - 1), asked : BOOLEAN, charged : 0..MaxWakes]
\* charged counts the delivered batches that owe a charge (it is not in the code).
Stored(t) == [status |-> t.status, wait |-> t.wait, wakes |-> t.wakes,
              failures |-> t.failures, asked |-> t.asked, charged |-> t.charged]

\* agentInputFlight: the waits of the batch, wakeReserved, admittedWake.
Flight   == [on : BOOLEAN, ids : SUBSET Wait, reserved : BOOLEAN]
NoFlight == [on |-> FALSE, ids |-> {}, reserved |-> FALSE]

\* What a restart loses.  Two fields are not in the code: torn, a cancellation
\* was refused; late, the last receipt came at the boundary.
Forgotten ==
  [session |-> "none", stopping |-> FALSE, line |-> "none", admitted |-> FALSE,
   pool |-> FALSE, parked |-> FALSE, flight |-> NoFlight, fault |-> FALSE,
   retry |-> FALSE, backoff |-> FALSE, watch |-> {}, held |-> {},
   torn |-> FALSE, late |-> FALSE]

Recorded(r, memory) ==
  [f \in DOMAIN r \cup DOMAIN memory \cup {"disk"} |->
     IF f = "disk" THEN r ELSE IF f \in DOMAIN r THEN r[f] ELSE memory[f]]

TypeOK ==
  /\ Stored(run) \in Record /\ run.disk \in Record
  /\ run.session \in Sessions /\ run.line \in Lines /\ run.flight \in Flight
  /\ run.watch \subseteq Wait /\ run.held \subseteq Wait
  /\ {run.stopping, run.admitted, run.pool, run.parked, run.fault, run.retry,
      run.backoff, run.torn, run.late} \subseteq BOOLEAN
  /\ faults \in 0..MaxFaults /\ restarts \in 0..MaxRestarts /\ talk \in 0..MaxTalk

Init ==
  /\ run = Recorded([status |-> "running", wait |-> [w \in Wait |-> "none"],
                     wakes |-> 0, failures |-> 0, asked |-> FALSE, charged |-> 0],
                    [Forgotten EXCEPT !.session = "turn"])
  /\ faults = 0 /\ restarts = 0 /\ talk = 0

-----------------------------------------------------------------------------
(* What the handlers read.                                                 *)
In(t, phase) == {w \in Wait : t.wait[w] = phase}
Resolved(t)  == In(t, "resolved")
Listed(t)    == In(t, "open") \cup Resolved(t)
Live(t)      == t.status \in {"running", "waiting", "queued"}
SessionOpen(t) == t.session \in {"turn", "boundary"}

(* countAutomaticWakes(): a batch in flight counts what it has reserved.   *)
Spent(t) == t.wakes + (IF t.flight.reserved THEN 1 ELSE 0)

(* commitOutcome() and commitWait(), the changes already made in t.        *)
Commit(t) == [t EXCEPT !.disk = Stored(t)]
BestEffort(t, ok) == IF ok THEN Commit(t) ELSE t

\* Mutant of Retried: no timer is armed
MutNeverRetried(t) == t

(* retryWaitAdmission(): one timer a run, and only while a wake is owed.   *)
Retried(t) == [t EXCEPT !.retry = @ \/ Resolved(t) # {}]

Disarmed(t, ws) == [t EXCEPT !.watch = @ \ ws, !.held = @ \ ws]

(* disarmRunWaits()                                                        *)
DisarmedRun(t, ok) ==
  BestEffort([Disarmed(t, Wait) EXCEPT
                !.retry = FALSE, !.backoff = FALSE, !.failures = 0, !.admitted = FALSE,
                !.line = IF @ = "wake" THEN "none" ELSE @], ok)

Cancelled(t, ws) ==
  [t EXCEPT !.wait = [w \in Wait |-> IF w \in ws THEN "cancelled" ELSE @[w]]]

(* cancelOpenWaits(): a refused commit never stops the disarm.             *)
CancelOpenWaits(t, ok) ==
  IF ok THEN DisarmedRun(Commit(Cancelled(t, Listed(t))), ok)
        ELSE DisarmedRun([t EXCEPT !.torn = @ \/ Listed(t) # {}], ok)

-----------------------------------------------------------------------------
(* The delivery of input to a session.                                     *)

(* reparkWithoutWaits(): Cezar's own question opens, and the pool is left. *)
Repark(t) ==
  IF t.status = "waiting" /\ t.parked /\ t.session = "boundary" /\ Listed(t) = {}
  THEN Commit([t EXCEPT !.asked = TRUE, !.pool = FALSE])
  ELSE t

CancelAtCap(t, ws) == Disarmed(Commit(Cancelled(t, ws)), ws)

(* cancelCappedTimersBeforeFlush()                                         *)
CancelCapped(t) ==
  LET capped == Resolved(t) \cap Charging
      left   == CancelAtCap(t, capped)
  IN IF Spent(t) >= MaxWakes /\ t.admitted /\ t.session = "boundary" /\ capped # {}
     THEN IF Resolved(left) = {} THEN Repark([left EXCEPT !.admitted = FALSE]) ELSE left
     ELSE t

(* resumeParkedRun(): an admitted wake keeps its park until the receipt.   *)
Resume(t) ==
  IF Resolved(t) # {} /\ t.admitted
  THEN [t EXCEPT !.session = "turn", !.late = FALSE]
  ELSE [t EXCEPT !.session = "turn", !.late = FALSE, !.parked = FALSE, !.status = "running"]

Submit(t, ids) ==
  Resume([t EXCEPT !.flight = [on |-> TRUE, ids |-> ids,
                               reserved |-> ids \cap Charging # {} /\ Spent(t) < MaxWakes]])

(* flushAgentInputs(): the results go only with their admitted wake, at a  *)
(* boundary of the session.                                                *)
Flush(t, sent) ==
  LET kept == CancelCapped(t)
  IN IF ~SessionOpen(t) \/ t.stopping \/ t.fault \/ t.flight.on \/ ~Live(t) THEN t
     ELSE IF Resolved(kept) # {} /\ kept.admitted /\ kept.session = "boundary" /\ sent
          THEN Submit(kept, Resolved(kept))
          ELSE kept

\* Mutant of CanQueueWake: the backoff is not respected
MutQueueInBackoff(t) == Live(t) /\ Resolved(t) # {} /\ ~t.stopping

(* queueWaitWake(): at once for a member of the monitoring pool, through   *)
(* the line for another session, by a continuation where none is open.     *)
CanQueueWake(t) == Live(t) /\ Resolved(t) # {} /\ ~t.stopping /\ ~t.backoff

QueueWake(t, sent) ==
  LET owed == Retried(t)
  IN IF ~CanQueueWake(t) \/ t.session \notin {"none", "boundary"} THEN t
     ELSE IF t.admitted THEN Flush(owed, sent)
     ELSE IF t.session = "boundary" /\ t.pool
          THEN Flush([owed EXCEPT !.admitted = TRUE,
                                  !.line = IF @ = "wake" THEN "none" ELSE @], sent)
     ELSE IF t.line # "none" THEN owed
     ELSE IF t.session = "boundary" THEN [owed EXCEPT !.line = "wake"]
     ELSE IF sent THEN Commit([owed EXCEPT !.line = "reopen", !.status = "queued"])
     ELSE [owed EXCEPT !.status = "waiting"]

-----------------------------------------------------------------------------
(* The end of a turn.                                                      *)

(* parkForUser()                                                           *)
ParkForUser(t, sent) ==
  QueueWake(Commit([t EXCEPT !.status = "waiting", !.parked = TRUE, !.pool = FALSE]), sent)

(* parkOnWaits(): Cezar's question ranks above every other wait.           *)
ParkOnWaits(t, sent) ==
  IF t.asked THEN ParkForUser(t, sent)
  ELSE QueueWake([t EXCEPT !.status = "waiting", !.parked = TRUE, !.pool = TRUE], sent)

(* What a turn end meets: the agent's done, whether Cezar nudges rather    *)
(* than asks, the runner's and the database's answers.                     *)
Turn == [done : BOOLEAN, nudge : BOOLEAN, sent : BOOLEAN, ok : BOOLEAN]

(* openTurnEndHumanWait(): a refused wait is only warned about.            *)
Ask(t, c) == ParkForUser(IF c.ok THEN Commit([t EXCEPT !.asked = TRUE]) ELSE t, c.sent)

(* chargeAutomaticWake() after the nudge is sent.                          *)
Nudge(t, c) == BestEffort([Submit(t, {}) EXCEPT !.wakes = @ + 1], c.ok)

(* settleTurn(), once owed input was tried.                                *)
Decide(t, c) ==
  IF c.done /\ Resolved(t) = {}
  THEN [CancelOpenWaits(t, c.ok) EXCEPT !.session = "done"]
  ELSE IF Listed(t) # {} \/ t.asked THEN ParkOnWaits(t, c.sent)
  ELSE IF Spent(t) < MaxWakes /\ c.nudge /\ c.sent THEN Nudge(t, c)
  ELSE Ask(t, c)

(* endTurn(): a flight still unacknowledged owns the boundary.             *)
EndTurn(t, c) ==
  LET tried == Flush([t EXCEPT !.session = "boundary"], c.sent)
  IN IF tried.flight.on THEN tried ELSE Decide(tried, c)

-----------------------------------------------------------------------------
(* The acknowledgement.                                                    *)

(* One commit: the waits, the charge, the cleared failures, the resume.    *)
Charge(t) == IF t.flight.reserved THEN t.wakes + 1 ELSE t.wakes

\* Mutant of Deliver: the charge is saved after the delivery, best effort
MutDeliver(t, ids) ==
  [Commit([t EXCEPT !.wait = [w \in Wait |-> IF w \in ids THEN "delivered" ELSE @[w]],
                    !.charged = IF ids \cap Charging # {} THEN @ + 1 ELSE @,
                    !.failures = 0, !.status = "running"]) EXCEPT !.wakes = Charge(t)]

Deliver(t, ids) ==
  Commit([t EXCEPT !.wait = [w \in Wait |-> IF w \in ids THEN "delivered" ELSE @[w]],
                   !.charged = IF ids \cap Charging # {} THEN @ + 1 ELSE @,
                   !.failures = 0, !.status = "running", !.wakes = Charge(t)])

(* spendWakeAdmission()                                                    *)
Spend(t) == [t EXCEPT !.admitted = FALSE, !.parked = FALSE,
                      !.retry = @ /\ Resolved(t) # {}]

(* settleIdleBoundary(): input still queued keeps the boundary as it is.   *)
SettleIdle(t, c) ==
  IF t.session = "boundary" /\ ~t.fault /\ Resolved(t) = {} /\ ~t.parked
  THEN Decide(t, c) ELSE t

Received(t) ==
  LET ids == t.flight.ids \cap Resolved(t)
  IN [IF ids = {} THEN t ELSE Spend(Deliver(t, ids))
        EXCEPT !.flight = NoFlight, !.late = t.session = "boundary"]

Acknowledged(t, c) ==
  LET flushed == Flush(Received(t), c.sent)
  IN IF t.stopping THEN [t EXCEPT !.flight = NoFlight]
     ELSE IF flushed.flight.on THEN flushed
     ELSE SettleIdle(flushed, c)

-----------------------------------------------------------------------------
(* The close of a session and of the run.                                  *)

(* failedWakeDelivery(): the next attempt waits out the backoff, the last   *)
(* one fails the run and leaves its results on it.                         *)
PutOff(t, ok) ==
  [BestEffort([t EXCEPT !.failures = @ + 1], ok) EXCEPT !.backoff = TRUE, !.status = "waiting"]

GiveUp(t, ok) ==
  [BestEffort([t EXCEPT !.failures = 0, !.backoff = FALSE, !.retry = FALSE], ok)
     EXCEPT !.status = "failed"]

\* Mutant of FailedDelivery: the last failure cancels the results
MutDropResults(t, ok) ==
  IF t.failures + 1 >= MaxAttempts
  THEN CancelOpenWaits([t EXCEPT !.status = "failed"], ok) ELSE PutOff(t, ok)

\* Mutant of FailedDelivery: the attempts are not counted
MutUncounted(t, ok) ==
  IF t.failures + 1 >= MaxAttempts THEN GiveUp(t, ok)
  ELSE [t EXCEPT !.backoff = TRUE, !.status = "waiting"]

FailedDelivery(t, ok) ==
  IF t.failures + 1 >= MaxAttempts THEN GiveUp(t, ok) ELSE PutOff(t, ok)

(* A terminal status cancels what is still listed (onDelegationRun()).     *)
Terminal(t, status, ok) == CancelOpenWaits([t EXCEPT !.status = status], ok)

(* settleClosedContinuation(), settleFailedContinuation(); clean: with no  *)
(* fault, withdrawn: the commit that closes Cezar's question.              *)
Close == [clean : BOOLEAN, withdrawn : BOOLEAN, sent : BOOLEAN, ok : BOOLEAN]

Closed(t, c) ==
  LET quiet == IF t.asked /\ c.withdrawn THEN Commit([t EXCEPT !.asked = FALSE]) ELSE t
  IN CASE t.stopping -> Terminal(quiet, "cancelled", c.ok)
       [] ~t.stopping /\ Resolved(quiet) # {} -> FailedDelivery(quiet, c.ok)
       [] ~t.stopping /\ Listed(quiet) = {} /\ (t.session = "done" \/ (t.session = "dead" /\ c.clean)) ->
            Terminal(quiet, "done", c.ok)
       [] ~t.stopping /\ Listed(quiet) = {} /\ t.session = "dead" /\ ~c.clean ->
            Terminal(quiet, "failed", c.ok)
       [] OTHER -> [quiet EXCEPT !.status = "waiting"]

(* dropActive() and afterDropActive()                                      *)
Dropped(t) ==
  [t EXCEPT !.session = "none", !.stopping = FALSE, !.admitted = FALSE, !.pool = FALSE,
            !.parked = FALSE, !.fault = FALSE, !.late = FALSE,
            !.line = IF @ = "wake" THEN "none" ELSE @]

(* recover(): no process survived; open waits are watched again.           *)
Recovered(t, sent) ==
  LET armed == [t EXCEPT !.watch = In(t, "open")]
  IN CASE Live(t) /\ Listed(t) # {} -> QueueWake([armed EXCEPT !.status = "waiting"], sent)
       [] Live(t) /\ Listed(t) = {} /\ t.status # "waiting" ->
            Commit([t EXCEPT !.status = "queued", !.line = "restart"])
       [] t.status = "failed" /\ Resolved(t) # {} -> armed
       [] ~Live(t) /\ ~(t.status = "failed" /\ Resolved(t) # {}) -> CancelOpenWaits(t, TRUE)
       [] OTHER -> t

-----------------------------------------------------------------------------
Counted(oks) == faults' = faults + Cardinality({i \in DOMAIN oks : ~oks[i]})
                /\ faults' <= MaxFaults
Still == UNCHANGED <<restarts, talk>>

(* openWait()                                                              *)
OpenWait(w, withdrawn, ok, sent) ==
  LET quiet == IF run.asked /\ withdrawn THEN Commit([run EXCEPT !.asked = FALSE]) ELSE run
      armed == [Commit([quiet EXCEPT !.wait[w] = "open"]) EXCEPT !.watch = @ \cup {w}]
  IN /\ run.wait[w] = "none" /\ SessionOpen(run) /\ ~run.stopping
     /\ w \in Charging => Spent(run) < MaxWakes
     /\ run.asked \/ withdrawn
     /\ run' = IF ~ok THEN quiet
               ELSE IF run.session = "boundary" \/ run.parked THEN ParkOnWaits(armed, sent)
               ELSE armed
     /\ Counted(<<withdrawn, ok>>) /\ Still

(* cancelWait()                                                            *)
CancelWait(w) ==
  /\ run.wait[w] = "open" /\ SessionOpen(run)
  /\ run' = Disarmed(Commit(Cancelled(run, {w})), {w})
  /\ UNCHANGED faults /\ Still

\* Mutant of Kept: a refused result is dropped
MutLost(t, w) == t

(* settleWait(): a result whose commit was refused is kept for a retry.    *)
Kept(t, w) == [t EXCEPT !.held = @ \cup {w}]

(* settleWait() and resolveWait(): the watch fires, or a kept result is    *)
(* tried again.                                                            *)
Resolve(w, ok, sent) ==
  LET fired  == Disarmed(run, {w})
      capped == w \in Charging /\ Spent(run) >= MaxWakes
      left   == CancelAtCap(fired, {w})
  IN /\ w \in run.watch \cup run.held
     /\ run' = IF run.wait[w] # "open" THEN fired
               ELSE IF ~ok THEN Kept(fired, w)
               ELSE IF ~capped THEN QueueWake(Commit([fired EXCEPT !.wait[w] = "resolved"]), sent)
               ELSE IF run.session # "none" THEN Repark(left)
               ELSE IF run.status = "waiting" /\ Listed(left) = {}
                    THEN Commit([left EXCEPT !.asked = TRUE])
               ELSE left
     /\ Counted(<<ok>>) /\ Still

(* A timer forgets itself before it queues the wake.                       *)
Fired(timer, sent) == QueueWake([run EXCEPT ![timer] = FALSE], sent)

(* The one-second timer of retryWaitAdmission().                           *)
RetryFires(sent) ==
  /\ run.retry
  /\ run' = Fired("retry", sent)
  /\ UNCHANGED faults /\ Still

(* The timer of backoff().                                                 *)
BackoffFires(sent) ==
  /\ run.backoff
  /\ run' = Fired("backoff", sent)
  /\ UNCHANGED faults /\ Still

(* admitQueuedWaitWake(): the pump finds a place for the wake of a session. *)
AdmitWake(sent) ==
  LET taken == [run EXCEPT !.line = "none"]
  IN /\ run.line = "wake"
     /\ run' = IF Resolved(run) = {} THEN taken
               ELSE IF run.session # "boundary" THEN Retried(run)
               ELSE Flush([taken EXCEPT !.parked = FALSE, !.admitted = TRUE], sent)
     /\ UNCHANGED faults /\ Still

(* launchQueuedRun(): a continuation leaves the line; its turn reads a      *)
(* prompt, the results come at the turn's end.                             *)
Launch ==
  /\ run.line \in {"reopen", "restart"}
  /\ run' = [run EXCEPT !.line = "none", !.admitted = run.line = "reopen",
                        !.session = "turn", !.status = "running"]
  /\ UNCHANGED faults /\ Still

(* endTurn()                                                               *)
TurnEnds(c) ==
  /\ run.session = "turn" /\ ~run.stopping /\ ~run.fault
  /\ run.flight.on => LateAck
  /\ run' = EndTurn(run, c)
  /\ Counted(<<c.ok>>) /\ Still

(* The receipt of an input, its commit taken.                              *)
Acknowledge(c) ==
  /\ run.flight.on
  /\ run' = Acknowledged(run, c)
  /\ Counted(<<c.ok>>) /\ Still

(* The receipt, its commit refused; or the runner rejects the input.       *)
DeliveryFails(refused) ==
  /\ run.flight.on /\ ~run.stopping
  /\ refused => run.flight.ids \cap Resolved(run) # {}
  /\ run' = [run EXCEPT !.flight = NoFlight, !.fault = TRUE]
  /\ Counted(<<~refused>>) /\ Still

(* The session closes, by itself or by the idle timer of a park.           *)
SessionEnds(how) ==
  /\ SessionOpen(run)
  /\ how = "idle" => run.session = "boundary" /\ run.parked /\ ~run.pool
  /\ run' = [run EXCEPT !.session = how]
  /\ UNCHANGED faults /\ Still

SessionSettles(c) ==
  LET left == Dropped(Closed(run, c))
  IN /\ run.session \in {"dead", "idle", "done"} /\ ~run.flight.on
     /\ run.asked \/ c.withdrawn
     /\ run' = IF Listed(left) # {} THEN QueueWake(left, c.sent) ELSE left
     /\ Counted(<<c.withdrawn, c.ok>>) /\ Still

\* Mutant of Answered: a message cancels what is open or resolved
MutAnswered(t, ok) ==
  BestEffort([Cancelled(t, Listed(t)) EXCEPT
                !.asked = FALSE, !.wakes = 0, !.charged = 0, !.failures = 0], ok)

(* A message of the user: it answers Cezar's question and starts the       *)
(* budget and the count of failed deliveries again.                        *)
Answered(t, ok) ==
  BestEffort([t EXCEPT !.asked = FALSE, !.wakes = 0, !.charged = 0, !.failures = 0], ok)

Message(ok) ==
  /\ talk < MaxTalk /\ SessionOpen(run) /\ ~run.stopping
  /\ run' = Resume(Answered(run, ok))
  /\ talk' = talk + 1 /\ Counted(<<ok>>) /\ UNCHANGED restarts

Continue(ok) ==
  /\ talk < MaxTalk /\ run.session = "none" /\ run.line = "none"
  /\ run.status \in {"waiting", "failed"}
  /\ run' = Answered([run EXCEPT !.backoff = FALSE, !.session = "turn", !.status = "running"], ok)
  /\ talk' = talk + 1 /\ Counted(<<ok>>) /\ UNCHANGED restarts

(* cancel()                                                                *)
Stop(ok) ==
  LET quiet == CancelOpenWaits(run, ok)
      save(t) == BestEffort(t, ok)
  IN /\ talk < MaxTalk /\ ~run.stopping
     /\ Live(run) \/ Listed(run) # {}
     /\ run' = IF run.session # "none" THEN save([quiet EXCEPT !.stopping = TRUE])
               ELSE IF run.line # "none" THEN save([quiet EXCEPT !.line = "none", !.status = "cancelled"])
               ELSE IF Live(run) /\ Listed(run) # {} THEN [quiet EXCEPT !.status = "cancelled"]
               ELSE quiet
     /\ talk' = talk + 1 /\ Counted(<<ok>>) /\ UNCHANGED restarts

(* The debounced save of runs/store.ts.                                    *)
Save ==
  /\ run.disk # Stored(run)
  /\ run' = Commit(run)
  /\ UNCHANGED faults /\ Still

(* A crash, and the recovery of the next process.                          *)
Restart(sent) ==
  /\ restarts < MaxRestarts /\ ~run.stopping
  /\ run' = Recovered(Recorded(run.disk, Forgotten), sent)
  /\ restarts' = restarts + 1 /\ UNCHANGED <<faults, talk>>

Next ==
  \/ \E w \in Wait, withdrawn, ok, sent \in BOOLEAN : OpenWait(w, withdrawn, ok, sent)
  \/ \E w \in Wait : CancelWait(w)
  \/ \E w \in Wait, ok, sent \in BOOLEAN : Resolve(w, ok, sent)
  \/ \E sent \in BOOLEAN : RetryFires(sent) \/ BackoffFires(sent) \/ AdmitWake(sent)
  \/ Launch
  \/ \E c \in Turn : TurnEnds(c) \/ Acknowledge(c)
  \/ \E refused \in BOOLEAN : DeliveryFails(refused)
  \/ \E how \in {"dead", "idle"} : SessionEnds(how)
  \/ \E c \in Close : SessionSettles(c)
  \/ \E ok \in BOOLEAN : Message(ok) \/ Continue(ok) \/ Stop(ok)
  \/ Save
  \/ \E sent \in BOOLEAN : Restart(sent)

Spec == Init /\ [][Next]_vars

-----------------------------------------------------------------------------
(* Properties.                                                             *)

(* What will queue or deliver an owed wake without the user: a timer, an   *)
(* entry of the line, a receipt to come, or the end of a turn or session.  *)
HasSource(t) ==
  \/ t.retry \/ t.backoff \/ t.line # "none" \/ t.flight.on
  \/ t.session \in {"turn", "dead", "idle", "done"} \/ t.stopping \/ t.fault

(* A turn that answered its input and ended before the input's receipt.    *)
LeftAtBoundary(t) == t.session = "boundary" /\ t.late

(* wake-admission.ts:221: "Keep a bounded-rate wake source until ACK,      *)
(* cancellation or termination": a live run that owes a result has one.    *)
OwedWakesHaveASource == Live(run) /\ Resolved(run) # {} => HasSource(run)

(* The same of every run but one whose late receipt left another result    *)
(* behind at the boundary, the case OwedWakesHaveASource is violated by.   *)
WakesHaveASource ==
  Live(run) /\ Resolved(run) # {} => HasSource(run) \/ LeftAtBoundary(run)

(* wait-watches.ts: what the agent waits for is watched, or its result is  *)
(* kept, for as long as the run is live, across restarts; only a           *)
(* cancellation that the database refused leaves a wait unwatched.         *)
OpenWaitsAreWatched ==
  Live(run) /\ ~run.torn => In(run, "open") \subseteq run.watch \cup run.held

(* input-acknowledgement.ts, wake-ledger.ts: timer wakes and nudges never  *)
(* exceed the budget, the batch in flight included, and on disk a batch is *)
(* never delivered without its charge.                                     *)
BudgetHolds == Spent(run) <= MaxWakes /\ run.disk.charged <= run.disk.wakes

(* wake-retries.ts: between a failed delivery and its next attempt nothing *)
(* else opens a session or a continuation, and the pause is for something. *)
BackoffIsAPause ==
  run.backoff => /\ run.session = "none" /\ run.line = "none"
                 /\ run.status = "waiting" /\ Resolved(run) # {}

(* outcome-commit.ts: a result the agent is owed ends by an acknowledged   *)
(* delivery, by the stop or the end of the run, or at the spent budget, and *)
(* what has ended never comes back, through a crash too.                   *)
ResultsEndOnPurpose ==
  [][\A w \in Wait :
       /\ run.wait[w] = "resolved" =>
            \/ run'.wait[w] = "resolved"
            \/ run'.wait[w] = "delivered" /\ w \in run.flight.ids
            \/ run'.wait[w] = "cancelled" /\ (run'.stopping \/ ~Live(run'))
            \/ run'.wait[w] = "cancelled" /\ w \in Charging /\ Spent(run) >= MaxWakes
       /\ run.wait[w] \in {"delivered", "cancelled"} => run'.wait[w] = run.wait[w]]_vars

(* wake-admission.ts failedWakeDelivery(): a run that fails at the limit of *)
(* attempts keeps its results, and nothing but the user wakes it again.    *)
FailedRunsKeepResults ==
  [][talk' = talk /\ restarts' = restarts =>
       /\ run'.status = "failed" => Resolved(run) \subseteq Resolved(run')
       /\ run.status = "failed" =>
            run'.status = "failed" /\ run'.session = "none" /\ run'.line = "none"]_vars

(* The scheduling: turns end, receipts and closes arrive, timers fire, the *)
(* pump finds a place, and a runner that refuses input takes it in the end. *)
(* Each condition is WF_vars of its action with ENABLED written out.       *)
SessionMoves ==
  \/ \E c \in Turn : c.sent /\ TurnEnds(c)
  \/ \E c \in Turn : Acknowledge(c)
  \/ \E refused \in BOOLEAN : DeliveryFails(refused)
  \/ (run.fault \/ run.stopping) /\ SessionEnds("dead")
  \/ \E c \in Close : c.sent /\ SessionSettles(c)

SessionCanMove ==
  \/ run.session = "turn" \/ run.flight.on
  \/ run.session \in {"dead", "idle", "done"}
  \/ (run.fault \/ run.stopping) /\ SessionOpen(run)

LineMoves == Launch \/ (AdmitWake(TRUE) /\ run.session = "boundary")

LineCanMove == run.line \in {"reopen", "restart"} \/ (run.line = "wake" /\ run.session = "boundary")

Fairness ==
  /\ []<>~SessionCanMove \/ []<><<SessionMoves>>_vars
  /\ []<>~LineCanMove \/ []<><<LineMoves>>_vars
  /\ []<>~(run.retry /\ Fired("retry", TRUE) # run) \/ []<><<RetryFires(TRUE)>>_vars
  /\ []<>~run.backoff \/ []<><<BackoffFires(TRUE)>>_vars

FairSpec == Spec /\ Fairness

(* Every result is delivered, cancelled, or kept by a run that has ended,  *)
(* without the user (but for the case of LeftAtBoundary).                  *)
WakesEnd ==
  Live(run) /\ Resolved(run) # {} ~>
    Resolved(run) = {} \/ ~Live(run) \/ LeftAtBoundary(run)
=============================================================================
