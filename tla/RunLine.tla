------------------------------- MODULE RunLine ------------------------------
(***************************************************************************)
(* workflows/run/run-line.ts and workspace/semaphore.ts: the line of queued *)
(* runs that every project's manager keeps, the pump that lets entries     *)
(* leave it, and the workspace semaphore that counts the slots of all      *)
(* managers and broadcasts a freed one.                                    *)
(*                                                                         *)
(* The managers share one JavaScript thread, so an action is what runs     *)
(* between two awaits.  A pump awaits the repository probe and, when an    *)
(* account is on hold, the configuration; its sweep awaits nothing: the    *)
(* entries that leave in one sweep are LoopStep steps and every other      *)
(* action waits for the sweep to end.                                      *)
(*                                                                         *)
(* A run's turn is one action when it ends; what the agent does in it, the *)
(* delivery of a wake and the opening of a session are the model's         *)
(* environment.  Queue positions and time stamps are sequences: line holds *)
(* the queues of all projects in the order of their pushes, age the        *)
(* entries by stamp (a job keeps the stamp of its creation).               *)
(***************************************************************************)
EXTENDS Integers, SequencesExt

CONSTANTS
  Project,       \* the managers, numbered in the order they registered
  Run,           \* the runs, numbered
  None,
  Home,          \* the project of a run
  Account,       \* the runner and login of a run
  Worker,        \* the runs that are owned workers of another run
  MaxParallel,   \* resources.maxParallel
  ProjectMax,    \* the ceiling of each project
  MaxPool,       \* resources.maxMonitoringSessions
  MaxResumes,    \* MAX_AUTO_RESUMES
  Chatty,        \* bound: the runs a human sends messages to
  Limited,       \* bound: the runs whose turns may meet a usage limit
  Stopped,       \* bound: the runs a human stops while they are queued
  Waits,         \* bound: the waits that each run opens
  MaxRecoveries  \* bound: the recoveries

ASSUME RunLineAssumption ==
  /\ Project \subseteq Nat /\ IsFiniteSet(Project) /\ Project # {}
  /\ Run \subseteq Nat /\ IsFiniteSet(Run)
  /\ None \notin Project
  /\ Home \in [Run -> Project]
  /\ DOMAIN Account = Run
  /\ Worker \subseteq Run /\ Chatty \subseteq Run /\ Limited \subseteq Run
  /\ Stopped \subseteq Run
  /\ MaxParallel \in Nat \ {0} /\ ProjectMax \in [Project -> Nat \ {0}]
  /\ MaxPool \in Nat /\ MaxResumes \in Nat
  /\ Waits \in [Run -> Nat] /\ MaxRecoveries \in Nat

VARIABLES
  st,        \* where each run is
  line,      \* the queues, in the order of their pushes
  age,       \* the runs that have a stamp, oldest first
  wakes,     \* waitWakeQueuedAt: the runs with a queued wake
  admitted,  \* waitWakeAdmitted: a reopened run that was launched with its wake
  pool,      \* monitoring: the runs that hold a monitoring slot
  due,       \* the runs that owe a wake: a wait has resolved and is not delivered
  waits,     \* how many waits of each run are still to resolve
  attempts,  \* autoResumeAttempts; 0 when it is not defined
  forced,    \* forceStarted
  pump,      \* of each manager: pumping, pumpAgain and what the sweep has read
  force,     \* forceNextPump
  cast,      \* the semaphore's broadcast
  recovering,\* the managers that recover
  recoveries

runVars   == <<st, line, age, wakes, admitted, pool, due, waits, attempts, forced>>
schedVars == <<pump, cast, force, recovering, recoveries>>
vars      == <<runVars, schedVars>>

(* A job or a continuation in the line is queued or continued; a launched  *)
(* job is opening (active, its spawn gate ahead), a launched continuation  *)
(* reopening (starting).  A parked run has an open session, a closed one   *)
(* waits without it, a resting one waits out a usage limit.                *)
Stages == {"new", "queued", "opening", "running", "parked", "closed",
           "continued", "reopening", "resting", "ended"}

Accounts == {Account[r] : r \in Run}

Pump == [at : {"off", "repo", "config", "loop"}, again : BOOLEAN, forced : BOOLEAN,
         deadline : SUBSET Accounts, inFlight : SUBSET Accounts]
Off  == [at |-> "off", again |-> FALSE, forced |-> FALSE, deadline |-> {}, inFlight |-> {}]

Cast == [on : BOOLEAN, again : BOOLEAN, order : Seq(Project),
         at : Project \cup {None}, awaited : BOOLEAN]
NoCast == [on |-> FALSE, again |-> FALSE, order |-> <<>>, at |-> None, awaited |-> FALSE]

TypeOK ==
  /\ st \in [Run -> Stages]
  /\ line \in Seq(Run) /\ age \in Seq(Run)
  /\ {wakes, admitted, pool, due, forced} \subseteq SUBSET Run
  /\ waits \in [Run -> Nat]
  /\ attempts \in [Run -> 0..MaxResumes]
  /\ pump \in [Project -> Pump]
  /\ force \subseteq Project /\ recovering \subseteq Project
  /\ cast \in Cast
  /\ recoveries \in 0..MaxRecoveries

Init ==
  /\ st = [r \in Run |-> "new"]
  /\ line = <<>> /\ age = <<>>
  /\ wakes = {} /\ admitted = {} /\ pool = {} /\ due = {} /\ forced = {}
  /\ waits = Waits
  /\ attempts = [r \in Run |-> 0]
  /\ pump = [p \in Project |-> Off]
  /\ cast = NoCast
  /\ force = {} /\ recovering = {} /\ recoveries = 0

-----------------------------------------------------------------------------
(* The line.                                                               *)
Pos(s, r)   == SelectInSeq(s, LAMBDA x : x = r)
Joined(s, r) == Append(RemoveFirst(s, r), r)
Queue(l, p) == SelectSeq(l, LAMBDA r : Home[r] = p)
Entries(p)  == {r \in ToSet(line) : Home[r] = p}

(* wakeJoinedAt(): every entry but the job of a task nobody owns.          *)
IsWake(r) == r \in wakes \/ st[r] # "queued" \/ r \in Worker

-----------------------------------------------------------------------------
(* Slots.                                                                  *)
Live(r) == st[r] \in {"opening", "reopening", "running", "parked"}

Busy(p) ==
  LET mine == {r \in Run : Home[r] = p} IN
  Cardinality({r \in mine : Live(r)})
    - Cardinality({r \in mine \ pool : st[r] = "parked"})
    - Min({Cardinality(mine \cap pool), MaxPool})

(* The sum of the projects' slots, as a number of pairs.                   *)
AllBusy == Cardinality({x \in Project \X (1..Cardinality(Run)) : x[2] <= Busy(x[1])})

\* Mutant of Capacity: a continuation that starts takes no place
MutCapacity(p) ==
  LET starting(q) == Cardinality({r \in Run : Home[r] = q /\ st[r] = "reopening"}) IN
  /\ AllBusy - MapThenSumSet(starting, Project) < MaxParallel
  /\ Busy(p) - starting(p) < ProjectMax[p]

Capacity(p) == AllBusy < MaxParallel /\ Busy(p) < ProjectMax[p]

PoolWake(r) == r \in pool /\ r \in wakes /\ st[r] \in {"running", "parked"}

-----------------------------------------------------------------------------
(* Usage-limit holds, derived from the records.                            *)
ResumeInFlight(r) ==
  attempts[r] > 0 /\ st[r] \in {"queued", "opening", "continued", "reopening", "running"}

DeadlineHolds == {Account[r] : r \in {x \in Run : st[x] = "resting"}}
InFlightHolds == {Account[r] : r \in {x \in Run : ResumeInFlight(x)}}

HeldBy(r, deadline, inFlight) ==
  \/ Account[r] \in deadline
  \/ Account[r] \in inFlight /\ ~ResumeInFlight(r)

Held(r) == HeldBy(r, DeadlineHolds, InFlightHolds)

(* wakeHeld(): asked of a parked run, which is no resume in flight.        *)
WakeHeld(r) ==
  \/ Account[r] \in DeadlineHolds
  \/ \E x \in Run \ {r} : Account[x] = Account[r] /\ ResumeInFlight(x)

-----------------------------------------------------------------------------
(* pump() up to its first await.                                           *)
PumpStarts(P, p) == p \notin recovering /\ P[p].at = "off"

Pumped(P, p) ==
  CASE p \in recovering -> P
    [] PumpStarts(P, p) -> [P EXCEPT ![p] = [Off EXCEPT !.at = "repo"]]
    [] OTHER            -> [P EXCEPT ![p].again = TRUE]

(* release(): the order of one pass, as of the end of the section that     *)
(* asks for it; l is the line at the moment of the call.  The project of   *)
(* the oldest wake that no hold keeps comes first, then the project whose  *)
(* queue has the oldest head.                                              *)
Never == Cardinality(Run) + 1
HeadStamp(l, p) == IF Queue(l, p) = <<>> THEN Never ELSE Pos(age', Head(Queue(l, p)))
WakeStamp(l, p) ==
  Min({Pos(age', r) : r \in {x \in ToSet(l) : Home[x] = p /\ IsWake(x)' /\ ~Held(x)'}}
        \cup {Never})

Precedes(l, p, q) ==
  \/ WakeStamp(l, p) < WakeStamp(l, q)
  \/ WakeStamp(l, p) = WakeStamp(l, q) /\ HeadStamp(l, p) < HeadStamp(l, q)
  \/ WakeStamp(l, p) = WakeStamp(l, q) /\ HeadStamp(l, p) = HeadStamp(l, q) /\ p < q

Rank(l, p) == 1 + Cardinality({q \in Project : Precedes(l, q, p)})
Order(l)   == [i \in 1..Cardinality(Project) |-> CHOOSE p \in Project : Rank(l, p) = i]

(* The broadcast calls the pump of the first manager in order at once.  A  *)
(* pump that was already under way, or is refused, returns at once too.    *)
(* (todo is the order, worked out once.)                                   *)
CallFirst(P, order, again) == \E todo \in {order} :
  /\ pump' = Pumped(P, Head(todo))
  /\ cast' = [on |-> TRUE, again |-> again, order |-> Tail(todo),
              at |-> Head(todo), awaited |-> PumpStarts(P, Head(todo))]

\* Mutant of Released: a release during a broadcast is lost
MutReleaseLost(P, n, l) ==
  IF cast.on THEN pump' = P /\ cast' = cast ELSE CallFirst(P, Order(l), FALSE)

\* Mutant of Released: only the first project in the order is pumped
MutReleaseOwn(P, n, l) ==
  IF cast.on THEN pump' = P /\ cast' = [cast EXCEPT !.again = TRUE]
             ELSE CallFirst(P, <<Head(Order(l))>>, n > 1)

(* n >= 1 calls of release() in one section, the first with the line l; P  *)
(* holds what the section has already done to the pumps.                   *)
Released(P, n, l) ==
  IF cast.on THEN pump' = P /\ cast' = [cast EXCEPT !.again = TRUE]
             ELSE CallFirst(P, Order(l), n > 1)

(* The thread is between two sections, not inside a sweep.                 *)
Quiet == \A p \in Project : pump[p].at # "loop"

-----------------------------------------------------------------------------
(* The broadcast.                                                          *)
CastNext ==
  /\ Quiet /\ cast.on /\ ~cast.awaited
  /\ UNCHANGED <<runVars, force, recovering, recoveries>>
  /\ \/ cast.order # <<>> /\ CallFirst(pump, cast.order, cast.again)
     \/ cast.order = <<>> /\ cast.again /\ CallFirst(pump, Order(line), FALSE)
     \/ cast.order = <<>> /\ ~cast.again /\ cast' = NoCast /\ UNCHANGED pump

-----------------------------------------------------------------------------
(* The pump.                                                               *)

(* The repository is known: read the one-shot override and the holds.      *)
RepoKnown(p) ==
  LET isForced == p \in force
      asks     == Entries(p) # {} /\ ~isForced
      deadline == IF asks THEN DeadlineHolds ELSE {}
      inFlight == IF asks THEN InFlightHolds ELSE {}
  IN
  /\ Quiet /\ pump[p].at = "repo"
  /\ force' = force \ {p}
  /\ pump' = [pump EXCEPT ![p] =
       [at |-> IF deadline \cup inFlight # {} THEN "config" ELSE "loop",
        again |-> pump[p].again, forced |-> isForced, deadline |-> deadline, inFlight |-> inFlight]]
  /\ UNCHANGED <<runVars, cast, recovering, recoveries>>

(* The configured default runner is known.                                 *)
ConfigRead(p) ==
  /\ Quiet /\ pump[p].at = "config"
  /\ pump' = [pump EXCEPT ![p].at = "loop"]
  /\ UNCHANGED <<runVars, cast, force, recovering, recoveries>>

(* The pump returns: the broadcast that awaits it goes on.                 *)
EndPump(p) ==
  /\ pump' = [pump EXCEPT ![p] = Off]
  /\ cast' = IF cast.at = p THEN [cast EXCEPT !.awaited = FALSE] ELSE cast

(* The sweep is over; a pump asked for meanwhile is another sweep.         *)
EndSweep(p) ==
  IF pump[p].again
  THEN pump' = [pump EXCEPT ![p] = [Off EXCEPT !.at = "repo"]] /\ UNCHANGED cast
  ELSE EndPump(p)

CanLeave(p, r) ==
  /\ Capacity(p) \/ PoolWake(r)
  /\ ~HeldBy(r, pump[p].deadline, pump[p].inFlight)

(* nextLineEntry(): the oldest wake that can leave, else the first         *)
(* unstarted entry that can.                                               *)
IsNext(p, r) ==
  LET able == {x \in Entries(p) : CanLeave(p, x)}
      ready == {x \in able : IsWake(x)}
  IN IF ready # {} THEN r \in ready /\ \A x \in ready : Pos(age, r) <= Pos(age, x)
     ELSE r \in able /\ \A x \in able : Pos(line, r) <= Pos(line, x)

\* Mutant of AdmitWake: the run leaves the line and stays among the wakes
MutAdmitWake(p, r) ==
  /\ st[r] = "parked"
  /\ st' = [st EXCEPT ![r] = "running"]
  /\ line' = RemoveFirst(line, r) /\ age' = RemoveFirst(age, r)
  /\ due' = due \ {r}
  /\ UNCHANGED <<wakes, admitted, pool, waits, attempts, forced, pump, cast>>

(* admitQueuedWaitWake() of a parked run: it takes a slot and its wake.    *)
AdmitWake(p, r) ==
  /\ st[r] = "parked"
  /\ st' = [st EXCEPT ![r] = "running"]
  /\ line' = RemoveFirst(line, r) /\ age' = RemoveFirst(age, r)
  /\ wakes' = wakes \ {r} /\ due' = due \ {r}
  /\ UNCHANGED <<admitted, pool, waits, attempts, forced, pump, cast>>

(* A human has resumed the run: its wake joins the line again, and the     *)
(* sweep ends.                                                             *)
DeferWake(p, r) ==
  /\ st[r] = "running"
  /\ line' = Joined(line, r) /\ age' = Joined(age, r)
  /\ EndSweep(p)
  /\ UNCHANGED <<st, wakes, admitted, pool, due, waits, attempts, forced>>

LaunchJob(p, r) ==
  /\ st[r] = "queued"
  /\ st' = [st EXCEPT ![r] = "opening"]
  /\ line' = RemoveFirst(line, r)
  /\ forced' = IF pump[p].forced THEN forced \cup {r} ELSE forced
  /\ UNCHANGED <<age, wakes, admitted, pool, due, waits, attempts, pump, cast>>

LaunchContinuation(p, r) ==
  /\ st[r] = "continued"
  /\ st' = [st EXCEPT ![r] = "reopening"]
  /\ line' = RemoveFirst(line, r) /\ age' = RemoveFirst(age, r)
  /\ wakes' = wakes \ {r}
  /\ admitted' = IF r \in wakes THEN admitted \cup {r} ELSE admitted
  /\ forced' = IF pump[p].forced THEN forced \cup {r} ELSE forced
  /\ UNCHANGED <<pool, due, waits, attempts, pump, cast>>

LoopStep(p) ==
  /\ pump[p].at = "loop"
  /\ UNCHANGED <<force, recovering, recoveries>>
  /\ \/ /\ p \in recovering /\ Entries(p) # {}
        /\ EndPump(p)
        /\ UNCHANGED runVars
     \/ /\ p \notin recovering
        /\ \E r \in Run :
             /\ IsNext(p, r)
             /\ AdmitWake(p, r) \/ DeferWake(p, r) \/ LaunchJob(p, r) \/ LaunchContinuation(p, r)
     \/ /\ p \notin recovering \/ Entries(p) = {}
        /\ ~\E r \in Run : IsNext(p, r)
        /\ EndSweep(p)
        /\ UNCHANGED runVars

-----------------------------------------------------------------------------
(* What puts runs into the line and takes them out again.  The handlers    *)
(* below end in calls of pump() or release(); everything before a call is  *)
(* part of the same section.                                               *)

(* startRun(), enqueueOwnedRun().                                          *)
Submit(r) ==
  /\ Quiet /\ st[r] = "new"
  /\ st' = [st EXCEPT ![r] = "queued"]
  /\ line' = Append(line, r) /\ age' = Append(age, r)
  /\ pump' = Pumped(pump, Home[r])
  /\ UNCHANGED <<wakes, admitted, pool, due, waits, attempts, forced, cast, force, recovering, recoveries>>

(* startExecution(): the gate that sends a job back with its old stamp when *)
(* its account has closed since the job left the line.  The worktree of a  *)
(* job that passes is made while the run counts as running.                *)
PassGate(r) == r \in forced \/ ~Held(r)

Requeue(r) ==
  /\ st' = [st EXCEPT ![r] = "queued"]
  /\ line' = Append(line, r)
  /\ UNCHANGED age

Open(r) ==
  /\ Quiet /\ st[r] = "opening"
  /\ UNCHANGED <<wakes, admitted, pool, due, waits, attempts, force, recovering, recoveries>>
  /\ \/ /\ PassGate(r)
        /\ st' = [st EXCEPT ![r] = "running"]
        /\ age' = RemoveFirst(age, r)
        /\ UNCHANGED <<line, forced, pump, cast>>
     \/ /\ ~PassGate(r)
        /\ Requeue(r)
        /\ forced' = forced \ {r}
        /\ Released(pump, 1, line')

(* runContinuation(): no gate; the account was asked in the line.          *)
Reopen(r) ==
  /\ Quiet /\ st[r] = "reopening"
  /\ st' = [st EXCEPT ![r] = "running"]
  /\ UNCHANGED <<line, age, wakes, admitted, pool, due, waits, attempts, forced, schedVars>>

\* Mutant of Forget: a dropped run stays in the line
MutForget(r) ==
  /\ wakes' = wakes \ {r}
  /\ admitted' = admitted \ {r} /\ pool' = pool \ {r} /\ forced' = forced \ {r}
  /\ UNCHANGED <<line, age>>

(* forget() and the other registries a dropped run leaves.                 *)
Forget(r) ==
  /\ line' = RemoveFirst(line, r) /\ age' = RemoveFirst(age, r) /\ wakes' = wakes \ {r}
  /\ admitted' = admitted \ {r} /\ pool' = pool \ {r} /\ forced' = forced \ {r}

(* A run ends: finished, failed, or stopped, before or after its session   *)
(* opened.  Its waits are forgotten: cancelled or, if it failed, of no     *)
(* interest to the line until somebody continues it.                       *)
Finish(r) ==
  /\ Quiet /\ Live(r)
  /\ st' = [st EXCEPT ![r] = "ended"]
  /\ Forget(r)
  /\ due' = due \ {r} /\ waits' = [waits EXCEPT ![r] = 0] /\ attempts' = [attempts EXCEPT ![r] = 0]
  /\ Released(pump, 1, line')
  /\ UNCHANGED <<force, recovering, recoveries>>

(* Stop takes a job or a continuation out of the line.                     *)
CancelQueued(r) ==
  /\ Quiet /\ r \in Stopped /\ st[r] \in {"queued", "continued"}
  /\ st' = [st EXCEPT ![r] = "ended"]
  /\ line' = RemoveFirst(line, r) /\ age' = RemoveFirst(age, r) /\ wakes' = wakes \ {r}
  /\ due' = due \ {r} /\ waits' = [waits EXCEPT ![r] = 0] /\ attempts' = [attempts EXCEPT ![r] = 0]
  /\ UNCHANGED <<admitted, pool, forced, schedVars>>

-----------------------------------------------------------------------------
(* Parks and wakes.                                                        *)

(* queueWaitWake() of a run with an open session at its turn boundary.  A  *)
(* wake that was admitted with the run's continuation, and the wake of a   *)
(* pool member that no hold keeps, are delivered at once.                  *)
Delivers(r, inPool) == r \in admitted \/ (inPool /\ ~WakeHeld(r))

DeliverWake(r) ==
  /\ st' = [st EXCEPT ![r] = "running"]
  /\ wakes' = wakes \ {r} /\ admitted' = admitted \ {r} /\ due' = due \ {r}
  /\ IF r \in wakes THEN line' = RemoveFirst(line, r) /\ age' = RemoveFirst(age, r)
                    ELSE UNCHANGED <<line, age>>

EnqueueWake(r) ==
  /\ st' = [st EXCEPT ![r] = "parked"]
  /\ wakes' = wakes \cup {r} /\ due' = due \cup {r}
  /\ IF r \in wakes THEN UNCHANGED <<line, age>>
                    ELSE line' = Append(line, r) /\ age' = Append(age, r)
  /\ UNCHANGED admitted

StayParked(r) ==
  /\ st' = [st EXCEPT ![r] = "parked"]
  /\ UNCHANGED <<line, age, wakes, admitted, due>>

\* Mutant of QueueWake: a wake in the line releases nothing
MutQueueWake(r, owes, inPool, before, after) ==
  LET joins == owes /\ ~Delivers(r, inPool) IN
  /\ \/ owes /\ ~joins /\ DeliverWake(r)
     \/ joins /\ EnqueueWake(r)
     \/ ~owes /\ StayParked(r)
  /\ IF before + after = 0 THEN UNCHANGED <<pump, cast>>
     ELSE Released(pump, before + after, IF before > 0 THEN line ELSE line')

(* The handler releases `before` times before it queues the wake and       *)
(* `after` times after it; a wake in the line is a release of its own.     *)
QueueWake(r, owes, inPool, before, after) ==
  LET joins == owes /\ ~Delivers(r, inPool)
      n     == before + after + IF joins THEN 1 ELSE 0
  IN
  /\ \/ owes /\ ~joins /\ DeliverWake(r)
     \/ joins /\ EnqueueWake(r)
     \/ ~owes /\ StayParked(r)
  /\ IF n = 0 THEN UNCHANGED <<pump, cast>>
              ELSE Released(pump, n, IF before > 0 THEN line ELSE line')

(* endTurn(): a completed turn retires the consecutive-resume counter.     *)
EndTurn(r) ==
  /\ Quiet /\ st[r] = "running"
  /\ attempts' = [attempts EXCEPT ![r] = 0]
  /\ UNCHANGED <<waits, forced, force, recovering, recoveries>>

(* parkForUser(): no slot, and the idle timer runs.                        *)
ParkForUser(r) ==
  /\ EndTurn(r)
  /\ pool' = pool \ {r}
  /\ QueueWake(r, r \in due, FALSE, IF r \in pool THEN 2 ELSE 1, 0)

(* parkOnWaits(): a CI or timer park keeps its slot in the pool, a park on *)
(* workers frees it; a wake that is due now is no reason to free it.       *)
ParkOnWaits(r) ==
  /\ EndTurn(r)
  /\ waits[r] > 0 \/ r \in due
  /\ \E keepsSlot \in BOOLEAN :
       /\ waits[r] = 0 => keepsSlot
       /\ pool' = IF keepsSlot THEN pool \cup {r} ELSE pool \ {r}
       /\ QueueWake(r, r \in due, keepsSlot, IF r \in pool /\ ~keepsSlot THEN 1 ELSE 0, 1)

(* queueSessionlessWaitWake(): a run without a session is woken by a       *)
(* continuation.                                                           *)
QueueContinuation(r) ==
  /\ st' = [st EXCEPT ![r] = "continued"]
  /\ line' = Joined(line, r) /\ age' = Joined(age, r)

(* A wait resolves.  A turn in progress, a queued continuation and a run   *)
(* on hold take the result along at their next turn boundary.  Nothing     *)
(* resolves while the manager recovers: its end would queue the wake.      *)
Resolve(r) ==
  /\ Quiet /\ waits[r] > 0 /\ Home[r] \notin recovering
  /\ UNCHANGED <<pool, attempts, forced, force, recovering, recoveries>>
  /\ waits' = [waits EXCEPT ![r] = @ - 1]
  /\ \/ /\ st[r] \in {"running", "continued", "reopening", "resting"}
        /\ due' = due \cup {r}
        /\ UNCHANGED <<st, line, age, wakes, admitted, pump, cast>>
     \/ /\ st[r] = "parked"
        /\ QueueWake(r, TRUE, r \in pool, 0, 0)
     \/ /\ st[r] = "closed"
        /\ QueueContinuation(r)
        /\ wakes' = wakes \cup {r} /\ due' = due \cup {r}
        /\ Released(Pumped(pump, Home[r]), 1, line')
        /\ UNCHANGED admitted

(* retryWaitAdmission(): the timer of a wake that waits.                   *)
Retry(r) ==
  /\ Quiet /\ st[r] = "parked" /\ r \in due /\ Home[r] \notin recovering
  /\ UNCHANGED <<pool, waits, attempts, forced, force, recovering, recoveries>>
  /\ QueueWake(r, TRUE, r \in pool, 0, 0)

(* The idle timer closes a session.  dropActive() forgets the queued wake, *)
(* and a wake still owed is queued again as a continuation.                *)
Close(r) ==
  /\ Quiet /\ st[r] = "parked" /\ r \notin pool
  /\ UNCHANGED <<admitted, pool, due, waits, attempts, forced, force, recovering, recoveries>>
  /\ IF r \in due
     THEN /\ QueueContinuation(r)
          /\ wakes' = wakes \cup {r}
          /\ Released(Pumped(pump, Home[r]), 2, line')
     ELSE /\ st' = [st EXCEPT ![r] = "closed"]
          /\ line' = RemoveFirst(line, r) /\ age' = RemoveFirst(age, r) /\ wakes' = wakes \ {r}
          /\ Released(pump, 1, line')

(* A human message resumes a parked session, or reopens a closed one, past *)
(* every gate.  A queued wake stays in the line.                           *)
Message(r) ==
  /\ Quiet /\ r \in Chatty
  /\ \/ st[r] = "parked" /\ st' = [st EXCEPT ![r] = "running"]
     \/ st[r] = "closed" /\ st' = [st EXCEPT ![r] = "reopening"]
  /\ UNCHANGED <<line, age, wakes, admitted, pool, due, waits, attempts, forced, schedVars>>

-----------------------------------------------------------------------------
(* Usage limits.                                                           *)

(* A turn dies of a usage limit: the resume is scheduled before the slot   *)
(* is released; past the cap the run just fails.                           *)
Limit(r) ==
  /\ Quiet /\ st[r] = "running" /\ r \in Limited
  /\ Forget(r)
  /\ IF attempts[r] < MaxResumes
     THEN /\ st' = [st EXCEPT ![r] = "resting"]
          /\ UNCHANGED <<due, waits, attempts>>
     ELSE /\ st' = [st EXCEPT ![r] = "ended"] /\ due' = due \ {r}
          /\ attempts' = [attempts EXCEPT ![r] = 0] /\ UNCHANGED waits
  /\ Released(pump, 1, line')
  /\ UNCHANGED <<force, recovering, recoveries>>

(* fireAutoResume(): the continuation pumps its own manager as it joins    *)
(* the line, and the timer pumps it once more.                             *)
Expire(r) ==
  /\ Quiet /\ st[r] = "resting"
  /\ QueueContinuation(r)
  /\ attempts' = [attempts EXCEPT ![r] = @ + 1]
  /\ pump' = Pumped(Pumped(pump, Home[r]), Home[r])
  /\ UNCHANGED <<wakes, admitted, pool, due, waits, forced, cast, force, recovering, recoveries>>

(* A human continues a run on hold: it joins the line too.                 *)
ContinueHeld(r) ==
  /\ Quiet /\ st[r] = "resting" /\ r \in Chatty
  /\ QueueContinuation(r)
  /\ attempts' = [attempts EXCEPT ![r] = 0]
  /\ pump' = Pumped(pump, Home[r])
  /\ UNCHANGED <<wakes, admitted, pool, due, waits, forced, cast, force, recovering, recoveries>>

(* cancelAutoResume(): the run settles failed.  Its waits stay; of those   *)
(* that resolve, and of the results it owes, only a later Continue hears.  *)
CancelResume(r) ==
  /\ Quiet /\ st[r] = "resting"
  /\ st' = [st EXCEPT ![r] = "ended"]
  /\ due' = due \ {r} /\ attempts' = [attempts EXCEPT ![r] = 0]
  /\ pump' = Pumped(pump, Home[r])
  /\ UNCHANGED <<waits, line, age, wakes, admitted, pool, forced, cast, force, recovering, recoveries>>

-----------------------------------------------------------------------------
(* Recovery and the watchdog.                                              *)

(* The recovery of an adopted family refuses every pump of its manager.    *)
(* Bound: it begins when no run of the manager owes a wake.                *)
BeginRecovery(p) ==
  /\ Quiet /\ p \notin recovering /\ recoveries < MaxRecoveries
  /\ \A r \in due : Home[r] # p
  /\ recovering' = recovering \cup {p} /\ recoveries' = recoveries + 1
  /\ UNCHANGED <<runVars, pump, cast, force>>

EndRecovery(p) ==
  /\ Quiet /\ p \in recovering
  /\ recovering' = recovering \ {p}
  /\ pump' = IF pump[p].at = "off" THEN [pump EXCEPT ![p] = [Off EXCEPT !.at = "repo"]]
                                   ELSE [pump EXCEPT ![p].again = TRUE]
  /\ UNCHANGED <<runVars, cast, force, recoveries>>

(* rescueStalledQueue(), every QUEUE_WATCHDOG_MS.                          *)
Stalled(p) ==
  /\ Entries(p) # {} /\ AllBusy = 0
  /\ ~\E r \in Run : Home[r] = p /\ st[r] = "resting"

Rescue(p) ==
  /\ Quiet /\ Stalled(p)
  /\ force' = IF InFlightHolds = {} THEN force ELSE force \cup {p}
  /\ pump' = Pumped(pump, p)
  /\ UNCHANGED <<runVars, cast, recovering, recoveries>>

-----------------------------------------------------------------------------
RunStep(r) ==
  \/ Submit(r) \/ Open(r) \/ Reopen(r) \/ Finish(r) \/ CancelQueued(r)
  \/ ParkForUser(r) \/ ParkOnWaits(r) \/ Resolve(r) \/ Retry(r) \/ Close(r) \/ Message(r)
  \/ Limit(r) \/ Expire(r) \/ ContinueHeld(r) \/ CancelResume(r)

ProjectStep(p) ==
  \/ RepoKnown(p) \/ ConfigRead(p) \/ LoopStep(p)
  \/ BeginRecovery(p) \/ EndRecovery(p) \/ Rescue(p)

Next ==
  \/ CastNext
  \/ \E p \in Project : ProjectStep(p)
  \/ \E r \in Run : RunStep(r)

Spec == Init /\ [][Next]_vars

(* The event loop runs every callback that is ready.  A broadcast goes on  *)
(* until it ends, and a resolved wait or an elapsed instant stays so: weak *)
(* fairness.  A sweep or a turn may find another first again and again:    *)
(* strong.  The environment is fair too: a recovery ends, a turn ends, a   *)
(* wait resolves, a reset instant comes.  Nothing is assumed of the        *)
(* watchdog and the retry timers.                                          *)
Sweep(p)    == RepoKnown(p) \/ ConfigRead(p) \/ LoopStep(p) \/ EndRecovery(p)
Progress(r) == \/ Open(r) \/ Reopen(r) \/ Limit(r)
               \/ st[r] # "parked" /\ (Finish(r) \/ ParkForUser(r) \/ ParkOnWaits(r))
Timer(r)    == Resolve(r) \/ Expire(r)

Fairness ==
  /\ WF_vars(CastNext)
  /\ \A p \in Project : SF_vars(Sweep(p))
  /\ \A r \in Run : SF_vars(Progress(r)) /\ WF_vars(Timer(r))

FairSpec == Spec /\ Fairness

-----------------------------------------------------------------------------
(* The line and the stages agree: a run is in it at most once, a job or a  *)
(* continuation is always in it, and a parked or resumed run only with its *)
(* wake.  No owed wake is outside the line unless a turn or a resume will  *)
(* take it along.  This is what takeAt(), removeWake(), forget() and the   *)
(* re-queueing paths must keep together, each for its own registry.        *)
NothingIsLost ==
  /\ Cardinality(ToSet(line)) = Len(line)
  /\ ToSet(line) = {r \in Run : \/ st[r] \in {"queued", "continued"}
                                \/ st[r] \in {"parked", "running"} /\ r \in wakes}
  /\ ToSet(age) = ToSet(line) \cup {r \in Run : st[r] = "opening"}
  /\ wakes \subseteq ToSet(line)
  /\ \A r \in due : st[r] = "parked" => r \in wakes
  /\ \A r \in due : st[r] # "closed"
  /\ admitted \subseteq due

(* Only a human message takes a run past the ceilings, and only that run:  *)
(* no interleaving of sweeps, parks, wakes in the monitoring pool and      *)
(* launches counts a slot twice or forgets one.                            *)
CapRespected ==
  /\ AllBusy <= MaxParallel + Cardinality(Chatty)
  /\ \A p \in Project : Busy(p) <= ProjectMax[p] + Cardinality({r \in Chatty : Home[r] = p})

(* When no pump and no broadcast is under way, no run that waits in a line  *)
(* could leave it: every slot or hold that goes away wakes whoever waits   *)
(* for it.  (A run that a human has resumed waits for nothing.)            *)
Idle == recovering = {} /\ ~cast.on /\ \A p \in Project : pump[p].at = "off"

NoIdleCapacity ==
  Idle => \A p \in Project : \A r \in Entries(p) :
            st[r] = "running" \/ Held(r) \/ ~(Capacity(p) \/ PoolWake(r))

(* A task that was submitted gets its turn, as long as nobody sends        *)
(* messages past the line.                                                 *)
QueuedRunsStart ==
  \A r \in Run : st[r] = "queued" ~> st[r] \notin {"queued", "opening"}

(* A wait that has resolved is delivered to its run, by its own turn end,  *)
(* by a wake from the line or by a continuation, unless the run ends.      *)
WakesAreServed ==
  \A r \in Run : r \in due ~> r \notin due

=============================================================================
