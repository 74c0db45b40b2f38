------------------------------ MODULE Workers -------------------------------
(***************************************************************************)
(* delegation/worker-cleanup.ts, workspace.ts, capacity.ts and             *)
(* destroy-observation.ts, workflows/run/worker-executions.ts,             *)
(* worker-orphans.ts and maintenance-claims.ts: the workers one parent     *)
(* delegates to, from the receipt of their creation to the verified        *)
(* removal of their worktree and branch.                                   *)
(*                                                                         *)
(* disk[w] is what a restart finds: the record, the private execution      *)
(* checkpoint (generation and phase), the destroy intent, the result kept  *)
(* in the parent, and Git.  mem[w] is what the cockpit remembers, os[w]    *)
(* the processes that work in the worktree.  Every await of the code ends  *)
(* an action.  History deletion, previews, test apps, scratch directories, *)
(* unreadable process records and other cockpits are left out.             *)
(***************************************************************************)
EXTENDS Integers, FiniteSets

CONSTANTS
  Worker,      \* the workers the parent may create
  Capacity,    \* WORKER_CAPACITY
  MaxGen,      \* bound: the generations of a worker, its creation included
  MaxAsks,     \* bound: the explicit destroys
  MaxFaults,   \* bound: the steps that fail (a lock that is busy, Git, a write)
  MaxStrays,   \* bound: the processes that outlive a session or come by
  MaxCrashes   \* bound: the crashes of the cockpit

(* The assumption of the theorems in WorkersProofs.                        *)
WorkersAssumption == IsFiniteSet(Worker) /\ Capacity \in Nat /\ MaxGen \in Nat \ {0}

VARIABLES disk, mem, os, up, asks, faults, strays, crashes

tally == <<asks, faults, strays, crashes>>
vars == <<disk, mem, os, up, tally>>

\* running stands for waiting too, and ended for every settled status.
Record == [status : {"absent", "queued", "running", "ended"},
           gen : 0..MaxGen, phase : {"none", "queued", "starting", "complete"},
           intent : {"none", "terminating", "cleaning", "incomplete", "complete"},
           result : 0..MaxGen,    \* the generation of the result the parent keeps
           tree : {"planned", "bare", "ready", "branch", "gone"}]

\* A tree is bare before its receipt, and a branch once the worktree is removed.
NoRecord == [status |-> "absent", gen |-> 0, phase |-> "none", intent |-> "none",
             result |-> 0, tree |-> "planned"]

Engines  == {"off", "setup", "making", "made", "session", "closing"}
Attempts == {"idle", "waiting", "reaping", "judging", "collecting", "removing", "git"}

\* exec and done (finalizedWorkers) are generations, 0 for none.
Forgotten == [line |-> FALSE, exec |-> 0, admitted |-> FALSE, engine |-> "off",
              done |-> 0, claimed |-> FALSE, attempt |-> "idle", timer |-> FALSE,
              seen |-> {}]

TypeOK ==
  /\ disk \in [Worker -> Record] /\ DOMAIN mem = Worker /\ up \in BOOLEAN
  /\ os \in [Worker -> [session : BOOLEAN, stray : {"none", "group", "other", "late"}]]
  /\ \A w \in Worker :
       /\ {mem[w].line, mem[w].admitted, mem[w].claimed, mem[w].timer} \subseteq BOOLEAN
       /\ mem[w].exec \in 0..MaxGen /\ mem[w].done \in 0..MaxGen
       /\ mem[w].engine \in Engines /\ mem[w].attempt \in Attempts
  /\ asks \in 0..MaxAsks /\ faults \in 0..MaxFaults
  /\ strays \in 0..MaxStrays /\ crashes \in 0..MaxCrashes

Init ==
  /\ disk = [w \in Worker |-> NoRecord] /\ mem = [w \in Worker |-> Forgotten]
  /\ os = [w \in Worker |-> [session |-> FALSE, stray |-> "none"]] /\ up = TRUE
  /\ asks = 0 /\ faults = 0 /\ strays = 0 /\ crashes = 0

-----------------------------------------------------------------------------
(* What the steps are made of.                                             *)

(* inspectGeneration(): the processes that hold the worktree.              *)
Holders(w) == (IF os[w].session THEN {"session"} ELSE {}) \cup ({os[w].stray} \ {"none"})

(* orphanState(): a generation that a dead cockpit left starting.          *)
Orphaned(w) == disk[w].phase = "starting" /\ mem[w].exec = 0 /\ mem[w].done = 0

\* Mutant of Released: a destroy that failed releases its place
MutReleased(w) == disk[w].intent \in {"incomplete", "complete"}

(* workerCapacity(): only a verified destroy releases a receipt.           *)
Released(w)    == disk[w].intent = "complete"
Outstanding    == {w \in Worker : disk[w].status # "absent" /\ ~Released(w)}

Stores(w, d, m) == disk' = [disk EXCEPT ![w] = d] /\ mem' = [mem EXCEPT ![w] = m]
Recalls(w, m)   == mem' = [mem EXCEPT ![w] = m] /\ UNCHANGED disk

Faulty(ok) == /\ faults' = (IF ok THEN faults ELSE faults + 1)
              /\ faults' <= MaxFaults /\ UNCHANGED <<asks, strays, crashes>>

(* beginWorkerExecution(), commitWorkerExecutionStart(): what it refuses.  *)
Admissible(w) ==
  /\ mem[w].exec = 0 /\ ~mem[w].claimed /\ disk[w].intent = "none" /\ Holders(w) = {}
  /\ disk[w].phase \in {"queued", "complete"} \/ Orphaned(w)

Begun(d) == [d EXCEPT !.gen = @ + 1, !.phase = "starting"]
Begins(m, g, admitted) == [m EXCEPT !.exec = g, !.admitted = admitted, !.done = 0]

(* cancel() of a worker: its record, then its place in the line.           *)
Cancelled(d, m) ==
  [d EXCEPT !.status = "ended",
            !.phase = IF @ = "queued" /\ m.exec = 0 /\ m.engine = "off" THEN "complete" ELSE @]
Unqueued(m) ==
  [m EXCEPT !.line = FALSE,
            !.engine = IF m.line /\ m.exec # 0 /\ ~m.admitted THEN "closing" ELSE @]

Stopped(w) == disk[w].intent # "none" \/ disk[w].status = "ended"

-----------------------------------------------------------------------------
(* The worker's record and its executions.                                 *)

(* spawn(), createOwnedRun(): a parent's spawns are serialized, and the    *)
(* limit is checked again where the receipt is written.                    *)
Spawn(w) ==
  /\ disk[w].status = "absent" /\ Cardinality(Outstanding) < Capacity
  /\ Stores(w, [NoRecord EXCEPT !.status = "queued", !.gen = 1, !.phase = "queued"],
               [mem[w] EXCEPT !.line = TRUE])
  /\ UNCHANGED <<os, tally>>

(* pump(): checkpointQueuedWorker() before the run leaves the line.        *)
Launch(w) ==
  /\ mem[w].line
  /\ LET left == [mem[w] EXCEPT !.line = FALSE]
         runs == [left EXCEPT !.engine = "setup", !.admitted = TRUE]
     IN \/ /\ mem[w].exec # 0
           /\ Stores(w, [disk[w] EXCEPT !.status = "running"], runs)
        \/ /\ Admissible(w) /\ disk[w].gen < MaxGen
           /\ Stores(w, [Begun(disk[w]) EXCEPT !.status = "running"],
                        Begins(runs, disk[w].gen + 1, TRUE))
        \/ /\ mem[w].exec = 0 /\ ~Admissible(w)
           /\ Stores(w, [disk[w] EXCEPT !.status = "ended"], left)
  /\ UNCHANGED <<os, tally>>

(* continueRun() of a settled worker, at once or through the line.         *)
Continue(w) ==
  /\ disk[w].status = "ended" /\ mem[w].engine = "off" /\ Admissible(w)
  /\ disk[w].gen < MaxGen
  /\ \E now \in {b \in BOOLEAN : b => disk[w].tree = "ready"} :
       Stores(w, [Begun(disk[w]) EXCEPT !.status = IF now THEN "running" ELSE "queued"],
                 [Begins(mem[w], disk[w].gen + 1, now) EXCEPT
                    !.line = ~now, !.engine = IF now THEN "setup" ELSE "off"])
  /\ UNCHANGED <<os, tally>>

(* requestWorkerStop(): a session that is open is interrupted.             *)
Stop(w) ==
  /\ disk[w].status \in {"queued", "running"}
  /\ Stores(w, Cancelled(disk[w], mem[w]), Unqueued(mem[w]))
  /\ UNCHANGED <<os, tally>>

Closing(w) == Stores(w, [disk[w] EXCEPT !.status = "ended"], [mem[w] EXCEPT !.engine = "closing"])

(* ensureOwnedWorkspace(): only what a receipt proves is used again.       *)
Provision(w) ==
  /\ mem[w].engine = "setup"
  /\ CASE disk[w].intent = "none" /\ disk[w].tree = "planned" ->
            Stores(w, [disk[w] EXCEPT !.tree = "bare"], [mem[w] EXCEPT !.engine = "making"])
       [] disk[w].intent = "none" /\ disk[w].tree = "ready" ->
            Recalls(w, [mem[w] EXCEPT !.engine = "made"])
       [] OTHER -> Closing(w)
  /\ UNCHANGED <<os, tally>>

(* createOwnedWorkspace(): the receipt is the last write.                  *)
WriteReceipt(w) ==
  /\ mem[w].engine = "making"
  /\ Stores(w, [disk[w] EXCEPT !.tree = "ready"], [mem[w] EXCEPT !.engine = "made"])
  /\ UNCHANGED <<os, tally>>

SetupFails(w) ==
  /\ mem[w].engine \in {"setup", "making", "made"} /\ Faulty(FALSE)
  /\ Closing(w) /\ UNCHANGED os

(* A Stop or a destroy that came meanwhile refuses the launch.             *)
StartSession(w) ==
  /\ mem[w].engine = "made" /\ UNCHANGED tally
  /\ \/ /\ Stopped(w) /\ Closing(w) /\ UNCHANGED os
     \/ /\ ~Stopped(w) /\ Recalls(w, [mem[w] EXCEPT !.engine = "session"])
        /\ os' = [os EXCEPT ![w].session = TRUE]

(* The session closes; what its agent started may outlive it in its group. *)
EndSession(w) ==
  /\ mem[w].engine = "session" /\ Closing(w)
  /\ \E left \in {os[w].stray, "group"} :
       /\ left # os[w].stray => os[w].stray = "none" /\ strays < MaxStrays
       /\ os' = [os EXCEPT ![w] = [session |-> FALSE, stray |-> left]]
       /\ strays' = (IF left = os[w].stray THEN strays ELSE strays + 1)
       /\ UNCHANGED <<asks, faults, crashes>>

(* finishWorkerExecution(): the checkpoint is kept in memory if it fails.  *)
Finish(w) ==
  /\ mem[w].engine = "closing"
  /\ \E ok \in BOOLEAN :
       /\ Faulty(ok)
       /\ Stores(w, [disk[w] EXCEPT !.phase = IF ok THEN "complete" ELSE @],
            [mem[w] EXCEPT !.engine = "off", !.exec = 0, !.admitted = FALSE,
                           !.done = IF ok THEN 0 ELSE mem[w].exec])
  /\ UNCHANGED os

(* settleOrphanedWorkerExecution(): nothing is left of the generation.     *)
SettleOrphan(w) ==
  /\ Orphaned(w) /\ Holders(w) = {}
  /\ Stores(w, [disk[w] EXCEPT !.phase = "complete"], mem[w]) /\ UNCHANGED <<os, tally>>

(* collect(): the parent asks for the result of a settled worker.          *)
Collect(w) ==
  /\ disk[w].phase = "complete" /\ disk[w].status = "ended" /\ disk[w].tree = "ready"
  /\ Stores(w, [disk[w] EXCEPT !.result = disk[w].gen], mem[w]) /\ UNCHANGED <<os, tally>>

-----------------------------------------------------------------------------
(* Destroy.  A worker's attempts are serialized.                           *)

Key(w) == <<disk[w].status, disk[w].gen, disk[w].phase, disk[w].tree>>

(* holdersStillHold(), observeDestroy(): nothing a tick can see changed.   *)
Unchanged(w) == \E s \in mem[w].seen : s.key = Key(w) /\ s.holders \subseteq Holders(w)

(* destroyAttempt() up to its wait: requested, terminating, stop.          *)
Attempt(w) ==
  LET m == Unqueued(mem[w])
  IN /\ mem[w].attempt = "idle"
     /\ Stores(w, [Cancelled(disk[w], mem[w]) EXCEPT !.intent = "terminating"],
          [m EXCEPT !.timer = FALSE, !.attempt = IF m.exec # 0 THEN "waiting" ELSE "reaping"])
     /\ UNCHANGED os

Destroy(w) ==
  /\ disk[w].status # "absent" /\ asks < MaxAsks /\ Attempt(w)
  /\ asks' = asks + 1 /\ UNCHANGED <<faults, strays, crashes>>

(* destroyTick(): a tick that sees nothing new changes nothing here.       *)
Retry(w) == mem[w].timer /\ ~Unchanged(w) /\ Attempt(w) /\ UNCHANGED tally

Fails(w, explained) ==
  Stores(w, [disk[w] EXCEPT !.intent = "incomplete"],
    [mem[w] EXCEPT !.attempt = "idle", !.claimed = FALSE, !.timer = TRUE,
       !.seen = IF explained THEN {[key |-> Key(w), holders |-> Holders(w)]} ELSE {}])

(* proveRunTermination(): the execution ended, or the wait timed out.      *)
Wait(w) ==
  /\ mem[w].attempt = "waiting"
  /\ Recalls(w, [mem[w] EXCEPT !.attempt = "judging"]) /\ UNCHANGED <<os, tally>>

(* proveRunTermination() without an execution: reapOrphanedWorker() kills  *)
(* the recorded session and its group, a finalized checkpoint is saved.    *)
Reap(w) ==
  /\ mem[w].attempt = "reaping"
  /\ LET survivors == Holders(w) \ {"session", "group"}
         proven    == mem[w].done # 0 \/ (Orphaned(w) /\ survivors = {})
         judge     == [mem[w] EXCEPT !.attempt = "judging"]
     IN \E ok \in BOOLEAN :
          /\ Faulty(ok)
          /\ IF ok /\ proven
             THEN Stores(w, [disk[w] EXCEPT !.phase = "complete"], [judge EXCEPT !.done = 0])
             ELSE Recalls(w, judge)
          /\ os' = IF Orphaned(w)
                   THEN [os EXCEPT ![w].session = FALSE,
                                   ![w].stray = IF @ = "group" THEN "none" ELSE @]
                   ELSE os

(* Not proven: the blockers of a reaped orphan are named.  Proven: what    *)
(* the generation left in its group is ended (terminateFinishedGroups).    *)
Judge(w) ==
  /\ mem[w].attempt = "judging" /\ UNCHANGED tally
  /\ \/ /\ mem[w].exec # 0 \/ disk[w].phase # "complete"
        /\ Fails(w, Orphaned(w) /\ Holders(w) # {}) /\ UNCHANGED os
     \/ /\ mem[w].exec = 0 /\ disk[w].phase = "complete"
        /\ Stores(w, [disk[w] EXCEPT !.intent = "cleaning"],
                     [mem[w] EXCEPT !.attempt = "collecting"])
        /\ os' = [os EXCEPT ![w].stray = IF @ = "group" THEN "none" ELSE @]

\* Mutant of Evidence: an older result counts
MutEvidence(w) == IF disk[w].result = 0 THEN disk[w].gen ELSE disk[w].result

(* cleanWorkspace() up to the removal: the evidence is durable, then the   *)
(* worker is claimed (claimWorkerCleanup).  A worker whose worktree is     *)
(* gone keeps the result it had.                                           *)
Evidence(w)    == IF disk[w].tree = "ready" THEN disk[w].gen ELSE disk[w].result

Keep(w) ==
  /\ mem[w].attempt = "collecting" /\ UNCHANGED os
  /\ \E ok \in BOOLEAN :
       /\ Faulty(ok)
       /\ IF ok THEN Stores(w, [disk[w] EXCEPT !.result = Evidence(w)],
                               [mem[w] EXCEPT !.attempt = "removing", !.claimed = TRUE])
                ELSE Fails(w, FALSE)

Done(w) ==
  Stores(w, [disk[w] EXCEPT !.intent = "complete", !.tree = IF @ = "branch" THEN "gone" ELSE @],
    [mem[w] EXCEPT !.attempt = "idle", !.claimed = FALSE, !.timer = FALSE, !.seen = {}])

\* Mutant of Unheld: only the session is looked for
MutUnheld(w) == ~os[w].session

(* assertUnheld and the last scan before the worktree is removed.          *)
Unheld(w)    == Holders(w) = {}

(* removeOwnedWorkspace() under the worktree mutation lock.                *)
Remove(w) ==
  /\ mem[w].attempt = "removing" /\ UNCHANGED os
  /\ \E ok \in BOOLEAN :
       /\ Faulty(ok)
       /\ CASE ~ok \/ disk[w].tree = "bare" -> Fails(w, FALSE)
            [] ok /\ disk[w].tree \in {"ready", "branch"} /\ ~Unheld(w) -> Fails(w, TRUE)
            [] ok /\ disk[w].tree = "ready" /\ Unheld(w) ->
                 Recalls(w, [mem[w] EXCEPT !.attempt = "git"])
            [] OTHER -> Done(w)

GitRemoves(w) ==
  /\ mem[w].attempt = "git"
  /\ Stores(w, [disk[w] EXCEPT !.tree = "branch"], [mem[w] EXCEPT !.attempt = "removing"])
  /\ UNCHANGED <<os, tally>>

-----------------------------------------------------------------------------
(* The world around: processes, crashes and restarts.                      *)

(* Somebody works in the worktree.  late: Git was already removing it.     *)
ComeBy(w) ==
  /\ disk[w].tree = "ready" /\ os[w].stray = "none" /\ strays < MaxStrays
  /\ os' = [os EXCEPT ![w].stray = IF mem[w].attempt = "git" THEN "late" ELSE "other"]
  /\ strays' = strays + 1 /\ UNCHANGED <<disk, mem, asks, faults, crashes>>

(* A session without a cockpit ends by itself, and so does a stray.        *)
Leave(w) ==
  /\ UNCHANGED <<disk, mem, tally>>
  /\ \/ mem[w].engine # "session" /\ os[w].session /\ os' = [os EXCEPT ![w].session = FALSE]
     \/ os[w].stray # "none" /\ os' = [os EXCEPT ![w].stray = "none"]

(* A Git command that runs may finish after the cockpit died.              *)
Crash ==
  /\ up /\ up' = FALSE /\ crashes < MaxCrashes /\ crashes' = crashes + 1
  /\ \E dying, removed \in SUBSET Worker :
       /\ dying \subseteq {w \in Worker : os[w].session}
       /\ removed \subseteq {w \in Worker : mem[w].attempt = "git"}
       /\ os' = [w \in Worker |-> [os[w] EXCEPT !.session = @ /\ w \notin dying]]
       /\ disk' = [w \in Worker |-> [disk[w] EXCEPT !.tree = IF w \in removed THEN "branch" ELSE @]]
  /\ mem' = [w \in Worker |-> Forgotten] /\ UNCHANGED <<asks, faults, strays>>

(* recover(), armAfterRecovery(): orphans are settled, queued and running  *)
(* workers join the line again, pending destroys get their timer back.  An *)
(* interrupted worker is continued, or its workflow restarted (requeued).  *)
Recovered(w, requeued) ==
  LET d == IF disk[w].phase = "starting" /\ Holders(w) = {}
           THEN [disk[w] EXCEPT !.phase = "complete"] ELSE disk[w]
      restarted == [d EXCEPT !.status = "queued"]
  IN CASE d.intent # "none" -> [d |-> d, m |-> [Forgotten EXCEPT !.timer = ~Released(w)]]
       [] d.intent = "none" /\ (d.status = "queued" \/ (d.status = "running" /\ requeued)) ->
            [d |-> restarted, m |-> [Forgotten EXCEPT !.line = TRUE]]
       [] d.intent = "none" /\ d.status = "running" /\ ~requeued ->
            IF d.phase = "complete" /\ Holders(w) = {} /\ d.gen < MaxGen
            THEN [d |-> Begun(restarted),
                  m |-> Begins([Forgotten EXCEPT !.line = TRUE], d.gen + 1, FALSE)]
            ELSE [d |-> [d EXCEPT !.status = "ended"], m |-> Forgotten]
       [] OTHER -> [d |-> d, m |-> Forgotten]

Restart ==
  /\ ~up /\ up' = TRUE /\ UNCHANGED <<os, tally>>
  /\ \E requeued \in SUBSET {w \in Worker : disk[w].status = "running"} :
       /\ disk' = [w \in Worker |-> Recovered(w, w \in requeued).d]
       /\ mem' = [w \in Worker |-> Recovered(w, w \in requeued).m]

-----------------------------------------------------------------------------
Engine(w) == \/ Provision(w) \/ WriteReceipt(w) \/ StartSession(w)
             \/ (Stopped(w) /\ EndSession(w)) \/ Finish(w)
Cleanup(w) == \/ Wait(w) \/ Reap(w) \/ Judge(w) \/ Keep(w) \/ Remove(w) \/ GitRemoves(w)
              \/ Retry(w)

Works(w) ==
  \/ Spawn(w) \/ Launch(w) \/ Continue(w) \/ Stop(w) \/ SetupFails(w) \/ EndSession(w)
  \/ SettleOrphan(w) \/ Collect(w) \/ Destroy(w) \/ Engine(w) \/ Cleanup(w)

Next ==
  \/ \E w \in Worker : up /\ UNCHANGED up /\ Works(w)
  \/ \E w \in Worker : UNCHANGED up /\ (ComeBy(w) \/ Leave(w))
  \/ Crash \/ Restart

Spec == Init /\ [][Next]_vars

(* Timers fire, awaits end, and every process that works in a worktree     *)
(* ends some day: nothing else is asked of an agent that was stopped.      *)
FairSpec ==
  /\ Spec /\ WF_vars(Restart)
  /\ \A w \in Worker :
       /\ WF_vars(up /\ UNCHANGED up /\ Engine(w))
       /\ WF_vars(up /\ UNCHANGED up /\ Cleanup(w))
       /\ WF_vars(UNCHANGED up /\ Leave(w))

-----------------------------------------------------------------------------
(* Properties.                                                             *)

(* No worktree is removed under a process: neither the worker's session,   *)
(* in this cockpit or left by a dead one, nor what it started, nor anybody *)
(* who was there when the removal looked (workspace.ts, removePresent).    *)
NobodyLosesAWorktree ==
  \A w \in Worker : os[w].session \/ os[w].stray \in {"group", "other"} => disk[w].tree = "ready"

(* Once a worktree is gone the parent keeps the result of the last         *)
(* generation, whatever crashed in between (worker-cleanup.ts:241-243).    *)
EvidenceOutlivesTheWorktree ==
  \A w \in Worker : disk[w].tree \in {"branch", "gone"} =>
    disk[w].result = disk[w].gen /\ disk[w].phase = "complete"

(* A parent never has more workers that may run, or that hold a worktree   *)
(* or a branch, than its capacity (capacity.ts).                           *)
HoldsResources(w) ==
  \/ mem[w].line \/ mem[w].exec # 0 \/ os[w].session
  \/ disk[w].tree \in {"bare", "ready", "branch"}
CapacityBoundsResources == Cardinality({w \in Worker : HoldsResources(w)}) <= Capacity

(* A destroy that has begun completes, whatever failed on the way, without *)
(* being asked for again; one whose provisioning left no receipt may not   *)
(* (workspace.ts:218), nobody can tell whose worktree it is.               *)
DestroyBegun(w) == disk[w].intent # "none"
DestroyEnded(w) == disk[w].intent = "complete" \/ disk[w].tree = "bare"
DestroysEnd == \A w \in Worker : DestroyBegun(w) ~> DestroyEnded(w)

=============================================================================
