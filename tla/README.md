# Cezar: a verification of its core

Cezar runs coding agents for several projects from one local server, the
cockpit. Runs queue for a limited number of agent processes, wait for people,
workers, timers and CI, meet usage limits, share a repository's working tree,
and outlive restarts in a database that command-line processes use too. This
directory holds TLA+ models of the parts of `src/packages/cezar/src` where that
is hard, the TLC configurations that check them on small instances, and proofs
that TLAPS checks for all values of the constants.

Paths below are relative to `src/packages/cezar/src`. `PROJECT.json` lists for
every definition of a model the lines it models, for every run its question,
and for every hazard the line where it bites and the properties about it.

Run anything here with `tlc -config X.cfg M` and `tlapm M.tla`.

## 1. The system

### Components

| Part | State | Operations | Right when |
| --- | --- | --- | --- |
| Home write lock (`home/write-lock.ts`) | claim files of the processes, each with a ticket; a set of roots held in memory | `withHomeLock`: publish, choose a ticket, pass over the peers until first; remove the claims of the dead | one process at a time; nobody's live claim is removed; every call ends |
| Home store (`home/store.ts`, `home/version-log.ts`) | the file, and beside it HEAD, PENDING, OUTSIDE, RESET, ACCEPTED and pinned versions | read, write, exclusive creation, rollback, restore, acceptance of an outside write; every one begins with an inspection | our own crash is never taken for another's write, emptying a registry always leaves a way back, foreign bytes are never overwritten silently |
| Line of a project (`workflows/run/run-line.ts`) | queue, pending jobs, wakes, monitoring pool, forced starts; pumping flags | submit, pump, launch, park, wake, requeue, cancel, watchdog | a run is in every set it should be in and in no other; nothing that could run stays |
| Workspace semaphore (`workspace/semaphore.ts`) | the projects' lines, broadcast flags | capacity, broadcast of a freed slot, holds of accounts | ceilings hold, no freed slot is lost |
| Usage-limit holds (`workflows/run/auto-resume.ts`) | resume time and attempts of a run, timers | schedule, fire, withdraw | a closed account blocks its own work only, and only while closed |
| Waits, turn ends, wakes (`workflows/run/turn-settler.ts`, `wait-registry.ts`, `wait-watches.ts`, `wake-admission.ts`, `wake-retries.ts`, `input-delivery.ts`) | waits and inputs of a run, watchers, retry and backoff timers, what is owed to the run | register, resolve, queue, admit, deliver, acknowledge, retry, give up | a result is delivered, or ended by someone who meant it; automatic wakes keep to their budget; who owes a wake has a source for it |
| Repository-root lease (`workflows/run/repo-root-lease.ts`) | a chain of promises | acquire, cancel, drop | one run in the root, in order, no wait for ever |
| Family claims, fenced writes (`runs/claim-families.ts`, `run-claims.ts`, `run-database.ts`, `store.ts`) | tables of runs, claims and conflicts; per process the runs in memory, claims, revisions read | open, write, commit, delete, adopt, save, sweep, close | one owner per family, no lost update, nothing accepted vanishes, live work is adopted only on purpose |
| Run exits (`runs/run-exits.ts`) | a table of status moves | move | only legal moves, each with its event |
| Outcome commits (`runs/outcome-commit.ts`) | inputs, waits and counters of a run | deliver, consume, requeue, answer, settle | a delivery and what it settles are one commit, and a refused commit loses nothing that a restart needs |
| Workers (`delegation/`, `workflows/run/worker-*.ts`) | receipts in the parent, execution generations, destroy intents, worktrees and branches | create, execute, continue, stop, collect, destroy, retry | the capacity bounds what exists; no worktree goes under a process, nor before what it proved is kept; a destroy completes |
| Worker conversations (`delegation/conversations.ts`, `questions.ts`) | requests and replies | ask, answer | a question is answered once |
| Automations (`automations/`) | the lease file and its guard, receipts, schedules, archives | fire, check, run now, retry, enable, pause, cancel, reconcile | one holder of the lease, at most one task of a key, no automatic second try, a launched schedule is archived |
| Webhooks (`runs/webhook.ts`) | promise chains per run and per webhook | observe, dispatch, deliver, retry | order and numbering for each webhook |
| CI and process waits (`ci-wait/`, `process-wait/`) | watchers and their pool | watch, observe, time out | no slot is lost; one outcome, before the deadline or at it |
| Updates (`application-update/`, `self-update/`) | a directory lock, installed versions | lock, stage, swap, restart | of two updates that overlap one is told so; a working version at any crash |
| Server, interface, runners, tools | connections, processes | routes and adapters | call the above |

### How they interact

The managers of all projects live in one JavaScript thread and share the
semaphore by calls and broadcasts; what interleaves there is what runs between
two awaits. A run that needs the repository's root gives its slot back through
the line while it waits for the lease. A turn's end reports to the line
(park, release) and to the waits; a resolved wait goes back through the line as a
wake. Workers are runs of the same line, with a receipt in their parent and a
worktree of their own; webhooks watch the changes of all records; automations
start runs that carry their receipt. All of them keep their state in records of the run store. Several
processes (cockpits of other homes, command-line tools, headless runs) share
the run database of a project, by claims and fenced transactions, and the home
directory, by the write lock and the version log. Processes die at any time,
and the operating system reuses their ids.

### What is hard

Interleavings at awaits (pump, broadcast, spawn gate, lease), stale readings
(holds read before an await, owners judged outside the transaction), crashes
between two durable writes, dead owners and reused pids, a conflict of one row
in a batch, wakes racing human messages and stops, receipts of inputs that come
after their turn, files and worktrees judged by their path and removed later. The
list with lines is `hazards` in `PROJECT.json`.

## 2. Modules

| Module | Models | Uses |
| --- | --- | --- |
| `Mutex` | what a lock promises | |
| `HomeLock` | `home/write-lock.ts` | `Mutex` |
| `HomeStore` | one file of `home/store.ts` and `home/version-log.ts` | |
| `RunLine` | line, semaphore, holds, wakes | |
| `RootLease` | `workflows/run/repo-root-lease.ts` | `Mutex` |
| `RunClaims` | claims and fenced writes of the run store | |
| `RunWaits` | the waits, wakes and inputs of one run | |
| `Workers` | the workers of one parent, from receipt to verified destroy | |
| `Automations` | one receipt key in several cockpits | |
| `PathLease` | the automations' lease file and reclaim guard | |
| `UpdateLock` | `application-update/lock.ts` | |
| `Webhooks` | `runs/webhook.ts` | |
| `CiSlots` | the slots of `ci-wait/` | |
| `HomeLockOrder` | history: who was there when a call listed its peers | `HomeLock` |
| `Services` | the properties of seven components that share nothing | `RootLease` and the six above |
| `MCServices` | one run of them and of the lock's liveness | `Services`, `HomeLock` |
| `MC*` | small instances; for `HomeStore` history too | the above |
| `*Proofs` | theorems and proofs | the above, TLAPS |
| `QueueLemmas` | what operations on queues do, and that numbers have a least | TLAPS |

Operators called `Mut...`, and those whose comment says "Mutant of", are faulty
variants of the operator defined after them. Each is a mistake one could make in the code, and
some run's property fails with it.

### HomeLock

A call of `withHomeLock` is a process of the model. It publishes a claim with
ticket 0 (`Enter`), lists its peers and reads their tickets one by one
(`ListPeers`, `ReadTicket`), publishes its own (`PublishTicket`), and then
passes over the peers (`StartPass`, `CheckPeer`, `Retry`) until nobody goes
first (`Acquire`) or its deadline has passed (`TimeOut`). Every file operation
is a step. `MustRemove` and `MayRemove` are `readClaim`'s removal of claims: of
dead owners for certain, and of owners without a readable start token after 30
seconds, which is any time. `Crash` kills a process anywhere; `ReusePid` gives
its id to a stranger. `EnterNested` is the reentrant call.

For owners without a start token ADR 0060 itself documents that exclusion may
be lost (a claim older than 30 s expires though its owner lives);
`Exclusion`, `FirstComeFirstServed` and `ClaimsAreNotStolen` are therefore
about confirmed owners. The reading, judgement and removal of one claim are one
step: its name is unique and only its owner writes it (`write-lock.ts:40`), so a
removal that comes later removes the same claim of the same dead owner. A
claim that cannot be read or parsed throws, which is not modelled. `Exclusion` is part of what `ImplementsMutex` says, and proved.
`HomeLockOrder` adds the history variable `ahead`, in terms of which
`FirstComeFirstServed` is stated; `MCHomeLock` is its instance.

### HomeStore

The locals of a transaction are `tx` and its position `at`; every durable write
is an action (`Seed`, `Settle`, `Flag`, `Store`, `Pend`, `ReplaceLive` or
`LinkLive`, `CommitHead`, `ClearPending`, `PromoteReset`, `RecordAccepted`,
`ClearOutside`, `ClearReset`), so that `Crash` may come before any of them.
`Inspect...` is `VersionLog.inspect`, the `Decide...` actions are the operations
of `HomeStore` after the inspection. `Outsider` replaces or deletes the file at
any moment; `raced` says that one came during the operation, which the code
cannot prevent and the properties therefore exclude.

Left out: rotated backups and `config.json.bak`. What reads them gets any
content.

`MCHomeStore` fixes what the file is (`file`, a registry or a lock) and adds two
history variables: `emptied`, the empty registries put in place of a full one,
or of an empty one that had been, which only grows; and `owed`, the registry
emptied last until it is given back or given up. `ResetsAreReal` asks that the
registry a counting reset observed is in `emptied`, `EmptyingIsFlagged` that while
something is owed a reset counts or the next inspection makes it count. (An
earlier form forgot `emptied` with the next full registry; with two different
empty contents a crash may leave the reset of the first while the second is
written, and the code is right to keep it.)
`RecordAssumption` says that "no record" is not a record.

### RunLine

`st` is the stage of a run, `line` the queues of all projects together in order
of pushes, `age` the order by stamp. A pump is a little program with two awaits
(`RepoKnown`, `ConfigRead`) and a sweep (`LoopStep`), which nothing interrupts;
`pump[p].again` is `pumpAgain`. `cast` is the broadcast of the semaphore,
`Released` is `releaseSlot()`, several of which may happen in one handler. The
handlers are actions of runs: `Submit`, `Open` with the spawn gate, `Reopen`,
`Finish`, `CancelQueued`, `ParkForUser`, `ParkOnWaits`, `Resolve`, `Retry`,
`Close`, `Message`, `Limit`, `Expire`, `ContinueHeld`, `CancelResume`; recovery
and the watchdog are actions of projects.

Not in the model: root-finish and maintenance blockers, a missing repository
and its rediscovery, changes of the configuration, records without a runner,
failed wake deliveries with their backoff and the gap between a delivery and
its acknowledgement (in `RunWaits`), parks on an agent's native question or permission, the
park of a waiter for the root (in `RootLease`), re-adoption of queued records the
engine lost, Continue of ended runs, the rebuilding of the line at a restart,
`dispose`. The preparation of a worktree after the gate counts as running. A
recovery begins only when no wake is owed, and no wait of the project resolves
during it. An account is on hold until the run's `Expire`, where the code's hold
lapses with the clock, a moment before the timer (`run-scheduling.ts:104`). A
park for the user that keeps its slot in the pool for native subagents
(`turn-settler.ts:417`) is left out with them.

### RootLease

Promises are numbered by acquisition. `Ask` appends one to the chain and keeps
the release that waits for the one before (`chained`); `Return` is the
continuation after the race between the turn and a stop; `Drop` calls what is
retained; `PassOn` is `previous.then(release)`. `parked` is the slot given back
during the wait. Not in the model: `dispose`, which releases everything, and
the switch `CEZ_DISABLE_REPO_LOCK`. All calls of `dropActive` come from the
run's own flow, after its acquisition has returned.

### RunClaims

A store is one session of `RunStore`. A step is one statement or transaction of
the database with what follows in memory before the next statement: `Judge`
reads claims and live rows (`claimable`), `Take` takes them in a transaction of its own,
`TakeBusy` leaves them pending or refuses, `Load...` read the rows,
`Persist` is a fenced transaction that succeeds, `Conflict` one that fails
together with the recording of its evidence, `Fail` one that finds the database
busy or whose evidence cannot be recorded, `Sweep` the eviction of settled runs and the release of
claims, `Close` and `End` the end of a session and of a process. The calls are
`Open`, `WriteHeld`, `WriteCold`, `Delete`, `Commit`, `Adopt` and `Save`; a
save comes at any time. A run is its revision, whether it is live, and the set
of writes it contains (`log`), which is how a lost update shows.

A process that has ended may still be believed alive: where the start token is
missing, its pid may be reused (`left`, which may become `gone` later).

Not in the model: creation of runs, deletion deferred to other holders, repairs
of old records at opening, migrations, a worker that moves to another family,
rows that cannot be decoded, the cache of cold reads. Pins keep a run in memory
nondeterministically. A transaction uses one generation for all its claims
(only equality matters). `assertWritable` and the claiming in `persist` are one
judgement, a failed fence and the recording of its evidence one step. A
deletion that finds the database busy is given up, where the code leaves it
pending for the next save (`runs/store.ts:3158`). A deletion that fails its fence keeps no copy of the changes it
discarded with the row. A claim that was never held by anybody, as after a
store was cleanly closed, may pass to an ordinary write with live rows in the
family; `NoQuietInheritance` speaks of claims of owners that are gone, as the code's comment
does.

### RunWaits

`run` is one record: what is in memory, and in `disk` what a restart finds.
Handlers are compositions of operators on such records (`EndTurn`, `QueueWake`,
`FailedDelivery`, `Closed`, ...), each named for the code's function, and the
actions are what calls them: a wait opens, resolves, is cancelled; a turn ends,
a receipt comes, a delivery fails; a timer fires; the line admits or launches;
the session closes; a person writes, continues or stops; a save; a restart.
`ok` says whether a best-effort commit is stored, `sent` whether the runner
accepts a delivery. `torn`, `late` and `charged` are history: what the code
could not watch again after a refused write, a receipt that came after its
turn, and the wakes ever charged.

The instance has a timer, whose wake is charged to the budget of automatic
wakes, and a pull-request wait. `OpenWaitsAreWatched` and the like exempt `torn`
waits: a cancellation refused by the store leaves a wait open on disk without a
watcher until the restart.

Not in the model: waits on workers, peers, subagents and native questions,
messages of the family, usage limits, autonomous readiness, a crash between a
Stop and the session's end, Continue of done or cancelled runs, and the refusal
of the one commit that cancels results at the cap of wakes.

### Workers

`disk` is the record, execution checkpoint, destroy intent, result and Git;
`mem` what the cockpit remembers; `os` the processes. A generation is the
number of the execution. `Spawn`, `Launch`, `Continue`, `Stop` and the engine's
steps (`Provision` to `Finish`) move a worker; a destroy is the sequence
`Attempt`, `Wait` or `Reap`, `Judge`, `Keep`, `Remove`, `GitRemoves`, `Remove`,
each an await of the code, with `Fails` back to a timer. Sessions outlive a
crashed cockpit, what an agent started outlives its session (`group`), and
anybody may work in a worktree (`other`). A stray who comes while Git is
already removing (`late`) cannot be protected by anybody and is exempt.

`Spawn` is one step: the code serializes spawns and judges again in the
transaction (`runs/owned-run-create.ts:56`). A refusal of the branch's deletion
because it was advanced (`workspace.ts:454`) is one of the failures of `Remove`.
A tick of the timer that sees nothing new changes nothing and is no step. The
automatic attempts of different workers are serialized in the code and
interleave in the model. A worktree whose receipt was never written (`bare`)
may stay, as its owner cannot be told (`delegation/workspace.ts:218`), and
`DestroysEnd` exempts it.

### Automations and PathLease

`Automations` is one key of the receipts file. A cockpit under the lease is at a
place `at`; reads, durable writes and the awaited launch are steps, so that a
crash may come between the task and its receipt, the receipt and the archive,
the stop of a schedule and its receipt. `Judge` is what a reconciliation has
found, `Reconcile` what it writes. `stale` records three histories the code
lets happen and the properties exempt: a boot reconciles without the lease
(`server/server.ts:5347`) and writes off a launch that is alive in another
cockpit (ADR 0024 speaks of this process's own reservations only); the retry
of a GitHub event does not look at the receipt again under the lease
(`server/automation-log-retry.ts:65`); and a launched event whose receipt or log
row could not be written is recorded as failed (`automations/scheduler.ts:237`).
A retry whose row cannot be written keeps the lease for ten minutes
(`automation-log-retry.ts:68`; `Keeps`, `Expire`).

`PathLease` is the lease itself: every call on the file system is a step.
Numbers (inodes) of removed files are used again, unless a process has the file
open, as `automations/store.ts:527` expects of file systems. Nobody holds the
guard directory open, so `FreeDir` lets a new guard have any number, those included that a
process remembers of a guard it looked at. The history variables follow what
comes of it: `behind` are the processes that remember a guard which has been
removed, `mixed` says that one of them has found the number it remembers at a
guard it never looked at, and is about to move that away. Once `mixed`, two processes may
reclaim at a time and hold the lease together; `lease_reused` shows the
first, and `OneHolder` speaks of the behaviours before. A live process is taken
to finish before its files count as stale. Not in the model: in `Automations`,
the refusal of the very write that stops a schedule
(`schedule-runner.ts:569`), after which the call fails as if it had not begun.

### UpdateLock, Webhooks, CiSlots

`UpdateLock`: the identity of the directory is its maker and its mtime; any lock
may look stale to a waiter, as a suspended machine makes it. A caller that finds
another's directory where it had made its own takes that for its own
(`Mistaken`), and is exempt. Not in the model: an inode number used again within
the same rounded second.

`Webhooks`: a change goes to the run's queue, from there with the settings of
that moment to the webhooks' queues, and is posted with the settings of that
later moment. `CiSlots` is the semaphore of watchers with aborts between the
hand-over of a slot and the continuation of who got it.

### MCServices

`Services` declares the constants of seven components that share nothing, their
instances, what they assume together (`ServicesFit`, which TLC evaluates) and
their properties by name, so that `ServicesProofs` proves the same formulas the
run checks. `MCServices` adds the home lock's instance, liveness and the choice
below; its values for the constants are in `Services.cfg`.

Eight components are checked in one run. The initial state
chooses one (`part`), only its actions are enabled, and the others stay in one
initial state. A behaviour is therefore a behaviour of one component, all
behaviours of each are there, and the properties are those of the components,
vacuous where another one runs. `who` fixes the call, or the worker, whose end
`EverythingEnds` asks for; for workers one stands for both by symmetry.
Fairness is stated for each component, of its own actions.

## 3. Runs

| Run | Bounds | Shows |
| --- | --- | --- |
| `lock_compete` | 3 processes, a call each, all tokens readable | order of tickets, no stolen claims, refinement of `Mutex` (hence exclusion), with crashes and reused pids |
| `home_store` | 2 full and 1 empty registry, or 2 other contents; 3 operations, 2 outside writes | crashes anywhere raise no false alarm, resets are real and recorded, creations are exclusive, incidents end on purpose |
| `line_slots` | 3 runs (one a worker, one that gets messages), 2 projects with ceilings 1 and 2, 2 slots, pool of 1, waits | the registries agree, the ceilings hold, no capacity idles |
| `line_holds` | 3 runs, 2 projects with an account each, limits, messages, one stop | the same (but the ceilings) through holds and the spawn gate |
| `line_live` | 2 runs, 2 projects, 1 slot, a wait, a recovery | queued runs start, wakes are served (liveness) |
| `line_cancel` | 2 projects on one account | **violated**: see below |
| `claims_fence` | 2 stores, a family of 2 runs, 1 and 2 writes, 1 busy transaction | one owner, current reads, no lost update, no quiet inheritance, nothing vanishes |
| `claims_adopt` | the same | **violated**: see below |
| `waits` | a timer and a pull-request wait, 2 automatic wakes, 3 delivery attempts, 1 refused write, 1 restart, 1 human action | results are delivered or ended on purpose, the budget and the backoff hold, open waits are watched, owed wakes have a source, and end (liveness) |
| `waits_late` | the same without faults and people | **violated**: see below |
| `lease_reused` | 2 live processes and 1 dead, no crash | **violated**: see below |
| `services` | root lease: 3 runs, 3 acquisitions; home lock: 2 processes, 3 calls (2 may nest), one token unreadable; automations: 2 cockpits, 1 user action, 1 failed write, 1 crash; workers: 2, capacity 1, 3 generations, 2 destroys, 1 failure, 1 stray, 1 crash; lease file: 2 live and 1 dead process, 1 crash; update lock: 2 calls, 2 beats; webhooks: 2, 3 changes, 2 edits; CI: 4 watchers, 2 slots | order and `Mutex` of the lease; one task, tried once; no worktree under a process, none before its evidence, capacity; one holder; one update wins; deliveries in order; no lost slot; and `EverythingEnds` (liveness): calls of the lock, waits for the root, archives, destroys |

Why the bounds are enough to be interesting. Three competitors are the fewest
where a third overtakes, cleans up after or queues behind a pair (lock, lease).
Three operations on a file are an interrupted one, its recovery and another on
top; two outside writes are one that makes an incident and one that races its
resolution. Two projects with one shared slot already need the broadcast, and
three runs make one queue behind another of the same project while the third
belongs to the other. Two runs of a family are a run in conflict and another
whose save must survive; two writes of the second store are one before and one
after the first store's. Two waits, one charged and one not, make a wake with
both, and a result that comes in another's turn; two wakes and three attempts
are the fewest where a last one differs from a first and a middle one. A
capacity of one makes the second worker wait for the first one's destroy; three
generations are a first, a continuation, and one after a restart. A dead
process and two live ones are an abandoned lock, who reclaims it, and who comes
between. What is not covered by a proof stays limited to these
sizes. `CHECK_DEADLOCK FALSE` stands where the system may really stop: every
call ended, every process gone, every bounded request used.

### Findings

- `line_cancel`: withdrawing an automatic resume lifts the hold on its account
  for all projects but pumps its own (`workflows/run/auto-resume.ts:208`). Work
  of another project on that account stays queued beside a free slot until
  something else pumps (its watchdog at the latest).
- `claims_adopt`: adopting a family through one run also adopts a run of it
  that this store has quarantined after a conflict, and writes it again
  (`runs/store.ts:894`), against the message at `runs/store.ts:3387`.
- `waits_late`: a nudge opens a turn, a wait resolves within it, the turn ends,
  and the nudge's receipt comes last. The wait queued nothing, since a turn
  under way picks results up at its end (`workflows/run/wake-admission.ts:207`);
  the end left the boundary to the receipt, and the receipt returns early
  (`workflows/run/input-delivery.ts:365`). The run stays, neither parked nor
  retried, with a slot and a result owed, until something else happens to it.
  `waits` exempts this history (`late`) in `WakesHaveASource` and `WakesEnd`.
- `lease_reused`: a process looks at an abandoned reclaim guard and has yet to
  mark it. Another one retires the guard and makes its own, to which the file
  system gives the same inode. The first marks that one, sees the inode it
  knows (`automations/store.ts:596`) and renames a live guard away; both are then
  at the abandoned lock, against `automations/store.ts:547` ("Only one process may inspect
  and remove an abandoned poll lock at a time"). The lock itself is held open
  while it is compared (`:527`), the guard is not.

Further disagreements seen while reading, without an entry of their own: a wake
whose run a human has resumed meanwhile is deferred, and the deferral ends the
whole sweep (`workflows/run/run-line.ts:277`), so that unstarted tasks behind it stay
queued with a free slot, against `run-line.ts:265` ("each FIFO among the entries
that CAN start"): TLC shows `NoIdleCapacity` violated with `RunLine_defer.cfg`. The
broadcast does not wait for pumps already under way
(`workflows/run/run-line.ts:218` against `workspace/semaphore.ts:226`);
stopping a queued resume during the configuration's await leaves work idle
(`workflows/run/run-cancel.ts:76` against `auto-resume.ts:206`; `line_holds`
stops another run); holds read before the await let a resume start on an account closed
meanwhile (`run-line.ts:256`); the watchdog asks its own project's deadlines
only (`run-line.ts:352`); a job sent back at the spawn gate joins the end of the
queue, whose head is then not the oldest (`run-line.ts:132`). Destroying a
worker again after its destroy completed persists `requested` over `complete`
(`delegation/worker-cleanup.ts:287`), and its place counts against the capacity
until the attempt ends, although `.ai/specs/2026-10-04-reclaimable-worker-capacity.md:127`
releases it for good. One error of one webhook is remembered for a run: if A
fails, then B fails and then succeeds, A's failure is forgotten, against
`runs/webhook.ts:314` ("one working webhook never hides another's failure"). A
GitHub event whose task was made but whose receipt, or log row, could not be written is a
`launch-error` (`automations/scheduler.ts:237`), and Retry makes a second task
of a pull-request event, against `automations/task-template.ts:125` ("so Retry
cannot duplicate it"). `ci-wait/supervisor.ts:75` returns the task of an aborted watch to a
wait registered again under its id.

### Fairness

- `HomeLock`: a process that runs takes its next step and its operation ends
  (the calls are synchronous code); a claim of a dead, unconfirmed owner is
  found expired sooner or later. Nothing obliges a deadline to pass.
- `RunLine`: every callback that is ready runs: weak fairness for a broadcast, a
  wait that resolves and an instant that comes, which stay ready until they
  happen; strong fairness for a project's sweep and a run's turn, since another
  sweep may come first again and again. A turn ends and a recovery ends. Nothing is assumed of the watchdog or the retry
  timers, so `QueuedRunsStart` and `WakesAreServed` do not rest on them. The
  instance has no limits together with waits: a run may then fall on a limit
  for ever, which no scheduler can help.
- `RootLease`: promises settle, continuations run, sessions are dropped.
- `RunWaits`: timers fire, receipts come or the session dies, turns end, the
  line serves a wake, a session that nobody keeps open closes. The conditions
  under which such steps are enabled are written out (`SessionCanMove`,
  `LineCanMove`), since the actions are too large for TLC to test. Nothing obliges a
  person, a refused write or a restart.
- `Automations`: the instant of the schedule passes, its timer comes round
  although the lease is taken now and then (strong fairness), what a cockpit
  has begun goes on, a dead cockpit is started again.
- `Workers`: per worker, the engine's and the destroy's awaits end, the retry
  timer fires; every process that works in a worktree ends some day; a dead
  cockpit is started again. Nothing obliges an agent's session to end unless it
  was stopped.
- `UpdateLock`, `Webhooks`, `CiSlots`, `PathLease` have safety properties only.

## 4. Proofs

Every safety property a passing run checks, invariant or action property, is
also proved: for all values of the constants, within the named assumptions of
the modules (numbers are numbers, the null values are no members, sets of runs
and projects are finite, `Owner` is a function...), and without a bound on any
cardinality. One theorem has a hypothesis besides, `NobodyIsLeftBehind`, and
the lock's `Refinement` has the run's own; they are explained below.

- `HomeLockProofs`: `TypeCorrect`, `ExclusionHolds`, `NeverStolen`,
  `ServedInOrder`, and `Refinement` when every token is readable, as in the
  run. `IInv` adds to the types: calls in
  progress have a live owner (`AliveInv`), a root is held by a call that
  operates (`HeldInv`), a confirmed call's claim says what the call believes
  (`ClaimInv`), and the bakery's heart, `OrderInv`: when a call has passed a
  peer, the peer with a ticket comes after it, and a peer that is still choosing
  has yet to read the call's ticket or has read it and will choose a greater one.
  For the order of service `AheadInv` says that who had a ticket when a call
  listed its peers keeps an earlier one than the call has, or will choose.
- `HomeStoreProofs`: `TypeCorrect`, `CrashesRaiseNoAlarm`, `PinsStay`,
  `WritesStartOnHead`, `CreationsHold`, `IncidentsHold`, `ResetsHold`,
  `EmptyingStaysFlagged`.
  `CleanInv` says for every step what a crash there would leave when nobody else
  writes; `StoredInv` that contents are kept before anything names them.
  `PurposeInv` is what an operation nobody raced knows of the file and the
  journal at each of its steps. `RegistryInv` follows a reset: one that is pending
  and whose observed registry never came has only full or emptied registries
  about it, so it cannot count; and after a write that emptied a registry a reset
  counts or the next inspection makes it count.
- `RunLineProofs`: `LineAgrees`, `TypeCorrect`, `NothingIsEverLost`,
  `CeilingsHold`, `NobodyIsLeftBehind`. `LineInv` says run by run how the stage and
  the registries agree. The sums of the semaphore are counted by places: a step
  changes the place of one run in one of a few ways (`Transit`), and `CapInv`
  bounds each project and the workspace by its ceiling and the places of chatty
  runs. `CoverInv`: who could leave the line has a broadcast coming, a pump
  called, or a sweep under way whose reading of the holds does not keep it. A
  handler either takes from what others could use (`Leaves`) or broadcasts, or
  calls its own pump; that a sweep which finds nobody leaves nobody
  (`SweepFinds`) and that a broadcast comes to every project (`OrderFacts`)
  need that sets of numbers have a least member and that ranks are all
  different. `NobodyIsLeftBehind` assumes `Apart`: runs that
  get messages and have waits are alone in their project, runs that meet limits share
  accounts within their project only, and no such run is stopped while it
  is queued. Without the first it is false as `RunLine_defer.cfg` shows, without the
  second as `line_cancel` does, without the third because of
  `run-cancel.ts:76`, listed below the findings. `line_slots` and `line_holds` satisfy it.
- `RunClaimsProofs`: `TypeCorrect`, `ClaimsHold`,
  `ReadsAreCurrent`, `UpdatesSurvive`, `InheritanceIsQuiet`,
  `WritesNeverVanish`.
  `StakeInv`: who holds a claim is at work and in the table, and who is about
  to replace one has seen its owner gone; gone stays gone. `GenInv`:
  generations are not reused, so a claim that compares equal is the same claim.
  From these a family has one owner, and a fence that passes (`Fenced`)
  wrote over exactly what it had read. `VersionInv`: what was read at a
  revision contains all that was written up to it, hence no lost update.
  `QuietInv`: a claim judged to have nothing to recover stays so, because nobody
  writes under a dead owner's claim. `AcceptInv` with the history variables:
  an accepted write is always in one of three places.
- `RunWaitsProofs`: `WaitsAgree`, `TypesHold`, `TheBudgetHolds`,
  `WaitsStayWatched`, `BackoffOnlyPauses`, `OwedWakesAreNotForgotten`,
  `PhasesAreKept`, `OwedResultsEndOnPurpose`, `FailuresKeepResults`. Handlers are compositions of operators on
  a record, so the proof is one lemma for each operator on any record, and one
  for each action that composes them. `WaitInv` has three parts: `Sound` relates
  waits, inputs in flight, charges and what is stored; `Paused` says what a
  backoff is; `Sourced` names, for each place where a run that owes a wake may
  be, the source that will bring it. For the fate of results
  `FateInv` says that the phase of every wait is on disk with the step that
  changes it and that a failed run is at rest (no session, timer, delivery or
  place in the line); `Smooth` and `Hands` say of each operator which results it
  may end and why.
- `WorkersProofs`: `WorkersAgree`, and `ServicesProofs` takes its theorems over:
  `WorktreesStay`, `EvidenceStays`, `CapacityHolds`. `WorkersInv` says of a worker how
  record, memory, processes and worktree agree; `Charged` is what a parent pays for,
  and `ChargeInv`, that it fits the capacity, holds since every resource is
  charged before it exists and until its destroy is verified.
- `ServicesProofs`:
  - root lease, `TypeCorrect`, `ExclusiveHolds`, `TurnsAreTaken`, `Refinement`:
    the chain resolves from its start without gaps (`Ordered`),
    promises are not shared (`Distinct`), and what a run retains fits where it
    is (`Pending`);
  - webhooks, `OrderCorrect`, `DeliveriesAreOrdered`: `LineIsRising` follows a
    change from the moment it happens to its delivery: what was posted to a
    webhook, what is being sent, its queue, the run's queue, each later than the
    one before, though settings drop changes at two of these places; a number is used up when a
    change becomes the one being sent and by nothing else;
  - CI slots, `NoWatcherLosesASlot`: the queue is orderly and the busy count is
    that of who was handed a slot;
  - update lock, `OneUpdateIsTold`: a directory is a call's own only once, so who met
    a winner's cannot own it any more;
  - path lease, `OneHolderOfTheLease`: who holds the guard or the lock is who the
    directory says, and only who has seen a guard's removal too late is `behind`
    (`LeaseInv`); so a reaper that is not `behind` moves away the guard it judged.
    There is no assumption about inodes: the property ends with `mixed`;
  - automations, `OneKeyOneTask`, `TheTimerTriesOnce`: `KeyInv` follows the receipt of
    a key through lease, launch in flight and what a restart finds, as long as
    the receipt is not one of the histories the model names as broken (`stale`).

Only model-checked: liveness (`QueuedRunsStart`, `WakesAreServed`, `WakesEnd`,
and `EverythingEnds` with `CallsEnd`, `WaitsEnd`, `TasksAreArchived` and
`DestroysEnd` in it), which the proof system does not reach. The other way round, the types
(`TypeCorrect`, `TypesHold`, or a part of a component's invariant), `Exclusion`,
`Exclusive` and `WritesStartFromHead` are proved and in no run: what is shallow, or
said by a stronger property, is not worth a place in one.

Limits of `HomeStore`'s properties: accepting an incident after a second
outside write adopts bytes that the incident does not name; a race
between the two inspections of one operation may clear a new incident. Both are
races the code cannot see, and the properties say `~raced` or name the case.

## 5. Not modelled

See `components` in `PROJECT.json` for the reason of each: the record fields and
histories of the run store, the step engine of a workflow, run exits, workers'
conversations, self-update, process waits, worktrees, the home's migration, the
server, the activity view, agent runners, artifacts, preview, configuration,
voice, tools, contract and interfaces. What the modelled parts leave out is
said with each module above.

The models stand for some 4,600 of about 260,000 lines, the ones that decide
what happens when several things happen at once. The rest is of another kind:
interfaces (web, desktop, mobile), routes and their validation, adapters to
agents, forges and package managers, parsing, formatting, and tests and test
kits. A model of it would repeat it line by line.

## 6. Plan

In order of what matters most:

1. Refinements of abstract specifications: a family's claims implement one lock
   for each family, the registry of a project a variable that only its writes
   change.
2. `RunExits`: the table of moves as a function, with what no sequence of moves
   may reach.
3. Conversations and questions of workers with their one answer, which bring
   waits on workers into `RunWaits`.
4. Recurring schedules with their brake; the mutation lock of worktrees.

New questions share runs where one instance can answer several: modules without
shared state join `MCServices`.
