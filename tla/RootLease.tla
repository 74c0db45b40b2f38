----------------------------- MODULE RootLease ------------------------------
(***************************************************************************)
(* workflows/run/repo-root-lease.ts: runs that work in the repository root *)
(* itself take turns.  The lease is a chain of promises: each acquisition  *)
(* appends a promise to repoRootTail and waits for the one before it; a    *)
(* run keeps the function that resolves its own promise in its live        *)
(* session, and whoever drops the session calls it.                        *)
(*                                                                         *)
(* The promises are numbered in the order of the acquisitions; promise 0   *)
(* is the resolved one that the chain starts with.  A run that was stopped *)
(* before its turn came keeps a release that waits for the promise before  *)
(* its own.  The session's work, and when it is dropped, is environment.   *)
(***************************************************************************)
EXTENDS Integers

CONSTANTS
  Run,
  MaxAsks   \* bound: the acquisitions

ASSUME LeaseAssumption == MaxAsks \in Nat

VARIABLES
  tail,       \* repoRootTail: the last promise of the chain
  resolved,   \* the promises that have been resolved
  chained,    \* the promises to be resolved as soon as the one before is
  mine,       \* the promise of each run
  at,         \* where each run is in acquireRepoRoot() and after it
  retained,   \* releaseRepoRoot: what dropping the run's session calls
  cancelled,  \* liveSession.cancelled
  parked      \* the runs whose slot is given back while they wait

vars == <<tail, resolved, chained, mine, at, retained, cancelled, parked>>

TypeOK ==
  /\ tail \in 0..MaxAsks
  /\ resolved \subseteq 0..tail
  /\ chained \subseteq 1..tail
  /\ mine \in [Run -> 0..tail]
  /\ at \in [Run -> {"out", "waiting", "refused", "holding"}]
  /\ retained \in [Run -> {"none", "chained", "direct"}]
  /\ cancelled \subseteq Run
  /\ parked \subseteq Run

Init ==
  /\ tail = 0 /\ resolved = {0} /\ chained = {}
  /\ mine = [r \in Run |-> 0]
  /\ at = [r \in Run |-> "out"]
  /\ retained = [r \in Run |-> "none"]
  /\ cancelled = {} /\ parked = {}

-----------------------------------------------------------------------------
(* acquireRepoRoot(): a run that was stopped on the way never joins.       *)
AskStopped(r) ==
  /\ at[r] = "out" /\ r \in cancelled
  /\ at' = [at EXCEPT ![r] = "refused"]
  /\ UNCHANGED <<tail, resolved, chained, mine, retained, cancelled, parked>>

\* Mutant of Ask: the release does not wait for the turns before
MutAsk(r) ==
  /\ at[r] = "out" /\ r \notin cancelled /\ tail < MaxAsks
  /\ tail' = tail + 1
  /\ mine' = [mine EXCEPT ![r] = tail + 1]
  /\ retained' = [retained EXCEPT ![r] = "direct"]
  /\ at' = [at EXCEPT ![r] = "waiting"]
  /\ parked' = parked \cup {r}
  /\ UNCHANGED <<resolved, chained, cancelled>>

(* It joins the chain, keeps a release that cannot run ahead of the one    *)
(* before, and gives its slot back.                                        *)
Ask(r) ==
  /\ at[r] = "out" /\ r \notin cancelled /\ tail < MaxAsks
  /\ tail' = tail + 1
  /\ mine' = [mine EXCEPT ![r] = tail + 1]
  /\ retained' = [retained EXCEPT ![r] = "chained"]
  /\ at' = [at EXCEPT ![r] = "waiting"]
  /\ parked' = parked \cup {r}
  /\ UNCHANGED <<resolved, chained, cancelled>>

(* The race ends: the promise before is resolved, or a stop has aborted    *)
(* the wait.  Only a run that is not stopped by then has the tree.         *)
MyTurn(r) == mine[r] - 1 \in resolved

\* Mutant of Return: the stop is not looked at after the wait
MutReturn(r) ==
  /\ at[r] = "waiting"
  /\ MyTurn(r) \/ r \in cancelled
  /\ parked' = parked \ {r}
  /\ at' = [at EXCEPT ![r] = "holding"]
  /\ retained' = [retained EXCEPT ![r] = "direct"]
  /\ UNCHANGED <<tail, resolved, chained, mine, cancelled>>

Return(r) ==
  /\ at[r] = "waiting"
  /\ MyTurn(r) \/ r \in cancelled
  /\ parked' = parked \ {r}
  /\ IF r \in cancelled
     THEN at' = [at EXCEPT ![r] = "refused"] /\ UNCHANGED retained
     ELSE at' = [at EXCEPT ![r] = "holding"] /\ retained' = [retained EXCEPT ![r] = "direct"]
  /\ UNCHANGED <<tail, resolved, chained, mine, cancelled>>

(* cancel() of a run with a session.                                       *)
Cancel(r) ==
  /\ r \notin cancelled
  /\ cancelled' = cancelled \cup {r}
  /\ UNCHANGED <<tail, resolved, chained, mine, at, retained, parked>>

\* Mutant of Drop: a chained release is forgotten
MutDrop(r) ==
  /\ at[r] \in {"refused", "holding"}
  /\ resolved' = IF retained[r] = "direct" THEN resolved \cup {mine[r]} ELSE resolved
  /\ chained' = chained
  /\ retained' = [retained EXCEPT ![r] = "none"]
  /\ at' = [at EXCEPT ![r] = "out"]
  /\ cancelled' = cancelled \ {r}
  /\ UNCHANGED <<tail, mine, parked>>

(* releaseActiveResources() of dropActive(): a settled, failed or requeued *)
(* run.  A later execution of the run has a new live session.              *)
Drop(r) ==
  /\ at[r] \in {"refused", "holding"}
  /\ resolved' = IF retained[r] = "direct" THEN resolved \cup {mine[r]} ELSE resolved
  /\ chained' = IF retained[r] = "chained" THEN chained \cup {mine[r]} ELSE chained
  /\ retained' = [retained EXCEPT ![r] = "none"]
  /\ at' = [at EXCEPT ![r] = "out"]
  /\ cancelled' = cancelled \ {r}
  /\ UNCHANGED <<tail, mine, parked>>

(* previous.then(release) of a run that was stopped before its turn.       *)
PassOn ==
  \E t \in chained :
    /\ t - 1 \in resolved
    /\ resolved' = resolved \cup {t}
    /\ chained' = chained \ {t}
    /\ UNCHANGED <<tail, mine, at, retained, cancelled, parked>>

-----------------------------------------------------------------------------
RunStep(r) == AskStopped(r) \/ Ask(r) \/ Return(r) \/ Cancel(r) \/ Drop(r)

Next == PassOn \/ \E r \in Run : RunStep(r)

Spec == Init /\ [][Next]_vars

(* The event loop settles promises and continues what awaits them; a       *)
(* session is dropped some day, though the run may hold the tree for long. *)
FairSpec == Spec /\ WF_vars(PassOn) /\ \A r \in Run : WF_vars(Return(r)) /\ WF_vars(Drop(r))

-----------------------------------------------------------------------------
(* Two runs never work in the repository root together, whoever is stopped *)
(* or dropped and in whatever order.                                       *)
Holders == {r \in Run : at[r] = "holding"}

Exclusive == \A r, q \in Holders : r = q

(* A run gets the tree only when every run that asked before it has had it *)
(* or has given up: a stop behind a waiter does not let others overtake.   *)
TakesTurn(r) ==
  at[r] = "waiting" /\ at'[r] = "holding" =>
    ~\E q \in Run : at[q] = "waiting" /\ mine[q] < mine[r]

InOrder == [][\A r \in Run : TakesTurn(r)]_vars

(* The lease is a mutual exclusion: nobody takes the tree in the step in   *)
(* which another gives it back, or while another has it.                   *)
Tree == INSTANCE Mutex WITH Proc <- Run, holders <- Holders
ImplementsMutex == Tree!Spec

(* No wait lasts for ever: a waiter gets the tree or learns of its stop,   *)
(* even when every run before it was stopped in its own wait.              *)
WaitsEnd == \A r \in Run : at[r] = "waiting" ~> at[r] # "waiting"
=============================================================================
