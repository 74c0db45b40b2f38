---------------------------- MODULE RunLineProofs ---------------------------
(***************************************************************************)
(* The line of RunLine loses nobody, respects the ceilings and leaves no   *)
(* capacity idle.                                                          *)
(*                                                                         *)
(* LineInv says of each run how its stage and the registries it is in      *)
(* agree.  A step changes what is known of one run (Moves), so each action *)
(* has one lemma about the run it moves and MoveAgrees covers the others.  *)
(* The ceilings follow from the places that runs take up: a step changes   *)
(* the place of one run in one of four ways (Transit), and what it adds to *)
(* the slots of a project is a chatty run's place or was free (CapInv).    *)
(* No capacity idles because whoever could leave the line has a sweep or a *)
(* broadcast coming (CoverInv): a step either takes from what others could *)
(* use (Leaves), or calls the pumps of those it may have freed.            *)
(***************************************************************************)
EXTENDS RunLine, QueueLemmas, FiniteSetTheorems, TLAPS

-----------------------------------------------------------------------------
LineTyped ==
  /\ st \in [Run -> Stages]
  /\ Orderly(line, Run) /\ Orderly(age, Run)
  /\ wakes \subseteq Run /\ admitted \subseteq Run /\ pool \subseteq Run /\ due \subseteq Run

(* What the registries say of one run.  A job or a continuation is in the  *)
(* line, and so is a queued wake; a wake is owed; a wake admitted with its *)
(* continuation belongs to a run outside the pool that starts or runs.     *)
RunAgrees(r) ==
  /\ r \in ToSet(line) <=> \/ st[r] \in {"queued", "continued"}
                           \/ st[r] \in {"parked", "running"} /\ r \in wakes
  /\ r \in ToSet(age) <=> r \in ToSet(line) \/ st[r] = "opening"
  /\ r \in wakes => r \in due /\ st[r] \in {"continued", "parked", "running"}
  /\ r \in due => /\ st[r] \in {"running", "parked", "continued", "reopening", "resting"}
                  /\ st[r] = "parked" => r \in wakes
  /\ r \in admitted => r \in due /\ r \notin pool /\ st[r] \in {"reopening", "running"}
  /\ r \in pool => st[r] \in {"running", "parked"}

LineInv == LineTyped /\ \A r \in Run : RunAgrees(r)

-----------------------------------------------------------------------------
LEMMA JoinedFacts ==
  ASSUME NEW s, Orderly(s, Run), NEW r \in Run
  PROVE  Orderly(Joined(s, r), Run) /\ ToSet(Joined(s, r)) = ToSet(s) \cup {r}
  BY RemoveFacts, AppendFacts DEF Joined

(* What a step of run r leaves alone.                                      *)
Keeps(r) ==
  /\ Orderly(line', Run) /\ Orderly(age', Run)
  /\ \A x \in Run \ {r} :
       /\ st'[x] = st[x]
       /\ (x \in ToSet(line') <=> x \in ToSet(line)) /\ (x \in ToSet(age') <=> x \in ToSet(age))
       /\ (x \in wakes' <=> x \in wakes) /\ (x \in admitted' <=> x \in admitted)
       /\ (x \in pool' <=> x \in pool) /\ (x \in due' <=> x \in due)

Moves(r) ==
  /\ st' \in [Run -> Stages]
  /\ wakes' \subseteq Run /\ admitted' \subseteq Run /\ pool' \subseteq Run /\ due' \subseteq Run
  /\ Keeps(r) /\ RunAgrees(r)'

LEMMA MoveAgrees == ASSUME NEW r \in Run PROVE LineInv /\ Moves(r) => LineInv'
PROOF
  <1> SUFFICES ASSUME LineInv, Moves(r) PROVE LineInv'
    OBVIOUS
  <1>1. LineTyped'
    BY DEF Moves, Keeps, LineTyped
  <1>2. ASSUME NEW x \in Run, x # r PROVE RunAgrees(x)'
    BY <1>2 DEF LineInv, RunAgrees, Moves, Keeps
  <1>3. RunAgrees(r)'
    BY DEF Moves
  <1> QED BY <1>1, <1>2, <1>3 DEF LineInv

(* The steps that change what LineInv is about.                            *)
LEMMA SubmitMoves == ASSUME LineInv, NEW r \in Run, Submit(r) PROVE Moves(r)
PROOF
  <1>1. r \notin ToSet(line) /\ r \notin ToSet(age) /\ st[r] = "new" /\ r \notin wakes
    BY DEF LineInv, RunAgrees, Submit
  <1>2. /\ Orderly(line', Run) /\ ToSet(line') = ToSet(line) \cup {r}
        /\ Orderly(age', Run) /\ ToSet(age') = ToSet(age) \cup {r}
    BY <1>1, AppendFacts DEF LineInv, LineTyped, Submit
  <1> QED BY <1>1, <1>2 DEF LineInv, LineTyped, Stages, RunAgrees, Moves, Keeps, Submit

LEMMA OpenMoves == ASSUME LineInv, NEW r \in Run, Open(r) PROVE Moves(r)
PROOF
  <1>1. st[r] = "opening" /\ r \notin ToSet(line) /\ r \in ToSet(age)
    BY DEF LineInv, RunAgrees, Open
  <1>2. CASE /\ st' = [st EXCEPT ![r] = "running"]
             /\ age' = RemoveFirst(age, r) /\ UNCHANGED line
    <2>1. Orderly(age', Run) /\ ToSet(age') = ToSet(age) \ {r}
      BY <1>2, RemoveFacts DEF LineInv, LineTyped
    <2> QED BY <1>1, <1>2, <2>1 DEF LineInv, LineTyped, Stages, RunAgrees, Moves, Keeps, Open
  <1>3. CASE Requeue(r)
    <2>1. Orderly(line', Run) /\ ToSet(line') = ToSet(line) \cup {r}
      BY <1>1, <1>3, AppendFacts DEF LineInv, LineTyped, Requeue
    <2> QED BY <1>1, <1>3, <2>1
            DEF LineInv, LineTyped, Stages, RunAgrees, Moves, Keeps, Open, Requeue
  <1> QED BY <1>2, <1>3 DEF Open

LEMMA ForgetFacts ==
  ASSUME LineInv, NEW r, line' = RemoveFirst(line, r), age' = RemoveFirst(age, r)
  PROVE  /\ Orderly(line', Run) /\ ToSet(line') = ToSet(line) \ {r}
         /\ Orderly(age', Run) /\ ToSet(age') = ToSet(age) \ {r}
  BY RemoveFacts DEF LineInv, LineTyped

LEMMA FinishMoves == ASSUME LineInv, NEW r \in Run, Finish(r) PROVE Moves(r)
  BY ForgetFacts DEF LineInv, LineTyped, Stages, RunAgrees, Moves, Keeps, Finish, Forget

LEMMA CancelQueuedMoves == ASSUME LineInv, NEW r \in Run, CancelQueued(r) PROVE Moves(r)
  BY ForgetFacts DEF LineInv, LineTyped, Stages, RunAgrees, Moves, Keeps, CancelQueued

LEMMA LimitMoves == ASSUME LineInv, NEW r \in Run, Limit(r) PROVE Moves(r)
  BY ForgetFacts DEF LineInv, LineTyped, Stages, RunAgrees, Moves, Keeps, Limit, Forget

LEMMA ContinuationFacts ==
  ASSUME LineInv, NEW r \in Run, QueueContinuation(r)
  PROVE  /\ Orderly(line', Run) /\ ToSet(line') = ToSet(line) \cup {r}
         /\ Orderly(age', Run) /\ ToSet(age') = ToSet(age) \cup {r}
         /\ st' = [st EXCEPT ![r] = "continued"]
  BY JoinedFacts DEF LineInv, LineTyped, QueueContinuation

LEMMA CloseMoves == ASSUME LineInv, NEW r \in Run, Close(r) PROVE Moves(r)
PROOF
  <1>1. CASE r \in due
    BY <1>1, ContinuationFacts DEF LineInv, LineTyped, Stages, RunAgrees, Moves, Keeps, Close
  <1>2. CASE r \notin due
    BY <1>2, ForgetFacts DEF LineInv, LineTyped, Stages, RunAgrees, Moves, Keeps, Close
  <1> QED BY <1>1, <1>2

LEMMA RestMoves ==
  ASSUME LineInv, NEW r \in Run,
         Reopen(r) \/ Message(r) \/ Expire(r) \/ ContinueHeld(r) \/ CancelResume(r)
  PROVE  Moves(r)
PROOF
  <1>1. CASE Reopen(r) \/ Message(r) \/ CancelResume(r)
    BY <1>1 DEF LineInv, LineTyped, Stages, RunAgrees, Moves, Keeps, Reopen, Message,
                schedVars, CancelResume
  <1>2. CASE Expire(r) \/ ContinueHeld(r)
    BY <1>2, ContinuationFacts
       DEF LineInv, LineTyped, Stages, RunAgrees, Moves, Keeps, Expire, ContinueHeld
  <1> QED BY <1>1, <1>2

(* A turn's end, or a wait that resolves while the run is parked, whatever *)
(* becomes of the run's place in the pool.                                 *)
LEMMA QueueWakeMoves ==
  ASSUME LineInv, NEW r \in Run, st[r] \in {"running", "parked"},
         \/ DeliverWake(r)
         \/ EnqueueWake(r) /\ r \notin admitted
         \/ StayParked(r) /\ r \notin due,
         pool' \subseteq Run, \A x \in Run \ {r} : x \in pool' <=> x \in pool
  PROVE  Moves(r)
PROOF
  <1>1. CASE DeliverWake(r)
    <2>1. CASE r \in wakes
      BY <1>1, <2>1, ForgetFacts
         DEF LineInv, LineTyped, Stages, RunAgrees, Moves, Keeps, DeliverWake
    <2>2. CASE r \notin wakes
      BY <1>1, <2>2 DEF LineInv, LineTyped, Stages, RunAgrees, Moves, Keeps, DeliverWake
    <2> QED BY <2>1, <2>2
  <1>2. CASE EnqueueWake(r) /\ r \notin admitted
    <2>1. CASE r \in wakes
      BY <1>2, <2>1 DEF LineInv, LineTyped, Stages, RunAgrees, Moves, Keeps, EnqueueWake
    <2>2. CASE r \notin wakes
      <3>1. r \notin ToSet(line) /\ r \notin ToSet(age)
        BY <2>2 DEF LineInv, RunAgrees
      <3>2. line' = Append(line, r) /\ age' = Append(age, r)
        BY <1>2, <2>2 DEF EnqueueWake
      <3>3. /\ Orderly(line', Run) /\ ToSet(line') = ToSet(line) \cup {r}
            /\ Orderly(age', Run) /\ ToSet(age') = ToSet(age) \cup {r}
        BY <3>1, <3>2, AppendFacts DEF LineInv, LineTyped
      <3> QED BY <1>2, <2>2, <3>3
              DEF LineInv, LineTyped, Stages, RunAgrees, Moves, Keeps, EnqueueWake
    <2> QED BY <2>1, <2>2
  <1>3. CASE StayParked(r) /\ r \notin due
    BY <1>3 DEF LineInv, LineTyped, Stages, RunAgrees, Moves, Keeps, StayParked
  <1> QED BY <1>1, <1>2, <1>3

LEMMA ParkMoves ==
  ASSUME LineInv, NEW r \in Run, ParkForUser(r) \/ ParkOnWaits(r) PROVE Moves(r)
PROOF
  <1>1. st[r] = "running"
    BY DEF ParkForUser, ParkOnWaits, EndTurn
  <1>2. \/ DeliverWake(r)
        \/ EnqueueWake(r) /\ r \notin admitted
        \/ StayParked(r) /\ r \notin due
    BY DEF ParkForUser, ParkOnWaits, QueueWake, Delivers
  <1>3. pool' = pool \cup {r} \/ pool' = pool \ {r}
    BY DEF ParkForUser, ParkOnWaits
  <1> QED BY <1>1, <1>2, <1>3, QueueWakeMoves DEF LineInv, LineTyped

LEMMA ResolveMoves ==
  ASSUME LineInv, NEW r \in Run, Resolve(r) \/ Retry(r) PROVE Moves(r)
PROOF
  <1>1. UNCHANGED pool /\ pool \subseteq Run
    BY DEF Resolve, Retry, LineInv, LineTyped
  <1>2. CASE st[r] = "parked" /\ QueueWake(r, TRUE, r \in pool, 0, 0)
    <2>1. DeliverWake(r) \/ (EnqueueWake(r) /\ r \notin admitted)
      BY <1>2 DEF QueueWake, Delivers
    <2> QED BY <1>1, <1>2, <2>1, QueueWakeMoves
  <1>3. CASE /\ st[r] \in {"running", "continued", "reopening", "resting"}
             /\ due' = due \cup {r} /\ UNCHANGED <<st, line, age, wakes, admitted>>
    BY <1>1, <1>3 DEF LineInv, LineTyped, RunAgrees, Moves, Keeps
  <1>4. CASE /\ st[r] = "closed" /\ QueueContinuation(r)
             /\ wakes' = wakes \cup {r} /\ due' = due \cup {r} /\ UNCHANGED admitted
    BY <1>1, <1>4, ContinuationFacts DEF LineInv, LineTyped, Stages, RunAgrees, Moves, Keeps
  <1> QED BY <1>2, <1>3, <1>4 DEF Resolve, Retry

(* What leaves the line, or joins it again, in a sweep.                    *)
LEMMA LeaveMoves ==
  ASSUME LineInv, NEW p \in Project, NEW r \in Run, IsNext(p, r),
         AdmitWake(p, r) \/ DeferWake(p, r) \/ LaunchJob(p, r) \/ LaunchContinuation(p, r)
  PROVE  Moves(r)
PROOF
  <1>1. r \in ToSet(line)
    BY DEF IsNext, Entries
  <1>2. CASE AdmitWake(p, r)
    BY <1>2, ForgetFacts DEF LineInv, LineTyped, Stages, RunAgrees, Moves, Keeps, AdmitWake
  <1>3. CASE DeferWake(p, r)
    <2>1. /\ Orderly(line', Run) /\ ToSet(line') = ToSet(line) \cup {r}
          /\ Orderly(age', Run) /\ ToSet(age') = ToSet(age) \cup {r}
      BY <1>3, JoinedFacts DEF LineInv, LineTyped, DeferWake
    <2> QED BY <1>1, <1>3, <2>1 DEF LineInv, LineTyped, RunAgrees, Moves, Keeps, DeferWake
  <1>4. CASE LaunchJob(p, r)
    <2>1. Orderly(line', Run) /\ ToSet(line') = ToSet(line) \ {r}
      BY <1>4, RemoveFacts DEF LineInv, LineTyped, LaunchJob
    <2> QED BY <1>1, <1>4, <2>1 DEF LineInv, LineTyped, Stages, RunAgrees, Moves, Keeps, LaunchJob
  <1>5. CASE LaunchContinuation(p, r)
    BY <1>1, <1>5, ForgetFacts
       DEF LineInv, LineTyped, Stages, RunAgrees, Moves, Keeps, LaunchContinuation
  <1> QED BY <1>2, <1>3, <1>4, <1>5

(* A step of the line's own bookkeeping moves no run.                      *)
LEMMA StillLine == LineInv /\ UNCHANGED runVars => LineInv'
  BY DEF LineInv, LineTyped, RunAgrees, runVars

LEMMA LoopMoves ==
  ASSUME LineInv, NEW p \in Project, LoopStep(p)
  PROVE  UNCHANGED runVars \/ \E r \in Run : Moves(r)
  BY LeaveMoves DEF LoopStep

LEMMA RunStepMoves == ASSUME LineInv, NEW r \in Run, RunStep(r) PROVE Moves(r)
  BY SubmitMoves, OpenMoves, RestMoves, FinishMoves, CancelQueuedMoves, ParkMoves, ResolveMoves,
     CloseMoves, LimitMoves DEF RunStep

LEMMA InitLine == Init => LineInv
PROOF
  <1>1. Orderly(<<>>, Run) /\ ToSet(<<>>) = {}
    BY DEF Orderly, IsInjective, ToSet
  <1> QED BY <1>1 DEF Init, LineInv, LineTyped, RunAgrees, Stages

LEMMA NextLine == LineInv /\ [Next]_vars => LineInv'
PROOF
  <1> SUFFICES ASSUME LineInv, [Next]_vars PROVE LineInv'
    OBVIOUS
  <1>1. CASE UNCHANGED runVars
    BY <1>1, StillLine
  <1>2. CASE \E r \in Run : Moves(r)
    BY <1>2, MoveAgrees
  <1>3. CASE CastNext
    BY <1>1, <1>3 DEF CastNext
  <1>4. CASE \E p \in Project : ProjectStep(p)
    <2> PICK p \in Project : ProjectStep(p)
      BY <1>4
    <2>1. CASE LoopStep(p)
      BY <1>1, <1>2, <2>1, LoopMoves
    <2>2. CASE RepoKnown(p) \/ ConfigRead(p) \/ BeginRecovery(p) \/ EndRecovery(p) \/ Rescue(p)
      BY <1>1, <2>2 DEF RepoKnown, ConfigRead, BeginRecovery, EndRecovery, Rescue
    <2> QED BY <2>1, <2>2 DEF ProjectStep
  <1>5. CASE \E r \in Run : RunStep(r)
    BY <1>2, <1>5, RunStepMoves
  <1>6. CASE UNCHANGED vars
    BY <1>1, <1>6 DEF vars
  <1> QED BY <1>3, <1>4, <1>5, <1>6 DEF Next

(* The line, the stages and the registries of wakes, admitted wakes and    *)
(* the pool agree about every run.                                         *)
THEOREM LineAgrees == Spec => []LineInv
PROOF
  <1> QED BY InitLine, NextLine, PTL DEF Spec

(* Whatever the order of sweeps, parks, resolved waits, messages, limits,  *)
(* cancellations and recoveries, no job, continuation or owed wake falls   *)
(* out of the line, and none is in it twice.                               *)
THEOREM NothingIsEverLost == Spec => []NothingIsLost
PROOF
  <1>1. LineInv => NothingIsLost
    <2> SUFFICES ASSUME LineInv PROVE NothingIsLost
      OBVIOUS
    <2>1. ToSet(line) \subseteq Run /\ ToSet(age) \subseteq Run
      BY DEF LineInv, LineTyped, Orderly, ToSet
    <2>2. Cardinality(ToSet(line)) = Len(line)
      BY OrderlyCardinality DEF LineInv, LineTyped
    <2> QED BY <2>1, <2>2 DEF LineInv, LineTyped, RunAgrees, NothingIsLost
  <1> QED BY <1>1, LineAgrees, PTL

-----------------------------------------------------------------------------
(* The ceilings.  A run takes up a place of its own, a place of the        *)
(* monitoring pool, or none.                                               *)
Place(r) ==
  IF r \in pool THEN "pooled"
  ELSE IF Live(r) /\ st[r] # "parked" THEN "unpooled" ELSE "none"

Unpooled(p) == {r \in Run : Home[r] = p /\ Place(r) = "unpooled"}
Pooled(p)   == {r \in Run : Home[r] = p /\ Place(r) = "pooled"}

(* The members of a pool that do not fit it count as slots.                *)
Over(k)      == IF k > MaxPool THEN k - MaxPool ELSE 0
Lesser(a, b) == IF a < b THEN a ELSE b

(* What human messages may have taken past the ceiling.                    *)
Excess(p) ==
  Cardinality(Unpooled(p) \cap Chatty) + Lesser(Cardinality(Pooled(p) \cap Chatty),
                                                Over(Cardinality(Pooled(p))))

N == Cardinality(Run)
Summands(f) == {x \in Project \X (1..N) : x[2] <= f[x[1]]}
Sum(f)      == Cardinality(Summands(f))
AllExcess   == Sum([p \in Project |-> Excess(p)])

LEMMA NIsNatural == N \in Nat /\ \A S \in SUBSET Run : IsFiniteSet(S) /\ Cardinality(S) \in 0..N
PROOF
  <1>1. IsFiniteSet(Run) /\ N \in Nat
    BY RunLineAssumption, FS_CardinalityType DEF N
  <1>2. ASSUME NEW S \in SUBSET Run PROVE IsFiniteSet(S) /\ Cardinality(S) \in 0..N
    <2>1. IsFiniteSet(S) /\ Cardinality(S) <= Cardinality(Run)
      BY <1>1, FS_Subset
    <2>2. Cardinality(S) \in Nat
      BY <2>1, FS_CardinalityType
    <2> QED BY <1>1, <2>1, <2>2 DEF N
  <1> QED BY <1>1, <1>2

(* A sum changes by what one summand does.                                 *)
LEMMA SumChange ==
  ASSUME NEW f \in [Project -> 0..N], NEW g \in [Project -> 0..N], NEW p \in Project,
         \A q \in Project \ {p} : g[q] = f[q]
  PROVE  Sum(f) \in Nat /\ Sum(g) = Sum(f) + g[p] - f[p]
PROOF
  <1> DEFINE rest == {x \in Project \X (1..N) : x[1] # p /\ x[2] <= f[x[1]]}
  <1>1. IsFiniteSet(Project \X (1..N))
    <2>1. IsFiniteSet(1..N)
      BY NIsNatural, FS_Interval
    <2> QED BY <2>1, RunLineAssumption, FS_Product
  <1>2. IsFiniteSet(rest) /\ Cardinality(rest) \in Nat
    BY <1>1, FS_Subset, FS_CardinalityType
  <1>3. ASSUME NEW h \in [Project -> 0..N], \A q \in Project \ {p} : h[q] = f[q]
        PROVE  Sum(h) = Cardinality(rest) + h[p]
    <2> DEFINE own == {p} \X (1..h[p])
    <2>1. Summands(h) = rest \cup own
      <3>1. ASSUME NEW x \in Project \X (1..N) PROVE x \in Summands(h) <=> x \in rest \cup own
        <4>1. CASE x[1] = p
          BY <4>1, NIsNatural DEF Summands
        <4>2. CASE x[1] # p
          BY <1>3, <4>2, NIsNatural DEF Summands
        <4> QED BY <4>1, <4>2
      <3>2. own \subseteq Project \X (1..N)
        BY NIsNatural
      <3>3. rest \subseteq Project \X (1..N) /\ Summands(h) \subseteq Project \X (1..N)
        BY DEF Summands
      <3> HIDE DEF rest, own
      <3> QED BY <3>1, <3>2, <3>3
    <2>2. rest \cap own = {}
      OBVIOUS
    <2>3. IsFiniteSet(own) /\ Cardinality(own) = h[p]
      <3> DEFINE one == {p}
                 its == 1..h[p]
      <3>1. h[p] \in Nat
        BY NIsNatural
      <3>2. IsFiniteSet(its) /\ Cardinality(its) = h[p]
        BY <3>1, FS_Interval
      <3>3. IsFiniteSet(one) /\ Cardinality(one) = 1
        BY FS_Singleton
      <3>4. own = one \X its
        OBVIOUS
      <3> HIDE DEF one, its, own
      <3>5. IsFiniteSet(one \X its) /\ Cardinality(one \X its) = Cardinality(one) * Cardinality(its)
        BY <3>2, <3>3, FS_Product
      <3> QED BY <3>1, <3>2, <3>3, <3>4, <3>5
    <2> HIDE DEF rest, own
    <2>4. Cardinality(rest \cup own) = Cardinality(rest) + Cardinality(own) - Cardinality({})
      BY <1>2, <2>2, <2>3, FS_Union
    <2> QED BY <1>2, <2>1, <2>3, <2>4, FS_EmptySet, NIsNatural DEF Sum
  <1> HIDE DEF rest
  <1>4. Sum(f) = Cardinality(rest) + f[p] /\ Sum(g) = Cardinality(rest) + g[p]
    BY <1>3
  <1> QED BY <1>2, <1>4, NIsNatural

(* If each project has at most as many as members of C, the sum has at     *)
(* most as many as C.                                                      *)
LEMMA SumBound ==
  ASSUME NEW f \in [Project -> 0..N], NEW C \in SUBSET Run,
         \A p \in Project : f[p] <= Cardinality({r \in C : Home[r] = p})
  PROVE  Sum(f) <= Cardinality(C)
PROOF
  <1> DEFINE Of(p) == {r \in C : Home[r] = p}
             B(p)  == CHOOSE b : b \in Bijection(1..Cardinality(Of(p)), Of(p))
             h     == [x \in Summands(f) |-> B(x[1])[x[2]]]
  <1>1. \A p \in Project : B(p) \in Bijection(1..Cardinality(Of(p)), Of(p))
    <2> TAKE p \in Project
    <2>1. IsFiniteSet(Of(p))
      BY NIsNatural
    <2> QED BY <2>1, FS_CardinalityType DEF ExistsBijection
  <1>2. \A x \in Summands(f) : x[1] \in Project /\ x[2] \in 1..Cardinality(Of(x[1]))
    <2> TAKE x \in Summands(f)
    <2>1. x[1] \in Project /\ x[2] \in 1..N /\ x[2] <= f[x[1]]
      BY DEF Summands
    <2>2. Of(x[1]) \in SUBSET Run
      OBVIOUS
    <2> HIDE DEF Of
    <2>3. Cardinality(Of(x[1])) \in Nat
      BY <2>2, NIsNatural
    <2> USE DEF Of
    <2> QED BY <2>1, <2>3, NIsNatural
  <1> HIDE DEF B
  <1>3. \A x \in Summands(f) : h[x] \in C /\ Home[h[x]] = x[1]
    <2> TAKE x \in Summands(f)
    <2>1. B(x[1])[x[2]] \in Of(x[1])
      BY <1>1, <1>2 DEF Bijection, Injection
    <2> QED BY <2>1
  <1>4. \A x, y \in Summands(f) : h[x] = h[y] => x = y
    <2> TAKE x, y \in Summands(f)
    <2> HAVE h[x] = h[y]
    <2>1. x[1] = y[1]
      BY <1>3
    <2>2. x[2] = y[2]
      <3>1. x[2] \in 1..Cardinality(Of(x[1])) /\ y[2] \in 1..Cardinality(Of(x[1]))
        BY <1>2, <2>1
      <3>2. B(x[1])[x[2]] = B(x[1])[y[2]]
        BY <2>1
      <3>3. B(x[1]) \in Bijection(1..Cardinality(Of(x[1])), Of(x[1]))
        BY <1>1, <1>2
      <3> HIDE DEF Of
      <3> QED BY <3>1, <3>2, <3>3 DEF Bijection, Injection, IsInjective
    <2>3. x \in Project \X (1..N) /\ y \in Project \X (1..N)
      BY DEF Summands
    <2> QED BY <2>1, <2>2, <2>3
  <1>5. h \in Injection(Summands(f), C)
    <2>1. h \in [Summands(f) -> C]
      BY <1>3
    <2> HIDE DEF h
    <2> QED BY <1>4, <2>1, Zenon DEF Injection, IsInjective
  <1>6. IsFiniteSet(C)
    BY NIsNatural
  <1> QED BY <1>5, <1>6, FS_Injection DEF Sum

LEMMA Disjoint ==
  ASSUME NEW S, NEW T, IsFiniteSet(S), IsFiniteSet(T), S \cap T = {}
  PROVE  Cardinality(S \cup T) = Cardinality(S) + Cardinality(T)
PROOF
  <1>1. Cardinality(S \cup T) = Cardinality(S) + Cardinality(T) - Cardinality(S \cap T)
    BY FS_Union
  <1>2. Cardinality(S \cap T) = 0
    BY FS_EmptySet
  <1>3. Cardinality(S) \in Nat /\ Cardinality(T) \in Nat
    BY FS_CardinalityType
  <1> QED BY <1>1, <1>2, <1>3

LEMMA SetChange ==
  ASSUME NEW S \in SUBSET Run, NEW T \in SUBSET Run, NEW r, S \ {r} = T \ {r}
  PROVE  /\ Cardinality(S) \in Nat /\ Cardinality(T) \in Nat
         /\ Cardinality(T) = Cardinality(S) + (IF r \in T THEN 1 ELSE 0) - (IF r \in S THEN 1 ELSE 0)
PROOF
  <1>1. IsFiniteSet(S) /\ IsFiniteSet(T) /\ Cardinality(S) \in Nat /\ Cardinality(T) \in Nat
    BY NIsNatural
  <1>2. Cardinality(S \ {r}) = IF r \in S THEN Cardinality(S) - 1 ELSE Cardinality(S)
    BY <1>1, FS_RemoveElement
  <1>3. Cardinality(T \ {r}) = IF r \in T THEN Cardinality(T) - 1 ELSE Cardinality(T)
    BY <1>1, FS_RemoveElement
  <1> DEFINE c == Cardinality(S)
             d == Cardinality(T)
  <1>4. (IF r \in T THEN d - 1 ELSE d) = IF r \in S THEN c - 1 ELSE c
    BY <1>2, <1>3
  <1> HIDE DEF c, d
  <1>5. c \in Nat /\ d \in Nat
    BY <1>1 DEF c, d
  <1>6. d = c + (IF r \in T THEN 1 ELSE 0) - (IF r \in S THEN 1 ELSE 0)
    BY <1>4, <1>5
  <1> QED BY <1>5, <1>6 DEF c, d

(* The slots of a project, as its counters give them and as its runs do.   *)
LEMMA BusyIs ==
  ASSUME LineInv, NEW p \in Project
  PROVE  /\ Busy(p) = Cardinality(Unpooled(p)) + Over(Cardinality(Pooled(p)))
         /\ Busy(p) \in 0..N
PROOF
  <1> DEFINE live   == {r \in {r \in Run : Home[r] = p} : Live(r)}
             idle   == {r \in {r \in Run : Home[r] = p} \ pool : st[r] = "parked"}
             mine   == {r \in Run : Home[r] = p} \cap pool
             U == Unpooled(p)
             P == Pooled(p)
  <1>1. mine = P /\ idle \subseteq Run /\ U \subseteq Run /\ P \subseteq Run
    BY DEF Pooled, Unpooled, Place
  <1>2. live = (U \cup P) \cup idle
    BY DEF LineInv, LineTyped, RunAgrees, Pooled, Unpooled, Place, Live
  <1>3. U \cap P = {} /\ (U \cup P) \cap idle = {}
    BY DEF Pooled, Unpooled, Place
  <1>4. Busy(p) = Cardinality(live) - Cardinality(idle) - Min({Cardinality(mine), MaxPool})
    BY DEF Busy
  <1> HIDE DEF live, idle, mine, U, P
  <1>5. /\ IsFiniteSet(U) /\ IsFiniteSet(P) /\ IsFiniteSet(idle) /\ IsFiniteSet(U \cup P)
        /\ Cardinality(U) \in Nat /\ Cardinality(P) \in Nat /\ Cardinality(idle) \in Nat
        /\ Cardinality(U \cup P) \in 0..N
    BY <1>1, NIsNatural
  <1>6. Cardinality(U \cup P) = Cardinality(U) + Cardinality(P)
    BY <1>3, <1>5, Disjoint
  <1>7. Cardinality(live) = Cardinality(U \cup P) + Cardinality(idle)
    BY <1>2, <1>3, <1>5, Disjoint
  <1>8. MaxPool \in Nat
    BY RunLineAssumption
  <1>9. Min({Cardinality(P), MaxPool}) = IF Cardinality(P) <= MaxPool THEN Cardinality(P) ELSE MaxPool
    <2>1. \A a, b \in Nat : Min({a, b}) = IF a <= b THEN a ELSE b
      BY DEF Min
    <2> QED BY <1>5, <1>8, <2>1
  <1>10. /\ Busy(p) = Cardinality(U) + Over(Cardinality(P))
         /\ Busy(p) \in 0..N
    BY <1>1, <1>4, <1>5, <1>6, <1>7, <1>8, <1>9, NIsNatural DEF Over
  <1> QED BY <1>10 DEF U, P

LEMMA ExcessBound ==
  ASSUME NEW p \in Project
  PROVE  Excess(p) \in 0..N /\ Excess(p) <= Cardinality({r \in Chatty : Home[r] = p})
PROOF
  <1> DEFINE U == Unpooled(p) \cap Chatty
             P == Pooled(p) \cap Chatty
             C == {r \in Chatty : Home[r] = p}
             k == Cardinality(Pooled(p))
  <1>1. U \cap P = {} /\ U \cup P \subseteq C /\ C \subseteq Run /\ U \subseteq Run /\ P \subseteq Run
    BY RunLineAssumption DEF Unpooled, Pooled, Place
  <1>2. Excess(p) = Cardinality(U) + Lesser(Cardinality(P), Over(k))
    BY DEF Excess
  <1>3. k \in Nat
    BY NIsNatural DEF Pooled
  <1> HIDE DEF U, P, C, k
  <1>4. /\ IsFiniteSet(U) /\ IsFiniteSet(P) /\ IsFiniteSet(C) /\ Cardinality(U) \in Nat
        /\ Cardinality(P) \in Nat /\ Cardinality(C) \in 0..N
    BY <1>1, NIsNatural
  <1>5. Cardinality(U \cup P) = Cardinality(U) + Cardinality(P)
    BY <1>1, <1>4, Disjoint
  <1>6. Cardinality(U \cup P) <= Cardinality(C)
    BY <1>1, <1>4, FS_Subset
  <1>7. Excess(p) \in 0..N /\ Excess(p) <= Cardinality(C)
    BY <1>2, <1>3, <1>4, <1>5, <1>6, NIsNatural, RunLineAssumption DEF Lesser, Over
  <1> QED BY <1>7 DEF C

-----------------------------------------------------------------------------
(* How a step may change the place of the run that takes it.               *)
Transit(r) ==
  \/ Place(r)' = Place(r)
  \/ Place(r)' = "none"
  \/ Place(r) = "unpooled" /\ Place(r)' = "pooled"
  \/ Place(r) = "none" /\ Place(r)' = "unpooled" /\ (r \in Chatty \/ Capacity(Home[r]))

LEMMA LeaveTransit ==
  ASSUME LineInv, NEW p \in Project, NEW r \in Run, IsNext(p, r),
         AdmitWake(p, r) \/ DeferWake(p, r) \/ LaunchJob(p, r) \/ LaunchContinuation(p, r)
  PROVE  Transit(r)
PROOF
  <1>1. Home[r] = p /\ (Capacity(p) \/ r \in pool)
    BY DEF IsNext, Entries, CanLeave, PoolWake
  <1>2. r \in pool => st[r] \in {"running", "parked"}
    BY DEF LineInv, RunAgrees
  <1> HIDE DEF Capacity
  <1> QED BY <1>1, <1>2
          DEF LineInv, LineTyped, Transit, Place, Live, AdmitWake, DeferWake, LaunchJob, LaunchContinuation

LEMMA RunStepTransit == ASSUME LineInv, NEW r \in Run, RunStep(r) PROVE Transit(r)
PROOF
  <1> USE DEF LineInv, LineTyped, RunAgrees, Transit, Place, Live
  <1> HIDE DEF Capacity
  <1>1. CASE Submit(r) \/ Open(r) \/ Reopen(r) \/ Message(r)
    BY <1>1 DEF Submit, Open, Requeue, Reopen, Message, schedVars
  <1>2. CASE Finish(r) \/ CancelQueued(r) \/ Limit(r) \/ CancelResume(r)
    BY <1>2 DEF Finish, Forget, CancelQueued, Limit, CancelResume
  <1>3. CASE Close(r) \/ Expire(r) \/ ContinueHeld(r)
    BY <1>3 DEF Close, QueueContinuation, Expire, ContinueHeld
  <1>4. CASE ParkForUser(r)
    BY <1>4 DEF ParkForUser, EndTurn, QueueWake, Delivers, DeliverWake, EnqueueWake, StayParked
  <1>5. CASE ParkOnWaits(r)
    BY <1>5 DEF ParkOnWaits, EndTurn, QueueWake, Delivers, DeliverWake, EnqueueWake, StayParked
  <1>6. CASE Resolve(r) \/ Retry(r)
    BY <1>6 DEF Resolve, Retry, QueueContinuation, QueueWake, Delivers, DeliverWake, EnqueueWake,
                StayParked
  <1> QED BY <1>1, <1>2, <1>3, <1>4, <1>5, <1>6 DEF RunStep

-----------------------------------------------------------------------------
Counts ==
  \A p \in Project :
    /\ Busy(p) = Cardinality(Unpooled(p)) + Over(Cardinality(Pooled(p)))
    /\ Busy(p) \in 0..N /\ Excess(p) \in 0..N

LEMMA Counted == LineInv => Counts
  BY BusyIs, ExcessBound DEF Counts

LEMMA CountedNext == LineInv' => Counts'
  BY Counted, PTL

(* A step of r changes the counts of r's project only, and what it adds to *)
(* them is excess, unless there was a slot to take.                        *)
LEMMA OtherProject ==
  ASSUME LineInv, LineInv', NEW r \in Run, Keeps(r), NEW q \in Project, q # Home[r]
  PROVE  Busy(q)' = Busy(q) /\ Excess(q)' = Excess(q)
PROOF
  <1>1. Unpooled(q)' = Unpooled(q) /\ Pooled(q)' = Pooled(q)
    BY DEF Unpooled, Pooled, Place, Live, Keeps
  <1>2. Excess(q)' = Excess(q)
    BY <1>1 DEF Excess
  <1>3. Busy(q)' = Busy(q)
    BY <1>1, Counted, CountedNext DEF Counts
  <1> QED BY <1>2, <1>3

LEMMA OwnProject ==
  ASSUME LineInv, LineInv', NEW r \in Run, Keeps(r), Transit(r), NEW p, p = Home[r]
  PROVE  \/ Busy(p)' - Excess(p)' <= Busy(p) - Excess(p)
         \/ Capacity(p) /\ Busy(p)' = Busy(p) + 1
PROOF
  <1> DEFINE U  == Unpooled(p)
             P  == Pooled(p)
             CU == Unpooled(p) \cap Chatty
             CP == Pooled(p) \cap Chatty
  <1>1. /\ U \in SUBSET Run /\ P \in SUBSET Run /\ CU \in SUBSET Run /\ CP \in SUBSET Run
        /\ U' \in SUBSET Run /\ P' \in SUBSET Run /\ CU' \in SUBSET Run /\ CP' \in SUBSET Run
        /\ U \ {r} = U' \ {r} /\ P \ {r} = P' \ {r} /\ CU \ {r} = CU' \ {r} /\ CP \ {r} = CP' \ {r}
    BY DEF Unpooled, Pooled, Place, Live, Keeps
  <1>2. /\ r \in U <=> Place(r) = "unpooled"
        /\ r \in P <=> Place(r) = "pooled"
        /\ r \in U' <=> Place(r)' = "unpooled"
        /\ r \in P' <=> Place(r)' = "pooled"
        /\ r \in CU <=> r \in U /\ r \in Chatty
        /\ r \in CP <=> r \in P /\ r \in Chatty
        /\ r \in CU' <=> r \in U' /\ r \in Chatty
        /\ r \in CP' <=> r \in P' /\ r \in Chatty
    BY DEF Unpooled, Pooled
  <1>3. /\ Busy(p) = Cardinality(U) + Over(Cardinality(P))
        /\ Busy(p)' = Cardinality(U') + Over(Cardinality(P'))
        /\ Excess(p) = Cardinality(CU) + Lesser(Cardinality(CP), Over(Cardinality(P)))
        /\ Excess(p)' = Cardinality(CU') + Lesser(Cardinality(CP'), Over(Cardinality(P')))
    BY Counted, CountedNext, RunLineAssumption DEF Counts, Excess
  <1> HIDE DEF U, P, CU, CP
  <1>4. /\ Cardinality(U) \in Nat /\ Cardinality(U') \in Nat
        /\ Cardinality(U') = Cardinality(U) + (IF r \in U' THEN 1 ELSE 0) - (IF r \in U THEN 1 ELSE 0)
        /\ Cardinality(P) \in Nat /\ Cardinality(P') \in Nat
        /\ Cardinality(P') = Cardinality(P) + (IF r \in P' THEN 1 ELSE 0) - (IF r \in P THEN 1 ELSE 0)
        /\ Cardinality(CU) \in Nat /\ Cardinality(CU') \in Nat
        /\ Cardinality(CU') = Cardinality(CU) + (IF r \in CU' THEN 1 ELSE 0) - (IF r \in CU THEN 1 ELSE 0)
        /\ Cardinality(CP) \in Nat /\ Cardinality(CP') \in Nat
        /\ Cardinality(CP') = Cardinality(CP) + (IF r \in CP' THEN 1 ELSE 0) - (IF r \in CP THEN 1 ELSE 0)
    BY <1>1, SetChange
  <1>5. /\ Place(r) \in {"unpooled", "pooled", "none"} /\ Place(r)' \in {"unpooled", "pooled", "none"}
    BY DEF Place
  <1>6. MaxPool \in Nat
    BY RunLineAssumption
  <1>7. CASE Place(r)' = Place(r)
    BY <1>2, <1>3, <1>4, <1>5, <1>6, <1>7 DEF Over, Lesser
  <1>8. CASE Place(r) = "unpooled" /\ Place(r)' = "none"
    BY <1>2, <1>3, <1>4, <1>6, <1>8 DEF Over, Lesser
  <1>9. CASE Place(r) = "pooled" /\ Place(r)' = "none"
    BY <1>2, <1>3, <1>4, <1>6, <1>9 DEF Over, Lesser
  <1>10. CASE Place(r) = "unpooled" /\ Place(r)' = "pooled"
    BY <1>2, <1>3, <1>4, <1>6, <1>10 DEF Over, Lesser
  <1>11. CASE Place(r) = "none" /\ Place(r)' = "unpooled" /\ r \in Chatty
    BY <1>2, <1>3, <1>4, <1>6, <1>11 DEF Over, Lesser
  <1>12. CASE Place(r) = "none" /\ Place(r)' = "unpooled" /\ Capacity(Home[r])
    BY <1>2, <1>3, <1>4, <1>6, <1>12 DEF Over, Lesser
  <1> QED BY <1>5, <1>7, <1>8, <1>9, <1>10, <1>11, <1>12 DEF Transit

(* No project and not the workspace is above its ceiling by more than the  *)
(* places of chatty runs.                                                  *)
CapInv ==
  /\ \A p \in Project : Busy(p) <= ProjectMax[p] + Excess(p)
  /\ AllBusy <= MaxParallel + AllExcess

BusyOf   == [p \in Project |-> Busy(p)]
ExcessOf == [p \in Project |-> Excess(p)]

LEMMA Totals == AllBusy = Sum(BusyOf) /\ AllExcess = Sum(ExcessOf)
  BY DEF AllBusy, AllExcess, Sum, Summands, N, BusyOf, ExcessOf

LEMMA TotalsNext == AllBusy' = Sum(BusyOf') /\ AllExcess' = Sum(ExcessOf')
  BY DEF AllBusy, AllExcess, Sum, Summands, N, BusyOf, ExcessOf

LEMMA StepCap ==
  ASSUME LineInv, LineInv', CapInv, NEW r \in Run, Keeps(r), Transit(r) PROVE CapInv'
PROOF
  <1> DEFINE p == Home[r]
  <1>1. p \in Project /\ ProjectMax \in [Project -> Nat] /\ MaxParallel \in Nat
    BY RunLineAssumption
  <1>2. /\ \A q \in Project : /\ Busy(q) \in 0..N /\ Busy(q)' \in 0..N
                             /\ Excess(q) \in 0..N /\ Excess(q)' \in 0..N
        /\ \A q \in Project \ {p} : Busy(q)' = Busy(q) /\ Excess(q)' = Excess(q)
    BY Counted, CountedNext, OtherProject DEF Counts
  <1>3. \/ Busy(p)' - Excess(p)' <= Busy(p) - Excess(p)
        \/ Capacity(p) /\ Busy(p)' = Busy(p) + 1
    BY <1>1, OwnProject
  <1> HIDE DEF p
  <1>4. /\ AllBusy \in Nat /\ AllBusy' = AllBusy + Busy(p)' - Busy(p)
        /\ AllExcess \in Nat /\ AllExcess' = AllExcess + Excess(p)' - Excess(p)
        /\ AllExcess' \in Nat
    <2>1. /\ BusyOf \in [Project -> 0..N] /\ BusyOf' \in [Project -> 0..N]
          /\ ExcessOf \in [Project -> 0..N] /\ ExcessOf' \in [Project -> 0..N]
          /\ \A q \in Project \ {p} : BusyOf'[q] = BusyOf[q] /\ ExcessOf'[q] = ExcessOf[q]
          /\ BusyOf'[p] = Busy(p)' /\ BusyOf[p] = Busy(p)
          /\ ExcessOf'[p] = Excess(p)' /\ ExcessOf[p] = Excess(p)
      BY <1>1, <1>2 DEF BusyOf, ExcessOf
    <2>2. Sum(BusyOf) \in Nat /\ Sum(BusyOf') = Sum(BusyOf) + BusyOf'[p] - BusyOf[p]
      BY <1>1, <2>1, SumChange
    <2>3. Sum(ExcessOf) \in Nat /\ Sum(ExcessOf') = Sum(ExcessOf) + ExcessOf'[p] - ExcessOf[p]
      BY <1>1, <2>1, SumChange
    <2>4. Sum(ExcessOf') \in Nat
      BY <1>1, <2>1, SumChange
    <2> QED BY <2>1, <2>2, <2>3, <2>4, Totals, TotalsNext
  <1>5. ASSUME NEW q \in Project PROVE Busy(q)' <= ProjectMax[q] + Excess(q)'
    <2>1. CASE q # p
      BY <1>2, <2>1 DEF CapInv
    <2>2. CASE q = p
      BY <1>1, <1>2, <1>3, <2>2 DEF CapInv, Capacity
    <2> QED BY <2>1, <2>2
  <1>6. AllBusy' <= MaxParallel + AllExcess'
    BY <1>1, <1>2, <1>3, <1>4 DEF CapInv, Capacity
  <1> QED BY <1>5, <1>6 DEF CapInv

LEMMA StillCap == CapInv /\ UNCHANGED runVars => CapInv'
PROOF
  <1> SUFFICES ASSUME CapInv, UNCHANGED runVars PROVE CapInv'
    OBVIOUS
  <1>1. \A p \in Project : Busy(p)' = Busy(p) /\ Excess(p)' = Excess(p)
    BY DEF runVars, Busy, Live, Excess, Unpooled, Pooled, Place
  <1>2. BusyOf' = BusyOf /\ ExcessOf' = ExcessOf
    BY <1>1 DEF BusyOf, ExcessOf
  <1>3. AllBusy' = AllBusy /\ AllExcess' = AllExcess
    BY <1>2, Totals, TotalsNext
  <1> QED BY <1>1, <1>3 DEF CapInv

LEMMA InitCap == Init => CapInv
PROOF
  <1> SUFFICES ASSUME Init PROVE CapInv
    OBVIOUS
  <1>1. LineInv
    BY InitLine
  <1>2. \A p \in Project : Unpooled(p) = {} /\ Pooled(p) = {}
    BY DEF Init, Unpooled, Pooled, Place, Live
  <1>3. \A p \in Project : Busy(p) = 0
    <2>1. Cardinality({}) = 0 /\ MaxPool \in Nat
      BY FS_EmptySet, RunLineAssumption
    <2>2. \A p \in Project : Busy(p) = Cardinality({}) + Over(Cardinality({}))
      BY <1>1, <1>2, Counted DEF Counts
    <2> QED BY <2>1, <2>2 DEF Over
  <1>4. \A p \in Project : Excess(p) \in Nat
    BY <1>1, Counted, NIsNatural DEF Counts
  <1>5. Summands(BusyOf) = {}
    BY <1>3, NIsNatural DEF Summands, BusyOf
  <1>6. AllBusy = 0
    BY <1>5, Totals, FS_EmptySet DEF Sum
  <1>7. AllExcess \in Nat
    <2>1. ExcessOf \in [Project -> 0..N]
      BY <1>1, Counted DEF Counts, ExcessOf
    <2>2. \E p : p \in Project
      BY RunLineAssumption
    <2> QED BY <2>1, <2>2, SumChange, Totals
  <1> QED BY <1>3, <1>4, <1>6, <1>7, RunLineAssumption DEF CapInv

LEMMA MoveCap ==
  ASSUME LineInv, LineInv', CapInv, NEW r \in Run, Moves(r), Transit(r) PROVE CapInv'
  BY StepCap DEF Moves

LEMMA NextCap == LineInv /\ CapInv /\ [Next]_vars => CapInv'
PROOF
  <1> SUFFICES ASSUME LineInv, CapInv, [Next]_vars PROVE CapInv'
    OBVIOUS
  <1>1. LineInv'
    BY NextLine
  <1>2. CASE UNCHANGED runVars
    BY <1>2, StillCap
  <1>3. CASE \E r \in Run : Moves(r) /\ Transit(r)
    BY <1>1, <1>3, MoveCap
  <1>4. CASE CastNext
    BY <1>2, <1>4 DEF CastNext
  <1>5. CASE \E p \in Project : ProjectStep(p)
    <2> PICK p \in Project : ProjectStep(p)
      BY <1>5
    <2>1. CASE LoopStep(p)
      <3>1. UNCHANGED runVars \/ \E r \in Run : Moves(r) /\ Transit(r)
        BY <2>1, LeaveMoves, LeaveTransit DEF LoopStep
      <3> QED BY <1>2, <1>3, <3>1
    <2>2. CASE RepoKnown(p) \/ ConfigRead(p) \/ BeginRecovery(p) \/ EndRecovery(p) \/ Rescue(p)
      BY <1>2, <2>2 DEF RepoKnown, ConfigRead, BeginRecovery, EndRecovery, Rescue
    <2> QED BY <2>1, <2>2 DEF ProjectStep
  <1>6. CASE \E r \in Run : RunStep(r)
    BY <1>3, <1>6, RunStepMoves, RunStepTransit
  <1>7. CASE UNCHANGED vars
    BY <1>2, <1>7 DEF vars
  <1> QED BY <1>4, <1>5, <1>6, <1>7 DEF Next

(* The semaphore's counters never let a sweep, a park or a launch take a   *)
(* place that is not there, in any project or in the workspace; only a run *)
(* that a human resumed past the gates stands above a ceiling.             *)
THEOREM CeilingsHold == Spec => []CapRespected
PROOF
  <1>1. LineInv /\ CapInv => CapRespected
    <2> SUFFICES ASSUME LineInv, CapInv PROVE CapRespected
      OBVIOUS
    <2> DEFINE Of(p) == {r \in Chatty : Home[r] = p}
    <2>1. /\ \A p \in Project : Busy(p) \in 0..N /\ Excess(p) \in 0..N /\ Excess(p) <= Cardinality(Of(p))
          /\ Chatty \in SUBSET Run /\ ProjectMax \in [Project -> Nat] /\ MaxParallel \in Nat
      BY Counted, ExcessBound, RunLineAssumption DEF Counts
    <2>2. \A p \in Project : Cardinality(Of(p)) \in Nat
      BY <2>1, NIsNatural
    <2>3. \A p \in Project : Busy(p) <= ProjectMax[p] + Cardinality(Of(p))
      BY <2>1, <2>2, NIsNatural DEF CapInv
    <2>4. ExcessOf \in [Project -> 0..N] /\ \A p \in Project : ExcessOf[p] <= Cardinality(Of(p))
      BY <2>1 DEF ExcessOf
    <2>5. AllExcess <= Cardinality(Chatty)
      BY <2>1, <2>4, SumBound, Totals
    <2>6. AllBusy \in Nat /\ AllExcess \in Nat /\ Cardinality(Chatty) \in Nat
      <3>1. BusyOf \in [Project -> 0..N]
        BY <2>1 DEF BusyOf
      <3>2. \E p : p \in Project
        BY RunLineAssumption
      <3> QED BY <2>1, <2>4, <3>1, <3>2, SumChange, Totals, NIsNatural
    <2>7. AllBusy <= MaxParallel + Cardinality(Chatty)
      BY <2>1, <2>5, <2>6 DEF CapInv
    <2> QED BY <2>3, <2>7 DEF CapRespected
  <1> QED BY <1>1, InitLine, NextLine, InitCap, NextCap, PTL DEF Spec

-----------------------------------------------------------------------------
(* The order of a broadcast: whatever the stamps, every project comes once. *)
LEMMA PosFacts == ASSUME NEW s \in Seq(Run), NEW r PROVE Pos(s, r) \in Nat
PROOF
  <1> DEFINE I == {i \in 1..Len(s) : s[i] = r}
  <1>1. Pos(s, r) = IF I # {} THEN Min(I) ELSE 0
    BY DEF Pos, SelectInSeq
  <1>2. I \in SUBSET Nat
    OBVIOUS
  <1>3. I # {} => Min(I) \in Nat
    BY <1>2, MinFacts
  <1> HIDE DEF I
  <1> QED BY <1>1, <1>3

LEMMA StampFacts ==
  ASSUME LineInv', NEW l, NEW p PROVE WakeStamp(l, p) \in Nat /\ HeadStamp(l, p) \in Nat
PROOF
  <1>1. age' \in Seq(Run)
    BY DEF LineInv, LineTyped, Orderly
  <1>2. Never \in Nat
    BY NIsNatural DEF Never, N
  <1> DEFINE S == {Pos(age', r) : r \in {x \in ToSet(l) : Home[x] = p /\ IsWake(x)' /\ ~Held(x)'}}
                    \cup {Never}
  <1>3. S \in SUBSET Nat /\ S # {}
    BY <1>1, <1>2, PosFacts
  <1>4. WakeStamp(l, p) = Min(S)
    BY DEF WakeStamp
  <1> HIDE DEF S
  <1>5. WakeStamp(l, p) \in Nat
    BY <1>3, <1>4, MinFacts
  <1>6. HeadStamp(l, p) \in Nat
    BY <1>1, <1>2, PosFacts DEF HeadStamp
  <1> QED BY <1>5, <1>6

LEMMA RankFacts ==
  ASSUME LineInv', NEW l
  PROVE  /\ \A p \in Project : Rank(l, p) \in 1..Cardinality(Project)
         /\ \A p, q \in Project : Rank(l, p) = Rank(l, q) => p = q
PROOF
  <1>1. /\ \A p, q \in Project : p # q => Precedes(l, p, q) \/ Precedes(l, q, p)
        /\ \A p \in Project : ~Precedes(l, p, p)
        /\ \A p, q, o \in Project : Precedes(l, o, p) /\ Precedes(l, p, q) => Precedes(l, o, q)
    <2>1. \A p \in Project : p \in Nat /\ WakeStamp(l, p) \in Nat /\ HeadStamp(l, p) \in Nat
      BY StampFacts, RunLineAssumption
    <2> HIDE DEF WakeStamp, HeadStamp
    <2> QED BY <2>1 DEF Precedes
  <1> DEFINE Before(p) == {q \in Project : Precedes(l, q, p)}
  <1>2. IsFiniteSet(Project) /\ Cardinality(Project) \in Nat
    BY RunLineAssumption, FS_CardinalityType
  <1>3. ASSUME NEW p \in Project
        PROVE  IsFiniteSet(Before(p)) /\ Cardinality(Before(p)) \in Nat
    BY <1>2, FS_Subset, FS_CardinalityType
  <1>4. ASSUME NEW p \in Project PROVE Rank(l, p) \in 1..Cardinality(Project)
    <2>1. Before(p) \in SUBSET Project /\ Before(p) # Project
      BY <1>1
    <2> HIDE DEF Before
    <2>2. Cardinality(Before(p)) <= Cardinality(Project) /\ Cardinality(Before(p)) # Cardinality(Project)
      BY <1>2, <2>1, FS_Subset
    <2>3. Rank(l, p) = 1 + Cardinality(Before(p))
      BY DEF Rank, Before
    <2> QED BY <1>2, <1>3, <2>2, <2>3
  <1>5. ASSUME NEW p \in Project, NEW q \in Project, Precedes(l, p, q) PROVE Rank(l, p) # Rank(l, q)
    <2>1. Before(p) \in SUBSET Before(q) /\ Before(p) # Before(q)
      BY <1>1, <1>5
    <2>2. IsFiniteSet(Before(q)) /\ Cardinality(Before(q)) \in Nat /\ Cardinality(Before(p)) \in Nat
      BY <1>3
    <2>3. Rank(l, p) = 1 + Cardinality(Before(p)) /\ Rank(l, q) = 1 + Cardinality(Before(q))
      BY DEF Rank
    <2> HIDE DEF Before
    <2>4. Cardinality(Before(p)) # Cardinality(Before(q))
      BY <2>1, <2>2, FS_Subset
    <2> QED BY <2>2, <2>3, <2>4
  <1>6. \A p, q \in Project : Rank(l, p) = Rank(l, q) => p = q
    BY <1>1, <1>5
  <1> QED BY <1>4, <1>6

LEMMA OrderFacts ==
  ASSUME LineInv', NEW l
  PROVE  Orderly(Order(l), Project) /\ ToSet(Order(l)) = Project /\ Order(l) # <<>>
PROOF
  <1> DEFINE n == Cardinality(Project)
             o == Order(l)
             f == [p \in Project |-> Rank(l, p)]
  <1>1. IsFiniteSet(Project) /\ n \in Nat \ {0}
    BY RunLineAssumption, FS_CardinalityType, FS_EmptySet
  <1>2. f \in Injection(Project, 1..n)
    <2>1. f \in [Project -> 1..n] /\ \A p, q \in Project : f[p] = f[q] => p = q
      BY RankFacts
    <2> HIDE DEF f, n
    <2> QED BY <2>1 DEF Injection, IsInjective
  <1>3. f \in Surjection(Project, 1..n)
    <2>1. IsFiniteSet(1..n) /\ Cardinality(1..n) = n
      BY <1>1, FS_Interval
    <2> HIDE DEF f
    <2> QED BY <1>1, <1>2, <2>1, FS_Injection
  <1>4. \A i \in 1..n : \E p \in Project : Rank(l, p) = i
    BY <1>3 DEF Surjection
  <1>5. \A i \in 1..n : o[i] \in Project /\ Rank(l, o[i]) = i
    BY <1>4 DEF Order
  <1>6. o \in Seq(Project) /\ Len(o) = n /\ DOMAIN o = 1..n
    <2>1. o = [i \in 1..n |-> CHOOSE p \in Project : Rank(l, p) = i]
      BY DEF Order
    <2>2. o \in [1..n -> Project]
      BY <1>5, <2>1
    <2> HIDE DEF o, n
    <2> QED BY <1>1, <2>2
  <1> HIDE DEF o, n
  <1>7. IsInjective(o)
    BY <1>5, <1>6 DEF IsInjective
  <1>8. \A p \in Project : Rank(l, p) \in 1..n /\ o[Rank(l, p)] = p
    <2> TAKE p \in Project
    <2>1. Rank(l, p) \in 1..n
      BY RankFacts DEF n
    <2>2. o[Rank(l, p)] \in Project /\ Rank(l, o[Rank(l, p)]) = Rank(l, p)
      BY <1>5, <2>1
    <2> QED BY <2>1, <2>2, RankFacts
  <1>9. ToSet(o) = Project
    BY <1>5, <1>6, <1>8 DEF ToSet
  <1>10. o # <<>>
    BY <1>1, <1>6
  <1> QED BY <1>6, <1>7, <1>9, <1>10 DEF o, Orderly

-----------------------------------------------------------------------------
(* What the scheduler keeps, and what the bounds of the model say of the   *)
(* runs they are about.                                                    *)
SchedTyped ==
  /\ pump \in [Project -> Pump]
  /\ cast \in Cast /\ Orderly(cast.order, Project)
  /\ force \subseteq Project /\ recovering \subseteq Project
  /\ recoveries \in 0..MaxRecoveries

(* Only a run on hold, or on its way back from it, counts attempts, and    *)
(* only runs with waits owe wakes.                                         *)
Bounded(r) ==
  /\ attempts[r] > 0 => st[r] \in {"resting", "continued", "reopening", "running"}
  /\ st[r] = "resting" => attempts[r] < MaxResumes
  /\ attempts[r] > 0 \/ st[r] = "resting" => r \in Limited
  /\ waits[r] <= Waits[r]
  /\ r \in due => Waits[r] > 0
  /\ r \in wakes /\ st[r] = "running" => r \in Chatty

CountTyped ==
  attempts \in [Run -> 0..MaxResumes] /\ waits \in [Run -> Nat] /\ forced \subseteq Run

BoundInv == CountTyped /\ \A r \in Run : Bounded(r)

(* A step of run r counts for r only.                                      *)
Tally(r) ==
  /\ CountTyped'
  /\ \A x \in Run \ {r} : attempts'[x] = attempts[x] /\ waits'[x] = waits[x]
  /\ Bounded(r)'

LEMMA CountBounds ==
  ASSUME BoundInv, NEW r \in Run, Keeps(r), Tally(r) PROVE BoundInv'
PROOF
  <1>1. ASSUME NEW x \in Run, x # r PROVE Bounded(x)'
    BY <1>1 DEF BoundInv, Bounded, Tally, Keeps
  <1> QED BY <1>1 DEF BoundInv, Tally

LEMMA RunStepBounds ==
  ASSUME LineInv, BoundInv, NEW r \in Run, RunStep(r) PROVE Tally(r)
PROOF
  <1>0. MaxResumes \in Nat /\ Waits \in [Run -> Nat]
    BY RunLineAssumption
  <1> USE DEF LineInv, LineTyped, RunAgrees, BoundInv, CountTyped, Bounded, Tally
  <1>1. CASE Submit(r) \/ Open(r) \/ Reopen(r) \/ Message(r)
    BY <1>0, <1>1 DEF Submit, Open, Requeue, Reopen, Message, schedVars
  <1>2. CASE Finish(r) \/ CancelQueued(r) \/ Limit(r) \/ CancelResume(r)
    BY <1>0, <1>2 DEF Finish, Forget, CancelQueued, Limit, CancelResume
  <1>3. CASE Close(r) \/ Expire(r) \/ ContinueHeld(r)
    BY <1>0, <1>3 DEF Close, QueueContinuation, Expire, ContinueHeld
  <1>4. CASE ParkForUser(r)
    BY <1>0, <1>4 DEF ParkForUser, EndTurn, QueueWake, Delivers, DeliverWake, EnqueueWake, StayParked
  <1>5. CASE ParkOnWaits(r)
    BY <1>0, <1>5 DEF ParkOnWaits, EndTurn, QueueWake, Delivers, DeliverWake, EnqueueWake, StayParked
  <1>6. CASE Resolve(r) \/ Retry(r)
    BY <1>0, <1>6 DEF Resolve, Retry, QueueContinuation, QueueWake, Delivers, DeliverWake, EnqueueWake,
                StayParked
  <1> QED BY <1>1, <1>2, <1>3, <1>4, <1>5, <1>6 DEF RunStep

LEMMA LeaveBounds ==
  ASSUME LineInv, BoundInv, NEW p \in Project, NEW r \in Run, IsNext(p, r),
         AdmitWake(p, r) \/ DeferWake(p, r) \/ LaunchJob(p, r) \/ LaunchContinuation(p, r)
  PROVE  Tally(r)
PROOF
  <1>1. r \in ToSet(line)
    BY DEF IsNext, Entries
  <1> QED BY <1>1 DEF LineInv, LineTyped, RunAgrees, BoundInv, CountTyped, Bounded, Tally,
                      AdmitWake, DeferWake, LaunchJob, LaunchContinuation

-----------------------------------------------------------------------------
(* A pump that is called: refused by a recovery, about to read the line, or *)
(* bound to read it again.                                                 *)
Asked(P, p) ==
  \/ p \in recovering
  \/ P[p].at = "repo"
  \/ P[p].at \in {"config", "loop"} /\ P[p].again

LEMMA PumpedFacts ==
  ASSUME NEW P \in [Project -> Pump], NEW p \in Project
  PROVE  /\ Pumped(P, p) \in [Project -> Pump] /\ Asked(Pumped(P, p), p)
         /\ \A q \in Project \ {p} : Pumped(P, p)[q] = P[q]
         /\ \A q \in Project : Asked(P, q) => Asked(Pumped(P, p), q)
PROOF
  <1>1. P[p] \in Pump
    OBVIOUS
  <1>2. CASE p \in recovering
    <2>1. Pumped(P, p) = P
      BY <1>2 DEF Pumped, PumpStarts
    <2> QED BY <1>2, <2>1 DEF Asked
  <1>3. CASE p \notin recovering /\ P[p].at = "off"
    BY <1>3 DEF Pumped, PumpStarts, Asked, Pump, Off
  <1>4. CASE p \notin recovering /\ P[p].at # "off"
    <2>1. Pumped(P, p) = [P EXCEPT ![p].again = TRUE]
      BY <1>4 DEF Pumped, PumpStarts
    <2>2. Pumped(P, p)[p] = [P[p] EXCEPT !.again = TRUE]
      BY <2>1
    <2>3. Pumped(P, p) \in [Project -> Pump]
      BY <1>1, <2>1 DEF Pump
    <2> QED BY <1>1, <1>4, <2>1, <2>2, <2>3 DEF Asked, Pump
  <1> QED BY <1>2, <1>3, <1>4

(* A broadcast comes to every project of the order it was given.           *)
Promised(p) == Asked(pump, p) \/ (cast.on /\ (p \in ToSet(cast.order) \/ cast.again))

LEMMA CallFirstFacts ==
  ASSUME NEW P \in [Project -> Pump], NEW order, Orderly(order, Project), order # <<>>,
         NEW again \in BOOLEAN, CallFirst(P, order, again), UNCHANGED recovering
  PROVE  /\ pump' \in [Project -> Pump] /\ cast' \in Cast /\ Orderly(cast'.order, Project)
         /\ \A p \in ToSet(order) : Promised(p)'
         /\ again => \A p \in Project : Promised(p)'
         /\ \A p \in Project : Asked(P, p) => Asked(pump', p)
PROOF
  <1>1. /\ Head(order) \in Project /\ Orderly(Tail(order), Project)
        /\ ToSet(Tail(order)) = ToSet(order) \ {Head(order)}
    BY TailFacts
  <1> DEFINE h == Head(order)
  <1>2. /\ pump' = Pumped(P, h) /\ pump' \in [Project -> Pump] /\ Asked(pump', h)
        /\ \A p \in Project : Asked(P, p) => Asked(pump', p)
    BY <1>1, PumpedFacts DEF CallFirst
  <1>3. cast' = [on |-> TRUE, again |-> again, order |-> Tail(order), at |-> h,
                 awaited |-> PumpStarts(P, h)]
    BY DEF CallFirst
  <1>4. cast' \in Cast /\ Orderly(cast'.order, Project)
    <2>1. Tail(order) \in Seq(Project) /\ PumpStarts(P, h) \in BOOLEAN
      BY <1>1 DEF Orderly, PumpStarts
    <2> QED BY <1>1, <1>3, <2>1 DEF Cast
  <1>5. \A p \in ToSet(order) : p = h \/ p \in ToSet(Tail(order))
    BY <1>1
  <1>6. Asked(pump, h)'
    BY <1>2 DEF Asked
  <1> HIDE DEF h
  <1> QED BY <1>2, <1>3, <1>4, <1>5, <1>6 DEF Promised

LEMMA ReleasedFacts ==
  ASSUME LineInv', SchedTyped, NEW P \in [Project -> Pump], NEW n \in Nat, NEW l,
         Released(P, n, l), UNCHANGED recovering
  PROVE  /\ pump' \in [Project -> Pump] /\ cast' \in Cast /\ Orderly(cast'.order, Project)
         /\ \A p \in Project : Promised(p)'
PROOF
  <1>1. CASE cast.on
    BY <1>1 DEF Released, SchedTyped, Cast, Promised
  <1>2. CASE ~cast.on
    <2>1. CallFirst(P, Order(l), n > 1) /\ (n > 1) \in BOOLEAN
      BY <1>2 DEF Released
    <2> QED BY <2>1, OrderFacts, CallFirstFacts
  <1> QED BY <1>1, <1>2

-----------------------------------------------------------------------------
(* A run in the line that could leave it now.                              *)
Able(r) ==
  /\ r \in ToSet(line) /\ st[r] # "running"
  /\ ~Held(r) /\ (Capacity(Home[r]) \/ PoolWake(r))

(* A sweep under way whose reading of the holds does not keep the run.     *)
Seen(r) ==
  LET p == Home[r] IN
  pump[p].at \in {"config", "loop"} /\ ~HeldBy(r, pump[p].deadline, pump[p].inFlight)

(* Whoever could leave the line has a sweep that will find it.             *)
CoverInv == \A r \in Run : Able(r) => Promised(Home[r]) \/ Seen(r)

LEMMA ReleasedCovers == (\A p \in Project : Promised(p)') => CoverInv'
  BY RunLineAssumption DEF CoverInv

(* A step of run r that leaves other runs' capacity and holds as they are, *)
(* or takes from them.                                                     *)
Fills(r)  == Place(r)' = Place(r) \/ Place(r) = "none"
Others(r) == \A x \in Run \ {r} : attempts'[x] = attempts[x]
HoldStays(r) ==
  /\ st[r] = "resting" => st'[r] = "resting"
  /\ ResumeInFlight(r) => ResumeInFlight(r)'

LEMMA FillsCapacity ==
  ASSUME LineInv, LineInv', NEW r \in Run, Keeps(r), Fills(r), NEW q \in Project, Capacity(q)'
  PROVE  Capacity(q)
PROOF
  <1>1. ASSUME NEW p \in Project PROVE Busy(p) <= Busy(p)' /\ Busy(p) \in 0..N /\ Busy(p)' \in 0..N
    <2>1. Unpooled(p) \in SUBSET Unpooled(p)' /\ Pooled(p) \in SUBSET Pooled(p)'
      BY DEF Unpooled, Pooled, Place, Live, Keeps, Fills
    <2>2. Unpooled(p)' \in SUBSET Run /\ Pooled(p)' \in SUBSET Run
      BY DEF Unpooled, Pooled
    <2>3. /\ Cardinality(Unpooled(p)) \in Nat /\ Cardinality(Unpooled(p)') \in Nat
          /\ Cardinality(Pooled(p)) \in Nat /\ Cardinality(Pooled(p)') \in Nat
          /\ Cardinality(Unpooled(p)) <= Cardinality(Unpooled(p)')
          /\ Cardinality(Pooled(p)) <= Cardinality(Pooled(p)')
      BY <2>1, <2>2, NIsNatural, FS_Subset
    <2>4. /\ Busy(p) = Cardinality(Unpooled(p)) + Over(Cardinality(Pooled(p)))
          /\ Busy(p)' = Cardinality(Unpooled(p)') + Over(Cardinality(Pooled(p)'))
          /\ Busy(p) \in 0..N /\ Busy(p)' \in 0..N
      BY Counted, CountedNext DEF Counts
    <2> QED BY <2>3, <2>4, RunLineAssumption DEF Over
  <1>2. AllBusy <= AllBusy' /\ AllBusy \in Nat /\ AllBusy' \in Nat
    <2> DEFINE S == {x \in Project \X (1..N) : x[2] <= Busy(x[1])}
               T == {x \in Project \X (1..N) : x[2] <= Busy(x[1])'}
    <2>1. S \in SUBSET T
      <3> HIDE DEF Busy
      <3> SUFFICES ASSUME NEW x \in Project \X (1..N), x[2] <= Busy(x[1]) PROVE x[2] <= Busy(x[1])'
        OBVIOUS
      <3> QED BY <1>1, NIsNatural
    <2>2. IsFiniteSet(T)
      <3>1. IsFiniteSet(1..N)
        BY NIsNatural, FS_Interval
      <3>2. IsFiniteSet(Project \X (1..N))
        BY <3>1, RunLineAssumption, FS_Product
      <3> QED BY <3>2, FS_Subset
    <2>3. AllBusy = Cardinality(S) /\ AllBusy' = Cardinality(T)
      BY DEF AllBusy, N
    <2> HIDE DEF S, T
    <2> QED BY <2>1, <2>2, <2>3, FS_Subset, FS_CardinalityType
  <1>3. MaxParallel \in Nat /\ ProjectMax \in [Project -> Nat]
    BY RunLineAssumption
  <1> QED BY <1>1, <1>2, <1>3, NIsNatural DEF Capacity

LEMMA HeldStays ==
  ASSUME LineInv, NEW r \in Run, Keeps(r), Others(r), NEW x \in Run \ {r},
         HoldStays(r) \/ Account[x] # Account[r], Held(x)
  PROVE  Held(x)'
PROOF
  <1>1. \A y \in Run \ {r} : /\ st[y] = "resting" => st'[y] = "resting"
                            /\ ResumeInFlight(y) <=> ResumeInFlight(y)'
    BY DEF Keeps, Others, ResumeInFlight
  <1>2. \A y \in Run : Account[y] = Account[x] =>
          /\ st[y] = "resting" => st'[y] = "resting"
          /\ ResumeInFlight(y) => ResumeInFlight(y)'
    <2> TAKE y \in Run
    <2> HAVE Account[y] = Account[x]
    <2>1. CASE y # r
      <3>1. st'[y] = st[y] /\ attempts'[y] = attempts[y]
        BY <2>1 DEF Keeps, Others
      <3> QED BY <3>1 DEF ResumeInFlight
    <2>2. CASE y = r
      BY <2>2 DEF HoldStays
    <2> QED BY <2>1, <2>2
  <1>3. CASE Account[x] \in DeadlineHolds
    BY <1>2, <1>3 DEF DeadlineHolds, Held, HeldBy
  <1>4. CASE Account[x] \in InFlightHolds /\ ~ResumeInFlight(x)
    BY <1>1, <1>2, <1>4 DEF InFlightHolds, Held, HeldBy
  <1> QED BY <1>3, <1>4 DEF Held, HeldBy

(* What was not able before is not able now.                               *)
LEMMA StaysUnable ==
  ASSUME LineInv, LineInv', NEW r \in Run, Keeps(r), Others(r), Fills(r), NEW x \in Run \ {r},
         HoldStays(r) \/ Account[x] # Account[r], Able(x)'
  PROVE  Able(x)
PROOF
  <1>1. ~Held(x)
    BY HeldStays DEF Able
  <1>2. x \in ToSet(line) /\ st[x] # "running" /\ (PoolWake(x)' => PoolWake(x))
    BY DEF Able, Keeps, PoolWake
  <1>3. Capacity(Home[x])' => Capacity(Home[x])
    BY FillsCapacity, RunLineAssumption
  <1> QED BY <1>1, <1>2, <1>3 DEF Able

-----------------------------------------------------------------------------
(* What a handler does for the line: nothing, where nobody can do more than *)
(* before; a broadcast; or a call of its own pump, where at most runs of   *)
(* its own project can.                                                    *)
Leaves(r) ==
  \/ UNCHANGED <<st, line, wakes, pool, attempts>>
  \/ Fills(r) /\ HoldStays(r) /\ (r \in ToSet(line') => st'[r] = "running")

Broadcasts == \E P \in [Project -> Pump], n \in Nat, l \in Seq(Run) : Released(P, n, l)

SameHome(r) == \A x \in Run : Account[x] = Account[r] => Home[x] = Home[r]

PumpsOwn(r) ==
  /\ pump' = Pumped(pump, Home[r]) \/ pump' = Pumped(Pumped(pump, Home[r]), Home[r])
  /\ UNCHANGED cast

FreesOwn(r) == Fills(r) /\ (HoldStays(r) \/ SameHome(r))

LEMMA SameAble ==
  ASSUME UNCHANGED <<st, line, wakes, pool, attempts>>, NEW x \in Run, Able(x)' PROVE Able(x)
PROOF
  <1>1. \A p \in Project : Busy(p)' = Busy(p)
    BY DEF Busy, Live
  <1>2. AllBusy' = AllBusy
    <2>1. BusyOf' = BusyOf
      BY <1>1 DEF BusyOf
    <2> QED BY <2>1, Totals, TotalsNext
  <1>3. Capacity(Home[x])' => Capacity(Home[x])
    BY <1>1, <1>2, RunLineAssumption DEF Capacity
  <1>4. Held(x) => Held(x)'
    BY DEF Held, HeldBy, DeadlineHolds, InFlightHolds, ResumeInFlight
  <1>5. PoolWake(x)' => PoolWake(x)
    BY DEF PoolWake
  <1> QED BY <1>3, <1>4, <1>5 DEF Able

LEMMA LeavesCovers ==
  ASSUME LineInv, LineInv', CoverInv, NEW r \in Run, Keeps(r), Others(r), Leaves(r),
         UNCHANGED <<pump, cast, recovering>>
  PROVE  CoverInv'
PROOF
  <1>1. CASE UNCHANGED <<st, line, wakes, pool, attempts>>
    BY <1>1, SameAble DEF CoverInv, Promised, Asked, Seen, HeldBy, ResumeInFlight
  <1>2. CASE Fills(r) /\ HoldStays(r) /\ (r \in ToSet(line') => st'[r] = "running")
    <2> SUFFICES ASSUME NEW x \in Run, Able(x)' PROVE (Promised(Home[x]) \/ Seen(x))'
      BY DEF CoverInv
    <2>1. x # r
      BY <1>2 DEF Able
    <2>2. Able(x)
      BY <1>2, <2>1, StaysUnable
    <2>3. Promised(Home[x]) => Promised(Home[x])'
      BY DEF Promised, Asked
    <2>4. Seen(x) => Seen(x)'
      <3>1. st'[x] = st[x] /\ attempts'[x] = attempts[x]
        BY <2>1 DEF Keeps, Others
      <3> QED BY <3>1 DEF Seen, HeldBy, ResumeInFlight
    <2> QED BY <2>2, <2>3, <2>4 DEF CoverInv
  <1> QED BY <1>1, <1>2 DEF Leaves

LEMMA PumpsOwnCovers ==
  ASSUME LineInv, LineInv', SchedTyped, NEW r \in Run, Keeps(r), Others(r), PumpsOwn(r),
         UNCHANGED recovering
  PROVE  pump' \in [Project -> Pump] /\ (FreesOwn(r) /\ CoverInv => CoverInv')
PROOF
  <1>1. Home[r] \in Project /\ \A x \in Run : Home[x] \in Project
    BY RunLineAssumption
  <1>2. /\ pump' \in [Project -> Pump] /\ Asked(pump', Home[r])
        /\ \A q \in Project \ {Home[r]} : pump'[q] = pump[q]
    <2>1. pump \in [Project -> Pump]
      BY DEF SchedTyped
    <2> DEFINE P1 == Pumped(pump, Home[r])
    <2>2. /\ P1 \in [Project -> Pump] /\ Asked(P1, Home[r])
          /\ \A q \in Project \ {Home[r]} : P1[q] = pump[q]
      BY <1>1, <2>1, PumpedFacts
    <2> HIDE DEF P1
    <2>3. /\ Pumped(P1, Home[r]) \in [Project -> Pump] /\ Asked(Pumped(P1, Home[r]), Home[r])
          /\ \A q \in Project \ {Home[r]} : Pumped(P1, Home[r])[q] = pump[q]
      BY <1>1, <2>2, PumpedFacts
    <2>4. pump' = P1 \/ pump' = Pumped(P1, Home[r])
      BY DEF PumpsOwn, P1
    <2> QED BY <2>2, <2>3, <2>4
  <1> SUFFICES ASSUME FreesOwn(r), CoverInv, NEW x \in Run, Able(x)'
               PROVE  (Promised(Home[x]) \/ Seen(x))'
    BY <1>2 DEF CoverInv
  <1>3. CASE Home[x] = Home[r]
    BY <1>2, <1>3 DEF Promised, Asked
  <1>4. CASE Home[x] # Home[r]
    <2>1. x # r /\ (HoldStays(r) \/ Account[x] # Account[r])
      BY <1>4 DEF FreesOwn, SameHome
    <2>2. Able(x)
      BY <2>1, StaysUnable DEF FreesOwn
    <2>3. pump'[Home[x]] = pump[Home[x]] /\ UNCHANGED cast
      BY <1>1, <1>2, <1>4 DEF PumpsOwn
    <2>4. Promised(Home[x]) => Promised(Home[x])'
      BY <2>3 DEF Promised, Asked
    <2>5. Seen(x) => Seen(x)'
      <3>1. st'[x] = st[x] /\ attempts'[x] = attempts[x]
        BY <2>1 DEF Keeps, Others
      <3> QED BY <2>3, <3>1 DEF Seen, HeldBy, ResumeInFlight
    <2> QED BY <2>2, <2>4, <2>5 DEF CoverInv
  <1> QED BY <1>3, <1>4

(* What the code does not cover, and the model finds: a wake whose run a   *)
(* human has resumed ends the sweep for the others of its line; a resume   *)
(* withdrawn, or begun, lifts the hold of an account for all projects but  *)
(* calls its own pump; stopping a queued resume calls none.                *)
Apart ==
  /\ \A r \in Chatty : Waits[r] = 0 \/ \A x \in Run : Home[x] = Home[r] => x = r
  /\ \A r \in Limited : SameHome(r)
  /\ Stopped \cap Limited = {}

LEMMA QueueWakeAsks ==
  ASSUME LineInv', SchedTyped, NEW r \in Run, NEW owes, NEW inPool, NEW before \in Nat, NEW after \in Nat,
         QueueWake(r, owes, inPool, before, after), LineInv
  PROVE  \/ Broadcasts
         \/ UNCHANGED <<pump, cast>> /\ before + after = 0 /\ ~(owes /\ ~Delivers(r, inPool))
PROOF
  <1>1. pump \in [Project -> Pump] /\ line \in Seq(Run) /\ line' \in Seq(Run)
    BY DEF SchedTyped, LineInv, LineTyped, Orderly
  <1> DEFINE joins == owes /\ ~Delivers(r, inPool)
             n     == before + after + IF joins THEN 1 ELSE 0
             l     == IF before > 0 THEN line ELSE line'
  <1>2. n \in Nat /\ (n = 0 => before + after = 0 /\ ~joins) /\ l \in Seq(Run)
    BY <1>1
  <1>3. IF n = 0 THEN UNCHANGED <<pump, cast>> ELSE Released(pump, n, l)
    BY DEF QueueWake
  <1> HIDE DEF n, l, joins
  <1>4. CASE n = 0
    BY <1>2, <1>3, <1>4 DEF joins
  <1>5. CASE n # 0
    BY <1>1, <1>2, <1>3, <1>5 DEF Broadcasts
  <1> QED BY <1>4, <1>5

LEMMA RunStepAsks ==
  ASSUME LineInv, LineInv', BoundInv, SchedTyped, NEW r \in Run, RunStep(r)
  PROVE  \/ UNCHANGED <<pump, cast>> /\ (Apart => Leaves(r))
         \/ Broadcasts
         \/ PumpsOwn(r) /\ (Apart => FreesOwn(r))
PROOF
  <1>1. /\ pump \in [Project -> Pump] /\ Home[r] \in Project
        /\ Pumped(pump, Home[r]) \in [Project -> Pump]
        /\ line \in Seq(Run) /\ line' \in Seq(Run)
    BY PumpedFacts, RunLineAssumption DEF SchedTyped, LineInv, LineTyped, Orderly
  <1>2. RunAgrees(r) /\ RunAgrees(r)' /\ Bounded(r) /\ st \in [Run -> Stages] /\ attempts \in [Run -> Nat]
    BY RunLineAssumption DEF LineInv, LineTyped, BoundInv, CountTyped
  <1>3. ASSUME NEW P \in [Project -> Pump], NEW n \in Nat, NEW l \in Seq(Run), Released(P, n, l)
        PROVE  Broadcasts
    BY <1>3 DEF Broadcasts
  <1>4. CASE Submit(r)
    BY <1>2, <1>4 DEF Submit, PumpsOwn, FreesOwn, Fills, Place, Live, HoldStays, ResumeInFlight, RunAgrees, Bounded
  <1>5. CASE Open(r)
    <2>1. CASE Released(pump, 1, line')
      BY <1>1, <1>3, <2>1
    <2>2. CASE st' = [st EXCEPT ![r] = "running"] /\ UNCHANGED <<pump, cast>>
      BY <1>2, <1>5, <2>2
         DEF Open, Leaves, Fills, Place, Live, HoldStays, ResumeInFlight, RunAgrees, Bounded
    <2> QED BY <1>5, <2>1, <2>2 DEF Open
  <1>6. CASE Reopen(r)
    BY <1>2, <1>6
       DEF Reopen, Leaves, Fills, Place, Live, HoldStays, ResumeInFlight, RunAgrees, Bounded, schedVars
  <1>7. CASE Message(r)
    BY <1>2, <1>7
       DEF Message, Leaves, Fills, Place, Live, HoldStays, ResumeInFlight, RunAgrees, Bounded, schedVars
  <1>8. CASE CancelQueued(r)
    <2>1. Apart => attempts[r] = 0
      BY <1>2, <1>8 DEF CancelQueued, Bounded, Apart
    <2>2. UNCHANGED <<pump, cast>> /\ st' = [st EXCEPT ![r] = "ended"] /\ UNCHANGED pool
      BY <1>8 DEF CancelQueued, schedVars
    <2> QED BY <1>2, <1>8, <2>1, <2>2
            DEF CancelQueued, Leaves, Fills, Place, Live, HoldStays, ResumeInFlight, RunAgrees
  <1>9. CASE Finish(r) \/ Limit(r)
    <2>1. Released(pump, 1, line')
      BY <1>9 DEF Finish, Limit
    <2> QED BY <1>1, <1>3, <2>1
  <1>10. CASE Close(r)
    <2>1. \E P \in {pump, Pumped(pump, Home[r])}, n \in {1, 2} : Released(P, n, line')
      BY <1>10 DEF Close
    <2> QED BY <1>1, <1>3, <2>1
  <1>11. CASE ParkForUser(r)
    <2> DEFINE b == IF r \in pool THEN 2 ELSE 1
    <2>1. QueueWake(r, r \in due, FALSE, b, 0)
      BY <1>11 DEF ParkForUser
    <2>2. b \in Nat /\ b + 0 # 0
      OBVIOUS
    <2> HIDE DEF b
    <2> QED BY <2>1, <2>2, QueueWakeAsks
  <1>12. CASE ParkOnWaits(r)
    <2> PICK keepsSlot \in BOOLEAN :
          QueueWake(r, r \in due, keepsSlot, IF r \in pool /\ ~keepsSlot THEN 1 ELSE 0, 1)
      BY <1>12 DEF ParkOnWaits
    <2> DEFINE b == IF r \in pool /\ ~keepsSlot THEN 1 ELSE 0
    <2>1. QueueWake(r, r \in due, keepsSlot, b, 1)
      OBVIOUS
    <2>2. b \in Nat /\ b + 1 # 0
      OBVIOUS
    <2> HIDE DEF b
    <2> QED BY <2>1, <2>2, QueueWakeAsks
  <1>13. CASE st[r] = "parked" /\ QueueWake(r, TRUE, r \in pool, 0, 0) /\ UNCHANGED <<pool, attempts>>
    <2>1. \/ Broadcasts
          \/ UNCHANGED <<pump, cast>> /\ Delivers(r, r \in pool)
      BY <1>13, QueueWakeAsks
    <2>2. CASE UNCHANGED <<pump, cast>> /\ Delivers(r, r \in pool)
      <3>1. DeliverWake(r) /\ r \in pool
        BY <1>2, <1>13, <2>2 DEF QueueWake, Delivers, RunAgrees
      <3>2. st'[r] = "running" /\ UNCHANGED pool
        BY <1>2, <1>13, <3>1 DEF DeliverWake
      <3> QED BY <1>13, <2>2, <3>1, <3>2 DEF Leaves, Fills, Place, HoldStays, ResumeInFlight
    <2> QED BY <2>1, <2>2
  <1>14. CASE Resolve(r)
    <2>1. CASE UNCHANGED <<st, line, age, wakes, admitted, pump, cast>>
      BY <1>14, <2>1 DEF Resolve, Leaves
    <2>2. CASE st[r] = "closed" /\ Released(Pumped(pump, Home[r]), 1, line')
      BY <1>1, <1>3, <2>2
    <2> QED BY <1>13, <1>14, <2>1, <2>2 DEF Resolve
  <1>15. CASE Retry(r)
    BY <1>13, <1>15 DEF Retry
  <1>16. CASE Expire(r) \/ ContinueHeld(r) \/ CancelResume(r)
    <2>1. /\ st[r] = "resting" /\ r \notin pool /\ UNCHANGED pool
          /\ st'[r] \in {"continued", "ended"}
      BY <1>2, <1>16 DEF Expire, ContinueHeld, CancelResume, QueueContinuation, RunAgrees
    <2>2. Fills(r)
      BY <2>1 DEF Fills, Place, Live
    <2>3. Apart => SameHome(r)
      BY <1>2, <2>1 DEF Bounded, Apart
    <2> QED BY <1>16, <2>2, <2>3 DEF Expire, ContinueHeld, CancelResume, PumpsOwn, FreesOwn
  <1> QED BY <1>4, <1>5, <1>6, <1>7, <1>8, <1>9, <1>10, <1>11, <1>12, <1>14, <1>15, <1>16 DEF RunStep

LEMMA RunStepCovers ==
  ASSUME LineInv, LineInv', BoundInv, SchedTyped, NEW r \in Run, RunStep(r)
  PROVE  SchedTyped' /\ (Apart /\ CoverInv => CoverInv')
PROOF
  <1>1. Keeps(r) /\ Others(r)
    BY RunStepMoves, RunStepBounds DEF Moves, Tally, Others
  <1>2. UNCHANGED <<force, recovering, recoveries>>
    BY DEF RunStep, Submit, Open, Reopen, Finish, CancelQueued, ParkForUser, ParkOnWaits, EndTurn,
           Resolve, Retry, Close, Message, Limit, Expire, ContinueHeld, CancelResume, schedVars
  <1>3. CASE UNCHANGED <<pump, cast>> /\ (Apart => Leaves(r))
    BY <1>1, <1>2, <1>3, LeavesCovers DEF SchedTyped
  <1>4. CASE Broadcasts
    BY <1>2, <1>4, ReleasedFacts, ReleasedCovers DEF Broadcasts, SchedTyped
  <1>5. CASE PumpsOwn(r) /\ (Apart => FreesOwn(r))
    BY <1>1, <1>2, <1>5, PumpsOwnCovers DEF SchedTyped, PumpsOwn
  <1> QED BY <1>3, <1>4, <1>5, RunStepAsks

-----------------------------------------------------------------------------
(* A sweep that finds nobody leaves nobody behind who could go by what it  *)
(* has read of the holds.                                                  *)
LEMMA SweepFinds ==
  ASSUME LineInv, NEW p \in Project, ~\E r \in Run : IsNext(p, r)
  PROVE  \A x \in Entries(p) : ~CanLeave(p, x)
PROOF
  <1> DEFINE able  == {x \in Entries(p) : CanLeave(p, x)}
             ready == {x \in able : IsWake(x)}
             First(S, s) == Min({Pos(s, x) : x \in S})
  <1>1. age \in Seq(Run) /\ line \in Seq(Run) /\ able \subseteq Run
    BY DEF LineInv, LineTyped, Orderly, Entries, ToSet
  <1>2. ASSUME NEW S \in SUBSET Run, S # {}, NEW s \in Seq(Run)
        PROVE  \E r \in S : \A x \in S : Pos(s, r) <= Pos(s, x)
    <2> DEFINE T == {Pos(s, x) : x \in S}
    <2>1. T \in SUBSET Nat /\ T # {}
      BY <1>2, PosFacts
    <2>2. Min(T) \in T /\ \A y \in T : Min(T) <= y
      <3> HIDE DEF T
      <3> QED BY <2>1, MinFacts
    <2> QED BY <2>2
  <1>3. CASE ready # {}
    <2>1. \E r \in ready : \A x \in ready : Pos(age, r) <= Pos(age, x)
      BY <1>1, <1>2, <1>3
    <2> QED BY <1>1, <1>3, <2>1 DEF IsNext
  <1>4. CASE ready = {} /\ able # {}
    <2>1. \E r \in able : \A x \in able : Pos(line, r) <= Pos(line, x)
      BY <1>1, <1>2, <1>4
    <2> QED BY <1>1, <1>4, <2>1 DEF IsNext
  <1> QED BY <1>3, <1>4

LEMMA EndFacts ==
  ASSUME SchedTyped, NEW p \in Project, pump[p].at = "loop", EndSweep(p) \/ EndPump(p),
         UNCHANGED <<force, recovering, recoveries>>
  PROVE  /\ SchedTyped'
         /\ \A q \in Project \ {p} : pump'[q] = pump[q] /\ (Promised(q) => Promised(q)')
         /\ p \in recovering => Promised(p)'
         /\ EndSweep(p) /\ Promised(p) => Promised(p)'
PROOF
  <1>1. pump \in [Project -> Pump] /\ cast \in Cast /\ Orderly(cast.order, Project)
    BY DEF SchedTyped
  <1>2. /\ cast' \in Cast /\ Orderly(cast'.order, Project)
        /\ cast'.on = cast.on /\ cast'.order = cast.order /\ cast'.again = cast.again
    <2>1. cast' = cast \/ cast' = [cast EXCEPT !.awaited = FALSE]
      BY DEF EndSweep, EndPump
    <2> QED BY <1>1, <2>1 DEF Cast
  <1>3. /\ pump' \in [Project -> Pump] /\ \A q \in Project \ {p} : pump'[q] = pump[q]
        /\ EndSweep(p) /\ pump[p].again => pump'[p].at = "repo"
    <2>1. Off \in Pump /\ [Off EXCEPT !.at = "repo"] \in Pump /\ [Off EXCEPT !.at = "repo"].at = "repo"
      BY DEF Off, Pump
    <2> QED BY <1>1, <2>1 DEF EndSweep, EndPump
  <1>4. SchedTyped'
    BY <1>2, <1>3 DEF SchedTyped
  <1> QED BY <1>2, <1>3, <1>4 DEF Promised, Asked

LEMMA LeaveAsks ==
  ASSUME LineInv, LineInv', BoundInv, NEW p \in Project, NEW r \in Run, IsNext(p, r),
         AdmitWake(p, r) \/ LaunchJob(p, r) \/ LaunchContinuation(p, r)
  PROVE  Leaves(r) /\ UNCHANGED <<pump, cast>>
PROOF
  <1>1. RunAgrees(r) /\ RunAgrees(r)' /\ Bounded(r) /\ st \in [Run -> Stages] /\ attempts \in [Run -> Nat]
    BY RunLineAssumption DEF LineInv, LineTyped, BoundInv, CountTyped
  <1>2. CASE AdmitWake(p, r)
    BY <1>1, <1>2 DEF AdmitWake, Leaves, Fills, Place, Live, HoldStays, ResumeInFlight
  <1>3. CASE LaunchJob(p, r)
    BY <1>1, <1>3 DEF LaunchJob, Leaves, Fills, Place, Live, HoldStays, ResumeInFlight, Bounded, RunAgrees
  <1>4. CASE LaunchContinuation(p, r)
    BY <1>1, <1>4 DEF LaunchContinuation, Leaves, Fills, Place, Live, HoldStays, ResumeInFlight, RunAgrees
  <1> QED BY <1>2, <1>3, <1>4

LEMMA DeferCovers ==
  ASSUME LineInv, LineInv', BoundInv, SchedTyped, CoverInv, Apart,
         NEW p \in Project, NEW r \in Run, pump[p].at = "loop",
         IsNext(p, r), DeferWake(p, r), UNCHANGED <<force, recovering, recoveries>>
  PROVE  SchedTyped' /\ CoverInv'
PROOF
  <1>1. st[r] = "running" /\ r \in ToSet(line) /\ Home[r] = p
    BY DEF DeferWake, IsNext, Entries
  <1>2. \A x \in Run : Home[x] = p => x = r
    BY <1>1 DEF LineInv, RunAgrees, BoundInv, Bounded, Apart
  <1>3. Keeps(r) /\ Others(r)
    BY LeaveMoves, LeaveBounds DEF Moves, Tally, Others
  <1>4. Fills(r) /\ HoldStays(r)
    BY DEF DeferWake, Fills, Place, Live, HoldStays, ResumeInFlight
  <1>5. /\ SchedTyped'
        /\ \A q \in Project \ {p} : pump'[q] = pump[q] /\ (Promised(q) => Promised(q)')
    BY EndFacts DEF DeferWake
  <1>6. ASSUME NEW x \in Run, Able(x)' PROVE (Promised(Home[x]) \/ Seen(x))'
    <2>1. x # r
      BY <1>1, <1>6 DEF Able, DeferWake
    <2>2. Home[x] \in Project \ {p}
      BY <1>2, <2>1, RunLineAssumption
    <2>3. Able(x)
      BY <1>3, <1>4, <1>6, <2>1, StaysUnable
    <2>4. Seen(x) => Seen(x)'
      <3>1. st'[x] = st[x] /\ attempts'[x] = attempts[x]
        BY <1>3, <2>1 DEF Keeps, Others
      <3> QED BY <1>5, <2>2, <3>1 DEF Seen, HeldBy, ResumeInFlight
    <2> QED BY <1>5, <2>2, <2>3, <2>4 DEF CoverInv
  <1> QED BY <1>5, <1>6 DEF CoverInv

(* A step of one project's pump, while no run moves.                       *)
LEMMA PumpCovers ==
  ASSUME CoverInv, NEW p \in Project, UNCHANGED runVars,
         \A q \in Project \ {p} : pump'[q] = pump[q] /\ (Promised(q) => Promised(q)'),
         \A x \in Run : Home[x] = p /\ Able(x) => (Promised(p) \/ Seen(x))'
  PROVE  CoverInv'
PROOF
  <1> SUFFICES ASSUME NEW x \in Run, Able(x)' PROVE (Promised(Home[x]) \/ Seen(x))'
    BY DEF CoverInv
  <1>1. Able(x)
    BY SameAble DEF runVars
  <1>2. Home[x] \in Project
    BY RunLineAssumption
  <1>3. CASE Home[x] = p
    BY <1>1, <1>3
  <1>4. CASE Home[x] # p
    <2>1. Seen(x) => Seen(x)'
      BY <1>2, <1>4 DEF Seen, HeldBy, ResumeInFlight, runVars
    <2> QED BY <1>1, <1>2, <1>4, <2>1 DEF CoverInv
  <1> QED BY <1>3, <1>4

LEMMA LoopCovers ==
  ASSUME LineInv, LineInv', BoundInv, SchedTyped, NEW p \in Project, LoopStep(p)
  PROVE  SchedTyped' /\ (Apart /\ CoverInv => CoverInv')
PROOF
  <1>1. pump[p].at = "loop" /\ UNCHANGED <<force, recovering, recoveries>>
    BY DEF LoopStep
  <1>2. CASE p \in recovering /\ EndPump(p) /\ UNCHANGED runVars
    BY <1>1, <1>2, EndFacts, PumpCovers
  <1>3. ASSUME NEW r \in Run, IsNext(p, r),
               AdmitWake(p, r) \/ LaunchJob(p, r) \/ LaunchContinuation(p, r)
        PROVE  SchedTyped' /\ (CoverInv => CoverInv')
    <2>1. Keeps(r) /\ Others(r)
      BY <1>3, LeaveMoves, LeaveBounds DEF Moves, Tally, Others
    <2>2. Leaves(r) /\ UNCHANGED <<pump, cast>>
      BY <1>3, LeaveAsks
    <2> QED BY <1>1, <2>1, <2>2, LeavesCovers DEF SchedTyped
  <1>4. ASSUME NEW r \in Run, IsNext(p, r), DeferWake(p, r)
        PROVE  SchedTyped' /\ (Apart /\ CoverInv => CoverInv')
    <2>1. SchedTyped'
      BY <1>1, <1>4, EndFacts DEF DeferWake
    <2> QED BY <1>1, <1>4, <2>1, DeferCovers
  <1>5. CASE /\ p \notin recovering \/ Entries(p) = {}
             /\ ~\E r \in Run : IsNext(p, r)
             /\ EndSweep(p) /\ UNCHANGED runVars
    <2>1. /\ SchedTyped'
          /\ \A q \in Project \ {p} : pump'[q] = pump[q] /\ (Promised(q) => Promised(q)')
          /\ Promised(p) => Promised(p)'
      BY <1>1, <1>5, EndFacts
    <2>2. ASSUME CoverInv, NEW x \in Run, Home[x] = p, Able(x) PROVE Promised(p)'
      <3>1. x \in Entries(p) /\ ~CanLeave(p, x)
        BY <1>5, <2>2, SweepFinds DEF Able, Entries
      <3>2. ~Seen(x)
        BY <2>2, <3>1 DEF Able, CanLeave, Seen
      <3> QED BY <2>1, <2>2, <3>2 DEF CoverInv
    <2> QED BY <1>5, <2>1, <2>2, PumpCovers
  <1> QED BY <1>2, <1>3, <1>4, <1>5 DEF LoopStep

(* Pumps that are called and holds that are read.                          *)
LEMMA ReadCovers ==
  ASSUME SchedTyped, NEW p \in Project, RepoKnown(p) \/ ConfigRead(p)
  PROVE  SchedTyped' /\ (CoverInv => CoverInv')
PROOF
  <1>1. UNCHANGED <<runVars, cast, recovering, recoveries>> /\ force' \subseteq force
    BY DEF RepoKnown, ConfigRead
  <1>2. pump[p] \in Pump /\ pump \in [Project -> Pump]
    BY DEF SchedTyped
  <1>3. DeadlineHolds \subseteq Accounts /\ InFlightHolds \subseteq Accounts
    BY DEF DeadlineHolds, InFlightHolds, Accounts
  <1>4. /\ pump' \in [Project -> Pump]
        /\ \A q \in Project \ {p} : pump'[q] = pump[q] /\ (Promised(q) => Promised(q)')
        /\ CoverInv => \A x \in Run : Home[x] = p /\ Able(x) => (Promised(p) \/ Seen(x))'
    <2>1. CASE RepoKnown(p)
      <3> DEFINE asks     == Entries(p) # {} /\ p \notin force
                 deadline == IF asks THEN DeadlineHolds ELSE {}
                 inFlight == IF asks THEN InFlightHolds ELSE {}
                 X        == [at |-> IF deadline \cup inFlight # {} THEN "config" ELSE "loop",
                              again |-> pump[p].again, forced |-> p \in force,
                              deadline |-> deadline, inFlight |-> inFlight]
      <3>1. pump' = [pump EXCEPT ![p] = X]
        BY <2>1 DEF RepoKnown
      <3>2. deadline \subseteq Accounts /\ inFlight \subseteq Accounts
        BY <1>3
      <3>3. /\ X \in Pump /\ X.at \in {"config", "loop"}
            /\ X.deadline = deadline /\ X.inFlight = inFlight
        <4> HIDE DEF deadline, inFlight
        <4> QED BY <1>2, <3>2 DEF Pump
      <3>4. ASSUME NEW x \in Run, Home[x] = p, Able(x)
            PROVE  ~HeldBy(x, deadline, inFlight)
        <4>1. Entries(p) # {}
          BY <3>4 DEF Able, Entries
        <4> QED BY <3>4, <4>1 DEF Able, Held, HeldBy
      <3> HIDE DEF X, deadline, inFlight
      <3>5. /\ pump' \in [Project -> Pump] /\ pump'[p] = X
            /\ \A q \in Project \ {p} : pump'[q] = pump[q]
        BY <1>2, <3>1, <3>3
      <3>6. \A x \in Run : Home[x] = p /\ Able(x) => Seen(x)'
        BY <1>1, <3>3, <3>4, <3>5 DEF Seen, HeldBy, ResumeInFlight, runVars
      <3>7. \A q \in Project \ {p} : Promised(q) => Promised(q)'
        BY <1>1, <3>5 DEF Promised, Asked
      <3> QED BY <3>5, <3>6, <3>7
    <2>2. CASE ConfigRead(p)
      <3>1. pump[p].at = "config" /\ pump' = [pump EXCEPT ![p].at = "loop"]
        BY <2>2 DEF ConfigRead
      <3>2. /\ pump' \in [Project -> Pump] /\ pump'[p].at = "loop"
            /\ pump'[p].again = pump[p].again /\ pump'[p].deadline = pump[p].deadline
            /\ pump'[p].inFlight = pump[p].inFlight
            /\ \A q \in Project \ {p} : pump'[q] = pump[q]
        BY <1>2, <3>1 DEF Pump
      <3>3. \A q \in Project : Promised(q) => Promised(q)'
        BY <1>1, <3>1, <3>2 DEF Promised, Asked
      <3>4. ASSUME NEW x \in Run, Home[x] = p, Seen(x) PROVE Seen(x)'
        BY <1>1, <3>2, <3>4 DEF Seen, HeldBy, ResumeInFlight, runVars
      <3> QED BY <3>2, <3>3, <3>4 DEF CoverInv
    <2> QED BY <2>1, <2>2
  <1>5. SchedTyped'
    BY <1>1, <1>4 DEF SchedTyped
  <1> QED BY <1>1, <1>4, <1>5, PumpCovers

LEMMA CallCovers ==
  ASSUME SchedTyped, NEW p \in Project, EndRecovery(p) \/ Rescue(p)
  PROVE  SchedTyped' /\ (CoverInv => CoverInv')
PROOF
  <1>1. UNCHANGED <<runVars, cast, recoveries>> /\ force' \subseteq Project
    BY DEF EndRecovery, Rescue, SchedTyped
  <1>2. pump[p] \in Pump /\ pump \in [Project -> Pump]
    BY DEF SchedTyped
  <1>3. /\ pump' \in [Project -> Pump] /\ recovering' \subseteq Project
        /\ Promised(p)'
        /\ \A q \in Project \ {p} : pump'[q] = pump[q] /\ (Promised(q) => Promised(q)')
    <2>1. CASE EndRecovery(p)
      <3>1. recovering' = recovering \ {p}
        BY <2>1 DEF EndRecovery
      <3>2. CASE pump[p].at = "off" /\ pump' = [pump EXCEPT ![p] = [Off EXCEPT !.at = "repo"]]
        BY <1>1, <1>2, <3>1, <3>2 DEF Pump, Off, Promised, Asked, SchedTyped
      <3>3. CASE pump[p].at # "off" /\ pump' = [pump EXCEPT ![p].again = TRUE]
        <4>1. /\ pump' \in [Project -> Pump]
              /\ pump'[p].at = pump[p].at /\ pump'[p].again
              /\ pump[p].at \in {"repo", "config", "loop"}
              /\ \A q \in Project \ {p} : pump'[q] = pump[q]
          BY <1>2, <3>3 DEF Pump
        <4> QED BY <1>1, <3>1, <4>1 DEF Promised, Asked, SchedTyped
      <3> QED BY <2>1, <3>2, <3>3 DEF EndRecovery
    <2>2. CASE Rescue(p)
      <3>1. pump' = Pumped(pump, p) /\ UNCHANGED recovering
        BY <2>2 DEF Rescue
      <3> QED BY <1>1, <1>2, <3>1, PumpedFacts DEF Promised, Asked, SchedTyped
    <2> QED BY <2>1, <2>2
  <1>4. SchedTyped'
    BY <1>1, <1>3 DEF SchedTyped
  <1> QED BY <1>1, <1>3, <1>4, PumpCovers

LEMMA CastCovers ==
  ASSUME LineInv', SchedTyped, CastNext PROVE SchedTyped' /\ (CoverInv => CoverInv')
PROOF
  <1>1. /\ UNCHANGED <<runVars, force, recovering, recoveries>> /\ cast.on
        /\ pump \in [Project -> Pump] /\ cast \in Cast /\ Orderly(cast.order, Project)
        /\ cast.again \in BOOLEAN
    BY DEF CastNext, SchedTyped, Cast
  <1>2. /\ pump' \in [Project -> Pump] /\ cast' \in Cast /\ Orderly(cast'.order, Project)
        /\ \A p \in Project : Promised(p) => Promised(p)'
        /\ \A p \in Project : pump'[p] = pump[p] \/ Promised(p)'
    <2>1. CASE cast.order # <<>> /\ CallFirst(pump, cast.order, cast.again)
      <3>1. /\ pump' \in [Project -> Pump] /\ cast' \in Cast /\ Orderly(cast'.order, Project)
            /\ \A p \in ToSet(cast.order) : Promised(p)'
            /\ cast.again => \A p \in Project : Promised(p)'
            /\ \A p \in Project : Asked(pump, p) => Asked(pump', p)
        BY <1>1, <2>1, CallFirstFacts
      <3>2. \A p \in Project : pump'[p] = pump[p] \/ p \in ToSet(cast.order)
        <4>1. Head(cast.order) \in Project /\ Head(cast.order) \in ToSet(cast.order)
          BY <1>1, <2>1, TailFacts
        <4>2. pump' = Pumped(pump, Head(cast.order))
          BY <2>1 DEF CallFirst
        <4> QED BY <1>1, <4>1, <4>2, PumpedFacts
      <3>3. \A p \in Project : Asked(pump', p) => Promised(p)'
        BY <1>1 DEF Promised, Asked
      <3> QED BY <1>1, <3>1, <3>2, <3>3 DEF Promised
    <2>2. CASE cast.order = <<>> /\ cast.again /\ CallFirst(pump, Order(line), FALSE)
      <3>1. Orderly(Order(line), Project) /\ ToSet(Order(line)) = Project /\ Order(line) # <<>>
        BY OrderFacts
      <3>2. /\ pump' \in [Project -> Pump] /\ cast' \in Cast /\ Orderly(cast'.order, Project)
            /\ \A p \in ToSet(Order(line)) : Promised(p)'
        BY <1>1, <2>2, <3>1, CallFirstFacts
      <3> QED BY <3>1, <3>2
    <2>3. CASE cast.order = <<>> /\ ~cast.again /\ cast' = NoCast /\ UNCHANGED pump
      <3>1. Orderly(<<>>, Project) /\ ToSet(<<>>) = {}
        BY DEF Orderly, IsInjective, ToSet
      <3>2. NoCast \in Cast /\ NoCast.order = <<>> /\ ~NoCast.on
        BY DEF NoCast, Cast
      <3> QED BY <1>1, <2>3, <3>1, <3>2 DEF Promised, Asked
    <2> QED BY <2>1, <2>2, <2>3 DEF CastNext
  <1>3. SchedTyped'
    BY <1>1, <1>2 DEF SchedTyped
  <1>4. ASSUME CoverInv, NEW x \in Run, Able(x)' PROVE (Promised(Home[x]) \/ Seen(x))'
    <2>1. Able(x) /\ Home[x] \in Project
      BY <1>1, <1>4, SameAble, RunLineAssumption DEF runVars
    <2>2. pump'[Home[x]] = pump[Home[x]] /\ Seen(x) => Seen(x)'
      BY <1>1 DEF Seen, HeldBy, ResumeInFlight, runVars
    <2> QED BY <1>2, <1>4, <2>1, <2>2 DEF CoverInv
  <1> QED BY <1>3, <1>4 DEF CoverInv

LEMMA BeginCovers ==
  ASSUME SchedTyped, NEW p \in Project, BeginRecovery(p)
  PROVE  SchedTyped' /\ (CoverInv => CoverInv')
PROOF
  <1>1. SchedTyped'
    BY RunLineAssumption DEF SchedTyped, BeginRecovery
  <1>2. UNCHANGED <<runVars, pump, cast>> /\ recovering' = recovering \cup {p}
    BY DEF BeginRecovery
  <1>3. \A q \in Project : Promised(q) => Promised(q)'
    BY <1>2 DEF Promised, Asked
  <1>4. CoverInv => \A x \in Run : Home[x] = p /\ Able(x) => (Promised(p) \/ Seen(x))'
    BY <1>2 DEF Promised, Asked
  <1> QED BY <1>1, <1>2, <1>3, <1>4, PumpCovers

LEMMA NextBounds == LineInv /\ BoundInv /\ [Next]_vars => BoundInv'
PROOF
  <1> SUFFICES ASSUME LineInv, BoundInv, [Next]_vars PROVE BoundInv'
    OBVIOUS
  <1>1. CASE UNCHANGED runVars
    BY <1>1 DEF BoundInv, CountTyped, Bounded, runVars
  <1>2. CASE \E r \in Run : Moves(r) /\ Tally(r)
    BY <1>2, CountBounds DEF Moves
  <1>3. CASE CastNext
    BY <1>1, <1>3 DEF CastNext
  <1>4. CASE \E p \in Project : ProjectStep(p)
    <2> PICK p \in Project : ProjectStep(p)
      BY <1>4
    <2>1. CASE LoopStep(p)
      <3>1. UNCHANGED runVars \/ \E r \in Run : Moves(r) /\ Tally(r)
        BY <2>1, LeaveMoves, LeaveBounds DEF LoopStep
      <3> QED BY <1>1, <1>2, <3>1
    <2>2. CASE RepoKnown(p) \/ ConfigRead(p) \/ BeginRecovery(p) \/ EndRecovery(p) \/ Rescue(p)
      BY <1>1, <2>2 DEF RepoKnown, ConfigRead, BeginRecovery, EndRecovery, Rescue
    <2> QED BY <2>1, <2>2 DEF ProjectStep
  <1>5. CASE \E r \in Run : RunStep(r)
    BY <1>2, <1>5, RunStepMoves, RunStepBounds
  <1>6. CASE UNCHANGED vars
    BY <1>1, <1>6 DEF vars
  <1> QED BY <1>3, <1>4, <1>5, <1>6 DEF Next


(* The types and bounds hold by themselves; nobody is left behind in the   *)
(* workspaces of Apart.                                                    *)
SchedInv == LineInv /\ BoundInv /\ SchedTyped /\ (Apart => CoverInv)

LEMMA NextSched == SchedInv /\ [Next]_vars => SchedInv'
PROOF
  <1> SUFFICES ASSUME LineInv, BoundInv, SchedTyped, Apart => CoverInv, [Next]_vars PROVE SchedInv'
    BY DEF SchedInv
  <1>1. LineInv' /\ BoundInv' /\ (Apart => Apart')
    BY NextLine, NextBounds DEF Apart, SameHome
  <1>2. SchedTyped' /\ (Apart /\ CoverInv => CoverInv')
    <2>1. CASE CastNext
      BY <1>1, <2>1, CastCovers
    <2>2. CASE \E p \in Project : ProjectStep(p)
      BY <1>1, <2>2, LoopCovers, ReadCovers, CallCovers, BeginCovers DEF ProjectStep
    <2>3. CASE \E r \in Run : RunStep(r)
      BY <1>1, <2>3, RunStepCovers
    <2>4. CASE UNCHANGED vars
      <3>1. UNCHANGED runVars /\ UNCHANGED schedVars
        BY <2>4 DEF vars
      <3>2. SchedTyped'
        BY <3>1 DEF schedVars, SchedTyped
      <3>3. CoverInv => CoverInv'
        BY <3>1, SameAble
           DEF runVars, schedVars, CoverInv, Promised, Asked, Seen, HeldBy, ResumeInFlight
      <3> QED BY <3>2, <3>3
    <2> QED BY <2>1, <2>2, <2>3, <2>4 DEF Next
  <1> QED BY <1>1, <1>2 DEF SchedInv, Apart, SameHome

LEMMA InitSched == Init => SchedInv
PROOF
  <1> SUFFICES ASSUME Init PROVE SchedInv
    OBVIOUS
  <1>1. LineInv
    BY InitLine
  <1>2. BoundInv
    BY RunLineAssumption DEF Init, BoundInv, CountTyped, Bounded
  <1>3. Orderly(<<>>, Project) /\ ToSet(<<>>) = {}
    BY DEF Orderly, IsInjective, ToSet
  <1>4. SchedTyped
    BY <1>3, RunLineAssumption DEF Init, SchedTyped, Pump, Off, Cast, NoCast
  <1>5. CoverInv
    BY <1>3 DEF Init, CoverInv, Able
  <1> QED BY <1>1, <1>2, <1>4, <1>5 DEF SchedInv

THEOREM SchedHolds == Spec => []SchedInv
PROOF
  <1> QED BY InitSched, NextSched, PTL DEF Spec

(* The type invariant of the line, the pumps and the broadcast.            *)
THEOREM TypeCorrect == Spec => []TypeOK
PROOF
  <1>1. SchedInv => TypeOK
    BY DEF SchedInv, LineInv, LineTyped, Orderly, BoundInv, CountTyped, SchedTyped, TypeOK
  <1> QED BY <1>1, SchedHolds, PTL

(* In a workspace without the three situations that Apart excludes, every  *)
(* slot, place in the pool or hold that goes away wakes whoever could use  *)
(* it, whatever pumps and broadcasts are under way meanwhile.              *)
THEOREM NobodyIsLeftBehind == ASSUME Apart PROVE Spec => []NoIdleCapacity
PROOF
  <1>1. SchedInv => NoIdleCapacity
    <2> SUFFICES ASSUME SchedInv, Idle, NEW p \in Project, NEW r \in Entries(p), st[r] # "running", ~Held(r),
                        Capacity(p) \/ PoolWake(r)
                 PROVE  FALSE
      BY DEF NoIdleCapacity
    <2>1. r \in Run /\ Home[r] = p /\ Able(r)
      BY DEF SchedInv, LineInv, LineTyped, Orderly, Entries, ToSet, Able
    <2>2. Promised(p) \/ Seen(r)
      BY <2>1 DEF SchedInv, CoverInv
    <2> QED BY <2>1, <2>2 DEF Idle, Promised, Asked, Seen
  <1> QED BY <1>1, SchedHolds, PTL
=============================================================================
