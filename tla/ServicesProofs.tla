--------------------------- MODULE ServicesProofs ---------------------------
(***************************************************************************)
(* Proofs about the components of Services: the lease of the repository    *)
(* root (RootLease), the slots of the CI watchers, the directory lock of   *)
(* an update, the lease by path of the automations and their keys, the     *)
(* deliveries of webhooks and, taken over from WorkersProofs, the workers. *)
(* Each theorem is about the specification of its component, for any runs, *)
(* waits, calls, processes, webhooks and workers.                          *)
(***************************************************************************)
EXTENDS Services, QueueLemmas

-----------------------------------------------------------------------------
(* The chain resolves from its start, without gaps.                        *)
Ordered == \A t \in resolved : \A s \in 0..t : s \in resolved

(* Every acquisition has a promise of its own.                             *)
Distinct == \A r, q \in Run : r # q /\ mine[r] = mine[q] => mine[r] = 0

(* A run that still has a release to call has neither resolved its promise *)
(* nor left it to the chain; a direct release means that the run holds the *)
(* tree, which it got when its turn had come.                              *)
Pending(r) ==
  /\ at[r] = "waiting" => retained[r] = "chained"
  /\ at[r] = "holding" <=> retained[r] = "direct"
  /\ at[r] = "holding" => MyTurn(r)
  /\ retained[r] # "none" => mine[r] # 0 /\ mine[r] \notin resolved \cup chained

IInv == TypeOK /\ Ordered /\ Distinct /\ \A r \in Run : Pending(r)

USE DEF MyTurn

-----------------------------------------------------------------------------
LEMMA InitIInv == Init => IInv
  BY LeaseAssumption DEF Init, IInv, TypeOK, Ordered, Distinct, Pending

(* A new promise is one that nobody has, behind all the others.            *)
LEMMA AskStep == ASSUME IInv, NEW r \in Run, Ask(r) PROVE IInv'
<1> USE LeaseAssumption DEF IInv, Ask
<1>1. TypeOK'
  BY DEF TypeOK
<1>2. Ordered'
  BY DEF Ordered
<1>3. Distinct'
  BY DEF Distinct, TypeOK
<1>4. ASSUME NEW q \in Run PROVE Pending(q)'
  BY DEF TypeOK, Pending
<1>5. QED
  BY <1>1, <1>2, <1>3, <1>4

LEMMA ReturnStep == ASSUME IInv, NEW r \in Run, Return(r) PROVE IInv'
<1> USE DEF IInv, Return
<1>1. TypeOK'
  BY DEF TypeOK
<1>2. Ordered' /\ Distinct'
  BY DEF Ordered, Distinct
<1>3. ASSUME NEW q \in Run PROVE Pending(q)'
  BY DEF TypeOK, Pending
<1>4. QED
  BY <1>1, <1>2, <1>3

(* A direct release resolves the promise after a resolved one; a chained   *)
(* release leaves it to the chain.                                         *)
LEMMA DropStep == ASSUME IInv, NEW r \in Run, Drop(r) PROVE IInv'
<1> USE DEF IInv, Drop
<1>1. mine[r] \in 0..tail /\ tail \in 0..MaxAsks /\ MaxAsks \in Nat
  BY LeaseAssumption DEF TypeOK
<1>2. Pending(r)
  OBVIOUS
<1>3. TypeOK'
  <2>1. retained[r] # "none" => mine[r] \in 1..tail
    BY <1>1, <1>2 DEF Pending
  <2>2. resolved' \subseteq 0..tail /\ chained' \subseteq 1..tail
    BY <1>1, <2>1 DEF TypeOK
  <2>3. /\ retained' \in [Run -> {"none", "chained", "direct"}]
        /\ at' \in [Run -> {"out", "waiting", "refused", "holding"}]
        /\ cancelled' \subseteq Run
    BY DEF TypeOK
  <2>4. QED
    BY <2>2, <2>3 DEF TypeOK
<1>4. Ordered'
  <2>1. CASE retained[r] = "direct"
    <3>1. mine[r] - 1 \in resolved /\ mine[r] # 0
      BY <1>2, <2>1 DEF Pending
    <3>2. \A s \in 0..mine[r] : s \in resolved \/ s = mine[r]
      BY <1>1, <3>1 DEF Ordered
    <3>3. resolved' = resolved \cup {mine[r]}
      BY <2>1
    <3>4. QED
      BY <3>2, <3>3 DEF Ordered
  <2>2. CASE retained[r] # "direct"
    BY <2>2 DEF Ordered
  <2>3. QED
    BY <2>1, <2>2
<1>5. Distinct'
  BY DEF Distinct
<1>6. ASSUME NEW q \in Run PROVE Pending(q)'
  <2>1. CASE q = r
    BY <2>1 DEF TypeOK, Pending
  <2>2. CASE q # r
    <3>1. at'[q] = at[q] /\ retained'[q] = retained[q] /\ mine' = mine
      BY <2>2 DEF TypeOK
    <3>2. retained[q] # "none" /\ retained[r] # "none" => mine[q] # mine[r]
      BY <2>2, <1>2 DEF Distinct, Pending
    <3>3. resolved \subseteq resolved' /\ resolved' \subseteq resolved \cup {mine[r]}
      OBVIOUS
    <3>4. retained[r] = "none" => resolved' = resolved /\ chained' = chained
      OBVIOUS
    <3>5. chained' \subseteq chained \cup {mine[r]}
      OBVIOUS
    <3>6. QED
      BY <3>1, <3>2, <3>3, <3>4, <3>5 DEF Pending
  <2>3. QED
    BY <2>1, <2>2
<1>7. QED
  BY <1>3, <1>4, <1>5, <1>6

LEMMA PassOnStep == ASSUME IInv, PassOn PROVE IInv'
<1> USE DEF IInv
<1>1. PICK t \in chained :
        /\ t - 1 \in resolved
        /\ resolved' = resolved \cup {t}
        /\ chained' = chained \ {t}
        /\ UNCHANGED <<tail, mine, at, retained, cancelled, parked>>
  BY DEF PassOn
<1>2. t \in 1..tail /\ tail \in Nat
  BY LeaseAssumption DEF TypeOK
<1>3. TypeOK'
  BY <1>1, <1>2 DEF TypeOK
<1>4. Ordered'
  <2>1. \A s \in 0..t : s \in resolved \/ s = t
    BY <1>1, <1>2 DEF Ordered
  <2>2. QED
    BY <1>1, <2>1 DEF Ordered
<1>5. Distinct'
  BY <1>1 DEF Distinct
<1>6. ASSUME NEW q \in Run PROVE Pending(q)'
  BY <1>1 DEF Pending
<1>7. QED
  BY <1>3, <1>4, <1>5, <1>6

LEMMA IInvStep == IInv /\ [Next]_vars => IInv'
<1> SUFFICES ASSUME IInv, [Next]_vars PROVE IInv'
  OBVIOUS
<1>1. ASSUME NEW r \in Run, AskStopped(r) PROVE IInv'
  BY <1>1 DEF IInv, TypeOK, Ordered, Distinct, Pending, AskStopped
<1>2. ASSUME NEW r \in Run, Cancel(r) PROVE IInv'
  BY <1>2 DEF IInv, TypeOK, Ordered, Distinct, Pending, Cancel
<1>3. CASE UNCHANGED vars
  BY <1>3 DEF IInv, TypeOK, Ordered, Distinct, Pending, vars
<1>4. QED
  BY <1>1, <1>2, <1>3, AskStep, ReturnStep, DropStep, PassOnStep DEF Next, RunStep

LEMMA Invariance == Spec => []IInv
  BY InitIInv, IInvStep, PTL DEF Spec

-----------------------------------------------------------------------------
(* While a run could take the tree, or has it, every promise before its    *)
(* own is resolved: the runs that have those promises are done with it.    *)
LEMMA EarlierAreDone ==
  ASSUME IInv, NEW r \in Run, NEW q \in Run, MyTurn(r), mine[q] < mine[r]
  PROVE  retained[q] = "none"
<1>1. mine[q] \in Nat /\ mine[r] \in Nat
  BY LeaseAssumption DEF IInv, TypeOK
<1>2. mine[q] \in 0..(mine[r] - 1)
  BY <1>1
<1>3. mine[q] \in resolved
  BY <1>2 DEF IInv, Ordered
<1>4. QED
  BY <1>3 DEF IInv, Pending

(* Two runs whose turn has come, neither of them done, are one.            *)
LEMMA OneTurn ==
  ASSUME IInv, NEW r \in Run, NEW q \in Run, MyTurn(r), MyTurn(q),
         retained[r] # "none", retained[q] # "none"
  PROVE  r = q
<1>1. mine[q] \in Nat /\ mine[r] \in Nat /\ mine[r] # 0
  BY LeaseAssumption DEF IInv, TypeOK, Pending
<1>2. mine[r] = mine[q]
  BY <1>1, EarlierAreDone
<1>3. QED
  BY <1>1, <1>2 DEF IInv, Distinct

(* The type invariant of the lease.                                        *)
THEOREM TypeCorrect == Spec => []TypeOK
<1>1. IInv => TypeOK
  BY DEF IInv
<1>2. QED
  BY <1>1, Invariance, PTL

(* Two runs never work in the repository root together.                    *)
THEOREM ExclusiveHolds == Spec => []Exclusive
<1>1. ASSUME IInv PROVE Exclusive
  <2>1. ASSUME NEW r \in Holders, NEW q \in Holders PROVE r = q
    <3>1. r \in Run /\ q \in Run /\ at[r] = "holding" /\ at[q] = "holding"
      BY DEF Holders
    <3>2. MyTurn(r) /\ MyTurn(q) /\ retained[r] # "none" /\ retained[q] # "none"
      BY <1>1, <3>1 DEF IInv, Pending
    <3>3. QED
      BY <1>1, <3>1, <3>2, OneTurn
  <2>2. QED
    BY <2>1 DEF Exclusive
<1>2. QED
  BY <1>1, Invariance, PTL

(* Nobody overtakes a run that asked before and still waits.               *)
THEOREM TurnsAreTaken == Spec => InOrder
<1>1. ASSUME IInv, [Next]_vars, NEW r \in Run PROVE TakesTurn(r)
  <2>1. SUFFICES ASSUME at[r] = "waiting", at'[r] = "holding",
                        NEW q \in Run, at[q] = "waiting", mine[q] < mine[r]
                 PROVE  FALSE
    BY DEF TakesTurn
  <2>2. Return(r)
    BY <1>1, <2>1 DEF IInv, TypeOK, Next, RunStep, AskStopped, Ask, Return, Cancel, Drop, PassOn,
                      vars
  <2>3. MyTurn(r)
    BY <1>1, <2>1, <2>2 DEF IInv, TypeOK, Return
  <2>4. retained[q] = "none"
    BY <1>1, <2>1, <2>3, EarlierAreDone
  <2>5. QED
    BY <1>1, <2>1, <2>4 DEF IInv, Pending
<1>2. IInv /\ [Next]_vars => [\A r \in Run : TakesTurn(r)]_vars
  BY <1>1
<1>3. QED
  BY <1>2, Invariance, PTL DEF Spec, InOrder

-----------------------------------------------------------------------------
(* The chain of promises implements the abstract Mutex.                    *)
LEMMA TreeStep == ASSUME IInv, [Next]_vars PROVE [Tree!Next]_Holders
<1> DEFINE Same == Holders' = Holders
<1>1. ASSUME NEW r \in Run, AskStopped(r) \/ Ask(r) \/ Cancel(r) PROVE Same
  BY <1>1 DEF IInv, TypeOK, AskStopped, Ask, Cancel, Holders
<1>2. ASSUME NEW r \in Run, Return(r) PROVE Same \/ Tree!Take(r)
  <2>1. CASE r \in cancelled
    BY <1>2, <2>1 DEF IInv, TypeOK, Return, Holders
  <2>2. CASE r \notin cancelled
    <3>1. MyTurn(r) /\ retained[r] # "none" /\ at[r] = "waiting"
      BY <1>2, <2>2 DEF IInv, Pending, Return
    <3>2. \A q \in Holders : q \in Run /\ MyTurn(q) /\ retained[q] # "none" /\ at[q] = "holding"
      BY DEF IInv, Pending, Holders
    <3>3. \A q \in Holders : q = r
      BY <3>1, <3>2, OneTurn
    <3>4. Holders = {}
      BY <3>1, <3>2, <3>3
    <3>5. at' = [at EXCEPT ![r] = "holding"]
      BY <1>2, <2>2 DEF Return
    <3>6. Holders' = {r}
      BY <3>4, <3>5 DEF IInv, TypeOK, Holders
    <3>7. QED
      BY <3>4, <3>6 DEF Tree!Take
  <2>3. QED
    BY <2>1, <2>2
<1>3. ASSUME NEW r \in Run, Drop(r) PROVE Same \/ Tree!Give(r)
  <2>1. Holders' = Holders \ {r}
    BY <1>3 DEF IInv, TypeOK, Drop, Holders
  <2>2. QED
    BY <2>1 DEF Tree!Give
<1>4. CASE PassOn \/ UNCHANGED vars
  BY <1>4 DEF PassOn, vars, Holders
<1>5. QED
  BY <1>1, <1>2, <1>3, <1>4 DEF Next, RunStep, Tree!Next

THEOREM Refinement == Spec => ImplementsMutex
<1>1. Init => Tree!Init
  BY DEF Init, Tree!Init, Holders
<1>2. QED
  BY <1>1, TreeStep, Invariance, PTL DEF Spec, ImplementsMutex, Tree!Spec

-----------------------------------------------------------------------------
(***************************************************************************)
(* The slots of the CI watchers.  An instance has operators of its own for *)
(* the library's: they are the same.                                       *)
(***************************************************************************)
LEMMA SameFinite == \A T : S!IsFiniteSet(T) <=> IsFiniteSet(T)
  BY DEF S!IsFiniteSet, IsFiniteSet

LEMMA SameCardinality == \A T : S!Cardinality(T) = Cardinality(T)
  BY DEF S!Cardinality, Cardinality, S!IsFiniteSet, IsFiniteSet

LEMMA SameRemove == \A s, r : S!RemoveFirst(s, r) = RemoveFirst(s, r)
  BY DEF S!RemoveFirst, RemoveFirst, S!SelectInSeq, SelectInSeq, S!RemoveAt, RemoveAt, S!Min, Min

(* The watchers that have a slot, or one on its way.                        *)
Busy == {w \in Watch : phase[w] \in {"handed", "holding"}}

(* The queue has each watcher that waits, once; the slots are those of the *)
(* busy ones; and nobody waits while a slot is free.                       *)
SlotInv ==
  /\ phase \in [Watch -> {"new", "queued", "handed", "holding", "done"}]
  /\ active \in 0..Limit /\ Orderly(queue, Watch)
  /\ active = Cardinality(Busy)
  /\ queue # <<>> => active = Limit
  /\ \A w \in Watch : phase[w] = "queued" <=> w \in ToSet(queue)

LEMMA BusyFinite ==
  ASSUME S!SlotsAssumption, SlotInv
  PROVE  IsFiniteSet(Busy) /\ active \in Nat /\ Limit \in Nat
  <1>1. Busy \subseteq Watch
    BY DEF Busy
  <1> QED BY <1>1, FS_Subset, SameFinite DEF S!SlotsAssumption, SlotInv

(* A slot that is released is free, or goes to the oldest in the queue.    *)
LEMMA ReleaseStep ==
  ASSUME S!SlotsAssumption, SlotInv, NEW w \in Busy, S!Released(S!Moved(w, "done"))
  PROVE  SlotInv'
PROOF
  <1>1. /\ IsFiniteSet(Busy) /\ active \in Nat /\ Limit \in Nat
        /\ w \in Watch /\ phase[w] \in {"handed", "holding"}
    BY BusyFinite DEF Busy
  <1>2. CASE queue = <<>>
    <2>1. /\ active' = active - 1 /\ queue' = queue /\ phase' = [phase EXCEPT ![w] = "done"]
      BY <1>2 DEF S!Released, S!Moved
    <2>2. Busy' = Busy \ {w}
      BY <1>1, <2>1 DEF Busy, SlotInv
    <2>3. Cardinality(Busy') = Cardinality(Busy) - 1 /\ Cardinality(Busy) > 0
      <3>1. /\ Cardinality(Busy) \in Nat /\ Cardinality(Busy \ {w}) \in Nat
            /\ Cardinality(Busy \ {w}) = Cardinality(Busy) - 1
        BY <1>1, FS_RemoveElement, FS_CardinalityType
      <3> QED BY <2>2, <3>1
    <2> QED BY <1>1, <1>2, <2>1, <2>3 DEF SlotInv
  <1>3. CASE queue # <<>>
    <2> DEFINE h == Head(queue)
    <2>1. /\ active' = active /\ queue' = Tail(queue)
          /\ phase' = [[phase EXCEPT ![w] = "done"] EXCEPT ![h] = "handed"]
      BY <1>3 DEF S!Released, S!Moved
    <2>2. /\ h \in Watch /\ h \in ToSet(queue) /\ Orderly(queue', Watch)
          /\ ToSet(queue') = ToSet(queue) \ {h}
      BY <1>3, <2>1, TailFacts DEF SlotInv
    <2> HIDE DEF h
    <2>3. phase[h] = "queued" /\ h # w /\ h \notin Busy
      BY <1>1, <2>2 DEF SlotInv, Busy
    <2>4. Busy' = (Busy \ {w}) \cup {h}
      BY <1>1, <2>1, <2>2, <2>3 DEF Busy, SlotInv
    <2>5. Cardinality(Busy') = Cardinality(Busy)
      <3>1. /\ Cardinality(Busy) \in Nat /\ IsFiniteSet(Busy \ {w})
            /\ Cardinality(Busy \ {w}) = Cardinality(Busy) - 1
        BY <1>1, FS_RemoveElement, FS_CardinalityType
      <3>2. Cardinality((Busy \ {w}) \cup {h}) = Cardinality(Busy \ {w}) + 1
        BY <2>3, <3>1, FS_AddElement
      <3> QED BY <2>4, <3>1, <3>2
    <2>6. \A v \in Watch : phase'[v] = "queued" <=> v \in ToSet(queue')
      BY <1>1, <2>1, <2>2, <2>3 DEF SlotInv
    <2>7. phase' \in [Watch -> {"new", "queued", "handed", "holding", "done"}]
      BY <1>1, <2>1, <2>2 DEF SlotInv
    <2> QED BY <1>3, <2>1, <2>2, <2>5, <2>6, <2>7 DEF SlotInv
  <1> QED BY <1>2, <1>3

LEMMA AcquireStep ==
  ASSUME S!SlotsAssumption, SlotInv, NEW w \in Watch, S!Acquire(w)
  PROVE  SlotInv'
PROOF
  <1>1. IsFiniteSet(Busy) /\ active \in Nat /\ Limit \in Nat
    BY BusyFinite
  <1>2. phase[w] = "new" /\ w \notin Busy /\ w \notin ToSet(queue)
    BY DEF S!Acquire, SlotInv, Busy
  <1>3. CASE phase' = [phase EXCEPT ![w] = "done"] /\ UNCHANGED <<active, queue>>
    <2>1. Busy' = Busy
      BY <1>2, <1>3 DEF Busy, SlotInv
    <2> QED BY <1>2, <1>3, <2>1 DEF SlotInv
  <1>4. CASE /\ active < Limit /\ active' = active + 1 
             /\ phase' = [phase EXCEPT ![w] = "holding"] /\ queue' = queue
    <2>1. Busy' = Busy \cup {w}
      BY <1>2, <1>4 DEF Busy, SlotInv
    <2>2. Cardinality(Busy') = Cardinality(Busy) + 1
      BY <1>1, <1>2, <2>1, FS_AddElement
    <2>3. queue = <<>>
      BY <1>1, <1>4 DEF SlotInv
    <2> QED BY <1>1, <1>2, <1>4, <2>2, <2>3 DEF SlotInv
  <1>5. CASE /\ active = Limit /\ active' = active
             /\ phase' = [phase EXCEPT ![w] = "queued"] /\ queue' = Append(queue, w)
    <2>1. Busy' = Busy
      BY <1>2, <1>5 DEF Busy, SlotInv
    <2>2. Orderly(queue', Watch) /\ ToSet(queue') = ToSet(queue) \cup {w}
      BY <1>2, <1>5, AppendFacts DEF SlotInv
    <2> QED BY <1>2, <1>5, <2>1, <2>2 DEF SlotInv
  <1> QED BY <1>3, <1>4, <1>5 DEF S!Acquire, S!Moved

(* Only a watcher in the queue is touched by its abort.                     *)
LEMMA AbortStep ==
  ASSUME S!SlotsAssumption, SlotInv, NEW w \in Watch, S!Abort(w)
  PROVE  SlotInv'
PROOF
  <1>1. CASE phase[w] = "queued"
    <2>1. /\ queue' = RemoveFirst(queue, w) /\ phase' = [phase EXCEPT ![w] = "done"]
          /\ active' = active
      BY <1>1, SameRemove DEF S!Abort, S!Moved
    <2>2. Busy' = Busy
      BY <1>1, <2>1 DEF Busy, SlotInv
    <2>3. Orderly(queue', Watch) /\ ToSet(queue') = ToSet(queue) \ {w}
      BY <2>1, RemoveFacts DEF SlotInv
    <2>4. queue # <<>>
      BY <1>1 DEF SlotInv, ToSet
    <2> QED BY <1>1, <2>1, <2>2, <2>3, <2>4 DEF SlotInv
  <1>2. CASE phase[w] # "queued"
    <2>1. UNCHANGED <<phase, active, queue>>
      BY <1>2 DEF S!Abort
    <2> QED BY <2>1 DEF SlotInv, Busy
  <1> QED BY <1>1, <1>2

LEMMA GoOnStep ==
  ASSUME S!SlotsAssumption, SlotInv, NEW w \in Watch, S!GoOn(w)
  PROVE  SlotInv'
PROOF
  <1>1. w \in Busy
    BY DEF S!GoOn, Busy
  <1>2. CASE S!Released(S!Moved(w, "done"))
    BY <1>1, <1>2, ReleaseStep
  <1>3. CASE phase' = [phase EXCEPT ![w] = "holding"] /\ UNCHANGED <<active, queue>>
    <2>1. Busy' = Busy
      BY <1>1, <1>3 DEF Busy, SlotInv
    <2> QED BY <1>1, <1>3, <2>1 DEF SlotInv, Busy
  <1> QED BY <1>2, <1>3 DEF S!GoOn, S!Moved

(* Whenever a wait is aborted, in the queue, after the hand-over or with    *)
(* the slot, the slots that CiSemaphore.active counts are the ones somebody *)
(* has, and nobody waits for one that is free.                             *)
THEOREM NoWatcherLosesASlot == S!Spec => []NoSlotIsLost
PROOF
  <1>0. S!SlotsAssumption
    BY ServicesFit
  <1> USE <1>0
  <1>1. S!Init => SlotInv
    <2> SUFFICES ASSUME S!Init PROVE SlotInv
      OBVIOUS
    <2>1. Busy = {} /\ ToSet(queue) = {} /\ Orderly(queue, Watch)
      BY DEF S!Init, Busy, ToSet, Orderly, IsInjective
    <2> QED BY <2>1, FS_EmptySet DEF S!Init, SlotInv, S!SlotsAssumption
  <1>2. SlotInv /\ [S!Next]_S!vars => SlotInv'
    <2> SUFFICES ASSUME SlotInv, [S!Next]_S!vars PROVE SlotInv'
      OBVIOUS
    <2>1. CASE UNCHANGED S!vars
      BY <2>1 DEF S!vars, SlotInv, Busy
    <2>2. ASSUME NEW w \in Watch, S!Finish(w) PROVE SlotInv'
      <3>1. w \in Busy
        BY <2>2 DEF S!Finish, Busy
      <3> QED BY <2>2, <3>1, ReleaseStep DEF S!Finish
    <2> QED BY <2>1, <2>2, AcquireStep, AbortStep, GoOnStep DEF S!Next
  <1>3. SlotInv => NoSlotIsLost
    BY SameCardinality DEF SlotInv, NoSlotIsLost, S!NoSlotIsLost, Busy, ToSet
  <1> QED BY <1>1, <1>2, <1>3, PTL DEF S!Spec

-----------------------------------------------------------------------------
(***************************************************************************)
(* The lock of an update.  A call makes a directory once: a directory that *)
(* was its own and is another's now never becomes its own again.  So of    *)
(* two calls that overlapped and read their own names, the first that finds *)
(* its name at the end has shown that the other's is gone.                 *)
(***************************************************************************)
(* Where a call is before and after it makes its directory.                *)
Early == {"mkdir", "stat", "rmdir"}
Late  == {"operate", "finally", "over"}

(* The directory of a dead process is gone before any call has one; the    *)
(* calls that met are past the identity; and the last conjunct is the      *)
(* argument: whoever met a winner has neither won nor is it at the path.   *)
UpdateInv ==
  /\ update \in [Call -> Early \cup {"acquired"} \cup Late]
  /\ taken \in [Call -> Call \cup {NoDir}]
  /\ won \subseteq Call
  /\ dir # NoDir => /\ dir = [by |-> dir.by, mtime |-> dir.mtime]
                    /\ dir.by \in Call \cup {NoDir}
  /\ dir # NoDir /\ dir.by = NoDir => \A c \in Call : update[c] \in Early
  /\ \A c \in won : update[c] \in {"finally", "over"} /\ taken[c] # NoDir
  /\ \A c \in Call : update[c] = "operate" => taken[c] # NoDir
  /\ \A c, d \in Call : {c, d} \in met => update[c] \in Late /\ update[d] \in Late
  /\ \A c \in won, d \in Call :
       c # d /\ {c, d} \in met /\ taken[c] = c /\ taken[d] = d
         => d \notin won /\ ~(dir # NoDir /\ dir.by = d)

USE DEF Early, Late

LEMMA MkdirStep ==
  ASSUME U!UpdatesAssumption, UpdateInv, NEW c \in Call, U!Mkdir(c) PROVE UpdateInv'
  <1>1. CASE dir = NoDir
    <2>1. /\ dir' = [by |-> c, mtime |-> U!Unseen]
          /\ update[c] = "mkdir" /\ update' = [update EXCEPT ![c] = "acquired"]
          /\ UNCHANGED <<taken, won, met>>
      BY <1>1 DEF U!Mkdir, U!Goes, U!Identity, U!Ownership
    <2>2. dir'.by = c
      BY <2>1
    <2> HIDE <1>1
    <2> QED BY <2>1, <2>2 DEF UpdateInv, U!UpdatesAssumption
  <1>2. CASE dir # NoDir
    BY <1>2 DEF U!Mkdir, U!Goes, U!Identity, U!Ownership, UpdateInv
  <1> QED BY <1>1, <1>2

LEMMA AcquiredStep ==
  ASSUME U!UpdatesAssumption, UpdateInv, NEW c \in Call, U!Acquired(c) PROVE UpdateInv'
  <1>1. update[c] = "acquired" /\ UNCHANGED <<dir, won>>
    BY DEF U!Acquired
  <1>2. CASE dir = NoDir
    <2>1. update' = [update EXCEPT ![c] = "over"] /\ UNCHANGED <<taken, met>>
      BY <1>2 DEF U!Acquired, U!Goes, U!Identity
    <2> QED BY <1>1, <2>1 DEF UpdateInv
  <1>3. CASE dir # NoDir
    <2>1. /\ update' = [update EXCEPT ![c] = "operate"]
          /\ taken' = [taken EXCEPT ![c] = dir.by]
          /\ met' = met \cup {{c, d} : d \in {d \in Call : update[d] = "operate"}}
      BY <1>3 DEF U!Acquired, U!Goes
    <2>2. \A a, b \in Call : {a, b} \in met' => \/ {a, b} \in met
                                               \/ (a = c /\ update[b] = "operate")
                                               \/ (b = c /\ update[a] = "operate")
      <3> TAKE a, b \in Call
      <3> HAVE {a, b} \in met'
      <3>1. CASE {a, b} \in met
        BY <3>1
      <3>2. CASE \E d \in Call : update[d] = "operate" /\ {a, b} = {c, d}
        <4>1. PICK d \in Call : update[d] = "operate" /\ {a, b} = {c, d}
          BY <3>2
        <4>2. (a = c /\ b = d) \/ (a = d /\ b = c) \/ (a = b /\ c = d)
          BY <4>1
        <4> QED BY <1>1, <4>1, <4>2
      <3> QED BY <2>1, <3>1, <3>2
    <2>3. dir.by # NoDir /\ dir.by \in Call
      BY <1>1, <1>3 DEF UpdateInv
    <2>4. c \notin won /\ \A d \in Call : {c, d} \notin met /\ {d, c} \notin met
      BY <1>1 DEF UpdateInv
    <2>5. \A d \in Call : d # c => update'[d] = update[d] /\ taken'[d] = taken[d]
      BY <2>1 DEF UpdateInv
    <2>6. update'[c] = "operate" /\ taken'[c] = dir.by
      BY <2>1 DEF UpdateInv
    <2>7. /\ update' \in [Call -> Early \cup {"acquired"} \cup Late]
          /\ taken' \in [Call -> Call \cup {NoDir}]
      BY <2>1, <2>3 DEF UpdateInv
    <2>8. \A a, b \in Call : {a, b} \in met' => update'[a] \in Late /\ update'[b] \in Late
      BY <2>2, <2>5, <2>6 DEF UpdateInv
    <2>9. \A a \in won, b \in Call : {a, b} \in met' => {a, b} \in met /\ a # c /\ b # c
      <3>1. \A a \in won : update[a] # "operate" /\ a # c
        BY <2>4 DEF UpdateInv
      <3> QED BY <2>2, <2>4, <3>1 DEF UpdateInv
    <2>10. \A a \in won, d \in Call :
             a # d /\ {a, d} \in met' /\ taken'[a] = a /\ taken'[d] = d
                => d \notin won /\ ~(dir # NoDir /\ dir.by = d)
      BY <2>5, <2>9 DEF UpdateInv
    <2> QED BY <1>1, <1>3, <2>3, <2>4, <2>5, <2>6, <2>7, <2>8, <2>10 DEF UpdateInv
  <1> QED BY <1>2, <1>3

LEMMA AssertOwnedStep ==
  ASSUME U!UpdatesAssumption, UpdateInv, NEW c \in Call, U!AssertOwned(c) PROVE UpdateInv'
  <1>1. /\ update[c] = "operate" /\ update' = [update EXCEPT ![c] = "finally"] 
        /\ UNCHANGED <<dir, taken>>
    BY DEF U!AssertOwned, U!Goes, U!Identity
  <1>2. CASE U!Owns(c)
    <2>1. won' = won \cup {c} /\ met' = met /\ dir # NoDir /\ dir.by = taken[c]
      BY <1>2 DEF U!AssertOwned, U!Owns
    <2>2. \A d \in won : d # c /\ {d, c} \in met /\ taken[c] = c => taken[d] # d
      BY <2>1 DEF UpdateInv
    <2>3. \A d \in Call : {c, d} = {d, c}
      OBVIOUS
    <2> QED BY <1>1, <2>1, <2>2, <2>3 DEF UpdateInv
  <1>3. CASE ~U!Owns(c)
    <2>1. won' = won /\ met' \subseteq met
      BY <1>3 DEF U!AssertOwned, U!Failed
    <2> QED BY <1>1, <2>1 DEF UpdateInv
  <1> QED BY <1>2, <1>3

LEMMA FinallyStep ==
  ASSUME U!UpdatesAssumption, UpdateInv, NEW c \in Call, U!Finally(c) PROVE UpdateInv'
  <1>1. /\ update[c] = "finally" /\ update' = [update EXCEPT ![c] = "over"]
        /\ dir' = dir \/ dir' = NoDir
        /\ taken' = taken \/ (c \notin won /\ taken' = [taken EXCEPT ![c] = NoDir])
        /\ UNCHANGED <<won, met>>
    <2>1. c \in won => taken' = taken
      BY DEF U!Finally, UpdateInv
    <2> QED BY <2>1 DEF U!Finally, U!Goes
  <1>2. CASE taken' = taken
    BY <1>1, <1>2 DEF UpdateInv
  <1>3. CASE c \notin won /\ taken' = [taken EXCEPT ![c] = NoDir]
    BY <1>1, <1>3 DEF UpdateInv, U!UpdatesAssumption
  <1> QED BY <1>1, <1>2, <1>3

LEMMA UpdateStep ==
  ASSUME U!UpdatesAssumption, UpdateInv, [U!Next]_U!vars PROVE UpdateInv'
  <1>1. CASE UNCHANGED U!vars
    BY <1>1 DEF U!vars, UpdateInv
  <1>2. ASSUME NEW c \in Call, U!Stat(c) \/ U!Rmdir(c) PROVE UpdateInv'
    <2>1. /\ update[c] \in Early
          /\ \E to \in Early : update' = [update EXCEPT ![c] = to]
          /\ dir' = dir \/ dir' = NoDir
          /\ UNCHANGED <<taken, won, met>>
      BY <1>2 DEF U!Stat, U!Rmdir, U!Goes, U!Identity, U!Ownership
    <2> QED BY <2>1 DEF UpdateInv
  <1>3. ASSUME NEW c \in Call, U!Compare(c) PROVE UpdateInv'
    BY <1>3 DEF U!Compare, U!Identity, UpdateInv
  <1>4. ASSUME NEW c \in Call, U!Touch(c) PROVE UpdateInv'
    <2>1. UNCHANGED <<update, taken, won, met>>
      BY <1>4 DEF U!Touch
    <2>2. (dir = NoDir /\ dir' = dir) \/ (dir # NoDir /\ dir' = [dir EXCEPT !.mtime = U!Unseen])
      BY <1>4 DEF U!Touch
    <2>3. dir # NoDir => dir' = [by |-> dir.by, mtime |-> U!Unseen]
      BY <2>2 DEF UpdateInv
    <2> QED BY <2>1, <2>2, <2>3 DEF UpdateInv
  <1>5. ASSUME NEW c \in Call, U!OperationFails(c) PROVE UpdateInv'
    <2>1. /\ update[c] = "operate" /\ update' = [update EXCEPT ![c] = "finally"] 
          /\ met' \subseteq met /\ UNCHANGED <<dir, taken, won>>
      BY <1>5 DEF U!OperationFails, U!Goes, U!Failed, U!Identity
    <2> QED BY <2>1 DEF UpdateInv
  <1> QED BY <1>1, <1>2, <1>3, <1>4, <1>5, MkdirStep, AcquiredStep, AssertOwnedStep, FinallyStep
             DEF U!Next

(* Two overlapping updates are not both told that all went well, whoever   *)
(* removed whose directory as stale, but for callers that read another's   *)
(* identity; with any number of calls and heartbeats.                      *)
THEOREM OneUpdateIsTold == U!Spec => []OneUpdateWins
PROOF
  <1>0. U!UpdatesAssumption
    BY ServicesFit
  <1>1. U!Init => UpdateInv
    BY DEF U!Init, UpdateInv, U!Left
  <1>2. UpdateInv => OneUpdateWins
    BY DEF UpdateInv, OneUpdateWins, U!OneUpdateWins, U!Mistaken
  <1>3. UpdateInv /\ [U!Next]_U!vars => UpdateInv'
    BY <1>0, UpdateStep
  <1> QED BY <1>1, <1>2, <1>3, PTL DEF U!Spec

-----------------------------------------------------------------------------
(***************************************************************************)
(* The lease by path.  No clock and no inode of the lock is needed: who    *)
(* made the guard, and who wrote the lock, decides who may go on.  A reaper *)
(* that is not behind has judged the guard that stands; one that is behind *)
(* finds another number, or the history is mixed.                          *)
(***************************************************************************)
Live == Proc \ gone

(* Whoever is in acquireReclaimGuard(), past its mkdir, has made the guard. *)
Guards(p) ==
  call[p] \in {"own", "observe", "judge", "compare", "unlink", "reopen", "drop", "rmdir"}
    => guard # NoFile /\ guard.by = p

(* A reaper that has judged the guard has judged one that nobody has.      *)
Retires(p) ==
  call[p] \in {"mark", "same", "move"} =>
    /\ saw[p] # NoFile
    /\ p \notin behind => /\ guard # NoFile /\ guard.inode = saw[p]
                          /\ guard.by \in gone \cup {NoProc}

(* The mark keeps the guard in its place until the reaper has moved it.    *)
Marks(p) ==
  /\ call[p] \in {"same", "move"} => guard # NoFile /\ guard.reaper = p
  /\ call[p] = "move" => p \notin behind

(* Whoever is in the lease, or has just made the lock, has written it.     *)
Holds(p) ==
  call[p] \in {"recheck", "inside", "unlock"} \/ goal[p] = "held"
    => lock # NoFile /\ lock.by = p

(* The lock that is about to be removed is a dead process's.               *)
Judges(p) ==
  call[p] \in {"compare", "unlink"} => lock # NoFile /\ lock.by \in gone

LeaseInv ==
  /\ P!TypeOK
  /\ ~mixed => \A p \in Live : Guards(p) /\ Retires(p) /\ Marks(p) /\ Holds(p) /\ Judges(p)

(* A step under which nobody takes a guard for another.                    *)
FilesStep == P!FilesAssumption /\ LeaseInv /\ P!Remembers /\ ~mixed'

USE DEF Live, Guards, Retires, Marks, Holds, Judges, LeaseInv, FilesStep
USE DEF P!FilesAssumption, P!Remembers
USE DEF P!Wants, P!Opens, P!Goes, P!Files, P!Ends, P!Lowest, P!FreeFile, P!FreeDir,
        P!Remembered, P!Abandoned, P!Retirable, P!SameDir, P!SameFile, P!Create, P!Notes,
        P!Turns, P!NoGuard, P!Marked, P!Onward, P!Fails, P!Calls, P!File, P!Dir

(* The steps that leave both files as they are.                            *)
LEMMA LookingStep ==
  ASSUME FilesStep, NEW p \in Live,
         P!Try(p) \/ P!Recheck(p) \/ P!Look(p) \/ P!Observe(p) \/ P!Judge(p)
         \/ P!Compare(p) \/ P!Leave(p)
  PROVE  LeaseInv'
  <1>1. ASSUME P!Try(p) PROVE LeaseInv'
    BY <1>1 DEF P!Try, P!TypeOK
  <1>2. ASSUME P!Recheck(p) PROVE LeaseInv'
    BY <1>2 DEF P!Recheck, P!TypeOK
  <1>3. ASSUME P!Look(p) PROVE LeaseInv'
    BY <1>3 DEF P!Look, P!TypeOK
  <1>4. ASSUME P!Observe(p) PROVE LeaseInv'
    BY <1>4 DEF P!Observe, P!TypeOK
  <1>5. ASSUME P!Judge(p) PROVE LeaseInv'
    BY <1>5 DEF P!Judge, P!TypeOK
  <1>6. ASSUME P!Compare(p) PROVE LeaseInv'
    BY <1>6 DEF P!Compare, P!TypeOK
  <1>7. ASSUME P!Leave(p) PROVE LeaseInv'
    BY <1>7 DEF P!Leave, P!TypeOK
  <1> QED BY <1>1, <1>2, <1>3, <1>4, <1>5, <1>6, <1>7

(* The steps that make or remove a lock.                                   *)
LEMMA OnLockStep ==
  ASSUME FilesStep, NEW p \in Live,
         P!Open(p) \/ P!Unlink(p) \/ P!Reopen(p) \/ P!Unlock(p)
  PROVE  LeaseInv'
  <1>1. ASSUME P!Open(p) PROVE LeaseInv'
    BY <1>1 DEF P!Open, P!TypeOK
  <1>2. ASSUME P!Unlink(p) PROVE LeaseInv'
    BY <1>2 DEF P!Unlink, P!TypeOK
  <1>3. ASSUME P!Reopen(p) PROVE LeaseInv'
    BY <1>3 DEF P!Reopen, P!TypeOK
  <1>4. ASSUME P!Unlock(p) PROVE LeaseInv'
    BY <1>4 DEF P!Unlock, P!TypeOK
  <1> QED BY <1>1, <1>2, <1>3, <1>4

(* The steps that make, mark, move or release a guard.                     *)
LEMMA OnGuardStep ==
  ASSUME FilesStep, NEW p \in Live,
         P!Mkdir(p) \/ P!Mark(p) \/ P!Same(p) \/ P!Move(p) \/ P!Drop(p) \/ P!Rmdir(p)
  PROVE  LeaseInv'
  <1>1. ASSUME P!Mkdir(p) PROVE LeaseInv'
    BY <1>1 DEF P!Mkdir, P!TypeOK
  <1>2. ASSUME P!Mark(p) PROVE LeaseInv'
    BY <1>2 DEF P!Mark, P!TypeOK
  <1>3. ASSUME P!Same(p) PROVE LeaseInv'
    <2>1. CASE P!SameDir(p)
      <3>1. /\ call[p] = "same" /\ call' = [call EXCEPT ![p] = "move"]
            /\ UNCHANGED <<lock, guard, goal, fd, saw, again, gone>>
        BY <1>3, <2>1 DEF P!Same
      <3>2. p \notin behind
        <4>1. call'[p] = "move"
          BY <3>1 DEF P!TypeOK
        <4>2. \A q \in behind : ~(call[q] = "same" /\ call'[q] = "move")
          OBVIOUS
        <4> QED BY <3>1, <4>1, <4>2
      <3> QED BY <3>1, <3>2 DEF P!TypeOK
    <2>2. CASE ~P!SameDir(p)
      BY <1>3, <2>2 DEF P!Same, P!TypeOK
    <2> QED BY <2>1, <2>2
  <1>4. ASSUME P!Move(p) PROVE LeaseInv'
    BY <1>4 DEF P!Move, P!TypeOK
  <1>5. ASSUME P!Drop(p) PROVE LeaseInv'
    BY <1>5 DEF P!Drop, P!TypeOK
  <1>6. ASSUME P!Rmdir(p) PROVE LeaseInv'
    BY <1>6 DEF P!Rmdir, P!TypeOK
  <1> QED BY <1>1, <1>2, <1>3, <1>4, <1>5, <1>6

(* The owner's name is written where there is none: in one's own guard.    *)
LEMMA OwnStep == ASSUME FilesStep, NEW p \in Live, P!Own(p) PROVE LeaseInv'
  <1>1. /\ call[p] = "own" /\ guard \in P!Dir /\ guard.by = p /\ p \in Proc
        /\ UNCHANGED <<lock, goal, fd, gone>> \/ guard.owner # NoProc
    BY DEF P!Own, P!TypeOK
  <1>2. CASE guard.owner = NoProc
    <2>1. PICK to \in {"drop", "observe"} : call' = [call EXCEPT ![p] = to]
      BY <1>1, <1>2 DEF P!Own
    <2>2. /\ guard' = [guard EXCEPT !.owner = p, !.by = p]
          /\ saw' = [saw EXCEPT ![p] = guard.inode]
          /\ UNCHANGED <<lock, goal, fd, again, gone>>
      BY <1>1, <1>2 DEF P!Own
    <2>3. /\ guard' \in P!Dir /\ guard'.by = p
          /\ guard'.inode = guard.inode /\ guard'.reaper = guard.reaper
      BY <1>1, <2>2
    <2>4. P!TypeOK'
      <3>1. saw' \in [Proc -> P!Inode \cup {NoFile}]
        BY <1>1, <2>2 DEF P!TypeOK
      <3> QED BY <1>1, <2>1, <2>2, <2>3, <3>1 DEF P!TypeOK
    <2>5. ASSUME NEW q \in Live PROVE (Guards(q) /\ Holds(q) /\ Judges(q))'
      BY <1>1, <2>1, <2>2, <2>3, ZenonT(60) DEF P!TypeOK
    <2>6. ASSUME NEW q \in Live PROVE Retires(q)'
      <3>1. guard.by \notin gone \cup {NoProc}
        BY <1>1
      <3> QED BY <1>1, <2>1, <2>2, <2>3, <3>1 DEF P!TypeOK
    <2>7. ASSUME NEW q \in Live PROVE Marks(q)'
      <3>1. behind' \subseteq behind
        BY <2>2, <2>3
      <3>2. call'[q] \in {"same", "move"} => call'[q] = call[q]
        BY <2>1 DEF P!TypeOK
      <3> QED BY <2>2, <2>3, <3>1, <3>2
    <2> QED BY <2>2, <2>4, <2>5, <2>6, <2>7
  <1>3. CASE guard.owner # NoProc
    BY <1>1, <1>3 DEF P!Own, P!TypeOK
  <1> QED BY <1>2, <1>3

(* Whatever is mixed up, every variable stays what it is.                  *)
LEMMA FilesTyped ==
  ASSUME P!FilesAssumption, P!TypeOK, [P!Next]_P!vars
  PROVE  P!TypeOK'
  <1> SUFFICES ASSUME NEW p \in Live, P!Next,
                      \/ P!Try(p) \/ P!Open(p) \/ P!Recheck(p) \/ P!Mkdir(p) \/ P!Own(p)
                      \/ P!Look(p) \/ P!Mark(p) \/ P!Same(p) \/ P!Move(p) \/ P!Drop(p)
                      \/ P!Rmdir(p) \/ P!Observe(p) \/ P!Judge(p) \/ P!Compare(p)
                      \/ P!Unlink(p) \/ P!Reopen(p) \/ P!Leave(p) \/ P!Unlock(p) \/ P!Crash(p)
               PROVE  P!TypeOK'
    BY DEF P!Next, P!vars, P!TypeOK
  <1> USE DEF P!TypeOK
  <1>0. behind' \subseteq Proc /\ mixed' \in BOOLEAN
    BY DEF P!Next
  <1>1. CASE P!Try(p) \/ P!Open(p) \/ P!Recheck(p)
    BY <1>0, <1>1 DEF P!Try, P!Open, P!Recheck
  <1>2. CASE P!Mkdir(p)
    BY <1>0, <1>2 DEF P!Mkdir
  <1>3. CASE P!Own(p)
    <2>1. CASE guard # NoFile /\ guard.owner = NoProc
      <3>1. /\ guard' = [guard EXCEPT !.owner = p, !.by = p]
            /\ saw' = [saw EXCEPT ![p] = guard.inode]
            /\ \E to \in {"drop", "observe"} : call' = [call EXCEPT ![p] = to]
            /\ UNCHANGED <<lock, goal, fd, again, gone>>
        BY <1>3, <2>1 DEF P!Own
      <3>2. guard \in P!Dir /\ guard' \in P!Dir /\ guard.inode \in P!Inode
        BY <2>1, <3>1
      <3>3. saw' \in [Proc -> P!Inode \cup {NoFile}]
        BY <3>1, <3>2
      <3> QED BY <1>0, <3>1, <3>2, <3>3
    <2>2. CASE ~(guard # NoFile /\ guard.owner = NoProc)
      BY <1>0, <1>3, <2>2 DEF P!Own
    <2> QED BY <2>1, <2>2
  <1>4. CASE P!Look(p) \/ P!Mark(p)
    BY <1>0, <1>4 DEF P!Look, P!Mark
  <1>5. CASE P!Same(p) \/ P!Move(p)
    BY <1>0, <1>5 DEF P!Same, P!Move
  <1>6. CASE P!Drop(p) \/ P!Rmdir(p)
    BY <1>0, <1>6 DEF P!Drop, P!Rmdir
  <1>7. CASE P!Observe(p) \/ P!Judge(p) \/ P!Compare(p)
    BY <1>0, <1>7 DEF P!Observe, P!Judge, P!Compare
  <1>8. CASE P!Unlink(p) \/ P!Reopen(p) \/ P!Leave(p) \/ P!Unlock(p) \/ P!Crash(p)
    BY <1>0, <1>8 DEF P!Unlink, P!Reopen, P!Leave, P!Unlock, P!Crash
  <1> QED BY <1>1, <1>2, <1>3, <1>4, <1>5, <1>6, <1>7, <1>8

LEMMA LeaseStep == ASSUME P!FilesAssumption, LeaseInv, [P!Next]_P!vars PROVE LeaseInv'
  <1>1. CASE UNCHANGED P!vars
    BY <1>1 DEF P!vars, P!TypeOK
  <1>2. CASE P!Next /\ mixed'
    BY <1>2, FilesTyped
  <1>3. CASE P!Next /\ ~mixed'
    <2>1. FilesStep
      BY <1>3 DEF P!Next
    <2>2. ASSUME NEW p \in Live, P!Crash(p) PROVE LeaseInv'
      BY <2>1, <2>2 DEF P!Crash, P!TypeOK
    <2> QED BY <1>3, <2>1, <2>2, LookingStep, OnLockStep, OnGuardStep, OwnStep DEF P!Next
  <1> QED BY <1>1, <1>2, <1>3

LEMMA FinitePaths == \A T : P!IsFiniteSet(T) <=> IsFiniteSet(T)
  BY DEF P!IsFiniteSet, IsFiniteSet

LEMMA CountedPaths == \A T : P!Cardinality(T) = Cardinality(T)
  BY DEF P!Cardinality, Cardinality, P!IsFiniteSet, IsFiniteSet

LEMMA AtMostOne == ASSUME NEW T, \A x, y \in T : x = y PROVE Cardinality(T) <= 1
  <1>1. CASE T = {}
    BY <1>1, FS_EmptySet
  <1>2. CASE T # {}
    <2>1. PICK x \in T : TRUE
      BY <1>2
    <2>2. T = {x}
      BY <2>1
    <2> QED BY <2>2, FS_Singleton, 1 <= 1
  <1> QED BY <1>1, <1>2

(* One live process at most is in the lease and one at most inspects and   *)
(* removes an abandoned lock, for any processes, any of which died before, *)
(* and any number of crashes, whatever inodes the file system gives out,   *)
(* until a reaper takes a guard for another (store.ts:596 compares them).  *)
THEOREM OneHolderOfTheLease == P!Spec => []OneHolder
  <1>0. P!FilesAssumption
    BY ServicesFit
  <1> USE <1>0
  <1>1. P!Init => LeaseInv
    <2> SUFFICES ASSUME P!Init PROVE LeaseInv
      OBVIOUS
    <2>1. 1 \in P!Inode
      BY FinitePaths, CountedPaths, FS_CardinalityType DEF P!Inode
    <2>2. lock \in P!File \cup {NoFile}
      BY <2>1 DEF P!Init
    <2>3. guard \in P!Dir \cup {NoFile}
      BY <2>1 DEF P!Init
    <2>4. \A p \in Live : call[p] = "out" /\ goal[p] = "clear"
      BY DEF P!Init
    <2>5. P!TypeOK
      BY <2>2, <2>3 DEF P!Init, P!TypeOK
    <2> QED BY <2>4, <2>5
  <1>2. LeaseInv => OneHolder
    <2> SUFFICES ASSUME LeaseInv, ~mixed PROVE Cardinality(P!Inside) <= 1 /\ Cardinality(P!Reclaiming) <= 1
      BY CountedPaths DEF OneHolder, P!OneHolder, P!OneReclaimer
    <2>1. Cardinality(P!Inside) <= 1
      BY AtMostOne DEF P!Inside
    <2>2. Cardinality(P!Reclaiming) <= 1
      BY AtMostOne DEF P!Reclaiming
    <2> QED BY <2>1, <2>2
  <1>3. LeaseInv /\ [P!Next]_P!vars => LeaseInv'
    BY LeaseStep
  <1> QED BY <1>1, <1>2, <1>3, PTL DEF P!Spec

-----------------------------------------------------------------------------
(***************************************************************************)
(* One key of an automation.  What a cockpit does, it does under the lease,  *)
(* but for the reconciliation at boot, and the steps under the lease are in *)
(* one line; a boot that writes off a launch that lives, or that has made  *)
(* its task, is what stale stands for.                                     *)
(***************************************************************************)
(* The places under the lease.                                             *)
Under(p) ==
  \/ place[p] \in {"settle", "settled", "run", "launch", "started", "failed", "failing",
                "released", "archive"}
  \/ place[p] \in {"judged", "stopped"} /\ back[p] # "idle"

Judging(p) == place[p] \in {"judged", "stopped"}

KeyLease == (\A p, q \in lease : p = q) /\ \A p \in Cockpit : Under(p) => p \in lease

(* A launch under way is in the memory of its process.                     *)
KeyFlights == \A p \in Cockpit :
  /\ place[p] \in {"launch", "started", "failed", "released"} => p \in flight
  /\ p \in flight => place[p] \in {"launch", "started", "failed", "released", "failing"}

(* The timer is a schedule's, and a command settles one; a release is an   *)
(* event's; a reconciliation goes on where it was called.                  *)
KeyKinds ==
  /\ kind = "event" => tries = 0
  /\ \A p \in Cockpit :
     /\ place[p] \in {"settle", "settled"} => kind = "once"
     /\ place[p] \in {"run", "launch"} /\ why[p] = "fire" => kind = "once"
     /\ place[p] = "released" => kind = "event"
     /\ Judging(p) => \/ back[p] = "idle"
                      \/ back[p] = "settled" /\ kind = "once"
                      \/ back[p] = "run" /\ why[p] # "fire"

(* After a settlement no reservation is left over; what a reconciliation   *)
(* has found lost is the reservation that is still there.                  *)
KeyFinds == \A p \in Cockpit :
  /\ place[p] = "settled" \/ (place[p] = "run" /\ why[p] = "fire") => receipt # "reserved"
  /\ seen[p] = "run" => tasks > 0
  /\ Judging(p) /\ seen[p] = "lost" => receipt = "reserved"
  /\ place[p] = "stopped" => seen[p] # "run"

(* A task leaves its mark in the receipt, which forbids the next launch;   *)
(* and before the receipt of a try that failed the definition is off.      *)
KeySound ==
  /\ tasks <= 1 /\ tries <= 1
  /\ tasks > 0 => receipt \in {"reserved", "launched"}
  /\ tries > 0 /\ enabled => receipt \in {"reserved", "launched"}
  /\ archived = "cancelled" => tasks = 0
  /\ \A p \in Cockpit :
       /\ place[p] \in {"launch", "failed", "failing", "released"}
            => tasks = 0 /\ receipt = "reserved"
       /\ place[p] = "launch" => archived = "no"
       /\ place[p] \in {"run", "launch"} /\ why[p] = "fire" => tries = 0
       /\ place[p] = "failing" => p \in flight /\ (kind = "once" => ~enabled)
       /\ place[p] = "stopped" /\ seen[p] = "lost" /\ kind = "once" => ~enabled

KeyTypes ==
  /\ kind \in {"once", "event"} /\ archived \in {"no", "launched", "cancelled"}
  /\ receipt \in {"none", "reserved", "launched", "launch-error", "released"}
  /\ enabled \in BOOLEAN /\ stale \in BOOLEAN
  /\ lease \subseteq Cockpit /\ flight \subseteq Cockpit /\ seen \in [Cockpit -> {"run", "lost", "old"}]
  /\ place \in [Cockpit -> A!Places] /\ back \in [Cockpit -> A!Places] /\ why \in [Cockpit -> A!Reasons]
  /\ tasks \in Nat /\ tries \in Nat

KeyInv == KeyTypes /\ KeyLease /\ KeyFlights /\ KeyKinds /\ KeyFinds /\ (~stale => KeySound)

USE DEF Under, Judging, A!Goes, A!Ends, A!Takes, A!definition, A!history, A!bounds, A!Places,
        A!Reasons, A!Writes, A!Talks, A!Leftover, A!LooksAgain, A!Aged, A!Settles, A!WritesOff,
        A!Archives, A!Healed, A!Refused, A!MayReserve, A!Keeps

(* What begins, or asks: the lease is free, or nothing is done.            *)
LEMMA LeaseKey ==
  ASSUME NEW p \in Cockpit, KeyInv
  PROVE  /\ A!Fire(p) => KeyInv'
         /\ A!Check(p) => KeyInv'
         /\ A!RunNow(p) => KeyInv'
         /\ \A reason \in {"enable", "pause", "cancel"} : A!Command(p, reason) => KeyInv'
         /\ A!AskRetry(p) => KeyInv'
         /\ A!Retry(p) => KeyInv'
         /\ A!RefuseRetry(p) => KeyInv'
  <1> USE DEF KeyInv, KeyTypes, KeyLease, KeyFlights, KeyKinds, KeyFinds, KeySound
  <1>1. ASSUME A!Fire(p) PROVE KeyInv'
    BY <1>1 DEF A!Fire
  <1>2. ASSUME A!Check(p) PROVE KeyInv'
    BY <1>2 DEF A!Check
  <1>3. ASSUME A!RunNow(p) PROVE KeyInv'
    BY <1>3 DEF A!RunNow
  <1>4. ASSUME NEW reason \in {"enable", "pause", "cancel"}, A!Command(p, reason) PROVE KeyInv'
    BY <1>4 DEF A!Command
  <1>5. ASSUME A!AskRetry(p) PROVE KeyInv'
    BY <1>5 DEF A!AskRetry
  <1>6. ASSUME A!Retry(p) PROVE KeyInv'
    BY <1>6 DEF A!Retry
  <1>7. ASSUME A!RefuseRetry(p) PROVE KeyInv'
    BY <1>7 DEF A!RefuseRetry
  <1> QED BY <1>1, <1>2, <1>3, <1>4, <1>5, <1>6, <1>7

(* A reconciliation.                                                       *)
LEMMA FindKey ==
  ASSUME NEW p \in Cockpit, KeyInv
  PROVE  /\ A!Judge(p) => KeyInv'
         /\ A!Skip(p) => KeyInv'
         /\ A!Stop(p) => KeyInv'
         /\ \A ok \in BOOLEAN : A!Reconcile(p, ok) => KeyInv'
  <1> USE DEF KeyInv, KeyTypes, KeyLease, KeyFlights, KeyKinds, KeyFinds, KeySound
  <1>1. ASSUME A!Judge(p) PROVE KeyInv'
    BY <1>1 DEF A!Judge
  <1>2. ASSUME A!Skip(p) PROVE KeyInv'
    BY <1>2 DEF A!Skip
  <1>3. ASSUME A!Stop(p) PROVE KeyInv'
    BY <1>3 DEF A!Stop
  <1>4. ASSUME NEW ok \in BOOLEAN, A!Reconcile(p, ok) PROVE KeyInv'
    BY <1>4 DEF A!Reconcile
  <1> QED BY <1>1, <1>2, <1>3, <1>4

(* What ends at the definition, or goes on to the launch.                  *)
LEMMA DefinitionKey ==
  ASSUME NEW p \in Cockpit, KeyInv
  PROVE  /\ A!Heal(p) => KeyInv'
         /\ A!Refuse(p) => KeyInv'
         /\ A!GoOn(p) => KeyInv'
         /\ A!Obey(p) => KeyInv'
         /\ A!Archive(p) => KeyInv'
  <1> USE DEF KeyInv, KeyTypes, KeyLease, KeyFlights, KeyKinds, KeyFinds, KeySound
  <1>1. ASSUME A!Heal(p) PROVE KeyInv'
    <2>1. KeyTypes'
      BY <1>1 DEF A!Heal
    <2>2. KeyLease' /\ KeyFlights' /\ KeyKinds' /\ KeyFinds'
      BY <1>1 DEF A!Heal
    <2>3. (~stale => KeySound)'
      BY <1>1 DEF A!Heal
    <2> QED BY <2>1, <2>2, <2>3
  <1>2. ASSUME A!Refuse(p) PROVE KeyInv'
    BY <1>2 DEF A!Refuse
  <1>3. ASSUME A!GoOn(p) PROVE KeyInv'
    BY <1>3 DEF A!GoOn
  <1>4. ASSUME A!Obey(p) PROVE KeyInv'
    <2>1. CASE why[p] = "cancel"
      <3>1. KeyTypes'
        BY <1>4, <2>1 DEF A!Obey
      <3>2. KeyLease' /\ KeyFlights' /\ KeyKinds' /\ KeyFinds'
        BY <1>4, <2>1 DEF A!Obey
      <3>3. (~stale => KeySound)'
        BY <1>4, <2>1 DEF A!Obey
      <3> QED BY <3>1, <3>2, <3>3
    <2>2. CASE why[p] # "cancel"
      <3>1. enabled' = (why[p] = "enable")
        BY <1>4, <2>2 DEF A!Obey
      <3>2. enabled' \in BOOLEAN
        BY <3>1, Zenon
      <3>3. /\ lease' \subseteq Cockpit /\ place' \in [Cockpit -> A!Places] /\ tries' \in Nat
            /\ UNCHANGED <<kind, receipt, archived, stale, flight, seen, back, why, tasks>>
        BY <1>4, <2>2 DEF A!Obey
      <3>4. KeyTypes'
        BY <3>2, <3>3, Zenon
      <3>5. KeyLease' /\ KeyFlights' /\ KeyKinds' /\ KeyFinds'
        BY <1>4, <2>2 DEF A!Obey
      <3>6. (~stale => KeySound)'
        BY <1>4, <2>2 DEF A!Obey
      <3> QED BY <3>4, <3>5, <3>6
    <2> QED BY <2>1, <2>2
  <1>5. ASSUME A!Archive(p) PROVE KeyInv'
    <2>1. KeyTypes'
      BY <1>5 DEF A!Archive
    <2>2. KeyLease' /\ KeyFlights' /\ KeyKinds' /\ KeyFinds'
      BY <1>5 DEF A!Archive
    <2>3. (~stale => KeySound)'
      BY <1>5 DEF A!Archive
    <2> QED BY <2>1, <2>2, <2>3
  <1> QED BY <1>1, <1>2, <1>3, <1>4, <1>5

(* A launch, from the reservation to its receipt.                          *)
LEMMA LaunchKey ==
  ASSUME NEW p \in Cockpit, KeyInv
  PROVE  /\ \A ok \in BOOLEAN : A!Reserve(p, ok) => KeyInv'
         /\ A!Duplicate(p) => KeyInv'
         /\ A!Launch(p) => KeyInv'
         /\ A!LaunchFails(p) => KeyInv'
         /\ \A ok \in BOOLEAN : A!Launched(p, ok) => KeyInv'
         /\ A!Misjudge(p) => KeyInv'
         /\ \A ok \in BOOLEAN : A!Failed(p, ok) => KeyInv'
  <1> USE DEF KeyInv, KeyTypes, KeyLease, KeyFlights, KeyKinds, KeyFinds, KeySound
  <1>1. ASSUME NEW ok \in BOOLEAN, A!Reserve(p, ok) PROVE KeyInv'
    BY <1>1 DEF A!Reserve
  <1>2. ASSUME A!Duplicate(p) PROVE KeyInv'
    BY <1>2 DEF A!Duplicate
  <1>3. ASSUME A!Launch(p) PROVE KeyInv'
    BY <1>3 DEF A!Launch
  <1>4. ASSUME A!LaunchFails(p) PROVE KeyInv'
    BY <1>4 DEF A!LaunchFails
  <1>5. ASSUME NEW ok \in BOOLEAN, A!Launched(p, ok) PROVE KeyInv'
    BY <1>5 DEF A!Launched
  <1>6. ASSUME A!Misjudge(p) PROVE KeyInv'
    BY <1>6 DEF A!Misjudge
  <1>7. ASSUME NEW ok \in BOOLEAN, A!Failed(p, ok) PROVE KeyInv'
    BY <1>7 DEF A!Failed
  <1> QED BY <1>1, <1>2, <1>3, <1>4, <1>5, <1>6, <1>7

LEMMA KeyStep == ASSUME KeyInv, [A!Next]_A!vars PROVE KeyInv'
  <1>1. CASE UNCHANGED A!vars
    BY <1>1 DEF A!vars, KeyInv, KeyTypes, KeyLease, KeyFlights, KeyKinds, KeyFinds, KeySound
  <1>2. CASE A!Tick
    BY <1>2 DEF A!Tick, KeyInv, KeyTypes, KeyLease, KeyFlights, KeyKinds, KeyFinds, KeySound
  <1>3. CASE A!Expire
    BY <1>3 DEF A!Expire, KeyInv, KeyTypes, KeyLease, KeyFlights, KeyKinds, KeyFinds, KeySound
  <1>4. ASSUME NEW p \in Cockpit, A!Crash(p) \/ A!Boot(p) PROVE KeyInv'
    BY <1>4 DEF A!Crash, A!Boot, KeyInv, KeyTypes, KeyLease, KeyFlights, KeyKinds, KeyFinds,
                KeySound
  <1> QED BY <1>1, <1>2, <1>3, <1>4, LeaseKey, FindKey, DefinitionKey, LaunchKey
      DEF A!Next, A!Step, A!User

LEMMA KeyInvariant == A!Spec => []KeyInv
  <1>1. A!Init => KeyInv
    <2> SUFFICES ASSUME A!Init PROVE KeyInv
      OBVIOUS
    <2>1. KeyTypes
      BY DEF A!Init, KeyTypes
    <2>2. \A p \in Cockpit : place[p] = "idle" /\ seen[p] = "old"
      BY DEF A!Init
    <2> QED BY <2>1, <2>2 DEF A!Init, KeyInv, KeyLease, KeyFlights, KeyKinds, KeyFinds, KeySound
  <1> QED BY <1>1, KeyStep, PTL DEF A!Spec

(* One key, at most one task, and none once it is cancelled: over any      *)
(* crashes, failed writes, retries and commands, and any cockpits.         *)
THEOREM OneKeyOneTask == A!Spec => []OneTask
  <1>1. KeyInv => OneTask
    BY DEF KeyInv, KeySound, OneTask, A!OneTask
  <1> QED BY <1>1, KeyInvariant, PTL

(* The timer launches a schedule once, whatever becomes of the launch,     *)
(* until the user enables it again.                                        *)
THEOREM TheTimerTriesOnce == A!Spec => []TriedOnce
  <1>1. KeyInv => TriedOnce
    BY DEF KeyInv, KeySound, TriedOnce, A!TriedOnce
  <1> QED BY <1>1, KeyInvariant, PTL

-----------------------------------------------------------------------------
(***************************************************************************)
(* The deliveries of webhooks.  A change is in one place of a line for     *)
(* each webhook: what was posted, what is being sent, the queue of the     *)
(* webhook, the queue of the run, what has yet to happen; every place is   *)
(* later than the one before, and numbers are given out as a change        *)
(* becomes the one being sent.                                             *)
(***************************************************************************)
(* The types, with no bound.                                               *)
HooksTyped ==
  /\ changes \in Nat
  /\ dispatches \in Seq(Nat)
  /\ queues \in [Hook -> Seq(Nat)]
  /\ sending \in [Hook -> [change : Nat, seq : Nat, attempts : Nat]]
  /\ seqs \in [Hook -> Nat]
  /\ posted \in [Hook -> [change : Nat, seq : Nat]]

Rising(q)   == \A i, j \in 1..Len(q) : i < j => q[i] < q[j]
Above(q, n) == \A i \in 1..Len(q) : n < q[i]
UpTo(q, n)  == \A i \in 1..Len(q) : q[i] <= n

(* The change a webhook was last given.                                    *)
Given(w) == IF sending[w] = N!Idle THEN posted[w].change ELSE sending[w].change

(* The places of the line.                                                 *)
LineIsRising ==
  /\ Rising(dispatches) /\ UpTo(dispatches, changes)
  /\ \A w \in Hook :
       /\ Rising(queues[w]) /\ UpTo(queues[w], changes)
       /\ \A i \in 1..Len(queues[w]) : Above(dispatches, queues[w][i])
       /\ Above(queues[w], Given(w)) /\ Above(dispatches, Given(w)) /\ Given(w) <= changes

(* The numbers.                                                            *)
Numbered(w) ==
  IF sending[w] = N!Idle THEN posted[w].seq = seqs[w]
  ELSE /\ sending[w].seq = seqs[w]
       /\ \/ posted[w].seq = seqs[w] /\ posted[w].change = sending[w].change
          \/ posted[w].seq + 1 = seqs[w] /\ posted[w].change < sending[w].change

NumbersInOrder == \A w \in Hook : Numbered(w)

OrderInv == HooksTyped /\ LineIsRising /\ NumbersInOrder

-----------------------------------------------------------------------------
(* What Head, Tail and Append do to a queue.                               *)
LEMMA NumbersTail ==
  ASSUME NEW q \in Seq(Nat), q # <<>>
  PROVE  /\ Head(q) \in Nat /\ Tail(q) \in Seq(Nat)
         /\ Len(q) \in Nat \ {0} /\ Head(q) = q[1] /\ Len(Tail(q)) = Len(q) - 1
         /\ \A i \in 1..Len(Tail(q)) : Tail(q)[i] = q[i + 1]
  OBVIOUS

LEMMA NumbersAppend ==
  ASSUME NEW q \in Seq(Nat), NEW n \in Nat
  PROVE  /\ Append(q, n) \in Seq(Nat) /\ Len(q) \in Nat
         /\ Len(Append(q, n)) = Len(q) + 1
         /\ \A i \in 1..Len(q) : Append(q, n)[i] = q[i]
         /\ Append(q, n)[Len(q) + 1] = n
  OBVIOUS

(* A queue without its head is as orderly as it was, above its head.       *)
LEMMA TailIsOrderly ==
  ASSUME NEW q \in Seq(Nat), q # <<>>, Rising(q)
  PROVE  /\ Rising(Tail(q)) /\ Above(Tail(q), Head(q))
         /\ \A n \in Nat : /\ Above(q, n) => Above(Tail(q), n) /\ n < Head(q)
                           /\ UpTo(q, n) => UpTo(Tail(q), n) /\ Head(q) <= n
PROOF
  <1>1. /\ Head(q) \in Nat /\ Tail(q) \in Seq(Nat)
        /\ Len(q) \in Nat \ {0} /\ Head(q) = q[1] /\ Len(Tail(q)) = Len(q) - 1
        /\ \A i \in 1..Len(Tail(q)) : Tail(q)[i] = q[i + 1]
    BY NumbersTail
  <1>2. \A i \in 1..Len(q) : q[i] \in Nat
    OBVIOUS
  <1>3. Rising(Tail(q))
    BY <1>1, <1>2 DEF Rising
  <1>4. Above(Tail(q), Head(q))
    BY <1>1, <1>2 DEF Rising, Above
  <1>5. ASSUME NEW n \in Nat
        PROVE  /\ Above(q, n) => Above(Tail(q), n) /\ n < Head(q)
               /\ UpTo(q, n) => UpTo(Tail(q), n) /\ Head(q) <= n
    BY <1>1, <1>2 DEF Above, UpTo
  <1> QED BY <1>3, <1>4, <1>5

(* A queue to which something later is added is as orderly as it was.      *)
LEMMA AppendIsOrderly ==
  ASSUME NEW q \in Seq(Nat), NEW n \in Nat, Rising(q), \A i \in 1..Len(q) : q[i] < n
  PROVE  /\ Rising(Append(q, n)) /\ UpTo(Append(q, n), n)
         /\ \A m \in Nat : /\ Above(q, m) /\ m < n => Above(Append(q, n), m)
                           /\ UpTo(q, m) /\ n <= m => UpTo(Append(q, n), m)
PROOF
  <1>1. /\ Append(q, n) \in Seq(Nat) /\ Len(q) \in Nat
        /\ Len(Append(q, n)) = Len(q) + 1
        /\ \A i \in 1..Len(q) : Append(q, n)[i] = q[i]
        /\ Append(q, n)[Len(q) + 1] = n
    BY NumbersAppend
  <1>2. \A i \in 1..Len(q) : q[i] \in Nat
    OBVIOUS
  <1>3. \A i \in 1..Len(Append(q, n)) : i \in 1..Len(q) \/ i = Len(q) + 1
    BY <1>1
  <1>4. Rising(Append(q, n))
    BY <1>1, <1>2, <1>3 DEF Rising
  <1>5. UpTo(Append(q, n), n)
    BY <1>1, <1>2, <1>3 DEF UpTo
  <1>6. ASSUME NEW m \in Nat
        PROVE  /\ Above(q, m) /\ m < n => Above(Append(q, n), m)
               /\ UpTo(q, m) /\ n <= m => UpTo(Append(q, n), m)
    BY <1>1, <1>2, <1>3 DEF Above, UpTo
  <1> QED BY <1>4, <1>5, <1>6

-----------------------------------------------------------------------------
LEMMA InitOrder == N!Init => OrderInv
  BY DEF N!Init, OrderInv, HooksTyped, LineIsRising, NumbersInOrder, Numbered, Given, Rising, Above,
         UpTo, N!Idle

(* A new change is later than everything in the line.                      *)
LEMMA ObserveOrder == OrderInv /\ N!Observe => OrderInv'
PROOF
  <1> SUFFICES ASSUME OrderInv, N!Observe PROVE OrderInv'
    OBVIOUS
  <1> USE DEF OrderInv
  <1>1. /\ changes \in Nat /\ changes' = changes + 1 /\ dispatches \in Seq(Nat)
        /\ dispatches' = Append(dispatches, changes')
        /\ UNCHANGED <<queues, sending, seqs, posted>>
    BY DEF N!Observe, HooksTyped
  <1>2. changes' \in Nat /\ changes < changes' /\ \A i \in 1..Len(dispatches) : dispatches[i] < changes'
    BY <1>1 DEF LineIsRising, UpTo
  <1>3. HooksTyped'
    BY <1>1, <1>2, NumbersAppend DEF HooksTyped
  <1>4. Rising(dispatches') /\ UpTo(dispatches', changes')
    BY <1>1, <1>2, AppendIsOrderly DEF LineIsRising
  <1>5. ASSUME NEW m \in Nat, Above(dispatches, m), m <= changes PROVE Above(dispatches', m)
    <2>1. m < changes'
      BY <1>1, <1>2, <1>5
    <2> QED BY <1>1, <1>2, <1>5, <2>1, AppendIsOrderly DEF LineIsRising
  <1>6. ASSUME NEW w \in Hook
        PROVE  /\ Rising(queues'[w]) /\ UpTo(queues'[w], changes')
               /\ \A i \in 1..Len(queues'[w]) : Above(dispatches', queues'[w][i])
               /\ Above(queues'[w], Given(w)') /\ Above(dispatches', Given(w)') /\ Given(w)' <= changes'
    <2>1. Given(w) \in Nat /\ Given(w)' = Given(w) /\ queues[w] \in Seq(Nat)
      BY <1>1 DEF Given, HooksTyped
    <2>2. UpTo(queues[w], changes')
      BY <1>1, <2>1 DEF LineIsRising, UpTo
    <2>3. \A i \in 1..Len(queues[w]) : Above(dispatches', queues[w][i])
      BY <1>5, <2>1 DEF LineIsRising, UpTo
    <2>4. Above(dispatches', Given(w)) /\ Given(w) <= changes'
      BY <1>1, <1>5, <2>1 DEF LineIsRising
    <2> QED BY <1>1, <2>1, <2>2, <2>3, <2>4 DEF LineIsRising
  <1>7. NumbersInOrder'
    BY <1>1 DEF NumbersInOrder, Numbered
  <1> QED BY <1>3, <1>4, <1>6, <1>7 DEF LineIsRising

(* The head of the run's queue is later than the queue of any webhook.     *)
LEMMA DispatchOrder == OrderInv /\ N!Dispatch => OrderInv'
PROOF
  <1> SUFFICES ASSUME OrderInv, N!Dispatch PROVE OrderInv'
    OBVIOUS
  <1> USE DEF OrderInv
  <1> DEFINE d == Head(dispatches)
  <1>1. /\ dispatches \in Seq(Nat) /\ dispatches # <<>> /\ dispatches' = Tail(dispatches)
        /\ queues' = [w \in Hook |-> IF w \in settings THEN Append(queues[w], d) ELSE queues[w]]
        /\ UNCHANGED <<changes, sending, seqs, posted>> /\ changes \in Nat
    BY DEF N!Dispatch, HooksTyped
  <1>2. d \in Nat /\ Tail(dispatches) \in Seq(Nat) /\ Rising(dispatches')
        /\ UpTo(dispatches', changes) /\ d <= changes /\ Above(dispatches', d)
    BY <1>1, NumbersTail, TailIsOrderly DEF LineIsRising
  <1>3. ASSUME NEW m \in Nat, Above(dispatches, m) PROVE Above(dispatches', m) /\ m < d
    BY <1>1, <1>3, TailIsOrderly DEF LineIsRising
  <1> HIDE DEF d
  <1>4. ASSUME NEW w \in Hook
        PROVE  /\ queues'[w] \in Seq(Nat)
               /\ Rising(queues'[w]) /\ UpTo(queues'[w], changes')
               /\ \A i \in 1..Len(queues'[w]) : Above(dispatches', queues'[w][i])
               /\ Above(queues'[w], Given(w)') /\ Above(dispatches', Given(w)') /\ Given(w)' <= changes'
    <2>1. Given(w) \in Nat /\ Given(w)' = Given(w) /\ queues[w] \in Seq(Nat)
      BY <1>1 DEF Given, HooksTyped
    <2>2. Above(dispatches', Given(w)') /\ Given(w)' <= changes' /\ Given(w) < d
      BY <1>1, <1>3, <2>1 DEF LineIsRising
    <2>3. \A i \in 1..Len(queues[w]) : queues[w][i] < d /\ Above(dispatches', queues[w][i])
      BY <1>3, <2>1 DEF LineIsRising
    <2>4. CASE w \notin settings
      BY <1>1, <2>1, <2>2, <2>3, <2>4 DEF LineIsRising
    <2>5. CASE w \in settings
      <3>1. queues'[w] = Append(queues[w], d)
        BY <1>1, <2>5
      <3>2. /\ queues'[w] \in Seq(Nat) /\ Len(queues'[w]) = Len(queues[w]) + 1 /\ Len(queues[w]) \in Nat
            /\ \A i \in 1..Len(queues[w]) : queues'[w][i] = queues[w][i]
            /\ queues'[w][Len(queues[w]) + 1] = d
        BY <1>2, <2>1, <3>1, NumbersAppend
      <3>3. Rising(queues'[w]) /\ UpTo(queues'[w], changes) /\ Above(queues'[w], Given(w))
        BY <1>1, <1>2, <2>1, <2>2, <2>3, <3>1, AppendIsOrderly DEF LineIsRising
      <3>4. \A i \in 1..Len(queues'[w]) : Above(dispatches', queues'[w][i])
        <4>1. \A i \in 1..Len(queues'[w]) : i \in 1..Len(queues[w]) \/ i = Len(queues[w]) + 1
          BY <3>2
        <4> QED BY <1>2, <2>3, <3>2, <4>1
      <3> QED BY <1>1, <2>1, <2>2, <3>2, <3>3, <3>4
    <2> QED BY <2>4, <2>5
  <1>5. HooksTyped'
    BY <1>1, <1>2, <1>4 DEF HooksTyped
  <1>6. NumbersInOrder'
    BY <1>1 DEF NumbersInOrder, Numbered
  <1> QED BY <1>1, <1>2, <1>4, <1>5, <1>6 DEF LineIsRising

(* The head of a webhook's queue is later than what it was last given, and *)
(* becomes it with the next number, or is left out.                        *)
LEMMA StartOrder == ASSUME NEW w \in Hook PROVE OrderInv /\ N!Start(w) => OrderInv'
PROOF
  <1> SUFFICES ASSUME OrderInv, N!Start(w) PROVE OrderInv'
    OBVIOUS
  <1> USE DEF OrderInv
  <1>1. /\ sending[w] = N!Idle /\ queues[w] # <<>> /\ queues[w] \in Seq(Nat)
        /\ queues' = [queues EXCEPT ![w] = Tail(@)]
        /\ UNCHANGED <<changes, dispatches, posted>> /\ changes \in Nat
    BY DEF N!Start, HooksTyped
  <1>2. /\ N!Oldest(w) \in Nat /\ Tail(queues[w]) \in Seq(Nat) /\ Rising(Tail(queues[w]))
        /\ UpTo(Tail(queues[w]), changes) /\ N!Oldest(w) <= changes
        /\ Above(Tail(queues[w]), N!Oldest(w))
    BY <1>1, NumbersTail, TailIsOrderly DEF LineIsRising, N!Oldest
  <1>3. /\ Above(Tail(queues[w]), posted[w].change) /\ posted[w].change < N!Oldest(w)
        /\ posted[w].change \in Nat /\ posted[w].seq = seqs[w] /\ seqs[w] \in Nat
    BY <1>1, TailIsOrderly DEF LineIsRising, HooksTyped, Given, N!Oldest, NumbersInOrder, Numbered
  <1>4. /\ Above(dispatches, N!Oldest(w))
        /\ \A i \in 1..Len(Tail(queues[w])) : Above(dispatches, Tail(queues[w])[i])
    <2>1. \A i \in 1..Len(queues[w]) : Above(dispatches, queues[w][i])
      BY DEF LineIsRising
    <2>2. /\ Len(queues[w]) \in Nat \ {0} /\ Head(queues[w]) = queues[w][1]
          /\ Len(Tail(queues[w])) = Len(queues[w]) - 1
          /\ \A i \in 1..Len(Tail(queues[w])) : Tail(queues[w])[i] = queues[w][i + 1]
      BY <1>1, NumbersTail
    <2> QED BY <2>1, <2>2 DEF N!Oldest
  <1>5. queues'[w] = Tail(queues[w]) /\ \A v \in Hook \ {w} : queues'[v] = queues[v]
    BY <1>1 DEF HooksTyped
  <1>6. /\ \A v \in Hook \ {w} : sending'[v] = sending[v] /\ seqs'[v] = seqs[v]
        /\ \/ UNCHANGED <<sending, seqs>>
           \/ /\ seqs'[w] = seqs[w] + 1
              /\ sending'[w] = [change |-> N!Oldest(w), seq |-> seqs[w] + 1, attempts |-> 0]
    BY DEF N!Start, HooksTyped
  <1>7. HooksTyped'
    <2>1. queues' \in [Hook -> Seq(Nat)]
      BY <1>1, <1>2 DEF HooksTyped
    <2>2. seqs' \in [Hook -> Nat] /\ sending' \in [Hook -> [change : Nat, seq : Nat, attempts : Nat]]
      <3>1. CASE w \notin settings
        BY <3>1 DEF N!Start, HooksTyped
      <3>2. CASE w \in settings
        <4>1. /\ seqs' = [seqs EXCEPT ![w] = @ + 1]
              /\ sending' = [sending EXCEPT ![w] = [change |-> N!Oldest(w), seq |-> seqs[w] + 1,
                                                    attempts |-> 0]]
          BY <3>2 DEF N!Start
        <4>2. [change |-> N!Oldest(w), seq |-> seqs[w] + 1, attempts |-> 0]
                \in [change : Nat, seq : Nat, attempts : Nat]
          BY <1>2, <1>3
        <4> QED BY <4>1, <4>2 DEF HooksTyped
      <3> QED BY <3>1, <3>2
    <2> QED BY <1>1, <2>1, <2>2 DEF HooksTyped
  <1>8. ASSUME NEW v \in Hook
        PROVE  /\ Rising(queues'[v]) /\ UpTo(queues'[v], changes')
               /\ \A i \in 1..Len(queues'[v]) : Above(dispatches', queues'[v][i])
               /\ Above(queues'[v], Given(v)') /\ Above(dispatches', Given(v)') /\ Given(v)' <= changes'
               /\ Numbered(v)'
    <2>1. CASE v # w
      <3>1. Given(v)' = Given(v) /\ queues'[v] = queues[v] /\ (Numbered(v) => Numbered(v)')
        BY <1>1, <1>5, <1>6, <2>1 DEF Given, Numbered
      <3> QED BY <1>1, <3>1 DEF LineIsRising, NumbersInOrder
    <2>2. CASE v = w /\ UNCHANGED <<sending, seqs>>
      <3>1. Given(w)' = posted[w].change /\ Numbered(w)'
        BY <1>1, <1>3, <2>2 DEF Given, Numbered
      <3>2. Given(w) = posted[w].change
        BY <1>1 DEF Given
      <3> QED BY <1>1, <1>2, <1>3, <1>4, <1>5, <2>2, <3>1, <3>2 DEF LineIsRising
    <2>3. CASE /\ v = w /\ seqs'[w] = seqs[w] + 1
               /\ sending'[w] = [change |-> N!Oldest(w), seq |-> seqs[w] + 1, attempts |-> 0]
      <3>1. sending'[w] # N!Idle
        BY <1>3, <2>3 DEF N!Idle
      <3>2. Given(w)' = N!Oldest(w) /\ Numbered(w)'
        BY <1>1, <1>3, <2>3, <3>1 DEF Given, Numbered
      <3> QED BY <1>1, <1>2, <1>4, <1>5, <2>3, <3>2
    <2> QED BY <1>6, <2>1, <2>2, <2>3
  <1>9. Rising(dispatches') /\ UpTo(dispatches', changes')
    BY <1>1 DEF LineIsRising
  <1> QED BY <1>7, <1>8, <1>9 DEF LineIsRising, NumbersInOrder

(* What is posted is what is being sent, and is what was last given,       *)
(* whether it is sent again or not.                                        *)
LEMMA PostFacts ==
  ASSUME OrderInv, NEW w \in Hook, NEW answer, answer \in {"ok", "refused", "retry"},
         N!Post(w, answer)
  PROVE  /\ UNCHANGED <<changes, dispatches, queues, seqs>>
         /\ sending[w] # N!Idle
         /\ posted' \in [Hook -> [change : Nat, seq : Nat]]
         /\ posted'[w].change = sending[w].change /\ posted'[w].seq = sending[w].seq
         /\ \A v \in Hook \ {w} : posted'[v] = posted[v] /\ sending'[v] = sending[v]
         /\ sending' \in [Hook -> [change : Nat, seq : Nat, attempts : Nat]]
         /\ \/ sending'[w] = N!Idle
            \/ /\ sending'[w] # N!Idle /\ sending'[w].change = sending[w].change
               /\ sending'[w].seq = sending[w].seq
PROOF
  <1>1. HooksTyped
    BY DEF OrderInv
  <1>2. /\ UNCHANGED <<changes, dispatches, queues, seqs>> /\ sending[w] # N!Idle
        /\ posted' = [posted EXCEPT ![w] = [change |-> sending[w].change, seq |-> sending[w].seq]]
    BY DEF N!Post
  <1>3. \/ sending' = [sending EXCEPT ![w] = N!Idle]
        \/ sending' = [sending EXCEPT ![w].attempts = @ + 1]
    BY DEF N!Post, N!Recorded
  <1>4. sending[w] \in [change : Nat, seq : Nat, attempts : Nat]
    BY <1>1 DEF HooksTyped
  <1>5. /\ posted' \in [Hook -> [change : Nat, seq : Nat]]
        /\ posted'[w].change = sending[w].change /\ posted'[w].seq = sending[w].seq
        /\ \A v \in Hook \ {w} : posted'[v] = posted[v]
    BY <1>1, <1>2, <1>4 DEF HooksTyped
  <1>6. CASE sending' = [sending EXCEPT ![w] = N!Idle]
    BY <1>1, <1>2, <1>5, <1>6 DEF HooksTyped, N!Idle
  <1>7. CASE sending' = [sending EXCEPT ![w].attempts = @ + 1]
    <2>1. /\ sending'[w] = [sending[w] EXCEPT !.attempts = @ + 1]
          /\ \A v \in Hook \ {w} : sending'[v] = sending[v]
      BY <1>1, <1>7 DEF HooksTyped
    <2>2. /\ sending'[w].change = sending[w].change /\ sending'[w].seq = sending[w].seq
          /\ sending'[w].attempts = sending[w].attempts + 1
          /\ sending'[w] \in [change : Nat, seq : Nat, attempts : Nat]
      BY <1>4, <2>1
    <2>3. sending'[w] # N!Idle
      BY <1>4, <2>2 DEF N!Idle
    <2>4. sending' \in [Hook -> [change : Nat, seq : Nat, attempts : Nat]]
      <3>1. sending' = [sending EXCEPT ![w] = sending'[w]]
        BY <1>1, <1>7 DEF HooksTyped
      <3> QED BY <1>1, <2>2, <3>1 DEF HooksTyped
    <2> QED BY <1>2, <1>5, <2>1, <2>2, <2>3, <2>4
  <1> QED BY <1>3, <1>6, <1>7

LEMMA PostOrder ==
  ASSUME NEW w \in Hook, NEW answer, answer \in {"ok", "refused", "retry"}
  PROVE  OrderInv /\ N!Post(w, answer) => OrderInv'
PROOF
  <1> SUFFICES ASSUME OrderInv, N!Post(w, answer) PROVE OrderInv'
    OBVIOUS
  <1>1. /\ UNCHANGED <<changes, dispatches, queues, seqs>>
        /\ sending[w] # N!Idle
        /\ posted' \in [Hook -> [change : Nat, seq : Nat]]
        /\ posted'[w].change = sending[w].change /\ posted'[w].seq = sending[w].seq
        /\ \A v \in Hook \ {w} : posted'[v] = posted[v] /\ sending'[v] = sending[v]
        /\ sending' \in [Hook -> [change : Nat, seq : Nat, attempts : Nat]]
        /\ \/ sending'[w] = N!Idle
           \/ /\ sending'[w] # N!Idle /\ sending'[w].change = sending[w].change
              /\ sending'[w].seq = sending[w].seq
    BY PostFacts
  <1>2. HooksTyped'
    BY <1>1 DEF OrderInv, HooksTyped
  <1>3. \A v \in Hook : Given(v)' = Given(v)
    BY <1>1 DEF Given
  <1>4. LineIsRising'
    BY <1>1, <1>3 DEF OrderInv, LineIsRising
  <1>5. ASSUME NEW v \in Hook PROVE Numbered(v)'
    BY <1>1, <1>5 DEF OrderInv, NumbersInOrder, Numbered
  <1> QED BY <1>2, <1>4, <1>5 DEF OrderInv, NumbersInOrder

(* Every step keeps the line in order.                                     *)
LEMMA NextOrder == OrderInv /\ [N!Next]_N!vars => OrderInv'
PROOF
  <1> SUFFICES ASSUME OrderInv, [N!Next]_N!vars PROVE OrderInv'
    OBVIOUS
  <1>1. CASE N!Observe
    BY <1>1, ObserveOrder
  <1>2. CASE N!Edit \/ UNCHANGED N!vars
    BY <1>2 DEF N!Edit, N!vars, OrderInv, HooksTyped, LineIsRising, NumbersInOrder, Numbered, Given
  <1>3. CASE N!Dispatch
    BY <1>3, DispatchOrder
  <1>4. CASE \E w \in Hook : N!Start(w)
    BY <1>4, StartOrder
  <1>5. CASE \E w \in Hook, answer \in {"ok", "refused", "retry"} : N!Post(w, answer)
    BY <1>5, PostOrder
  <1> QED BY <1>1, <1>2, <1>3, <1>4, <1>5 DEF N!Next

(* The line of changes of every webhook stays in order.                    *)
THEOREM OrderCorrect == N!Spec => []OrderInv
PROOF
  <1> QED BY InitOrder, NextOrder, PTL DEF N!Spec

(* A webhook hears of the changes in their order and numbered without      *)
(* gaps, whatever the settings, the failures and the retries (the queues   *)
(* of TaskWebhook).                                                        *)
THEOREM DeliveriesAreOrdered == N!Spec => DeliveriesInOrder
PROOF
  <1>1. OrderInv /\ [N!Next]_N!vars => [\A w \in Hook : N!Follows(posted[w], posted'[w])]_N!vars
    <2> SUFFICES ASSUME OrderInv, N!Next, NEW w \in Hook PROVE N!Follows(posted[w], posted'[w])
      OBVIOUS
    <2>1. CASE UNCHANGED posted
      BY <2>1 DEF N!Follows
    <2>2. CASE \E v \in Hook, answer \in {"ok", "refused", "retry"} : N!Post(v, answer)
      <3> PICK v \in Hook, answer \in {"ok", "refused", "retry"} : N!Post(v, answer)
        BY <2>2
      <3>1. CASE v # w
        BY <3>1, PostFacts DEF N!Follows
      <3>2. CASE v = w
        <4>1. /\ posted[w] \in [change : Nat, seq : Nat] /\ posted'[w] \in [change : Nat, seq : Nat]
              /\ posted'[w].change = sending[w].change /\ posted'[w].seq = sending[w].seq
              /\ sending[w] # N!Idle
          BY <3>2, PostFacts DEF OrderInv, HooksTyped
        <4>2. /\ sending[w].seq = seqs[w]
              /\ \/ posted[w].seq = seqs[w] /\ posted[w].change = sending[w].change
                 \/ posted[w].seq + 1 = seqs[w] /\ posted[w].change < sending[w].change
          BY <4>1 DEF OrderInv, NumbersInOrder, Numbered
        <4> QED BY <4>1, <4>2 DEF N!Follows
      <3> QED BY <3>1, <3>2
    <2> QED BY <2>1, <2>2 DEF N!Next, N!Observe, N!Edit, N!Dispatch, N!Start
  <1> QED BY <1>1, OrderCorrect, PTL DEF N!Spec, DeliveriesInOrder, N!DeliveriesInOrder

-----------------------------------------------------------------------------
(***************************************************************************)
(* The workers.                                                            *)
(***************************************************************************)
T == INSTANCE WorkersProofs
       WITH MaxAsks <- MaxDestroys, faults <- failures, crashes <- losses

(* The workers as Services has them are those of WorkersProofs.            *)
LEMMA SameWorkers == W!Spec => T!Spec
PROOF
  <1>1. \A X : W!Cardinality(X) = T!Cardinality(X)
    BY DEF W!Cardinality, T!Cardinality, W!IsFiniteSet, T!IsFiniteSet
  <1> USE DEF W!tally, T!tally, W!vars, T!vars, W!NoRecord, T!NoRecord, W!Forgotten,
              T!Forgotten, W!Holders, T!Holders, W!Orphaned, T!Orphaned, W!Released, T!Released,
              W!Outstanding, T!Outstanding, W!Stores, T!Stores, W!Recalls, T!Recalls, W!Faulty,
              T!Faulty, W!Admissible, T!Admissible, W!Begun, T!Begun, W!Begins, T!Begins,
              W!Cancelled, T!Cancelled, W!Unqueued, T!Unqueued, W!Stopped, T!Stopped, W!Closing,
              T!Closing, W!Key, T!Key, W!Unchanged, T!Unchanged, W!Attempt, T!Attempt, W!Fails,
              T!Fails, W!Evidence, T!Evidence, W!Done, T!Done, W!Unheld, T!Unheld, W!Recovered,
              T!Recovered
  <1>2. W!Init <=> T!Init
    BY DEF W!Init, T!Init
  <1>3. \A w : W!Spawn(w) <=> T!Spawn(w)
    BY <1>1 DEF W!Spawn, T!Spawn
  <1>4. \A w : W!Launch(w) <=> T!Launch(w)
    BY DEF W!Launch, T!Launch
  <1>5. \A w : W!Continue(w) <=> T!Continue(w)
    BY DEF W!Continue, T!Continue
  <1>6. \A w : W!Stop(w) <=> T!Stop(w)
    BY DEF W!Stop, T!Stop
  <1>7. \A w : W!Provision(w) <=> T!Provision(w)
    BY DEF W!Provision, T!Provision
  <1>8. \A w : W!WriteReceipt(w) <=> T!WriteReceipt(w)
    BY DEF W!WriteReceipt, T!WriteReceipt
  <1>9. \A w : W!SetupFails(w) <=> T!SetupFails(w)
    BY DEF W!SetupFails, T!SetupFails
  <1>10. \A w : W!StartSession(w) <=> T!StartSession(w)
    BY DEF W!StartSession, T!StartSession
  <1>11. \A w : W!EndSession(w) <=> T!EndSession(w)
    BY DEF W!EndSession, T!EndSession
  <1>12. \A w : W!Finish(w) <=> T!Finish(w)
    BY DEF W!Finish, T!Finish
  <1>13. \A w : W!SettleOrphan(w) <=> T!SettleOrphan(w)
    BY DEF W!SettleOrphan, T!SettleOrphan
  <1>14. \A w : W!Collect(w) <=> T!Collect(w)
    BY DEF W!Collect, T!Collect
  <1>15. \A w : W!Destroy(w) <=> T!Destroy(w)
    BY DEF W!Destroy, T!Destroy
  <1>16. \A w : W!Retry(w) <=> T!Retry(w)
    BY DEF W!Retry, T!Retry
  <1>17. \A w : W!Wait(w) <=> T!Wait(w)
    BY DEF W!Wait, T!Wait
  <1>18. \A w : W!Reap(w) <=> T!Reap(w)
    BY DEF W!Reap, T!Reap
  <1>19. \A w : W!Judge(w) <=> T!Judge(w)
    BY DEF W!Judge, T!Judge
  <1>20. \A w : W!Keep(w) <=> T!Keep(w)
    BY DEF W!Keep, T!Keep
  <1>21. \A w : W!Remove(w) <=> T!Remove(w)
    BY DEF W!Remove, T!Remove
  <1>22. \A w : W!GitRemoves(w) <=> T!GitRemoves(w)
    BY DEF W!GitRemoves, T!GitRemoves
  <1>23. \A w : W!ComeBy(w) <=> T!ComeBy(w)
    BY DEF W!ComeBy, T!ComeBy
  <1>24. \A w : W!Leave(w) <=> T!Leave(w)
    BY DEF W!Leave, T!Leave
  <1>25. W!Crash <=> T!Crash
    BY DEF W!Crash, T!Crash
  <1>26. W!Restart <=> T!Restart
    BY DEF W!Restart, T!Restart
  <1>27. [W!Next]_W!vars <=> [T!Next]_T!vars
    BY <1>3, <1>4, <1>5, <1>6, <1>7, <1>8, <1>9, <1>10, <1>11, <1>12, <1>13, <1>14, <1>15,
       <1>16, <1>17, <1>18, <1>19, <1>20, <1>21, <1>22, <1>23, <1>24, <1>25, <1>26
    DEF W!Next, T!Next, W!Works, T!Works, W!Engine, T!Engine, W!Cleanup, T!Cleanup
  <1> QED BY <1>2, <1>27, PTL DEF W!Spec, T!Spec

(* removePresent() never takes a worktree from under the worker's session, *)
(* what it started, or anybody who was there when the removal looked.      *)
THEOREM WorktreesStay == W!Spec => []NobodyLosesAWorktree
  <1>1. T!WorkersAssumption
    BY ServicesFit DEF W!WorkersAssumption, T!WorkersAssumption, W!IsFiniteSet, T!IsFiniteSet
  <1>2. T!Spec => []T!NobodyLosesAWorktree
    BY <1>1, T!NobodyEverLosesAWorktree
  <1>3. T!NobodyLosesAWorktree => NobodyLosesAWorktree
    BY DEF T!NobodyLosesAWorktree, W!NobodyLosesAWorktree, NobodyLosesAWorktree
  <1> QED BY <1>2, <1>3, SameWorkers, PTL

(* The parent has kept the result of a worker's last generation before its *)
(* worktree goes, whatever crashed in between (worker-cleanup.ts).         *)
THEOREM EvidenceStays == W!Spec => []EvidenceOutlivesTheWorktree
  <1>1. T!WorkersAssumption
    BY ServicesFit DEF W!WorkersAssumption, T!WorkersAssumption, W!IsFiniteSet, T!IsFiniteSet
  <1>2. T!Spec => []T!EvidenceOutlivesTheWorktree
    BY <1>1, T!EvidenceAlwaysOutlives
  <1>3. T!EvidenceOutlivesTheWorktree => EvidenceOutlivesTheWorktree
    BY DEF T!EvidenceOutlivesTheWorktree, W!EvidenceOutlivesTheWorktree,
           EvidenceOutlivesTheWorktree
  <1> QED BY <1>2, <1>3, SameWorkers, PTL

(* workerCapacity(): the workers that hold a place, a worktree, a branch   *)
(* or a process never exceed the parent's capacity.                        *)
THEOREM CapacityHolds == W!Spec => []CapacityBoundsResources
  <1>1. T!WorkersAssumption
    BY ServicesFit DEF W!WorkersAssumption, T!WorkersAssumption, W!IsFiniteSet, T!IsFiniteSet
  <1>2. T!Spec => []T!CapacityBoundsResources
    BY <1>1, T!CapacityAlwaysBounds
  <1>3. \A X : W!Cardinality(X) = T!Cardinality(X)
    BY DEF W!Cardinality, T!Cardinality, W!IsFiniteSet, T!IsFiniteSet
  <1>4. {w \in Worker : W!HoldsResources(w)} = {w \in Worker : T!HoldsResources(w)}
    BY DEF W!HoldsResources, T!HoldsResources
  <1>5. T!CapacityBoundsResources => CapacityBoundsResources
    BY <1>3, <1>4 DEF T!CapacityBoundsResources, W!CapacityBoundsResources,
                      CapacityBoundsResources
  <1> QED BY <1>2, <1>5, SameWorkers, PTL
=============================================================================
