------------------------------- MODULE CiSlots -------------------------------
(***************************************************************************)
(* ci-wait/github.ts CiSemaphore, as CiWatcherSupervisor.run() uses it for *)
(* the watchers of CI waits.  A released slot is handed to the oldest      *)
(* watcher in the queue, whose promise resolves at once and whose code     *)
(* goes on later: its wait may be cancelled or meet its deadline between   *)
(* the two.                                                                *)
(***************************************************************************)
EXTENDS Integers, SequencesExt

CONSTANTS
  Wait,   \* the waits that are watched, one run() each
  Limit   \* CI_WATCHER_LIMIT

SlotsAssumption == IsFiniteSet(Wait) /\ Limit \in Nat

VARIABLES
  phase,    \* where run() is: "new", "queued", "handed" a slot, "holding" one, "done"
  aborted,  \* the waits whose signal has fired
  active,   \* CiSemaphore.active
  queue     \* CiSemaphore.queue

vars == <<phase, aborted, active, queue>>

TypeOK ==
  /\ phase \in [Wait -> {"new", "queued", "handed", "holding", "done"}]
  /\ aborted \subseteq Wait /\ active \in 0..Limit /\ queue \in Seq(Wait)

Init == phase = [w \in Wait |-> "new"] /\ aborted = {} /\ active = 0 /\ queue = <<>>

Moved(w, to) == [phase EXCEPT ![w] = to]

(* release(): the slot goes to the oldest in the queue, or is free.        *)
Released(places) ==
  IF queue = <<>> THEN active' = active - 1 /\ phase' = places /\ UNCHANGED queue
  ELSE /\ queue' = Tail(queue) /\ UNCHANGED active
       /\ phase' = [places EXCEPT ![Head(queue)] = "handed"]

-----------------------------------------------------------------------------
(* run(), acquire(): nothing for a wait that is over, a slot, or a place.  *)
Acquire(w) ==
  /\ phase[w] = "new"
  /\ UNCHANGED aborted
  /\ \/ w \in aborted /\ phase' = Moved(w, "done") /\ UNCHANGED <<active, queue>>
     \/ /\ w \notin aborted /\ active < Limit
        /\ active' = active + 1 /\ phase' = Moved(w, "holding") /\ UNCHANGED queue
     \/ /\ w \notin aborted /\ active = Limit
        /\ queue' = Append(queue, w) /\ phase' = Moved(w, "queued") /\ UNCHANGED active

(* The signal: a cancelled wait, its deadline, or the end of the service.  *)
(* abort(): only a watcher still in the queue leaves it here.              *)
Abort(w) ==
  /\ w \notin aborted /\ phase[w] # "done"
  /\ aborted' = aborted \cup {w} /\ UNCHANGED active
  /\ IF phase[w] = "queued"
     THEN queue' = RemoveFirst(queue, w) /\ phase' = Moved(w, "done")
     ELSE UNCHANGED <<phase, queue>>

\* Mutant of GoOn: a wait aborted after the hand-over ends without releasing
MutGoOn(w) ==
  /\ phase[w] = "handed" /\ UNCHANGED <<aborted, active, queue>>
  /\ phase' = Moved(w, IF w \in aborted THEN "done" ELSE "holding")

(* acquire() after the hand-over.                                          *)
GoOn(w) ==
  /\ phase[w] = "handed" /\ UNCHANGED aborted
  /\ \/ w \in aborted /\ Released(Moved(w, "done"))
     \/ w \notin aborted /\ phase' = Moved(w, "holding") /\ UNCHANGED <<active, queue>>

(* run() ends, and with it gh's process: an outcome, an error, an abort.   *)
Finish(w) == phase[w] = "holding" /\ Released(Moved(w, "done")) /\ UNCHANGED aborted

Next == \E w \in Wait : Acquire(w) \/ Abort(w) \/ GoOn(w) \/ Finish(w)

Spec == Init /\ [][Next]_vars

-----------------------------------------------------------------------------
(* Every slot is held by one watcher or on its way to one, and nobody      *)
(* waits while a slot is free: an abort at any moment loses none.          *)
NoSlotIsLost ==
  /\ active = Cardinality({w \in Wait : phase[w] \in {"handed", "holding"}})
  /\ queue # <<>> => active = Limit
  /\ \A w \in Wait : phase[w] = "queued" <=> \E i \in DOMAIN queue : queue[i] = w
=============================================================================
