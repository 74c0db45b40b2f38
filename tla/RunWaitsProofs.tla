--------------------------- MODULE RunWaitsProofs ---------------------------
(***************************************************************************)
(* Proofs about RunWaits, for any finite set of waits, any budget, limit   *)
(* of attempts and number of faults, restarts and messages.                *)
(*                                                                         *)
(* A handler is a composition of operators on the record, so most lemmas   *)
(* are about one operator on any record t: from a record that is Quiet, it *)
(* gives one that is Quiet and, where it may leave a result owed, Sourced. *)
(* The step of an action then only puts its operators together.            *)
(***************************************************************************)
EXTENDS RunWaits, FiniteSetTheorems, TLAPS

-----------------------------------------------------------------------------
(* The types: a record of the right shape stays one, operator by operator. *)
Rows ==
  [status : Statuses, wait : [Wait -> Phases], wakes : Nat, failures : 0..(MaxAttempts - 1),
   asked : BOOLEAN, charged : Nat]

Runs ==
  [status : Statuses, wait : [Wait -> Phases], wakes : Nat, failures : 0..(MaxAttempts - 1),
   asked : BOOLEAN, charged : Nat, disk : Rows, session : Sessions, stopping : BOOLEAN,
   line : Lines, admitted : BOOLEAN, pool : BOOLEAN, parked : BOOLEAN, flight : Flight,
   fault : BOOLEAN, retry : BOOLEAN, backoff : BOOLEAN, watch : SUBSET Wait, held : SUBSET Wait,
   torn : BOOLEAN, late : BOOLEAN]

LEMMA CommitTyped ==
  ASSUME NEW t \in Runs, NEW ok PROVE Commit(t) \in Runs /\ BestEffort(t, ok) \in Runs
  <1>1. Stored(t) \in Rows
    BY DEF Runs, Rows, Stored
  <1>2. Commit(t) \in Runs
    BY <1>1 DEF Runs, Commit
  <1> QED BY <1>2 DEF BestEffort

LEMMA ClearedTyped ==
  ASSUME NEW t \in Runs
  PROVE  (IF t.line = "wake" THEN "none" ELSE t.line) \in Lines
  BY DEF Runs, Lines

LEMMA DisarmedTyped ==
  ASSUME NEW t \in Runs, NEW ws, NEW ok
  PROVE  Disarmed(t, ws) \in Runs /\ DisarmedRun(t, ok) \in Runs
  <1>1. \A ss : Disarmed(t, ss) \in Runs
    BY DEF Runs, Disarmed
  <1> DEFINE d == Disarmed(t, Wait)
             line == IF d.line = "wake" THEN "none" ELSE d.line
             s == [d EXCEPT !.retry = FALSE, !.backoff = FALSE, !.failures = 0, !.admitted = FALSE,
                            !.line = IF @ = "wake" THEN "none" ELSE @]
  <1>2. d \in Runs
    BY <1>1
  <1> HIDE DEF d
  <1>3. line \in Lines
    BY <1>2, ClearedTyped
  <1>4. s = [d EXCEPT !.retry = FALSE, !.backoff = FALSE, !.failures = 0, !.admitted = FALSE,
                      !.line = line]
    BY <1>2 DEF Runs
  <1> HIDE DEF line
  <1>5. s \in Runs
    <2>1. 0 \in 0..(MaxAttempts - 1)
      BY RunWaitsAssumption
    <2>2. [d EXCEPT !.retry = FALSE, !.backoff = FALSE, !.failures = 0, !.admitted = FALSE,
                    !.line = line] \in Runs
      BY <1>2, <1>3, <2>1 DEF Runs
    <2> QED BY <1>4, <2>2
  <1> QED BY <1>1, <1>5, CommitTyped DEF DisarmedRun, d

LEMMA CancelTyped ==
  ASSUME NEW t \in Runs, NEW ws, NEW ok
  PROVE  /\ Cancelled(t, ws) \in Runs /\ CancelAtCap(t, ws) \in Runs
         /\ CancelOpenWaits(t, ok) \in Runs
  <1>1. \A ss : Cancelled(t, ss) \in Runs
    BY DEF Runs, Cancelled, Phases
  <1>2. CancelAtCap(t, ws) \in Runs
    BY <1>1, CommitTyped, DisarmedTyped DEF CancelAtCap
  <1>3. [t EXCEPT !.torn = @ \/ Listed(t) # {}] \in Runs
    <2>1. (t.torn \/ Listed(t) # {}) \in BOOLEAN
      OBVIOUS
    <2> QED BY <2>1 DEF Runs
  <1> QED BY <1>1, <1>2, <1>3, CommitTyped, DisarmedTyped DEF CancelOpenWaits

LEMMA FlushTyped ==
  ASSUME NEW t \in Runs, NEW sent
  PROVE  /\ Retried(t) \in Runs /\ Repark(t) \in Runs /\ CancelCapped(t) \in Runs
         /\ Resume(t) \in Runs /\ Flush(t, sent) \in Runs
         /\ \A ids \in SUBSET Wait : Submit(t, ids) \in Runs
  <1>1. \A x \in Runs : Repark(x) \in Runs
    <2> SUFFICES ASSUME NEW x \in Runs PROVE Repark(x) \in Runs
      OBVIOUS
    <2>1. [x EXCEPT !.asked = TRUE, !.pool = FALSE] \in Runs
      BY DEF Runs
    <2> QED BY <2>1, CommitTyped DEF Repark
  <1>2. CancelCapped(t) \in Runs
    <2> DEFINE left == CancelAtCap(t, Resolved(t) \cap Charging)
    <2>1. left \in Runs
      BY CancelTyped
    <2> HIDE DEF left
    <2>2. [left EXCEPT !.admitted = FALSE] \in Runs
      BY <2>1 DEF Runs
    <2> QED BY <2>1, <2>2, <1>1 DEF CancelCapped, left
  <1>3. \A x \in Runs : Resume(x) \in Runs
    <2> SUFFICES ASSUME NEW x \in Runs PROVE Resume(x) \in Runs
      OBVIOUS
    <2>1. "turn" \in Sessions /\ "running" \in Statuses
      BY DEF Sessions, Statuses
    <2>2. [x EXCEPT !.session = "turn", !.late = FALSE] \in Runs
      BY <2>1 DEF Runs
    <2>3. [x EXCEPT !.session = "turn", !.late = FALSE, !.parked = FALSE, !.status = "running"]
            \in Runs
      BY <2>1 DEF Runs
    <2> QED BY <2>2, <2>3 DEF Resume
  <1>4. \A x \in Runs, ids \in SUBSET Wait : Submit(x, ids) \in Runs
    <2> SUFFICES ASSUME NEW x \in Runs, NEW ids \in SUBSET Wait PROVE Submit(x, ids) \in Runs
      OBVIOUS
    <2> DEFINE paid == ids \cap Charging # {} /\ Spent(x) < MaxWakes
               flight == [on |-> TRUE, ids |-> ids, reserved |-> paid]
    <2>1. paid \in BOOLEAN
      OBVIOUS
    <2> HIDE DEF paid
    <2>2. flight \in Flight
      BY <2>1 DEF Flight
    <2> HIDE DEF flight
    <2>3. [x EXCEPT !.flight = flight] \in Runs
      BY <2>2 DEF Runs
    <2> QED BY <2>3, <1>3 DEF Submit, flight, paid
  <1>5. Flush(t, sent) \in Runs
    <2>1. Resolved(CancelCapped(t)) \in SUBSET Wait
      BY DEF Resolved, In
    <2> QED BY <2>1, <1>2, <1>4 DEF Flush
  <1>6. Retried(t) \in Runs
    <2>1. (t.retry \/ Resolved(t) # {}) \in BOOLEAN
      OBVIOUS
    <2> QED BY <2>1 DEF Runs, Retried
  <1> QED BY <1>1, <1>2, <1>3, <1>4, <1>5, <1>6

LEMMA QueueWakeTyped ==
  ASSUME NEW t \in Runs, NEW sent
  PROVE  /\ QueueWake(t, sent) \in Runs /\ ParkForUser(t, sent) \in Runs
         /\ ParkOnWaits(t, sent) \in Runs
  <1>1. \A x \in Runs : QueueWake(x, sent) \in Runs
    <2> SUFFICES ASSUME NEW x \in Runs PROVE QueueWake(x, sent) \in Runs
      OBVIOUS
    <2> DEFINE owed == Retried(x)
               line == IF owed.line = "wake" THEN "none" ELSE owed.line
               pool == [owed EXCEPT !.admitted = TRUE, !.line = line]
               wake == [owed EXCEPT !.line = "wake"]
               reopen == [owed EXCEPT !.line = "reopen", !.status = "queued"]
               waits == [owed EXCEPT !.status = "waiting"]
    <2>1. owed \in Runs
      BY FlushTyped
    <2> HIDE DEF owed
    <2>2. line \in Lines
      BY <2>1, ClearedTyped
    <2>3. pool = [owed EXCEPT !.admitted = TRUE, !.line = IF @ = "wake" THEN "none" ELSE @]
      BY <2>1 DEF Runs
    <2> HIDE DEF line
    <2>4. pool \in Runs
      BY <2>1, <2>2 DEF Runs
    <2>5. wake \in Runs /\ waits \in Runs
      BY <2>1 DEF Runs, Lines, Statuses
    <2>6. reopen \in Runs
      BY <2>1 DEF Runs, Lines, Statuses
    <2> HIDE DEF pool, wake, reopen, waits
    <2>7. \/ QueueWake(x, sent) = x \/ QueueWake(x, sent) = Flush(owed, sent)
          \/ QueueWake(x, sent) = Flush(pool, sent) \/ QueueWake(x, sent) = owed
          \/ QueueWake(x, sent) = wake \/ QueueWake(x, sent) = Commit(reopen)
          \/ QueueWake(x, sent) = waits
      BY <2>3 DEF QueueWake, owed, wake, reopen, waits
    <2> QED BY <2>1, <2>4, <2>5, <2>6, <2>7, FlushTyped, CommitTyped
  <1>2. [t EXCEPT !.status = "waiting", !.parked = TRUE, !.pool = FALSE] \in Runs
    BY DEF Runs, Statuses
  <1>3. [t EXCEPT !.status = "waiting", !.parked = TRUE, !.pool = TRUE] \in Runs
    BY DEF Runs, Statuses
  <1>4. ParkForUser(t, sent) \in Runs
    BY <1>1, <1>2, CommitTyped DEF ParkForUser
  <1> QED BY <1>1, <1>3, <1>4 DEF ParkOnWaits

LEMMA DecideTyped ==
  ASSUME NEW t \in Runs, NEW c
  PROVE  Decide(t, c) \in Runs /\ EndTurn(t, c) \in Runs /\ SettleIdle(t, c) \in Runs
  <1>1. \A x \in Runs : Decide(x, c) \in Runs
    <2> SUFFICES ASSUME NEW x \in Runs PROVE Decide(x, c) \in Runs
      OBVIOUS
    <2> DEFINE s == CancelOpenWaits(x, c.ok)
               n == Submit(x, {})
               a == [x EXCEPT !.asked = TRUE]
    <2>1. s \in Runs
      BY CancelTyped
    <2>2. n \in Runs
      BY FlushTyped
    <2>3. a \in Runs
      BY DEF Runs
    <2> HIDE DEF s, n, a
    <2>4. [s EXCEPT !.session = "done"] \in Runs
      BY <2>1 DEF Runs, Sessions
    <2>5. [n EXCEPT !.wakes = @ + 1] \in Runs
      BY <2>2 DEF Runs
    <2>6. Nudge(x, c) \in Runs
      BY <2>5, CommitTyped DEF Nudge, n
    <2>7. Ask(x, c) \in Runs
      BY <2>3, CommitTyped, QueueWakeTyped DEF Ask, a
    <2>8. ParkOnWaits(x, c.sent) \in Runs
      BY QueueWakeTyped
    <2> QED BY <2>4, <2>6, <2>7, <2>8 DEF Decide, s
  <1>2. [t EXCEPT !.session = "boundary"] \in Runs
    BY DEF Runs, Sessions
  <1>3. EndTurn(t, c) \in Runs
    BY <1>1, <1>2, FlushTyped DEF EndTurn
  <1> QED BY <1>1, <1>3 DEF SettleIdle

LEMMA AcknowledgedTyped ==
  ASSUME NEW t \in Runs, NEW c
  PROVE  Acknowledged(t, c) \in Runs /\ [t EXCEPT !.flight = NoFlight] \in Runs
  <1> DEFINE ids == t.flight.ids \cap Resolved(t)
             wait == [w \in Wait |-> IF w \in ids THEN "delivered" ELSE t.wait[w]]
             charged == IF ids \cap Charging # {} THEN t.charged + 1 ELSE t.charged
             u == [t EXCEPT !.wait = wait, !.charged = charged, !.failures = 0,
                            !.status = "running", !.wakes = Charge(t)]
             d == Deliver(t, ids)
             retry == d.retry /\ Resolved(d) # {}
             p == [d EXCEPT !.admitted = FALSE, !.parked = FALSE, !.retry = retry]
  <1>1. wait \in [Wait -> Phases] /\ charged \in Nat /\ Charge(t) \in Nat
    BY DEF Runs, Phases, Charge
  <1>2. 0 \in 0..(MaxAttempts - 1)
    BY RunWaitsAssumption
  <1>3. d = Commit(u)
    BY DEF Deliver, Runs
  <1> HIDE DEF wait, charged
  <1>4. u \in Runs
    BY <1>1, <1>2 DEF Runs, Statuses
  <1> HIDE DEF u, d
  <1>5. d \in Runs
    BY <1>3, <1>4, CommitTyped
  <1>6. p = Spend(d)
    BY <1>5 DEF Spend, Runs
  <1>7. retry \in BOOLEAN
    OBVIOUS
  <1> HIDE DEF retry
  <1>8. p \in Runs
    BY <1>5, <1>7 DEF Runs
  <1> HIDE DEF p
  <1> DEFINE s == IF ids = {} THEN t ELSE p
             late == t.session = "boundary"
             r == [s EXCEPT !.flight = NoFlight, !.late = late]
  <1>9. s \in Runs
    BY <1>8
  <1>10. Received(t) = r
    BY <1>6 DEF Received, d
  <1>11. late \in BOOLEAN /\ NoFlight \in Flight
    BY DEF NoFlight, Flight
  <1> HIDE DEF late, s
  <1>12. r \in Runs
    BY <1>9, <1>11 DEF Runs
  <1>13. [t EXCEPT !.flight = NoFlight] \in Runs
    BY <1>11 DEF Runs
  <1> QED BY <1>10, <1>12, <1>13, FlushTyped, DecideTyped DEF Acknowledged

LEMMA ClosedCases ==
  ASSUME NEW t, NEW c
  PROVE  LET quiet == IF t.asked /\ c.withdrawn THEN Commit([t EXCEPT !.asked = FALSE]) ELSE t
         IN \/ \E status \in Statuses : Closed(t, c) = Terminal(quiet, status, c.ok)
            \/ Resolved(quiet) # {} /\ Closed(t, c) = FailedDelivery(quiet, c.ok)
            \/ Closed(t, c) = [quiet EXCEPT !.status = "waiting"]
  <1> DEFINE quiet == IF t.asked /\ c.withdrawn THEN Commit([t EXCEPT !.asked = FALSE]) ELSE t
  <1> DEFINE over  == /\ Listed(quiet) = {}
                      /\ t.session = "done" \/ (t.session = "dead" /\ c.clean)
             broke == Listed(quiet) = {} /\ t.session = "dead" /\ ~c.clean
             rest  == [quiet EXCEPT !.status = "waiting"]
  <1>1. Closed(t, c) =
          CASE t.stopping -> Terminal(quiet, "cancelled", c.ok)
            [] ~t.stopping /\ Resolved(quiet) # {} -> FailedDelivery(quiet, c.ok)
            [] ~t.stopping /\ over -> Terminal(quiet, "done", c.ok)
            [] ~t.stopping /\ broke -> Terminal(quiet, "failed", c.ok)
            [] OTHER -> rest
    BY DEF Closed
  <1>2. Listed(quiet) = {} => Resolved(quiet) = {}
    BY DEF Listed
  <1>3. ~(over /\ broke)
    OBVIOUS
  <1> SUFFICES \/ \E status \in Statuses : Closed(t, c) = Terminal(quiet, status, c.ok)
               \/ Resolved(quiet) # {} /\ Closed(t, c) = FailedDelivery(quiet, c.ok)
               \/ Closed(t, c) = rest
    OBVIOUS
  <1> HIDE DEF quiet, rest, over, broke
  <1>4. CASE t.stopping
    BY <1>1, <1>4 DEF Statuses
  <1>5. CASE ~t.stopping /\ Resolved(quiet) # {}
    BY <1>1, <1>2, <1>5 DEF over, broke
  <1>6. CASE ~t.stopping /\ Resolved(quiet) = {} /\ over
    BY <1>1, <1>3, <1>6 DEF Statuses
  <1>7. CASE ~t.stopping /\ Resolved(quiet) = {} /\ broke
    BY <1>1, <1>3, <1>7 DEF Statuses
  <1>8. CASE ~t.stopping /\ Resolved(quiet) = {} /\ ~over /\ ~broke
    BY <1>1, <1>8
  <1> QED BY <1>4, <1>5, <1>6, <1>7, <1>8

LEMMA ClosedTyped ==
  ASSUME NEW t \in Runs, NEW c
  PROVE  Dropped(Closed(t, c)) \in Runs
  <1> DEFINE asked == [t EXCEPT !.asked = FALSE]
             quiet == IF t.asked /\ c.withdrawn THEN Commit([t EXCEPT !.asked = FALSE]) ELSE t
             x == Closed(t, c)
             line == IF x.line = "wake" THEN "none" ELSE x.line
  <1>1. asked \in Runs
    BY DEF Runs
  <1>2. quiet \in Runs
    BY <1>1, CommitTyped
  <1>3. \/ \E status \in Statuses : x = Terminal(quiet, status, c.ok)
        \/ x = FailedDelivery(quiet, c.ok)
        \/ x = [quiet EXCEPT !.status = "waiting"]
    BY ClosedCases
  <1> HIDE DEF quiet, x
  <1>4. \A status \in Statuses : [quiet EXCEPT !.status = status] \in Runs
    BY <1>2 DEF Runs
  <1>5. \A status \in Statuses : Terminal(quiet, status, c.ok) \in Runs
    BY <1>4, CancelTyped DEF Terminal
  <1>6. GiveUp(quiet, c.ok) \in Runs
    <2> DEFINE g == [quiet EXCEPT !.failures = 0, !.backoff = FALSE, !.retry = FALSE]
               b == BestEffort(g, c.ok)
    <2>1. g \in Runs
      <3>1. 0 \in 0..(MaxAttempts - 1)
        BY RunWaitsAssumption
      <3> QED BY <1>2, <3>1 DEF Runs
    <2>2. b \in Runs
      BY <2>1, CommitTyped
    <2> HIDE DEF b
    <2>3. [b EXCEPT !.status = "failed"] \in Runs
      BY <2>2 DEF Runs, Statuses
    <2> QED BY <2>3 DEF GiveUp, b
  <1>7. quiet.failures + 1 < MaxAttempts => PutOff(quiet, c.ok) \in Runs
    <2> DEFINE g == [quiet EXCEPT !.failures = @ + 1]
               b == BestEffort(g, c.ok)
    <2> HAVE quiet.failures + 1 < MaxAttempts
    <2>1. g \in Runs
      <3>1. quiet.failures \in 0..(MaxAttempts - 1) /\ MaxAttempts \in Nat
        BY <1>2, RunWaitsAssumption DEF Runs
      <3>2. quiet.failures + 1 \in 0..(MaxAttempts - 1)
        BY <3>1
      <3> QED BY <3>2, <1>2 DEF Runs
    <2>2. b \in Runs
      BY <2>1, CommitTyped
    <2> HIDE DEF b
    <2>3. [b EXCEPT !.backoff = TRUE, !.status = "waiting"] \in Runs
      BY <2>2 DEF Runs, Statuses
    <2> QED BY <2>3 DEF PutOff, b
  <1>8. FailedDelivery(quiet, c.ok) \in Runs
    <2>1. quiet.failures \in Int /\ MaxAttempts \in Int
      BY <1>2, RunWaitsAssumption DEF Runs
    <2> QED BY <2>1, <1>6, <1>7 DEF FailedDelivery
  <1>9. x \in Runs
    BY <1>3, <1>4, <1>5, <1>8 DEF Statuses
  <1>10. line \in Lines
    BY <1>9, ClearedTyped
  <1>11. Dropped(x) = [x EXCEPT !.session = "none", !.stopping = FALSE, !.admitted = FALSE,
                               !.pool = FALSE, !.parked = FALSE, !.fault = FALSE, !.late = FALSE,
                               !.line = line]
    BY <1>9 DEF Dropped, Runs
  <1> HIDE DEF line
  <1>12. Dropped(x) \in Runs
    <2>1. "none" \in Sessions
      BY DEF Sessions
    <2>2. [x EXCEPT !.session = "none", !.stopping = FALSE, !.admitted = FALSE,
                    !.pool = FALSE, !.parked = FALSE, !.fault = FALSE, !.late = FALSE,
                    !.line = line] \in Runs
      BY <1>9, <1>10, <2>1, ZenonT(60) DEF Runs
    <2> QED BY <1>11, <2>2
  <1> QED BY <1>12 DEF x

LEMMA RecordedTyped ==
  ASSUME NEW r \in Rows, NEW session \in Sessions
  PROVE  /\ Recorded(r, Forgotten) \in Runs
         /\ Recorded(r, [Forgotten EXCEPT !.session = session]) \in Runs
  <1>1. {} \in SUBSET Wait /\ NoFlight \in Flight /\ "none" \in Lines /\ "none" \in Sessions
    BY DEF NoFlight, Flight, Lines, Sessions
  <1>2. Recorded(r, Forgotten) \in Runs
    BY <1>1 DEF Recorded, Forgotten, Runs, Rows
  <1>3. Recorded(r, [Forgotten EXCEPT !.session = session]) \in Runs
    BY <1>1, ZenonT(60) DEF Recorded, Forgotten, Runs, Rows
  <1> QED BY <1>2, <1>3

LEMMA RecoveredTyped ==
  ASSUME NEW r \in Rows, NEW sent PROVE Recovered(Recorded(r, Forgotten), sent) \in Runs
  <1> DEFINE t == Recorded(r, Forgotten)
             armed == [t EXCEPT !.watch = In(t, "open")]
             waits == [armed EXCEPT !.status = "waiting"]
             again == [t EXCEPT !.status = "queued", !.line = "restart"]
  <1>1. t \in Runs
    <2>1. "none" \in Sessions
      BY DEF Sessions
    <2> QED BY <2>1, RecordedTyped
  <1> HIDE DEF t
  <1>2. armed \in Runs
    <2>1. In(t, "open") \in SUBSET Wait
      BY DEF In
    <2> QED BY <1>1, <2>1 DEF Runs
  <1> HIDE DEF armed
  <1>3. waits \in Runs /\ again \in Runs
    <2>1. {"waiting", "queued"} \subseteq Statuses /\ "restart" \in Lines
      BY DEF Statuses, Lines
    <2>2. waits \in Runs
      BY <1>2, <2>1 DEF Runs
    <2>3. again \in Runs
      BY <1>1, <2>1 DEF Runs
    <2> QED BY <2>2, <2>3
  <1> HIDE DEF waits, again
  <1>4. QueueWake(waits, sent) \in Runs /\ Commit(again) \in Runs /\ CancelOpenWaits(t, TRUE) \in Runs
    BY <1>1, <1>3, QueueWakeTyped, CommitTyped, CancelTyped
  <1>5. Recovered(t, sent) \in {QueueWake(waits, sent), Commit(again), armed,
                               CancelOpenWaits(t, TRUE), t}
    BY Zenon DEF Recovered, armed, waits, again
  <1> QED BY <1>1, <1>2, <1>4, <1>5 DEF t

LEMMA CountedFacts ==
  ASSUME faults \in Nat, NEW oks, DOMAIN oks \in {1..1, 1..2}, Counted(oks)
  PROVE  faults' \in 0..MaxFaults
  <1>1. IsFiniteSet(1..1) /\ IsFiniteSet(1..2)
    <2>1. 1 \in Int /\ 2 \in Int
      OBVIOUS
    <2> QED BY <2>1, FS_Interval
  <1>2. Cardinality({i \in DOMAIN oks : ~oks[i]}) \in Nat
    BY <1>1, FS_Subset, FS_CardinalityType
  <1> QED BY <1>2, RunWaitsAssumption DEF Counted

RunsTyped ==
  /\ run \in Runs
  /\ faults \in 0..MaxFaults /\ restarts \in 0..MaxRestarts /\ talk \in 0..MaxTalk

LEMMA InitTyped == Init => RunsTyped
  <1> SUFFICES ASSUME Init PROVE RunsTyped
    OBVIOUS
  <1> DEFINE r == [status |-> "running", wait |-> [w \in Wait |-> "none"], wakes |-> 0,
                   failures |-> 0, asked |-> FALSE, charged |-> 0]
  <1>1. r \in Rows
    BY RunWaitsAssumption DEF Rows, Statuses, Phases
  <1>2. run = Recorded(r, [Forgotten EXCEPT !.session = "turn"]) /\ "turn" \in Sessions
    BY DEF Init, Sessions
  <1> HIDE DEF r
  <1>3. run \in Runs
    BY <1>1, <1>2, RecordedTyped
  <1> QED BY <1>3, RunWaitsAssumption DEF Init, RunsTyped

LEMMA OpenWaitTyped ==
  ASSUME run \in Runs, NEW w \in Wait, NEW withdrawn, NEW ok, NEW sent,
         OpenWait(w, withdrawn, ok, sent)
  PROVE  run' \in Runs
  <1> DEFINE asked == [run EXCEPT !.asked = FALSE]
             quiet == IF run.asked /\ withdrawn THEN Commit(asked) ELSE run
             o     == Commit([quiet EXCEPT !.wait[w] = "open"])
             armed == [o EXCEPT !.watch = @ \cup {w}]
  <1>1. run' = IF ~ok THEN quiet
              ELSE IF run.session = "boundary" \/ run.parked THEN ParkOnWaits(armed, sent)
              ELSE armed
    BY DEF OpenWait
  <1>2. quiet \in Runs
    <2>1. asked \in Runs
      BY DEF Runs
    <2> HIDE DEF asked
    <2> QED BY <2>1, CommitTyped
  <1> HIDE DEF quiet
  <1>3. o \in Runs
    <2>1. [quiet EXCEPT !.wait[w] = "open"] \in Runs
      BY <1>2 DEF Runs, Phases
    <2> QED BY <2>1, CommitTyped
  <1> HIDE DEF o
  <1>4. armed \in Runs
    BY <1>3 DEF Runs
  <1> HIDE DEF armed
  <1> QED BY <1>1, <1>2, <1>4, QueueWakeTyped

LEMMA ResolveTyped ==
  ASSUME run \in Runs, NEW w \in Wait, NEW ok, NEW sent, Resolve(w, ok, sent)
  PROVE  run' \in Runs
  <1> DEFINE fired == Disarmed(run, {w})
             owed  == [fired EXCEPT !.wait[w] = "resolved"]
             left  == CancelAtCap(fired, {w})
             asked == [left EXCEPT !.asked = TRUE]
  <1>1. run' \in {fired, Kept(fired, w), QueueWake(Commit(owed), sent), Repark(left),
                 Commit(asked), left}
    BY Zenon DEF Resolve
  <1>2. fired \in Runs
    BY DisarmedTyped
  <1> HIDE DEF fired
  <1>3. Kept(fired, w) \in Runs
    BY <1>2 DEF Runs, Kept
  <1>4. owed \in Runs
    BY <1>2 DEF Runs, Phases
  <1> HIDE DEF owed
  <1>5. left \in Runs
    BY <1>2, CancelTyped
  <1> HIDE DEF left
  <1>6. asked \in Runs
    BY <1>5 DEF Runs
  <1> HIDE DEF asked
  <1>7. QueueWake(Commit(owed), sent) \in Runs
    BY <1>4, CommitTyped, QueueWakeTyped
  <1>8. Repark(left) \in Runs
    BY <1>5, FlushTyped
  <1>9. Commit(asked) \in Runs
    BY <1>6, CommitTyped
  <1> QED BY <1>1, <1>2, <1>3, <1>5, <1>7, <1>8, <1>9

LEMMA SessionTyped ==
  ASSUME run \in Runs,
         \/ \E c \in Turn : TurnEnds(c) \/ Acknowledge(c)
         \/ \E refused \in BOOLEAN : DeliveryFails(refused)
         \/ \E how \in {"dead", "idle"} : SessionEnds(how)
         \/ \E c \in Close : SessionSettles(c)
  PROVE  run' \in Runs
  <1>1. ASSUME NEW c \in Turn, TurnEnds(c) \/ Acknowledge(c) PROVE run' \in Runs
    BY <1>1, DecideTyped, AcknowledgedTyped DEF TurnEnds, Acknowledge
  <1>2. ASSUME NEW refused \in BOOLEAN, DeliveryFails(refused) PROVE run' \in Runs
    <2>1. NoFlight \in Flight
      BY DEF NoFlight, Flight
    <2>2. [run EXCEPT !.flight = NoFlight, !.fault = TRUE] \in Runs
      BY <2>1 DEF Runs
    <2> QED BY <1>2, <2>2 DEF DeliveryFails
  <1>3. ASSUME NEW how \in {"dead", "idle"}, SessionEnds(how) PROVE run' \in Runs
    <2>1. how \in Sessions
      BY DEF Sessions
    <2>2. [run EXCEPT !.session = how] \in Runs
      BY <2>1 DEF Runs
    <2> QED BY <1>3, <2>2 DEF SessionEnds
  <1>4. ASSUME NEW c \in Close, SessionSettles(c) PROVE run' \in Runs
    BY <1>4, ClosedTyped, QueueWakeTyped DEF SessionSettles
  <1> QED BY <1>1, <1>2, <1>3, <1>4

LEMMA WakeTyped ==
  ASSUME run \in Runs, NEW sent,
         \/ RetryFires(sent) \/ BackoffFires(sent) \/ AdmitWake(sent) \/ Launch
         \/ \E w \in Wait : CancelWait(w)
  PROVE  run' \in Runs
  <1>1. CASE RetryFires(sent)
    <2>1. [run EXCEPT !["retry"] = FALSE] \in Runs
      BY DEF Runs
    <2> QED BY <1>1, <2>1, QueueWakeTyped DEF RetryFires, Fired
  <1>2. CASE BackoffFires(sent)
    <2>1. [run EXCEPT !["backoff"] = FALSE] \in Runs
      BY DEF Runs
    <2> QED BY <1>2, <2>1, QueueWakeTyped DEF BackoffFires, Fired
  <1>3. CASE AdmitWake(sent)
    <2> DEFINE taken == [run EXCEPT !.line = "none"]
               admitted == [taken EXCEPT !.parked = FALSE, !.admitted = TRUE]
    <2>1. run' \in {taken, Retried(run), Flush(admitted, sent)}
      BY <1>3, Zenon DEF AdmitWake
    <2>2. taken \in Runs
      BY DEF Runs, Lines
    <2> HIDE DEF taken
    <2>3. admitted \in Runs
      BY <2>2 DEF Runs
    <2> HIDE DEF admitted
    <2> QED BY <2>1, <2>2, <2>3, FlushTyped
  <1>4. CASE Launch
    <2> DEFINE reopened == run.line = "reopen"
    <2>1. reopened \in BOOLEAN /\ "none" \in Lines /\ "turn" \in Sessions /\ "running" \in Statuses
      BY DEF Lines, Sessions, Statuses
    <2>2. run' = [run EXCEPT !.line = "none", !.admitted = reopened, !.session = "turn",
                            !.status = "running"]
      BY <1>4 DEF Launch
    <2> HIDE DEF reopened
    <2>3. [run EXCEPT !.line = "none", !.admitted = reopened, !.session = "turn",
                      !.status = "running"] \in Runs
      BY <2>1 DEF Runs
    <2> QED BY <2>2, <2>3
  <1>5. ASSUME NEW w \in Wait, CancelWait(w) PROVE run' \in Runs
    BY <1>5, CancelTyped DEF CancelWait, CancelAtCap
  <1> QED BY <1>1, <1>2, <1>3, <1>4, <1>5

LEMMA AnsweredTyped ==
  ASSUME NEW t \in Runs, NEW ok PROVE Answered(t, ok) \in Runs
  <1>1. 0 \in 0..(MaxAttempts - 1)
    BY RunWaitsAssumption
  <1>2. [t EXCEPT !.asked = FALSE, !.wakes = 0, !.charged = 0, !.failures = 0] \in Runs
    BY <1>1 DEF Runs
  <1> QED BY <1>2, CommitTyped DEF Answered

LEMMA UserTyped ==
  ASSUME run \in Runs, NEW ok, Message(ok) \/ Continue(ok) \/ Stop(ok)
  PROVE  run' \in Runs
  <1>1. CASE Message(ok)
    BY <1>1, AnsweredTyped, FlushTyped DEF Message
  <1>2. CASE Continue(ok)
    <2>1. [run EXCEPT !.backoff = FALSE, !.session = "turn", !.status = "running"] \in Runs
      BY DEF Runs, Sessions, Statuses
    <2> QED BY <1>2, <2>1, AnsweredTyped DEF Continue
  <1>3. CASE Stop(ok)
    <2> DEFINE quiet   == CancelOpenWaits(run, ok)
               stop    == [quiet EXCEPT !.stopping = TRUE]
               unqueue == [quiet EXCEPT !.line = "none", !.status = "cancelled"]
               over    == [quiet EXCEPT !.status = "cancelled"]
    <2>1. run' \in {BestEffort(stop, ok), BestEffort(unqueue, ok), over, quiet}
      BY <1>3, Zenon DEF Stop
    <2>2. quiet \in Runs
      BY CancelTyped
    <2> HIDE DEF quiet
    <2>3. stop \in Runs
      BY <2>2 DEF Runs
    <2>4. unqueue \in Runs /\ over \in Runs
      BY <2>2 DEF Runs, Lines, Statuses
    <2> HIDE DEF stop, unqueue, over
    <2> QED BY <2>1, <2>2, <2>3, <2>4, CommitTyped
  <1> QED BY <1>1, <1>2, <1>3

LEMMA DiskTyped ==
  ASSUME run \in Runs, Save \/ \E sent \in BOOLEAN : Restart(sent)
  PROVE  run' \in Runs
  <1>1. CASE Save
    BY <1>1, CommitTyped DEF Save
  <1>2. ASSUME NEW sent \in BOOLEAN, Restart(sent) PROVE run' \in Runs
    <2>1. run.disk \in Rows
      BY DEF Runs
    <2> QED BY <1>2, <2>1, RecoveredTyped DEF Restart
  <1> QED BY <1>1, <1>2

LEMMA NextTyped == RunsTyped /\ [Next]_vars => RunsTyped'
  <1> SUFFICES ASSUME RunsTyped, [Next]_vars PROVE RunsTyped'
    OBVIOUS
  <1> run \in Runs /\ faults \in Nat
    BY RunWaitsAssumption DEF RunsTyped
  <1>1. run' \in Runs
    BY OpenWaitTyped, ResolveTyped, SessionTyped, WakeTyped, UserTyped, DiskTyped DEF Next, vars
  <1>2. faults' \in 0..MaxFaults
    <2>1. ASSUME NEW a, Counted(<<a>>) PROVE faults' \in 0..MaxFaults
      <3>1. DOMAIN <<a>> = 1..1
        OBVIOUS
      <3> QED BY <2>1, <3>1, CountedFacts
    <2>2. ASSUME NEW a, NEW b, Counted(<<a, b>>) PROVE faults' \in 0..MaxFaults
      <3>1. DOMAIN <<a, b>> = 1..2
        OBVIOUS
      <3> QED BY <2>2, <3>1, CountedFacts
    <2>3. \/ faults' = faults
          \/ \E x : Counted(<<x>>)
          \/ \E x, y : Counted(<<x, y>>)
      BY DEF Next, vars, OpenWait, CancelWait, Resolve, RetryFires, BackoffFires, AdmitWake, Launch,
             TurnEnds, Acknowledge, DeliveryFails, SessionEnds, SessionSettles, Message, Continue,
             Stop, Save, Restart
    <2> QED BY <2>1, <2>2, <2>3 DEF RunsTyped
  <1>3. \/ UNCHANGED <<restarts, talk>>
        \/ UNCHANGED restarts /\ talk < MaxTalk /\ talk' = talk + 1
        \/ UNCHANGED talk /\ restarts < MaxRestarts /\ restarts' = restarts + 1
    BY DEF Next, vars, OpenWait, CancelWait, Resolve, RetryFires, BackoffFires, AdmitWake, Launch,
           TurnEnds, Acknowledge, DeliveryFails, SessionEnds, SessionSettles, Message, Continue, Stop,
           Save, Restart, Still
  <1>4. restarts' \in 0..MaxRestarts /\ talk' \in 0..MaxTalk
    BY <1>3, RunWaitsAssumption DEF RunsTyped
  <1> QED BY <1>1, <1>2, <1>4 DEF RunsTyped

-----------------------------------------------------------------------------
(* The inductive invariant.                                                *)
Memories == {"session", "stopping", "line", "admitted", "pool", "parked", "flight", "fault",
             "retry", "backoff", "watch", "held", "torn", "late"}
Columns  == {"status", "wait", "wakes", "failures", "asked", "charged"}

(* What every record has, on disk and in memory: no batch delivered        *)
(* without its charge, and no charge beyond the budget.                    *)
Row(r) ==
  /\ r.wait \in [Wait -> Phases] /\ r.wakes \in Nat /\ r.charged \in Nat
  /\ r.charged <= r.wakes /\ r.wakes <= MaxWakes

Shaped(t) ==
  /\ DOMAIN t = Columns \cup Memories \cup {"disk"} /\ Row(t)
  /\ DOMAIN t.disk = Columns /\ Row(t.disk)
  /\ t.session \in Sessions /\ t.line \in Lines /\ t.flight \in Flight
  /\ t.watch \subseteq Wait /\ t.held \subseteq Wait

(* A flight that carries a wait to charge has reserved the charge within   *)
(* the budget, and it carries nothing that is still to be resolved.        *)
Afforded(t) ==
  /\ Spent(t) <= MaxWakes
  /\ t.flight.reserved => t.flight.on
  /\ t.flight.on /\ t.flight.ids \cap Resolved(t) \cap Charging # {} => t.flight.reserved
  /\ t.flight.on => \A w \in t.flight.ids : t.wait[w] \notin {"none", "open"}

(* A continuation is in the line only while no session is open, and a      *)
(* flight belongs to a session.                                            *)
Placed(t) ==
  /\ t.line \in {"reopen", "restart"} => t.session = "none"
  /\ t.flight.on => t.session # "none"

(* OpenWaitsAreWatched, without its condition that the run is live.        *)
Watched(t) == t.torn \/ In(t, "open") \subseteq t.watch \cup t.held

(* BackoffIsAPause of any record.                                          *)
Paused(t) ==
  t.backoff => t.session = "none" /\ t.line = "none" /\ t.status = "waiting" /\ Resolved(t) # {}

(* WakesHaveASource, with less to count on: at a boundary an entry of the  *)
(* line may be dropped, so only without a session does it count.           *)
Source(t) ==
  \/ t.retry \/ t.backoff \/ t.flight.on \/ t.stopping \/ t.fault
  \/ t.session \in {"turn", "dead", "idle", "done"}
  \/ t.session = "none" /\ t.line # "none"
  \/ LeftAtBoundary(t)

Sourced(t) == Live(t) /\ Resolved(t) # {} => Source(t)

Sound(t) == Shaped(t) /\ Afforded(t) /\ Placed(t) /\ Watched(t)

WaitInv == Sound(run) /\ Paused(run) /\ Sourced(run)

(* What the operators preserve, and the fields that most of them leave     *)
(* alone.                                                                  *)
Quiet(t) == Sound(t) /\ Paused(t)

Control(t) == <<t.retry, t.backoff, t.flight, t.stopping, t.fault, t.session, t.line, t.late,
                t.status>>

-----------------------------------------------------------------------------
(* The operators of the delivery and of the wake.                          *)
LEMMA ReparkFacts ==
  ASSUME NEW t, Quiet(t)
  PROVE  /\ Quiet(Repark(t)) /\ Control(Repark(t)) = Control(t)
         /\ Repark(t).wait = t.wait /\ Repark(t).wakes = t.wakes /\ Repark(t).admitted = t.admitted
         /\ Repark(t).torn = t.torn
  <1>1. CASE Repark(t) = t
    BY <1>1
  <1>2. CASE Repark(t) = Commit([t EXCEPT !.asked = TRUE, !.pool = FALSE])
    BY <1>2 DEF Commit, Stored, Quiet, Sound, Shaped, Row, Columns, Memories, Afforded, Placed,
                Watched, Paused, Spent, In, Resolved, Control
  <1> QED BY <1>1, <1>2 DEF Repark

LEMMA CancelAtCapFacts ==
  ASSUME NEW t, Shaped(t), Afforded(t), Placed(t), Paused(t), NEW ws \in SUBSET Wait,
         t.torn \/ In(t, "open") \subseteq t.watch \cup t.held \cup ws,
         ~t.backoff \/ ws \cap Resolved(t) = {}
  PROVE  /\ Quiet(CancelAtCap(t, ws)) /\ Control(CancelAtCap(t, ws)) = Control(t)
         /\ Resolved(CancelAtCap(t, ws)) = Resolved(t) \ ws
         /\ CancelAtCap(t, ws).wakes = t.wakes /\ CancelAtCap(t, ws).admitted = t.admitted
  <1> DEFINE wait == [w \in Wait |-> IF w \in ws THEN "cancelled" ELSE t.wait[w]]
             s == CancelAtCap(t, ws)
  <1>1. wait \in [Wait -> Phases]
    BY DEF Shaped, Row, Phases
  <1>2. /\ DOMAIN s = DOMAIN t
        /\ s.wait = wait /\ s.watch = t.watch \ ws /\ s.held = t.held \ ws
        /\ s.disk = [status |-> t.status, wait |-> wait, wakes |-> t.wakes,
                     failures |-> t.failures, asked |-> t.asked, charged |-> t.charged]
        /\ Control(s) = Control(t) /\ s.torn = t.torn
        /\ s.wakes = t.wakes /\ s.admitted = t.admitted /\ s.charged = t.charged
        /\ s.failures = t.failures
    BY DEF CancelAtCap, Cancelled, Disarmed, Commit, Stored, Shaped, Columns, Memories, Control
  <1>3. /\ s.flight = t.flight /\ s.session = t.session /\ s.line = t.line
        /\ s.backoff = t.backoff
    BY <1>2 DEF Control
  <1>4. Resolved(s) = Resolved(t) \ ws /\ In(s, "open") = In(t, "open") \ ws
    BY <1>2 DEF Resolved, In
  <1> HIDE DEF wait, s
  <1>5. Shaped(s)
    BY <1>1, <1>2, <1>3 DEF Shaped, Row, Columns
  <1>6. Afforded(s)
    <2>1. Spent(s) = Spent(t)
      BY <1>2, <1>3 DEF Spent
    <2>2. \A w \in s.flight.ids : t.wait[w] \notin {"none", "open"} => wait[w] \notin {"none", "open"}
      BY <1>3 DEF Shaped, Flight, wait
    <2> QED BY <2>1, <2>2, <1>2, <1>3, <1>4 DEF Afforded
  <1>7. Placed(s) /\ Watched(s)
    BY <1>2, <1>3, <1>4 DEF Placed, Watched
  <1>8. Paused(s)
    <2>1. CASE t.backoff
      BY <2>1, <1>2, <1>3, <1>4 DEF Paused, Control
    <2>2. CASE ~t.backoff
      BY <2>2, <1>3 DEF Paused
    <2> QED BY <2>1, <2>2
  <1> QED BY <1>2, <1>4, <1>5, <1>6, <1>7, <1>8 DEF s, Sound, Quiet

LEMMA RetriedFacts ==
  ASSUME NEW t, Quiet(t)
  PROVE  /\ Quiet(Retried(t)) /\ Sourced(Retried(t))
         /\ Retried(t).session = t.session /\ Retried(t).backoff = t.backoff
         /\ Resolved(Retried(t)) = Resolved(t) /\ Retried(t).line = t.line
         /\ Resolved(t) # {} => Retried(t).retry
  BY ZenonT(60) DEF Retried, Quiet, Sound, Shaped, Row, Columns, Memories, Afforded, Placed, Watched,
                  Paused, Spent, In, Resolved, Control, Sourced, Source

LEMMA CancelCappedFacts ==
  ASSUME NEW t, Quiet(t)
  PROVE  LET k == CancelCapped(t) IN
         /\ Quiet(k) /\ Control(k) = Control(t) /\ Resolved(k) \subseteq Resolved(t)
         /\ k.admitted => t.admitted
         /\ k.admitted /\ t.session = "boundary" /\ Resolved(k) \cap Charging # {} => Spent(k) < MaxWakes
  <1> DEFINE capped == Resolved(t) \cap Charging
             left   == CancelAtCap(t, capped)
             none   == [left EXCEPT !.admitted = FALSE]
  <1>1. CASE ~(Spent(t) >= MaxWakes /\ t.admitted /\ t.session = "boundary" /\ capped # {})
    <2>1. CancelCapped(t) = t
      BY <1>1 DEF CancelCapped
    <2>2. Spent(t) \in Nat
      BY DEF Spent, Quiet, Sound, Shaped, Row
    <2> QED BY RunWaitsAssumption, <1>1, <2>1, <2>2
  <1>2. CASE Spent(t) >= MaxWakes /\ t.admitted /\ t.session = "boundary" /\ capped # {}
    <2>1. ~t.backoff /\ capped \in SUBSET Wait
      BY <1>2 DEF Quiet, Paused, Resolved, In
    <2>2. /\ Quiet(left) /\ Control(left) = Control(t) /\ Resolved(left) = Resolved(t) \ capped
          /\ left.admitted = t.admitted
      BY <2>1, CancelAtCapFacts, ZenonT(60) DEF Quiet, Sound, Watched
    <2> HIDE DEF left
    <2>3. /\ Quiet(none) /\ Control(none) = Control(left) /\ Resolved(none) = Resolved(left)
          /\ none.admitted = FALSE
      BY <2>2 DEF Quiet, Sound, Shaped, Row, Columns, Memories, Afforded, Placed, Watched, Paused,
                  Spent, In, Resolved, Control
    <2> HIDE DEF none
    <2>4. Quiet(Repark(none)) /\ Control(Repark(none)) = Control(none)
          /\ Repark(none).wait = none.wait /\ Repark(none).admitted = FALSE
      BY <2>3, ReparkFacts
    <2>5. Resolved(Repark(none)) = Resolved(none)
      BY <2>4 DEF Resolved, In
    <2>6. CancelCapped(t) = IF Resolved(left) = {} THEN Repark(none) ELSE left
      BY <1>2 DEF CancelCapped, left, none
    <2>7. CASE Resolved(left) = {}
      BY <2>2, <2>3, <2>4, <2>5, <2>6, <2>7
    <2>8. CASE Resolved(left) # {}
      BY <1>2, <2>2, <2>6, <2>8
    <2> QED BY <2>7, <2>8
  <1> QED BY <1>1, <1>2

LEMMA SubmitFacts ==
  ASSUME NEW t, Quiet(t), t.session = "boundary",
         NEW ids \in SUBSET Resolved(t),
         ids \cap Charging # {} => Spent(t) < MaxWakes
  PROVE  LET s == Submit(t, ids) IN
         /\ Quiet(s) /\ Sourced(s) /\ s.flight.on /\ s.session = "turn" /\ s.line = t.line
         /\ s.backoff = t.backoff /\ s.stopping = t.stopping /\ s.fault = t.fault
         /\ s.wakes = t.wakes /\ s.wait = t.wait
         /\ s.flight.on /\ s.flight.ids = ids
         /\ s.flight.reserved <=> ids \cap Charging # {} /\ Spent(t) < MaxWakes
  <1> DEFINE s == Submit(t, ids)
  <1>1. /\ DOMAIN s = DOMAIN t
        /\ s.wait = t.wait /\ s.watch = t.watch /\ s.held = t.held /\ s.disk = t.disk
        /\ s.torn = t.torn /\ s.backoff = t.backoff /\ s.stopping = t.stopping
        /\ s.fault = t.fault
        /\ s.wakes = t.wakes /\ s.charged = t.charged /\ s.failures = t.failures
        /\ s.session = "turn" /\ s.line = t.line
        /\ s.flight = [on |-> TRUE, ids |-> ids,
                       reserved |-> ids \cap Charging # {} /\ Spent(t) < MaxWakes]
    BY DEF Submit, Resume, Quiet, Sound, Shaped, Columns, Memories
  <1> HIDE DEF s
  <1>2. ids \in SUBSET Wait /\ s.flight \in Flight
    BY <1>1 DEF Resolved, In, Flight
  <1>3. Shaped(s)
    BY <1>1, <1>2 DEF Quiet, Sound, Shaped, Row, Sessions
  <1>4. Resolved(s) = Resolved(t) /\ In(s, "open") = In(t, "open")
    BY <1>1 DEF Resolved, In
  <1> DEFINE paid == ids \cap Charging # {} /\ Spent(t) < MaxWakes
  <1>7. s.flight.on /\ s.flight.ids = ids /\ s.flight.reserved = paid
    <2>1. s.flight = [on |-> TRUE, ids |-> ids, reserved |-> paid]
      BY <1>1
    <2> HIDE DEF paid
    <2> QED BY <2>1
  <1>8. s.flight.reserved <=> paid
    <2> paid \in BOOLEAN
      OBVIOUS
    <2> HIDE DEF paid
    <2> QED BY <1>7
  <1>5. Afforded(s)
    <2>1. t.wakes \in Nat /\ t.wakes <= MaxWakes
      BY DEF Quiet, Sound, Shaped, Row
    <2>2. Spent(s) <= MaxWakes
      <3>1. CASE ids \cap Charging # {} /\ Spent(t) < MaxWakes
        <4>1. t.wakes <= Spent(t) /\ Spent(t) \in Nat
          BY <2>1 DEF Spent
        <4>2. Spent(s) <= t.wakes + 1
          BY <1>1, <2>1 DEF Spent
        <4> QED BY RunWaitsAssumption, <3>1, <4>1, <4>2, <2>1, <1>1 DEF Spent
      <3>2. CASE ~(ids \cap Charging # {} /\ Spent(t) < MaxWakes)
        <4>1. ~s.flight.reserved
          BY <1>8, <3>2
        <4> QED BY <4>1, <1>1, <2>1 DEF Spent
      <3> QED BY <3>1, <3>2
    <2>3. \A w \in ids : t.wait[w] \notin {"none", "open"}
      BY DEF Resolved, In
    <2>4. s.flight.on /\ s.flight.ids = ids
      BY <1>7
    <2>5. ids \cap Resolved(s) \cap Charging # {} => s.flight.reserved
      <3>1. ids \cap Resolved(s) \cap Charging # {} => ids \cap Charging # {} /\ Spent(t) < MaxWakes
        OBVIOUS
      <3> QED BY <1>8, <3>1
    <2> QED BY <1>1, <2>2, <2>3, <2>4, <2>5 DEF Afforded
  <1>6. Placed(s) /\ Watched(s) /\ Paused(s)
    BY <1>1, <1>4 DEF Quiet, Sound, Placed, Watched, Paused
  <1> QED BY <1>1, <1>3, <1>5, <1>6, <1>7, <1>8 DEF s, Quiet, Sound, Sourced, Source

LEMMA FlushFacts ==
  ASSUME NEW t, Quiet(t), NEW sent
  PROVE  LET f == Flush(t, sent) IN
         /\ Quiet(f) /\ (Sourced(t) => Sourced(f))
         /\ ~f.flight.on => Control(f) = Control(t)
  <1> DEFINE k == CancelCapped(t)
  <1>1. CASE ~SessionOpen(t) \/ t.stopping \/ t.fault \/ t.flight.on \/ ~Live(t)
    BY <1>1 DEF Flush
  <1>2. CASE ~(~SessionOpen(t) \/ t.stopping \/ t.fault \/ t.flight.on \/ ~Live(t))
    <2>1. /\ Quiet(k) /\ Control(k) = Control(t) /\ Resolved(k) \subseteq Resolved(t)
          /\ k.admitted /\ t.session = "boundary" /\ Resolved(k) \cap Charging # {} => Spent(k) < MaxWakes
      BY CancelCappedFacts
    <2> HIDE DEF k
    <2>2. k.session = t.session /\ k.flight = t.flight
      BY <2>1 DEF Control
    <2>3. CASE Resolved(k) # {} /\ k.admitted /\ k.session = "boundary" /\ sent
      <3>1. Flush(t, sent) = Submit(k, Resolved(k))
        BY <1>2, <2>3 DEF Flush, k
      <3> QED BY <3>1, <2>1, <2>2, <2>3, SubmitFacts
    <2>4. CASE ~(Resolved(k) # {} /\ k.admitted /\ k.session = "boundary" /\ sent)
      <3>1. Flush(t, sent) = k
        BY <1>2, <2>4 DEF Flush, k
      <3>2. Sourced(t) => Sourced(k)
        BY <2>1 DEF Sourced, Source, Live, LeftAtBoundary, Control
      <3> QED BY <3>1, <3>2, <2>1
    <2> QED BY <2>3, <2>4
  <1> QED BY <1>1, <1>2

LEMMA QueueWakeFacts ==
  ASSUME NEW t, Quiet(t), NEW sent
  PROVE  Quiet(QueueWake(t, sent)) /\ Sourced(QueueWake(t, sent))
  <1> DEFINE owed == Retried(t)
             q    == QueueWake(t, sent)
             pool == [owed EXCEPT !.admitted = TRUE, !.line = IF @ = "wake" THEN "none" ELSE @]
  <1>1. CASE ~CanQueueWake(t) \/ t.session \notin {"none", "boundary"}
    <2>1. q = t
      BY <1>1 DEF QueueWake
    <2>2. Sourced(t)
      BY <1>1 DEF CanQueueWake, Sourced, Source, Quiet, Sound, Shaped, Sessions
    <2> QED BY <2>1, <2>2
  <1>2. CASE CanQueueWake(t) /\ t.session \in {"none", "boundary"}
    <2>1. Resolved(t) # {} /\ ~t.backoff
      BY <1>2 DEF CanQueueWake
    <2>2. /\ Quiet(owed) /\ Sourced(owed) /\ ~owed.backoff /\ owed.retry
          /\ owed.session = t.session /\ owed.line = t.line
      BY <2>1, RetriedFacts
    <2> HIDE DEF owed
    <2>3. CASE t.admitted
      BY <1>2, <2>3, <2>2, FlushFacts DEF QueueWake, owed
    <2>4. CASE ~t.admitted /\ t.session = "boundary" /\ t.pool
      <3>1. Quiet(pool) /\ pool.retry
        BY <2>2 DEF Quiet, Sound, Shaped, Row, Columns, Memories, Afforded, Placed, Watched, Paused,
                    Spent, In, Resolved, Lines
      <3>2. Sourced(pool)
        BY <3>1 DEF Sourced, Source
      <3>3. q = Flush(pool, sent)
        BY <1>2, <2>4 DEF QueueWake, owed
      <3> QED BY <3>1, <3>2, <3>3, FlushFacts
    <2>5. CASE ~t.admitted /\ ~(t.session = "boundary" /\ t.pool) /\ t.line # "none"
      BY <1>2, <2>2, <2>5 DEF QueueWake, owed
    <2>6. CASE ~t.admitted /\ ~(t.session = "boundary" /\ t.pool) /\ t.line = "none"
      <3>1. CASE t.session = "boundary"
        <4> DEFINE s == [owed EXCEPT !.line = "wake"]
        <4>1. q = s
          BY <1>2, <2>6, <3>1 DEF QueueWake, owed
        <4>2. Quiet(s) /\ s.retry
          BY <2>2, <3>1 DEF Quiet, Sound, Shaped, Row, Columns, Memories, Afforded, Placed, Watched,
                      Paused, Spent, In, Resolved, Lines
        <4> QED BY <4>1, <4>2 DEF Sourced, Source
      <3>2. CASE t.session # "boundary" /\ sent
        <4> DEFINE s == Commit([owed EXCEPT !.line = "reopen", !.status = "queued"])
        <4>1. q = s
          BY <1>2, <2>6, <3>2 DEF QueueWake, owed
        <4>2. Quiet(s) /\ s.retry
          BY <1>2, <2>2, <3>2 DEF Quiet, Sound, Shaped, Row, Columns, Memories, Afforded, Placed,
                      Watched, Paused, Spent, In, Resolved, Lines, Commit, Stored
        <4> QED BY <4>1, <4>2 DEF Sourced, Source
      <3>3. CASE t.session # "boundary" /\ ~sent
        <4> DEFINE s == [owed EXCEPT !.status = "waiting"]
        <4>1. q = s
          BY <1>2, <2>6, <3>3 DEF QueueWake, owed
        <4>2. Quiet(s) /\ s.retry
          BY <2>2 DEF Quiet, Sound, Shaped, Row, Columns, Memories, Afforded, Placed,
                      Watched, Paused, Spent, In, Resolved
        <4> QED BY <4>1, <4>2 DEF Sourced, Source
      <3> QED BY <3>1, <3>2, <3>3
    <2> QED BY <2>3, <2>4, <2>5, <2>6
  <1> QED BY <1>1, <1>2

-----------------------------------------------------------------------------
(* The end of a turn.                                                      *)
LEMMA CancelOpenWaitsFacts ==
  ASSUME NEW t, Shaped(t), Afforded(t), NEW ok
  PROVE  LET s == CancelOpenWaits(t, ok) IN
         /\ Shaped(s) /\ Afforded(s) /\ Watched(s) /\ ~s.backoff
         /\ s.session = t.session /\ s.flight = t.flight /\ s.status = t.status
         /\ s.stopping = t.stopping /\ s.fault = t.fault
         /\ s.line \in {"none", t.line} \ {"wake"} /\ Resolved(s) \subseteq Resolved(t)
         /\ Listed(t) = {} => Resolved(s) = {}
  <1> DEFINE s == CancelOpenWaits(t, ok)
             listed == Listed(t)
             wait == [w \in Wait |-> IF w \in listed THEN "cancelled" ELSE t.wait[w]]
             base == IF ok THEN Commit(Cancelled(t, listed)) ELSE [t EXCEPT !.torn = @ \/ listed # {}]
  <1>1. wait \in [Wait -> Phases]
    BY DEF Shaped, Row, Phases
  <1>2. /\ DOMAIN base = DOMAIN t
        /\ base.wakes = t.wakes /\ base.charged = t.charged /\ base.failures = t.failures
        /\ base.session = t.session /\ base.flight = t.flight /\ base.status = t.status
        /\ base.stopping = t.stopping /\ base.fault = t.fault /\ base.line = t.line
        /\ Row(base.disk) /\ DOMAIN base.disk = Columns
        /\ base.wait = IF ok THEN wait ELSE t.wait
        /\ ~ok => (base.torn <=> t.torn \/ listed # {})
    <2> HIDE DEF listed
    <2>1. CASE ok
      <3> DEFINE disk == [status |-> t.status, wait |-> wait, wakes |-> t.wakes,
                          failures |-> t.failures, asked |-> t.asked, charged |-> t.charged]
      <3>1. base = Commit(Cancelled(t, listed))
        BY <2>1
      <3>2. /\ DOMAIN base = DOMAIN t
            /\ base.wakes = t.wakes /\ base.charged = t.charged /\ base.failures = t.failures
            /\ base.session = t.session /\ base.flight = t.flight /\ base.status = t.status
            /\ base.stopping = t.stopping /\ base.fault = t.fault /\ base.line = t.line
            /\ base.disk = disk /\ base.wait = wait
        BY <3>1 DEF Commit, Stored, Cancelled, Shaped, Columns, Memories
      <3>3. Row(disk) /\ DOMAIN disk = Columns
        BY <1>1 DEF Shaped, Row, Columns
      <3> QED BY <2>1, <3>2, <3>3
    <2>2. CASE ~ok
      <3> base = [t EXCEPT !.torn = @ \/ listed # {}]
        BY <2>2
      <3> QED BY <2>2 DEF Shaped, Columns, Memories
    <2> QED BY <2>1, <2>2
  <1>3. s = BestEffort([Disarmed(base, Wait) EXCEPT
                !.retry = FALSE, !.backoff = FALSE, !.failures = 0, !.admitted = FALSE,
                !.line = IF @ = "wake" THEN "none" ELSE @], ok)
    BY DEF CancelOpenWaits, DisarmedRun
  <1> HIDE DEF base, wait, s, listed
  <1>4. /\ DOMAIN s = DOMAIN t
        /\ s.wakes = base.wakes /\ s.charged = base.charged /\ s.failures = 0
        /\ s.session = base.session /\ s.flight = base.flight /\ s.status = base.status
        /\ s.stopping = base.stopping /\ s.fault = base.fault
        /\ s.line = (IF base.line = "wake" THEN "none" ELSE base.line)
        /\ s.wait = base.wait /\ s.torn = base.torn /\ ~s.backoff
        /\ s.watch = base.watch \ Wait /\ s.held = base.held \ Wait
        /\ s.disk = base.disk \/ s.disk = Stored(s)
    BY <1>2, <1>3 DEF BestEffort, Commit, Stored, Disarmed, Shaped, Columns, Memories
  <1>5. /\ s.wakes = t.wakes /\ s.charged = t.charged /\ s.failures = 0
        /\ s.session = t.session /\ s.flight = t.flight /\ s.status = t.status
        /\ s.stopping = t.stopping /\ s.fault = t.fault
        /\ s.line \in {"none", t.line} \ {"wake"}
        /\ s.wait = IF ok THEN wait ELSE t.wait
    BY <1>2, <1>4
  <1>6. s.wait \in [Wait -> Phases] /\ Resolved(s) \subseteq Resolved(t)
    BY <1>1, <1>5 DEF Shaped, Row, Resolved, In, wait
  <1>7. In(s, "open") # {} => s.torn
    <2>1. CASE ok
      BY <2>1, <1>5 DEF In, wait, listed, Listed
    <2>2. CASE ~ok
      BY <2>2, <1>2, <1>4, <1>5 DEF In, listed, Listed
    <2> QED BY <2>1, <2>2
  <1>8. listed = {} => Resolved(s) = {}
    BY <1>6 DEF listed, Listed
  <1>9. Shaped(s)
    <2>1. Row(s)
      BY <1>5, <1>6 DEF Shaped, Row
    <2>2. Row(s.disk) /\ DOMAIN s.disk = Columns
      BY <1>2, <1>4, <2>1 DEF Stored, Row, Columns
    <2>3. s.watch \subseteq Wait /\ s.held \subseteq Wait
      <3>1. s.watch = base.watch \ Wait /\ base.watch = t.watch /\ base.held = t.held
        BY <1>4 DEF base, Commit, Cancelled, Shaped, Columns, Memories
      <3> QED BY <3>1, <1>4 DEF Shaped
    <2> QED BY <1>4, <1>5, <2>1, <2>2, <2>3 DEF Shaped, Lines
  <1>10. Afforded(s)
    <2>1. Spent(s) = Spent(t)
      BY <1>5 DEF Spent
    <2>2. \A w \in s.flight.ids : t.wait[w] \notin {"none", "open"} => s.wait[w] \notin {"none", "open"}
      BY <1>5 DEF Shaped, Flight, wait
    <2> QED BY <2>1, <2>2, <1>5, <1>6 DEF Afforded
  <1>11. Watched(s)
    BY <1>7 DEF Watched
  <1> QED BY <1>4, <1>5, <1>6, <1>8, <1>9, <1>10, <1>11 DEF s, listed

LEMMA ParkFacts ==
  ASSUME NEW t, Sound(t), ~t.backoff, NEW sent
  PROVE  /\ Quiet(ParkForUser(t, sent)) /\ Sourced(ParkForUser(t, sent))
         /\ Quiet(ParkOnWaits(t, sent)) /\ Sourced(ParkOnWaits(t, sent))
  <1> DEFINE u == Commit([t EXCEPT !.status = "waiting", !.parked = TRUE, !.pool = FALSE])
             p == [t EXCEPT !.status = "waiting", !.parked = TRUE, !.pool = TRUE]
  <1>1. Quiet(u)
    BY DEF Quiet, Sound, Shaped, Row, Columns, Memories, Afforded, Placed, Watched, Paused, Spent,
           In, Resolved, Commit, Stored
  <1>2. Quiet(p)
    BY DEF Quiet, Sound, Shaped, Row, Columns, Memories, Afforded, Placed, Watched, Paused, Spent,
           In, Resolved
  <1> HIDE DEF u, p
  <1>3. ParkForUser(t, sent) = QueueWake(u, sent)
    BY DEF ParkForUser, u
  <1>4. ParkOnWaits(t, sent) = ParkForUser(t, sent) \/ ParkOnWaits(t, sent) = QueueWake(p, sent)
    BY DEF ParkOnWaits, p
  <1> QED BY <1>1, <1>2, <1>3, <1>4, QueueWakeFacts

LEMMA BestEffortFacts ==
  ASSUME NEW t, Quiet(t), NEW ok
  PROVE  Quiet(BestEffort(t, ok)) /\ (Sourced(t) => Sourced(BestEffort(t, ok)))
  BY DEF BestEffort, Commit, Stored, Quiet, Sound, Shaped, Row, Columns, Memories, Afforded, Placed,
         Watched, Paused, Spent, In, Resolved, Sourced, Source, Live, LeftAtBoundary

LEMMA DecideFacts ==
  ASSUME NEW t, Sound(t), ~t.backoff, t.session = "boundary", NEW c
  PROVE  Quiet(Decide(t, c)) /\ Sourced(Decide(t, c))
  <1>1. CASE c.done /\ Resolved(t) = {}
    <2> DEFINE s == CancelOpenWaits(t, c.ok)
               d == [s EXCEPT !.session = "done"]
    <2>1. /\ Shaped(s) /\ Afforded(s) /\ Watched(s) /\ ~s.backoff
          /\ s.flight = t.flight /\ s.line \in {"none", t.line}
      BY CancelOpenWaitsFacts DEF Sound
    <2> HIDE DEF s
    <2>2. d.session = "done" /\ s.line \notin {"reopen", "restart"}
      BY <2>1 DEF Shaped, Memories, Sound, Placed
    <2>3. Quiet(d)
      BY <2>1, <2>2 DEF Quiet, Sound, Shaped, Row, Columns, Memories, Afforded, Placed, Watched,
             Paused, Spent, In, Resolved, Sessions
    <2>4. Decide(t, c) = d
      BY <1>1 DEF Decide, s
    <2> QED BY <2>2, <2>3, <2>4 DEF Sourced, Source
  <1>2. CASE ~(c.done /\ Resolved(t) = {}) /\ (Listed(t) # {} \/ t.asked)
    BY <1>2, ParkFacts DEF Decide
  <1>3. CASE ~(c.done /\ Resolved(t) = {}) /\ ~(Listed(t) # {} \/ t.asked)
    <2>1. CASE Spent(t) < MaxWakes /\ c.nudge /\ c.sent
      <3> DEFINE s == Submit(t, {})
                 n == [s EXCEPT !.wakes = @ + 1]
      <3>1. Quiet(t) /\ {} \in SUBSET Resolved(t) /\ ({} \cap Charging # {} => Spent(t) < MaxWakes)
        BY DEF Quiet, Paused
      <3>2. /\ Quiet(s) /\ s.flight.on /\ s.session = "turn" /\ s.line = t.line
            /\ ~s.backoff /\ s.wakes = t.wakes /\ s.wait = t.wait /\ s.flight.ids = {}
            /\ s.flight.reserved <=> {} \cap Charging # {} /\ Spent(t) < MaxWakes
        BY <3>1, SubmitFacts
      <3> HIDE DEF s
      <3>3. ~s.flight.reserved
        BY <3>2
      <3>4. t.wakes + 1 <= MaxWakes /\ t.wakes \in Nat
        BY RunWaitsAssumption, <2>1 DEF Spent, Sound, Shaped, Row
      <3>5. /\ DOMAIN n = DOMAIN s /\ n.wakes = t.wakes + 1 /\ n.wait = s.wait
            /\ n.charged = s.charged /\ n.failures = s.failures /\ n.disk = s.disk
            /\ n.session = "turn" /\ n.line = s.line /\ n.flight = s.flight
            /\ n.watch = s.watch /\ n.held = s.held /\ n.torn = s.torn /\ n.backoff = s.backoff
        BY <3>2 DEF Quiet, Sound, Shaped, Columns, Memories
      <3> HIDE DEF n
      <3>6. Shaped(n)
        BY <3>2, <3>4, <3>5 DEF Quiet, Sound, Shaped, Row
      <3>7. Afforded(n)
        BY <3>2, <3>3, <3>4, <3>5 DEF Afforded, Spent
      <3>8. Placed(n) /\ Watched(n) /\ Paused(n) /\ Sourced(n)
        BY <3>2, <3>5 DEF Quiet, Sound, Placed, Watched, Paused, Sourced, Source, In
      <3>9. Decide(t, c) = BestEffort(n, c.ok)
        BY <1>3, <2>1 DEF Decide, Nudge, n, s
      <3> QED BY <3>6, <3>7, <3>8, <3>9, BestEffortFacts DEF Quiet, Sound
    <2>2. CASE ~(Spent(t) < MaxWakes /\ c.nudge /\ c.sent)
      <3> DEFINE a == IF c.ok THEN Commit([t EXCEPT !.asked = TRUE]) ELSE t
      <3>1. Sound(a) /\ ~a.backoff
        BY DEF Sound, Shaped, Row, Columns, Memories, Afforded, Placed, Watched, Spent,
               In, Resolved, Commit, Stored
      <3>2. Decide(t, c) = ParkForUser(a, c.sent)
        BY <1>3, <2>2 DEF Decide, Ask
      <3> QED BY <3>1, <3>2, ParkFacts
    <2> QED BY <2>1, <2>2
  <1> QED BY <1>1, <1>2, <1>3

LEMMA EndTurnFacts ==
  ASSUME NEW t, Quiet(t), t.session = "turn", NEW c
  PROVE  Quiet(EndTurn(t, c)) /\ Sourced(EndTurn(t, c))
  <1> DEFINE b == [t EXCEPT !.session = "boundary"]
             tried == Flush(b, c.sent)
  <1>1. Quiet(b) /\ b.session = "boundary" /\ ~b.backoff
    BY DEF Quiet, Sound, Shaped, Row, Columns, Memories, Afforded, Placed, Watched, Paused, Spent,
           In, Resolved, Sessions
  <1>2. EndTurn(t, c) = IF tried.flight.on THEN tried ELSE Decide(tried, c)
    BY DEF EndTurn
  <1> HIDE DEF b
  <1>3. Quiet(tried) /\ (~tried.flight.on => Control(tried) = Control(b))
    BY <1>1, FlushFacts
  <1> HIDE DEF tried
  <1>4. CASE tried.flight.on
    BY <1>2, <1>3, <1>4 DEF Sourced, Source
  <1>5. CASE ~tried.flight.on
    <2>1. tried.session = "boundary" /\ ~tried.backoff
      BY <1>1, <1>3, <1>5 DEF Control
    <2> QED BY <1>2, <1>3, <1>5, <2>1, DecideFacts DEF Quiet
  <1> QED BY <1>4, <1>5

LEMMA SettleIdleFacts ==
  ASSUME NEW t, Quiet(t), Sourced(t), NEW c
  PROVE  Quiet(SettleIdle(t, c)) /\ Sourced(SettleIdle(t, c))
  <1>1. CASE t.session = "boundary" /\ ~t.fault /\ Resolved(t) = {} /\ ~t.parked
    <2>1. ~t.backoff /\ Sound(t)
      BY <1>1 DEF Quiet, Paused
    <2> QED BY <1>1, <2>1, DecideFacts DEF SettleIdle
  <1>2. CASE ~(t.session = "boundary" /\ ~t.fault /\ Resolved(t) = {} /\ ~t.parked)
    BY <1>2 DEF SettleIdle
  <1> QED BY <1>1, <1>2

(* The receipt of a batch that carries a wait to charge turns the          *)
(* reservation into the charge.                                            *)
LEMMA ReceivedFacts ==
  ASSUME NEW t, Quiet(t), t.flight.on
  PROVE  Quiet(Received(t)) /\ Sourced(Received(t))
  <1> DEFINE ids == t.flight.ids \cap Resolved(t)
             wait == [w \in Wait |-> IF w \in ids THEN "delivered" ELSE t.wait[w]]
             charged == IF ids \cap Charging # {} THEN t.charged + 1 ELSE t.charged
             d == Spend(Deliver(t, ids))
             s == IF ids = {} THEN t ELSE d
             r == Received(t)
  <1>1. t.session # "none" /\ ~t.backoff
    BY DEF Quiet, Sound, Placed, Paused
  <1>2. /\ DOMAIN d = DOMAIN t
        /\ d.wait = wait /\ d.charged = charged /\ d.wakes = Charge(t) /\ d.failures = 0
        /\ d.session = t.session /\ d.line = t.line /\ d.backoff = t.backoff
        /\ d.watch = t.watch /\ d.held = t.held /\ d.torn = t.torn
        /\ d.disk = [status |-> "running", wait |-> wait, wakes |-> Charge(t), failures |-> 0,
                     asked |-> t.asked, charged |-> charged]
    BY ZenonT(60) DEF Spend, Deliver, Commit, Stored, Quiet, Sound, Shaped, Columns, Memories
  <1>3. Row(d) /\ Row(d.disk) /\ DOMAIN d.disk = Columns
    <2>1. wait \in [Wait -> Phases]
      BY DEF Quiet, Sound, Shaped, Row, Phases
    <2>2. Charge(t) \in Nat /\ Charge(t) <= MaxWakes /\ t.wakes <= Charge(t)
      BY DEF Charge, Quiet, Sound, Shaped, Row, Afforded, Spent
    <2>3. ids \cap Charging # {} => Charge(t) = t.wakes + 1
      BY DEF Charge, Quiet, Sound, Afforded
    <2>4. charged \in Nat /\ charged <= Charge(t)
      BY <2>2, <2>3 DEF Quiet, Sound, Shaped, Row
    <2> HIDE DEF wait, charged, d
    <2> QED BY <1>2, <2>1, <2>2, <2>4 DEF Row, Columns
  <1>4. In(d, "open") \subseteq In(t, "open")
    BY <1>2 DEF In
  <1> HIDE DEF d, wait, charged
  <1>5. /\ DOMAIN s = DOMAIN t /\ Row(s) /\ Row(s.disk) /\ DOMAIN s.disk = Columns
        /\ s.session = t.session /\ s.line = t.line /\ s.backoff = t.backoff
        /\ s.watch = t.watch /\ s.held = t.held /\ s.torn = t.torn
        /\ In(s, "open") \subseteq In(t, "open")
    BY <1>2, <1>3, <1>4 DEF Quiet, Sound, Shaped
  <1>6. r = [s EXCEPT !.flight = NoFlight, !.late = t.session = "boundary"]
    BY DEF Received, d
  <1> HIDE DEF s, r
  <1>7. /\ DOMAIN r = DOMAIN t /\ r.flight = NoFlight /\ (r.late <=> t.session = "boundary")
        /\ r.wait = s.wait /\ r.wakes = s.wakes /\ r.charged = s.charged
        /\ r.failures = s.failures /\ r.disk = s.disk
        /\ r.session = t.session /\ r.line = t.line /\ r.backoff = t.backoff
        /\ r.watch = t.watch /\ r.held = t.held /\ r.torn = t.torn
    BY <1>5, <1>6 DEF Quiet, Sound, Shaped, Columns, Memories
  <1>8. Shaped(r)
    BY <1>5, <1>7 DEF Quiet, Sound, Shaped, Row, NoFlight, Flight
  <1>9. Afforded(r)
    BY <1>5, <1>7 DEF Afforded, Spent, NoFlight, Row
  <1>10. Placed(r) /\ Watched(r) /\ Paused(r)
    BY <1>1, <1>5, <1>7 DEF Quiet, Sound, Placed, Watched, Paused, In, NoFlight
  <1>11. Sourced(r)
    BY <1>1, <1>7, <1>8 DEF Sourced, Source, Shaped, Sessions, LeftAtBoundary
  <1> QED BY <1>8, <1>9, <1>10, <1>11 DEF r, Quiet, Sound

LEMMA AcknowledgedFacts ==
  ASSUME NEW t, Quiet(t), t.flight.on, NEW c
  PROVE  Quiet(Acknowledged(t, c)) /\ Sourced(Acknowledged(t, c))
  <1> DEFINE flushed == Flush(Received(t), c.sent)
  <1>1. Quiet(flushed) /\ Sourced(flushed)
    BY ReceivedFacts, FlushFacts
  <1>2. CASE t.stopping
    <2> DEFINE s == [t EXCEPT !.flight = NoFlight]
    <2>1. Acknowledged(t, c) = s
      BY <1>2 DEF Acknowledged
    <2>2. Quiet(s) /\ s.stopping
      BY <1>2 DEF Quiet, Sound, Shaped, Row, Columns, Memories, Afforded, Placed, Watched, Paused,
             Spent, In, Resolved, NoFlight, Flight
    <2> QED BY <2>1, <2>2 DEF Sourced, Source
  <1>3. CASE ~t.stopping /\ flushed.flight.on
    BY <1>1, <1>3 DEF Acknowledged
  <1>4. CASE ~t.stopping /\ ~flushed.flight.on
    BY <1>1, <1>4, SettleIdleFacts DEF Acknowledged
  <1> QED BY <1>2, <1>3, <1>4

(* What the close of a session leaves to dropActive().                     *)
Closing(t) ==
  /\ Shaped(t) /\ Afforded(t) /\ Watched(t)
  /\ t.line \in {"none", "wake"} /\ ~t.flight.on
  /\ t.backoff => t.status = "waiting" /\ Resolved(t) # {}

LEMMA DroppedFacts ==
  ASSUME NEW t, Closing(t)
  PROVE  Quiet(Dropped(t)) /\ Resolved(Dropped(t)) = Resolved(t)
  BY DEF Dropped, Closing, Quiet, Sound, Shaped, Row, Columns, Memories, Afforded, Placed, Watched,
         Paused, Spent, In, Resolved, Lines, Sessions

LEMMA FailedDeliveryFacts ==
  ASSUME NEW t, Closing(t), Resolved(t) # {}, ~t.backoff, NEW ok
  PROVE  Closing(FailedDelivery(t, ok))
  <1>1. Closing(GiveUp(t, ok))
    BY DEF GiveUp, BestEffort, Commit, Stored, Closing, Shaped, Row, Columns, Memories, Afforded,
           Watched, Spent, In, Resolved
  <1>2. Closing(PutOff(t, ok))
    BY DEF PutOff, BestEffort, Commit, Stored, Closing, Shaped, Row, Columns, Memories, Afforded,
           Watched, Spent, In, Resolved
  <1> QED BY <1>1, <1>2 DEF FailedDelivery

LEMMA TerminalFacts ==
  ASSUME NEW t, Closing(t), NEW status, NEW ok
  PROVE  Closing(Terminal(t, status, ok))
  <1> DEFINE u == [t EXCEPT !.status = status]
  <1>1. Shaped(u) /\ Afforded(u) /\ u.line = t.line /\ u.flight = t.flight
    BY DEF Closing, Shaped, Row, Columns, Memories, Afforded, Spent, In, Resolved
  <1> HIDE DEF u
  <1> QED BY <1>1, CancelOpenWaitsFacts DEF Terminal, Closing, u

LEMMA ClosedFacts ==
  ASSUME NEW t, Quiet(t), t.session \in {"dead", "idle", "done"}, ~t.flight.on, NEW c
  PROVE  Closing(Closed(t, c))
  <1> DEFINE quiet == IF t.asked /\ c.withdrawn THEN Commit([t EXCEPT !.asked = FALSE]) ELSE t
  <1>1. Closing(quiet) /\ ~quiet.backoff
    BY DEF Quiet, Sound, Closing, Placed, Paused, Commit, Stored, Shaped, Row, Columns, Memories,
           Afforded, Watched, Spent, In, Resolved, Lines
  <1>2. \/ \E status : Closed(t, c) = Terminal(quiet, status, c.ok)
        \/ Resolved(quiet) # {} /\ Closed(t, c) = FailedDelivery(quiet, c.ok)
        \/ Closed(t, c) = [quiet EXCEPT !.status = "waiting"]
    BY ClosedCases
  <1> HIDE DEF quiet
  <1>3. Closing([quiet EXCEPT !.status = "waiting"])
    BY <1>1 DEF Closing, Shaped, Row, Columns, Memories, Afforded, Watched, Spent, In, Resolved
  <1> QED BY <1>1, <1>2, <1>3, TerminalFacts, FailedDeliveryFacts

-----------------------------------------------------------------------------
(* A process that starts: Init, and the recovery.                          *)
LEMMA RecordedFacts ==
  ASSUME NEW r, Row(r), DOMAIN r = Columns,
         NEW memory, DOMAIN memory = Memories, memory.session \in Sessions, memory.line = "none",
         memory.flight = NoFlight, memory.watch = {}, memory.held = {}, memory.backoff = FALSE
  PROVE  LET t == Recorded(r, memory) IN
         /\ Shaped(t) /\ Afforded(t) /\ Placed(t) /\ ~t.backoff
         /\ t.session = memory.session /\ t.wait = r.wait /\ t.line = "none" /\ ~t.flight.on
  <1> DEFINE t == Recorded(r, memory)
  <1>1. /\ DOMAIN t = Columns \cup Memories \cup {"disk"}
        /\ t.disk = r /\ t.wait = r.wait /\ t.wakes = r.wakes /\ t.charged = r.charged
        /\ t.failures = r.failures
        /\ t.session = memory.session /\ t.line = "none" /\ t.flight = NoFlight
        /\ t.watch = {} /\ t.held = {} /\ t.backoff = FALSE
    BY DEF Recorded, Columns, Memories
  <1> HIDE DEF t
  <1>2. Shaped(t)
    BY <1>1 DEF Shaped, Row, Lines, Flight, NoFlight
  <1>3. Afforded(t)
    BY <1>1 DEF Afforded, Spent, Row, NoFlight
  <1>4. Placed(t)
    BY <1>1 DEF Placed, NoFlight
  <1> QED BY <1>1, <1>2, <1>3, <1>4 DEF NoFlight, t

LEMMA ForgottenFacts ==
  ASSUME NEW session
  PROVE  LET m == [Forgotten EXCEPT !.session = session] IN
         /\ DOMAIN m = Memories /\ m.session = session /\ m.line = "none" /\ m.flight = NoFlight
         /\ m.watch = {} /\ m.held = {} /\ m.backoff = FALSE
  BY DEF Forgotten, Memories

LEMMA RecoveredFacts ==
  ASSUME NEW r, Row(r), DOMAIN r = Columns, NEW sent
  PROVE  LET s == Recovered(Recorded(r, Forgotten), sent) IN Quiet(s) /\ Sourced(s)
  <1> DEFINE t == Recorded(r, Forgotten)
             armed == [t EXCEPT !.watch = In(t, "open")]
             s == Recovered(t, sent)
  <1>1. /\ Shaped(t) /\ Afforded(t) /\ Placed(t) /\ ~t.backoff
        /\ t.session = "none" /\ t.line = "none" /\ ~t.flight.on
    <2>1. /\ DOMAIN Forgotten = Memories /\ Forgotten.session = "none" /\ Forgotten.line = "none"
          /\ Forgotten.flight = NoFlight /\ Forgotten.watch = {} /\ Forgotten.held = {}
          /\ Forgotten.backoff = FALSE
      BY DEF Forgotten, Memories
    <2> QED BY <2>1, RecordedFacts DEF Sessions
  <1> HIDE DEF t
  <1>3. Quiet(armed) /\ Resolved(armed) = Resolved(t) /\ armed.status = t.status
    BY <1>1 DEF Quiet, Sound, Shaped, Row, Columns, Memories, Afforded, Placed, Watched, Paused,
           Spent, In, Resolved
  <1>4. Listed(t) = {} => Resolved(t) = {} /\ Watched(t)
    BY DEF Listed, Watched
  <1> DEFINE ended == ~Live(t) /\ ~(t.status = "failed" /\ Resolved(t) # {})
  <1>5. s = CASE Live(t) /\ Listed(t) # {} -> QueueWake([armed EXCEPT !.status = "waiting"], sent)
              [] Live(t) /\ Listed(t) = {} /\ t.status # "waiting" ->
                   Commit([t EXCEPT !.status = "queued", !.line = "restart"])
              [] t.status = "failed" /\ Resolved(t) # {} -> armed
              [] ended -> CancelOpenWaits(t, TRUE)
              [] OTHER -> t
    BY DEF Recovered
  <1>6. Live(t) => t.status # "failed"
    BY DEF Live
  <1> HIDE DEF armed, s
  <1>7. CASE Live(t) /\ Listed(t) # {}
    <2> DEFINE u == [armed EXCEPT !.status = "waiting"]
    <2>1. s = QueueWake(u, sent)
      BY <1>5, <1>6, <1>7
    <2>2. Quiet(u)
      BY <1>3 DEF Quiet, Sound, Shaped, Row, Columns, Memories, Afforded, Placed, Watched, Paused,
             Spent, In, Resolved
    <2> QED BY <2>1, <2>2, QueueWakeFacts DEF s, t
  <1>8. CASE Live(t) /\ Listed(t) = {} /\ t.status # "waiting"
    <2>1. s = Commit([t EXCEPT !.status = "queued", !.line = "restart"])
      BY <1>5, <1>6, <1>8
    <2>2. Quiet(s) /\ Resolved(s) = Resolved(t)
      BY <1>1, <1>4, <1>8, <2>1 DEF Quiet, Sound, Shaped, Row, Columns, Memories, Afforded, Placed,
             Watched, Paused, Spent, In, Resolved, Commit, Stored, Lines
    <2> QED BY <1>4, <1>8, <2>2 DEF Sourced, s, t
  <1>9. CASE t.status = "failed" /\ Resolved(t) # {}
    <2>1. s = armed
      BY <1>5, <1>6, <1>9
    <2> QED BY <1>3, <1>6, <1>9, <2>1 DEF Sourced, Live, s, t
  <1>10. CASE ended
    <2>1. s = CancelOpenWaits(t, TRUE)
      BY <1>5, <1>6, <1>10
    <2>2. /\ Shaped(s) /\ Afforded(s) /\ Watched(s) /\ ~s.backoff /\ s.session = "none"
          /\ s.flight = t.flight /\ s.status = t.status
      BY <1>1, <2>1, CancelOpenWaitsFacts
    <2> QED BY <1>1, <1>10, <2>2 DEF Quiet, Sound, Placed, Paused, Sourced, Live, s, t
  <1>11. CASE Live(t) /\ Listed(t) = {} /\ t.status = "waiting"
    <2>1. s = t
      BY <1>5, <1>6, <1>11
    <2> QED BY <1>1, <1>4, <1>11, <2>1 DEF Quiet, Sound, Paused, Sourced, s, t
  <1> QED BY <1>6, <1>7, <1>8, <1>9, <1>10, <1>11 DEF s

LEMMA InitInv == Init => WaitInv
  <1> SUFFICES ASSUME Init PROVE WaitInv
    OBVIOUS
  <1> DEFINE r == [status |-> "running", wait |-> [w \in Wait |-> "none"], wakes |-> 0,
                   failures |-> 0, asked |-> FALSE, charged |-> 0]
  <1>1. Row(r) /\ DOMAIN r = Columns
    BY RunWaitsAssumption DEF Row, Columns, Phases
  <1>2. run = Recorded(r, [Forgotten EXCEPT !.session = "turn"])
    BY DEF Init
  <1>3. r.wait = [w \in Wait |-> "none"]
    OBVIOUS
  <1> HIDE DEF r
  <1>4. /\ Shaped(run) /\ Afforded(run) /\ Placed(run) /\ ~run.backoff
        /\ run.session = "turn" /\ run.wait = [w \in Wait |-> "none"]
    <2> DEFINE m == [Forgotten EXCEPT !.session = "turn"]
    <2>1. /\ DOMAIN m = Memories /\ m.session = "turn" /\ m.line = "none" /\ m.flight = NoFlight
          /\ m.watch = {} /\ m.held = {} /\ m.backoff = FALSE
      BY ForgottenFacts
    <2>2. run = Recorded(r, m)
      BY <1>2
    <2> HIDE DEF m
    <2>3. m.session \in Sessions
      BY <2>1 DEF Sessions
    <2> QED BY <1>1, <1>3, <2>1, <2>2, <2>3, RecordedFacts, ZenonT(60)
  <1>5. Watched(run)
    BY <1>4 DEF Watched, In
  <1> QED BY <1>4, <1>5 DEF WaitInv, Sound, Paused, Sourced, Source

-----------------------------------------------------------------------------
(* The steps.                                                              *)
LEMMA AnsweredFacts ==
  ASSUME NEW t, Quiet(t), t.line \notin {"reopen", "restart"}, t.session # "none" \/ ~t.backoff,
         NEW ok
  PROVE  LET a == Answered(t, ok) IN
         Quiet(a) /\ a.session = t.session /\ a.line = t.line /\ a.backoff = t.backoff
  <1> DEFINE u == [t EXCEPT !.asked = FALSE, !.wakes = 0, !.charged = 0, !.failures = 0]
  <1>1. Quiet(u) /\ u.session = t.session /\ u.line = t.line /\ u.backoff = t.backoff
    BY RunWaitsAssumption DEF Quiet, Sound, Shaped, Row, Columns, Memories, Afforded, Placed,
                              Watched, Paused, Spent, In, Resolved
  <1> HIDE DEF u
  <1>2. Quiet(Commit(u)) /\ Commit(u).session = u.session /\ Commit(u).line = u.line
        /\ Commit(u).backoff = u.backoff
    BY <1>1 DEF Quiet, Sound, Shaped, Row, Columns, Memories, Afforded, Placed, Watched, Paused,
           Spent, In, Resolved, Commit, Stored
  <1>3. Answered(t, ok) = Commit(u) \/ Answered(t, ok) = u
    BY DEF Answered, BestEffort, u
  <1> QED BY <1>1, <1>2, <1>3

LEMMA OpenWaitStep ==
  ASSUME WaitInv, NEW w \in Wait, NEW withdrawn, NEW ok, NEW sent, OpenWait(w, withdrawn, ok, sent)
  PROVE  WaitInv'
  <1> DEFINE quiet == IF run.asked /\ withdrawn THEN Commit([run EXCEPT !.asked = FALSE]) ELSE run
             armed == [Commit([quiet EXCEPT !.wait[w] = "open"]) EXCEPT !.watch = @ \cup {w}]
  <1>1. /\ run.wait[w] = "none" /\ SessionOpen(run)
        /\ run' = IF ~ok THEN quiet
                  ELSE IF run.session = "boundary" \/ run.parked THEN ParkOnWaits(armed, sent)
                  ELSE armed
    BY DEF OpenWait
  <1>2. ~run.backoff /\ Quiet(run) /\ Sourced(run)
    BY <1>1 DEF WaitInv, Quiet, Paused, SessionOpen
  <1>3. /\ Quiet(quiet) /\ Sourced(quiet) /\ quiet.wait = run.wait /\ ~quiet.backoff
        /\ quiet.session = run.session
    BY <1>2 DEF Quiet, Sound, Shaped, Row, Columns, Memories, Afforded, Placed, Watched, Paused,
           Spent, In, Resolved, Commit, Stored, Sourced, Source, Live, LeftAtBoundary
  <1> HIDE DEF quiet
  <1>4. /\ DOMAIN armed = DOMAIN quiet /\ armed.wait = [quiet.wait EXCEPT ![w] = "open"]
        /\ armed.wakes = quiet.wakes /\ armed.charged = quiet.charged
        /\ armed.failures = quiet.failures
        /\ armed.session = quiet.session /\ armed.line = quiet.line
        /\ armed.flight = quiet.flight /\ armed.watch = quiet.watch \cup {w}
        /\ armed.held = quiet.held /\ armed.torn = quiet.torn /\ armed.backoff = quiet.backoff
        /\ armed.disk = [status |-> quiet.status, wait |-> [quiet.wait EXCEPT ![w] = "open"],
                         wakes |-> quiet.wakes, failures |-> quiet.failures,
                         asked |-> quiet.asked, charged |-> quiet.charged]
    BY <1>3 DEF Quiet, Sound, Shaped, Columns, Memories, Commit, Stored
  <1> HIDE DEF armed
  <1>5. Shaped(armed)
    <2>1. armed.wait \in [Wait -> Phases]
      BY <1>3, <1>4 DEF Quiet, Sound, Shaped, Row, Phases
    <2> QED BY <1>3, <1>4, <2>1 DEF Quiet, Sound, Shaped, Row, Columns
  <1>6. /\ Resolved(armed) = Resolved(quiet) /\ In(armed, "open") = In(quiet, "open") \cup {w}
        /\ \A x \in Wait \ {w} : armed.wait[x] = quiet.wait[x]
    BY <1>1, <1>3, <1>4 DEF Quiet, Sound, Shaped, Row, Resolved, In
  <1>7. Afforded(armed)
    <2>1. Spent(armed) = Spent(quiet)
      BY <1>4 DEF Spent
    <2>2. armed.flight.on => \A x \in armed.flight.ids : armed.wait[x] \notin {"none", "open"}
      BY <1>1, <1>3, <1>4, <1>6 DEF Quiet, Sound, Shaped, Flight, Afforded
    <2> QED BY <2>1, <2>2, <1>3, <1>4, <1>6 DEF Quiet, Sound, Afforded
  <1>8. Placed(armed) /\ Watched(armed) /\ Paused(armed)
    BY <1>3, <1>4, <1>6 DEF Quiet, Sound, Placed, Watched, Paused
  <1>9. CASE ok /\ ~(run.session = "boundary" \/ run.parked)
    <2>1. run' = armed
      BY <1>1, <1>9
    <2>2. armed.session = "turn"
      BY <1>1, <1>3, <1>4, <1>9 DEF SessionOpen
    <2> QED BY <2>1, <2>2, <1>5, <1>7, <1>8 DEF WaitInv, Sound, Sourced, Source
  <1>10. CASE ok /\ (run.session = "boundary" \/ run.parked)
    <2>1. run' = ParkOnWaits(armed, sent)
      BY <1>1, <1>10
    <2>2. Sound(armed) /\ ~armed.backoff
      BY <1>3, <1>4, <1>5, <1>7, <1>8 DEF Sound
    <2> QED BY <2>1, <2>2, ParkFacts DEF WaitInv, Quiet
  <1>11. CASE ~ok
    <2>1. run' = quiet
      BY <1>1, <1>11
    <2> QED BY <2>1, <1>3 DEF WaitInv, Quiet
  <1> QED BY <1>9, <1>10, <1>11

LEMMA ResolveStep ==
  ASSUME WaitInv, NEW w \in Wait, NEW ok, NEW sent, Resolve(w, ok, sent)
  PROVE  WaitInv'
  <1> DEFINE fired == Disarmed(run, {w})
             owed  == [fired EXCEPT !.wait[w] = "resolved"]
             left  == CancelAtCap(fired, {w})
             asked == Commit([left EXCEPT !.asked = TRUE])
             capped == w \in Charging /\ Spent(run) >= MaxWakes
  <1>1. Quiet(run) /\ Sourced(run)
    BY DEF WaitInv, Quiet
  <1>2. /\ DOMAIN fired = DOMAIN run /\ fired.wait = run.wait /\ fired.wakes = run.wakes
        /\ fired.charged = run.charged /\ fired.failures = run.failures /\ fired.disk = run.disk
        /\ Control(fired) = Control(run) /\ fired.torn = run.torn
        /\ fired.watch = run.watch \ {w} /\ fired.held = run.held \ {w}
    BY <1>1 DEF Disarmed, Quiet, Sound, Shaped, Columns, Memories, Control
  <1>3. /\ fired.flight = run.flight /\ fired.session = run.session /\ fired.line = run.line
        /\ fired.backoff = run.backoff /\ fired.status = run.status
    BY <1>2 DEF Control
  <1>4. /\ run' = IF run.wait[w] # "open" THEN fired
                  ELSE IF ~ok THEN Kept(fired, w)
                  ELSE IF ~capped THEN QueueWake(Commit(owed), sent)
                  ELSE IF run.session # "none" THEN Repark(left)
                  ELSE IF run.status = "waiting" /\ Listed(left) = {} THEN asked ELSE left
    BY DEF Resolve
  <1> HIDE DEF fired
  <1>5. Shaped(fired) /\ Afforded(fired) /\ Placed(fired) /\ Paused(fired) /\ Sourced(fired)
    <2>1. Resolved(fired) = Resolved(run) /\ Spent(fired) = Spent(run)
      BY <1>2, <1>3 DEF Resolved, In, Spent
    <2>2. Shaped(fired)
      BY <1>1, <1>2, <1>3 DEF Quiet, Sound, Shaped, Row
    <2>3. Afforded(fired) /\ Placed(fired) /\ Paused(fired)
      BY <1>1, <1>2, <1>3, <2>1 DEF Quiet, Sound, Afforded, Placed, Paused
    <2>4. Sourced(fired)
      BY <1>1, <1>2, <2>1 DEF Sourced, Source, Live, LeftAtBoundary, Control
    <2> QED BY <2>2, <2>3, <2>4
  <1>6. fired.torn \/ In(fired, "open") \subseteq fired.watch \cup fired.held \cup {w}
    BY <1>1, <1>2 DEF Quiet, Sound, Watched, In
  <1>7. CASE run.wait[w] # "open"
    <2>1. Watched(fired)
      BY <1>2, <1>6, <1>7 DEF Watched, In
    <2> QED BY <1>4, <1>5, <1>7, <2>1 DEF WaitInv, Sound
  <1>8. CASE run.wait[w] = "open" /\ ~ok
    <2> DEFINE kept == Kept(fired, w)
    <2>1. Quiet(kept) /\ Sourced(kept)
      BY <1>5, <1>6 DEF Kept, Quiet, Sound, Shaped, Row, Columns, Memories, Afforded, Placed,
             Watched, Paused, Spent, In, Resolved, Sourced, Source, Live, LeftAtBoundary
    <2>2. run' = kept
      BY <1>4, <1>8
    <2> QED BY <2>1, <2>2 DEF WaitInv, Quiet
  <1>9. CASE run.wait[w] = "open" /\ ok /\ ~capped
    <2> DEFINE s == Commit(owed)
    <2>1. /\ DOMAIN s = DOMAIN fired /\ s.wait = [fired.wait EXCEPT ![w] = "resolved"]
          /\ s.wakes = fired.wakes /\ s.charged = fired.charged /\ s.failures = fired.failures
          /\ s.session = fired.session /\ s.line = fired.line /\ s.status = fired.status
          /\ s.flight = fired.flight /\ s.watch = fired.watch /\ s.held = fired.held
          /\ s.torn = fired.torn /\ s.backoff = fired.backoff
          /\ s.disk = [status |-> fired.status, wait |-> [fired.wait EXCEPT ![w] = "resolved"],
                       wakes |-> fired.wakes, failures |-> fired.failures,
                       asked |-> fired.asked, charged |-> fired.charged]
      BY <1>5 DEF Commit, Stored, Shaped, Columns, Memories
    <2>2. run' = QueueWake(s, sent)
      BY <1>4, <1>9
    <2> HIDE DEF s
    <2>3. fired.wait \in [Wait -> Phases] /\ s.wait \in [Wait -> Phases]
      BY <1>5, <2>1 DEF Shaped, Row, Phases
    <2>4. /\ Resolved(s) = Resolved(fired) \cup {w} /\ In(s, "open") = In(fired, "open") \ {w}
          /\ \A x \in Wait \ {w} : s.wait[x] = fired.wait[x]
      BY <1>2, <1>9, <2>1, <2>3 DEF Resolved, In
    <2>5. Shaped(s)
      BY <1>5, <2>1, <2>3 DEF Shaped, Row, Columns
    <2>6. Afforded(s)
      <3>1. Spent(s) = Spent(fired)
        BY <2>1 DEF Spent
      <3>2. s.flight.on => w \notin s.flight.ids
        BY <1>2, <1>5, <1>9, <2>1 DEF Afforded
      <3>3. s.flight.on => \A x \in s.flight.ids : s.wait[x] \notin {"none", "open"}
        BY <1>5, <2>1, <2>4, <3>2 DEF Shaped, Flight, Afforded
      <3> QED BY <1>5, <2>1, <2>4, <3>1, <3>2, <3>3 DEF Afforded
    <2>7. Placed(s) /\ Watched(s) /\ Paused(s)
      BY <1>5, <1>6, <2>1, <2>4 DEF Placed, Watched, Paused
    <2> QED BY <2>2, <2>5, <2>6, <2>7, QueueWakeFacts DEF WaitInv, Quiet, Sound
  <1>10. CASE run.wait[w] = "open" /\ ok /\ capped
    <2>1. Resolved(fired) = Resolved(run) /\ {w} \cap Resolved(fired) = {}
      BY <1>2, <1>10 DEF Resolved, In
    <2>2. /\ Quiet(left) /\ Control(left) = Control(fired)
          /\ Resolved(left) = Resolved(fired) \ {w}
      BY <1>5, <1>6, <2>1, CancelAtCapFacts
    <2> HIDE DEF left
    <2>3. Sourced(left)
      BY <1>5, <2>1, <2>2 DEF Sourced, Source, Live, LeftAtBoundary, Control
    <2>4. Quiet(Repark(left)) /\ Sourced(Repark(left))
      <3>1. /\ Quiet(Repark(left)) /\ Control(Repark(left)) = Control(left)
            /\ Repark(left).wait = left.wait
        BY <2>2, ReparkFacts
      <3> QED BY <2>3, <3>1 DEF Sourced, Source, Live, LeftAtBoundary, Control, Resolved, In
    <2>5. Quiet(asked) /\ Sourced(asked)
      BY <2>2, <2>3 DEF Quiet, Sound, Shaped, Row, Columns, Memories, Afforded, Placed, Watched,
             Paused, Spent, In, Resolved, Commit, Stored, Sourced, Source, Live, LeftAtBoundary
    <2>6. run' = Repark(left) \/ run' = asked \/ run' = left
      BY <1>4, <1>10
    <2> QED BY <2>2, <2>3, <2>4, <2>5, <2>6 DEF WaitInv, Quiet
  <1> QED BY <1>7, <1>8, <1>9, <1>10

LEMMA SessionStep ==
  ASSUME WaitInv,
         \/ \E c \in Turn : TurnEnds(c) \/ Acknowledge(c)
         \/ \E refused \in BOOLEAN : DeliveryFails(refused)
         \/ \E how \in {"dead", "idle"} : SessionEnds(how)
         \/ \E c \in Close : SessionSettles(c)
  PROVE  WaitInv'
  <1> Quiet(run) /\ Sourced(run)
    BY DEF WaitInv, Quiet
  <1>1. ASSUME NEW c \in Turn, TurnEnds(c) PROVE WaitInv'
    <2>1. run.session = "turn" /\ run' = EndTurn(run, c)
      BY <1>1 DEF TurnEnds
    <2> QED BY <2>1, EndTurnFacts DEF WaitInv, Quiet
  <1>2. ASSUME NEW c \in Turn, Acknowledge(c) PROVE WaitInv'
    <2>1. run.flight.on /\ run' = Acknowledged(run, c)
      BY <1>2 DEF Acknowledge
    <2> QED BY <2>1, AcknowledgedFacts DEF WaitInv, Quiet
  <1>3. ASSUME NEW refused \in BOOLEAN, DeliveryFails(refused) PROVE WaitInv'
    <2> DEFINE s == [run EXCEPT !.flight = NoFlight, !.fault = TRUE]
    <2>1. run' = s
      BY <1>3 DEF DeliveryFails
    <2>2. Quiet(s) /\ s.fault
      BY DEF Quiet, Sound, Shaped, Row, Columns, Memories, Afforded, Placed, Watched, Paused, Spent,
             In, Resolved, NoFlight, Flight
    <2> QED BY <2>1, <2>2 DEF WaitInv, Quiet, Sourced, Source
  <1>4. ASSUME NEW how \in {"dead", "idle"}, SessionEnds(how) PROVE WaitInv'
    <2> DEFINE s == [run EXCEPT !.session = how]
    <2>1. run' = s /\ SessionOpen(run)
      BY <1>4 DEF SessionEnds
    <2>2. Quiet(s) /\ s.session = how
      BY <2>1 DEF Quiet, Sound, Shaped, Row, Columns, Memories, Afforded, Placed, Watched, Paused,
             Spent, In, Resolved, SessionOpen, Sessions
    <2> QED BY <2>1, <2>2 DEF WaitInv, Quiet, Sourced, Source
  <1>5. ASSUME NEW c \in Close, SessionSettles(c) PROVE WaitInv'
    <2> DEFINE left == Dropped(Closed(run, c))
    <2>1. /\ run.session \in {"dead", "idle", "done"} /\ ~run.flight.on
          /\ run' = IF Listed(left) # {} THEN QueueWake(left, c.sent) ELSE left
      BY <1>5 DEF SessionSettles
    <2>2. Quiet(left)
      BY <2>1, ClosedFacts, DroppedFacts
    <2> HIDE DEF left
    <2>3. Listed(left) = {} => Sourced(left)
      BY DEF Listed, Sourced
    <2> QED BY <2>1, <2>2, <2>3, QueueWakeFacts DEF WaitInv, Quiet
  <1> QED BY <1>1, <1>2, <1>3, <1>4, <1>5

LEMMA WakeStep ==
  ASSUME WaitInv, NEW sent,
         \/ RetryFires(sent) \/ BackoffFires(sent) \/ AdmitWake(sent) \/ Launch
         \/ \E w \in Wait : CancelWait(w)
  PROVE  WaitInv'
  <1> Quiet(run) /\ Sourced(run)
    BY DEF WaitInv, Quiet
  <1>1. CASE RetryFires(sent)
    <2> DEFINE s == [run EXCEPT !.retry = FALSE]
    <2>1. run' = QueueWake(s, sent)
      BY <1>1 DEF RetryFires, Fired
    <2>2. Quiet(s)
      BY DEF Quiet, Sound, Shaped, Row, Columns, Memories, Afforded, Placed, Watched, Paused, Spent,
             In, Resolved
    <2> QED BY <2>1, <2>2, QueueWakeFacts DEF WaitInv, Quiet
  <1>2. CASE BackoffFires(sent)
    <2> DEFINE s == [run EXCEPT !.backoff = FALSE]
    <2>1. run' = QueueWake(s, sent)
      BY <1>2 DEF BackoffFires, Fired
    <2>2. Quiet(s)
      BY DEF Quiet, Sound, Shaped, Row, Columns, Memories, Afforded, Placed, Watched, Paused, Spent,
             In, Resolved
    <2> QED BY <2>1, <2>2, QueueWakeFacts DEF WaitInv, Quiet
  <1>3. CASE AdmitWake(sent)
    <2> DEFINE taken    == [run EXCEPT !.line = "none"]
               admitted == [taken EXCEPT !.parked = FALSE, !.admitted = TRUE]
    <2>1. /\ run.line = "wake"
          /\ run' = IF Resolved(run) = {} THEN taken
                    ELSE IF run.session # "boundary" THEN Retried(run)
                    ELSE Flush(admitted, sent)
      BY <1>3 DEF AdmitWake
    <2>2. Quiet(taken) /\ Quiet(admitted) /\ Resolved(taken) = Resolved(run)
      BY DEF Quiet, Sound, Shaped, Row, Columns, Memories, Afforded, Placed, Watched, Paused, Spent,
             In, Resolved, Lines
    <2>3. CASE Resolved(run) = {}
      BY <2>1, <2>2, <2>3 DEF WaitInv, Quiet, Sourced
    <2>4. CASE Resolved(run) # {} /\ run.session # "boundary"
      BY <2>1, <2>4, RetriedFacts DEF WaitInv, Quiet
    <2>5. CASE Resolved(run) # {} /\ run.session = "boundary"
      <3>1. Sourced(admitted)
        BY <2>5 DEF Quiet, Sound, Shaped, Row, Columns, Memories, Resolved, In, Sourced, Source,
                    Live, LeftAtBoundary
      <3>2. run' = Flush(admitted, sent)
        BY <2>1, <2>5
      <3> QED BY <2>2, <3>1, <3>2, FlushFacts DEF WaitInv, Quiet
    <2> QED BY <2>3, <2>4, <2>5
  <1>4. CASE Launch
    <2> DEFINE s == [run EXCEPT !.line = "none", !.admitted = run.line = "reopen",
                                !.session = "turn", !.status = "running"]
    <2>1. run.line \in {"reopen", "restart"} /\ run' = s
      BY <1>4 DEF Launch
    <2>2. Quiet(s) /\ s.session = "turn"
      BY <2>1 DEF Quiet, Sound, Shaped, Row, Columns, Memories, Afforded, Placed, Watched, Paused,
             Spent, In, Resolved, Lines, Sessions
    <2> QED BY <2>1, <2>2 DEF WaitInv, Quiet, Sourced, Source
  <1>5. ASSUME NEW w \in Wait, CancelWait(w) PROVE WaitInv'
    <2> DEFINE s == CancelAtCap(run, {w})
    <2>1. run' = s /\ SessionOpen(run)
      BY <1>5 DEF CancelWait, CancelAtCap
    <2>2. Quiet(s) /\ Control(s) = Control(run) /\ Resolved(s) = Resolved(run) \ {w}
      <3>1. ~run.backoff
        BY <2>1 DEF Quiet, Paused, SessionOpen
      <3>2. Shaped(run) /\ Afforded(run) /\ Placed(run) /\ Paused(run) /\ {w} \in SUBSET Wait
        BY DEF Quiet, Sound
      <3>3. run.torn \/ In(run, "open") \subseteq run.watch \cup run.held \cup {w}
        BY DEF Quiet, Sound, Watched
      <3> HIDE DEF s
      <3> QED BY <3>1, <3>2, <3>3, CancelAtCapFacts DEF s
    <2> HIDE DEF s
    <2>3. Sourced(s)
      BY <2>2 DEF Sourced, Source, Live, LeftAtBoundary, Control
    <2> QED BY <2>1, <2>2, <2>3 DEF WaitInv, Quiet
  <1> QED BY <1>1, <1>2, <1>3, <1>4, <1>5

LEMMA UserStep ==
  ASSUME WaitInv, NEW ok \in BOOLEAN, Message(ok) \/ Continue(ok) \/ Stop(ok)
  PROVE  WaitInv'
  <1> Quiet(run) /\ Sourced(run)
    BY DEF WaitInv, Quiet
  <1>1. CASE Message(ok)
    <2> DEFINE a == Answered(run, ok)
    <2>1. SessionOpen(run) /\ run' = Resume(a)
      BY <1>1 DEF Message
    <2>2. run.line \notin {"reopen", "restart"} /\ ~run.backoff /\ run.session # "none"
      BY <2>1 DEF Quiet, Sound, Placed, Paused, SessionOpen
    <2>3. Quiet(a) /\ a.line = run.line /\ a.backoff = run.backoff
      BY <2>2, AnsweredFacts
    <2> HIDE DEF a
    <2>4. Quiet(Resume(a)) /\ Resume(a).session = "turn"
      BY <2>2, <2>3 DEF Resume, Quiet, Sound, Shaped, Row, Columns, Memories, Afforded, Placed,
             Watched, Paused, Spent, In, Resolved, Sessions
    <2> QED BY <2>1, <2>4 DEF WaitInv, Quiet, Sourced, Source
  <1>2. CASE Continue(ok)
    <2> DEFINE u == [run EXCEPT !.backoff = FALSE, !.session = "turn", !.status = "running"]
    <2>1. run.line = "none" /\ run' = Answered(u, ok)
      BY <1>2 DEF Continue
    <2>2. Quiet(u) /\ u.line = "none" /\ u.session = "turn"
      BY <2>1 DEF Quiet, Sound, Shaped, Row, Columns, Memories, Afforded, Placed, Watched, Paused,
             Spent, In, Resolved, Sessions
    <2> HIDE DEF u
    <2>3. Quiet(Answered(u, ok)) /\ Answered(u, ok).session = "turn"
      BY <2>2, AnsweredFacts
    <2> QED BY <2>1, <2>3 DEF WaitInv, Quiet, Sourced, Source
  <1>3. CASE Stop(ok)
    <2> DEFINE quiet   == CancelOpenWaits(run, ok)
               stop    == [quiet EXCEPT !.stopping = TRUE]
               unqueue == [quiet EXCEPT !.line = "none", !.status = "cancelled"]
               over    == [quiet EXCEPT !.status = "cancelled"]
    <2>1. run' = IF run.session # "none" THEN BestEffort(stop, ok)
                ELSE IF run.line # "none" THEN BestEffort(unqueue, ok)
                ELSE IF Live(run) /\ Listed(run) # {} THEN over
                ELSE quiet
      BY <1>3 DEF Stop
    <2>2. /\ Shaped(quiet) /\ Afforded(quiet) /\ Watched(quiet) /\ ~quiet.backoff
          /\ quiet.session = run.session /\ quiet.flight = run.flight
          /\ quiet.status = run.status /\ quiet.line \in {"none", run.line}
          /\ Listed(run) = {} => Resolved(quiet) = {}
      BY CancelOpenWaitsFacts DEF Quiet, Sound
    <2> HIDE DEF quiet
    <2>3. Quiet(quiet)
      BY <2>2 DEF Quiet, Sound, Placed, Paused
    <2>4. Quiet(stop) /\ Sourced(stop)
      BY <2>3 DEF Quiet, Sound, Shaped, Row, Columns, Memories, Afforded, Placed, Watched, Paused,
             Spent, In, Resolved, Sourced, Source
    <2>5. Quiet(unqueue) /\ Sourced(unqueue)
      BY <2>2, <2>3 DEF Quiet, Sound, Shaped, Row, Columns, Memories, Afforded, Placed, Watched,
             Paused, Spent, In, Resolved, Sourced, Live, Lines
    <2>6. Quiet(over) /\ Sourced(over)
      BY <2>2, <2>3 DEF Quiet, Sound, Shaped, Row, Columns, Memories, Afforded, Placed, Watched,
             Paused, Spent, In, Resolved, Sourced, Live
    <2>7. ~(Live(run) /\ Listed(run) # {}) => Sourced(quiet)
      BY <2>2 DEF Sourced, Live
    <2> HIDE DEF stop, unqueue, over
    <2> QED BY <2>1, <2>3, <2>4, <2>5, <2>6, <2>7, BestEffortFacts DEF WaitInv, Quiet
  <1> QED BY <1>1, <1>2, <1>3

LEMMA DiskStep ==
  ASSUME WaitInv, Save \/ \E sent \in BOOLEAN : Restart(sent)
  PROVE  WaitInv'
  <1> Quiet(run) /\ Sourced(run)
    BY DEF WaitInv, Quiet
  <1>1. CASE Save
    <2>1. run' = BestEffort(run, TRUE)
      BY <1>1 DEF Save, BestEffort
    <2> QED BY <2>1, BestEffortFacts DEF WaitInv, Quiet
  <1>2. ASSUME NEW sent \in BOOLEAN, Restart(sent) PROVE WaitInv'
    <2>1. run' = Recovered(Recorded(run.disk, Forgotten), sent)
      BY <1>2 DEF Restart
    <2>2. Row(run.disk) /\ DOMAIN run.disk = Columns
      BY DEF Quiet, Sound, Shaped
    <2> QED BY <2>1, <2>2, RecoveredFacts DEF WaitInv, Quiet
  <1> QED BY <1>1, <1>2

LEMMA WaitInvStep == WaitInv /\ [Next]_vars => WaitInv'
  <1> SUFFICES ASSUME WaitInv, [Next]_vars PROVE WaitInv'
    OBVIOUS
  <1>1. CASE \E w \in Wait, withdrawn, ok, sent \in BOOLEAN : OpenWait(w, withdrawn, ok, sent)
    BY <1>1, OpenWaitStep
  <1>2. CASE \E w \in Wait, ok, sent \in BOOLEAN : Resolve(w, ok, sent)
    BY <1>2, ResolveStep
  <1>3. CASE \/ \E sent \in BOOLEAN : RetryFires(sent) \/ BackoffFires(sent) \/ AdmitWake(sent)
             \/ Launch
             \/ \E w \in Wait : CancelWait(w)
    BY <1>3, WakeStep
  <1>4. CASE \/ \E c \in Turn : TurnEnds(c) \/ Acknowledge(c)
             \/ \E refused \in BOOLEAN : DeliveryFails(refused)
             \/ \E how \in {"dead", "idle"} : SessionEnds(how)
             \/ \E c \in Close : SessionSettles(c)
    BY <1>4, SessionStep
  <1>5. CASE \E ok \in BOOLEAN : Message(ok) \/ Continue(ok) \/ Stop(ok)
    BY <1>5, UserStep
  <1>6. CASE Save \/ \E sent \in BOOLEAN : Restart(sent)
    BY <1>6, DiskStep
  <1>7. CASE UNCHANGED vars
    BY <1>7 DEF vars, WaitInv, Sound, Shaped, Row, Afforded, Placed, Watched, Paused, Sourced,
           Source, Spent, In, Resolved, Live, LeftAtBoundary
  <1> QED BY <1>1, <1>2, <1>3, <1>4, <1>5, <1>6, <1>7 DEF Next

LEMMA TypesFollow == RunsTyped /\ WaitInv => TypeOK
  <1> SUFFICES ASSUME RunsTyped, WaitInv PROVE TypeOK
    OBVIOUS
  <1> run \in Runs /\ run.disk \in Rows
    BY DEF RunsTyped, Runs
  <1>1. \A n \in Nat : n <= MaxWakes => n \in 0..MaxWakes
    BY RunWaitsAssumption
  <1>2. {run.wakes, run.charged, run.disk.wakes, run.disk.charged} \subseteq 0..MaxWakes
    <2>1. Row(run) /\ Row(run.disk)
      BY DEF WaitInv, Sound, Shaped
    <2> QED BY <1>1, <2>1, RunWaitsAssumption DEF Row
  <1>3. Stored(run) \in Record
    BY <1>2 DEF Runs, Stored, Record
  <1>4. run.disk \in Record
    BY <1>2 DEF Rows, Record
  <1>5. /\ run.session \in Sessions /\ run.line \in Lines /\ run.flight \in Flight
        /\ run.watch \subseteq Wait /\ run.held \subseteq Wait
        /\ {run.stopping, run.admitted, run.pool, run.parked, run.fault, run.retry,
            run.backoff, run.torn, run.late} \subseteq BOOLEAN
    BY DEF Runs
  <1> QED BY <1>3, <1>4, <1>5 DEF TypeOK, RunsTyped

LEMMA WaitInvImplies ==
  WaitInv => BudgetHolds /\ OpenWaitsAreWatched /\ BackoffIsAPause /\ WakesHaveASource
  <1> SUFFICES ASSUME WaitInv
               PROVE  BudgetHolds /\ OpenWaitsAreWatched /\ BackoffIsAPause /\ WakesHaveASource
    OBVIOUS
  <1>1. BudgetHolds
    BY DEF WaitInv, Sound, Shaped, Row, Afforded, BudgetHolds
  <1>2. OpenWaitsAreWatched
    BY DEF WaitInv, Sound, Watched, OpenWaitsAreWatched
  <1>3. BackoffIsAPause
    BY DEF WaitInv, Paused, BackoffIsAPause
  <1>4. WakesHaveASource
    BY DEF WaitInv, Sourced, Source, WakesHaveASource, HasSource
  <1> QED BY <1>1, <1>2, <1>3, <1>4

-----------------------------------------------------------------------------
(* Whatever the order of turns, receipts, timers, refused commits and      *)
(* restarts, the record, the watches, the flight and the line of a run     *)
(* agree (wait-registry.ts, wake-admission.ts, input-delivery.ts).         *)
THEOREM WaitsAgree == Spec => []WaitInv
  BY InitInv, WaitInvStep, PTL DEF Spec

(* Every state of the specification has its types, the budget and the      *)
(* limit of attempts (MAX_AUTO_CONTINUES, MAX_WAKE_DELIVERY_ATTEMPTS) among *)
(* them, whatever the constants.                                           *)
THEOREM TypesHold == Spec => []TypeOK
  <1>1. Spec => []RunsTyped
    BY InitTyped, NextTyped, PTL DEF Spec
  <1> QED BY <1>1, WaitsAgree, TypesFollow, PTL

(* input-acknowledgement.ts, wake-ledger.ts: automatic wakes never exceed  *)
(* the budget, the batch in flight included, and what is on disk never     *)
(* holds a delivery without its charge, for every budget.                  *)
THEOREM TheBudgetHolds == Spec => []BudgetHolds
  BY WaitsAgree, WaitInvImplies, PTL

(* wait-watches.ts: for as long as a run is live each open wait is watched *)
(* or its result is kept, through refused commits and restarts.            *)
THEOREM WaitsStayWatched == Spec => []OpenWaitsAreWatched
  BY WaitsAgree, WaitInvImplies, PTL

(* wake-retries.ts: between a failed delivery and its next attempt no      *)
(* session and no continuation is open, and a result is still owed.        *)
THEOREM BackoffOnlyPauses == Spec => []BackoffIsAPause
  BY WaitsAgree, WaitInvImplies, PTL

(* wake-admission.ts: a live run that owes a result has something left     *)
(* that will wake it, but where a late receipt left a result behind.       *)
THEOREM OwedWakesAreNotForgotten == Spec => []WakesHaveASource
  BY WaitsAgree, WaitInvImplies, PTL

-----------------------------------------------------------------------------
(* The fate of a result.  From t to s, results are spared but for some     *)
(* that are cancelled, all of them in ws, and what has ended stays so; the *)
(* record on disk knows the phases of the waits; no run begins to fail.    *)
Ended == {"delivered", "cancelled"}

Spares(t, s, ws) ==
  \A w \in Wait :
    /\ t.wait[w] = "resolved" => s.wait[w] = "resolved" \/ (s.wait[w] = "cancelled" /\ w \in ws)
    /\ t.wait[w] \in Ended => s.wait[w] = t.wait[w]

Synced(t) == t.disk.wait = t.wait

Smooth(t, s, ws) ==
  /\ Spares(t, s, ws)
  /\ Synced(t) => Synced(s)
  /\ s.status = "failed" => t.status = "failed"

(* The waits that may be cancelled for their charge.                       *)
Capped(t) == IF Spent(t) >= MaxWakes THEN Charging ELSE {}

LEMMA SmoothChain ==
  ASSUME NEW t, NEW u, NEW s, NEW ws, Smooth(t, u, ws), Smooth(u, s, ws)
  PROVE  Smooth(t, s, ws)
  BY DEF Smooth, Spares, Ended

LEMMA SmoothMore ==
  ASSUME NEW t, NEW s, NEW ws, NEW more, Smooth(t, s, ws), ws \subseteq more
  PROVE  Smooth(t, s, more)
  BY DEF Smooth, Spares

LEMMA SmoothSame ==
  ASSUME NEW t, NEW s, NEW ws, s.wait = t.wait, s.disk = t.disk \/ Synced(s),
         s.status \in {"running", "waiting", "queued", "cancelled", "done", t.status}
  PROVE  Smooth(t, s, ws)
  BY DEF Smooth, Spares, Synced

LEMMA CommitFate ==
  ASSUME NEW t \in Runs, NEW ok
  PROVE  /\ Synced(Commit(t)) /\ Commit(t).wait = t.wait /\ Commit(t).status = t.status
         /\ Commit(t).session = t.session /\ Commit(t).line = t.line
         /\ Commit(t).flight = t.flight /\ Commit(t).wakes = t.wakes
         /\ Commit(t).stopping = t.stopping
         /\ BestEffort(t, ok) \in {t, Commit(t)}
  BY DEF Runs, Commit, Stored, Synced, BestEffort

LEMMA ReparkFate ==
  ASSUME NEW t \in Runs
  PROVE  LET s == Repark(t) IN
         /\ s.wait = t.wait /\ (s.disk = t.disk \/ Synced(s))
         /\ s.status = t.status /\ s.session = t.session /\ s.line = t.line
         /\ s.flight = t.flight /\ s.wakes = t.wakes
  <1> DEFINE a == [t EXCEPT !.asked = TRUE, !.pool = FALSE]
  <1>1. /\ a \in Runs /\ a.wait = t.wait /\ a.status = t.status /\ a.session = t.session
        /\ a.line = t.line /\ a.flight = t.flight /\ a.wakes = t.wakes
    BY DEF Runs
  <1>2. Repark(t) \in {t, Commit(a)}
    BY DEF Repark
  <1> HIDE DEF a
  <1> QED BY <1>1, <1>2, CommitFate

LEMMA CancelAtCapFate ==
  ASSUME NEW t \in Runs, NEW ws
  PROVE  LET s == CancelAtCap(t, ws) IN
         /\ s.wait = [w \in Wait |-> IF w \in ws THEN "cancelled" ELSE t.wait[w]]
         /\ Synced(s) /\ s.status = t.status /\ s.session = t.session /\ s.line = t.line
         /\ s.flight = t.flight /\ s.wakes = t.wakes
  BY DEF CancelAtCap, Cancelled, Disarmed, Commit, Stored, Synced, Runs

LEMMA CancelCappedFate ==
  ASSUME NEW t \in Runs
  PROVE  LET k == CancelCapped(t) IN
         /\ Smooth(t, k, Capped(t)) /\ k.flight = t.flight /\ k.wakes = t.wakes
         /\ k.session = t.session /\ k.status = t.status
         /\ t.session # "boundary" => k = t
  <1> DEFINE capped == Resolved(t) \cap Charging
             left   == CancelAtCap(t, capped)
             none   == [left EXCEPT !.admitted = FALSE]
  <1>1. CASE CancelCapped(t) = t
    BY <1>1, SmoothSame
  <1>2. CASE CancelCapped(t) # t
    <2>1. Spent(t) >= MaxWakes /\ t.session = "boundary"
      BY <1>2 DEF CancelCapped
    <2>2. CancelCapped(t) \in {left, Repark(none)}
      BY <1>2 DEF CancelCapped
    <2>3. /\ left.wait = [w \in Wait |-> IF w \in capped THEN "cancelled" ELSE t.wait[w]]
          /\ Synced(left) /\ left.status = t.status /\ left.session = t.session
          /\ left.flight = t.flight /\ left.wakes = t.wakes
      BY CancelAtCapFate
    <2>4. left \in Runs
      BY CancelTyped
    <2> HIDE DEF left, capped
    <2>5. /\ none \in Runs /\ none.wait = left.wait /\ none.disk = left.disk
          /\ none.status = left.status /\ none.session = left.session
          /\ none.flight = left.flight /\ none.wakes = left.wakes
      BY <2>4 DEF Runs
    <2> HIDE DEF none
    <2> DEFINE k == CancelCapped(t)
    <2>6. /\ k.wait = left.wait /\ Synced(k) /\ k.status = t.status
          /\ k.session = t.session /\ k.flight = t.flight /\ k.wakes = t.wakes
      BY <2>2, <2>3, <2>5, ReparkFate DEF Synced
    <2> HIDE DEF k
    <2>7. Spares(t, k, Charging)
      BY <2>3, <2>6 DEF Spares, Ended, capped, Resolved, In
    <2> QED BY <2>1, <2>6, <2>7 DEF k, Smooth, Capped
  <1> QED BY <1>1, <1>2

LEMMA SubmitFate ==
  ASSUME NEW t \in Runs, NEW ids
  PROVE  LET s == Submit(t, ids) IN
         /\ s.wait = t.wait /\ s.disk = t.disk /\ s.status \in {t.status, "running"}
         /\ s.flight.on /\ s.wakes = t.wakes
  <1> DEFINE flight == [on |-> TRUE, ids |-> ids,
                        reserved |-> ids \cap Charging # {} /\ Spent(t) < MaxWakes]
             a == [t EXCEPT !.flight = flight]
  <1>1. flight.on
    OBVIOUS
  <1>2. Submit(t, ids) = Resume(a)
    BY DEF Submit
  <1> HIDE DEF flight
  <1>3. a.wait = t.wait /\ a.disk = t.disk /\ a.status = t.status /\ a.flight = flight
        /\ a.wakes = t.wakes /\ DOMAIN a = DOMAIN t
    BY DEF Runs
  <1> HIDE DEF a
  <1>4. DOMAIN t = {"status", "wait", "wakes", "failures", "asked", "charged", "disk", "session",
                    "stopping", "line", "admitted", "pool", "parked", "flight", "fault", "retry",
                    "backoff", "watch", "held", "torn", "late"}
    BY DEF Runs
  <1> QED BY <1>1, <1>2, <1>3, <1>4 DEF Resume

LEMMA FlushFate ==
  ASSUME NEW t \in Runs, NEW sent
  PROVE  LET f == Flush(t, sent) IN
         /\ Smooth(t, f, Capped(t))
         /\ f.flight.on \/ (f.flight = t.flight /\ f.wakes = t.wakes)
         /\ t.session # "boundary" => f = t
  <1> DEFINE k == CancelCapped(t)
             s == Submit(k, Resolved(k))
  <1>1. Flush(t, sent) \in {t, k, s}
    BY DEF Flush
  <1>2. /\ Smooth(t, k, Capped(t)) /\ k.flight = t.flight /\ k.wakes = t.wakes
        /\ k.session = t.session
        /\ t.session # "boundary" => k = t
    BY CancelCappedFate
  <1>3. t.session # "boundary" => Flush(t, sent) = t
    <2>1. Flush(t, sent) = s => k.session = "boundary" \/ s \in {t, k}
      BY DEF Flush
    <2> HIDE DEF k, s
    <2> QED BY <1>1, <1>2, <2>1
  <1>4. k \in Runs
    BY FlushTyped
  <1> HIDE DEF k
  <1>5. Smooth(k, s, Capped(t)) /\ s.flight.on
    BY <1>4, SubmitFate, SmoothSame
  <1>6. Smooth(t, s, Capped(t))
    BY <1>2, <1>5, SmoothChain
  <1>7. Smooth(t, t, Capped(t))
    BY SmoothSame
  <1> HIDE DEF s
  <1> QED BY <1>1, <1>2, <1>3, <1>5, <1>6, <1>7

LEMMA QueueWakeFate ==
  ASSUME NEW t \in Runs, NEW sent
  PROVE  LET q == QueueWake(t, sent) IN
         /\ Smooth(t, q, Capped(t))
         /\ t.session # "boundary" => q.wait = t.wait
         /\ ~Live(t) => q = t
  <1> DEFINE owed == Retried(t)
             line == IF owed.line = "wake" THEN "none" ELSE owed.line
             pool == [owed EXCEPT !.admitted = TRUE, !.line = line]
             wake == [owed EXCEPT !.line = "wake"]
             reopen == [owed EXCEPT !.line = "reopen", !.status = "queued"]
             waits == [owed EXCEPT !.status = "waiting"]
             q == QueueWake(t, sent)
  <1>1. /\ owed \in Runs /\ owed.wait = t.wait /\ owed.disk = t.disk /\ owed.status = t.status
        /\ owed.flight = t.flight /\ owed.wakes = t.wakes /\ owed.session = t.session
    BY FlushTyped DEF Retried, Runs
  <1>2. \/ q = t \/ q = Flush(owed, sent) \/ (t.session = "boundary" /\ q = Flush(pool, sent))
        \/ q = owed \/ q = wake \/ q = Commit(reopen) \/ q = waits
    <2>1. pool = [owed EXCEPT !.admitted = TRUE, !.line = IF @ = "wake" THEN "none" ELSE @]
      BY <1>1 DEF Runs
    <2> HIDE DEF pool
    <2> QED BY <2>1 DEF QueueWake
  <1>3. ~Live(t) => q = t
    BY DEF QueueWake, CanQueueWake
  <1> HIDE DEF owed
  <1>4. line \in Lines
    BY <1>1, ClearedTyped
  <1> HIDE DEF line
  <1>5. /\ pool \in Runs /\ pool.wait = t.wait /\ pool.disk = t.disk /\ pool.status = t.status
        /\ pool.flight = t.flight /\ pool.wakes = t.wakes
    BY <1>1, <1>4 DEF Runs
  <1>6. /\ wake.wait = t.wait /\ wake.disk = t.disk /\ wake.status = t.status
        /\ waits.wait = t.wait /\ waits.disk = t.disk /\ waits.status = "waiting"
    BY <1>1 DEF Runs
  <1>7. reopen \in Runs /\ reopen.wait = t.wait /\ reopen.status = "queued"
    BY <1>1 DEF Runs, Lines, Statuses
  <1> HIDE DEF pool, wake, reopen, waits, q
  <1>8. Commit(reopen).wait = t.wait /\ Synced(Commit(reopen)) /\ Commit(reopen).status = "queued"
    BY <1>7, CommitFate
  <1>9. \A x \in Runs : x.flight = t.flight /\ x.wakes = t.wakes => Capped(x) = Capped(t)
    BY DEF Capped, Spent
  <1>10. Smooth(t, owed, Capped(t)) /\ Smooth(t, pool, Capped(t))
    BY <1>1, <1>5, SmoothSame
  <1>11. Smooth(t, Flush(owed, sent), Capped(t))
    BY <1>1, <1>9, <1>10, FlushFate, SmoothChain
  <1>12. Smooth(t, Flush(pool, sent), Capped(t))
    BY <1>5, <1>9, <1>10, FlushFate, SmoothChain
  <1>13. /\ Smooth(t, wake, Capped(t)) /\ Smooth(t, waits, Capped(t)) /\ Smooth(t, t, Capped(t))
         /\ Smooth(t, Commit(reopen), Capped(t))
    BY <1>6, <1>8, SmoothSame
  <1>14. t.session # "boundary" => Flush(owed, sent).wait = t.wait
    BY <1>1, FlushFate
  <1>15. Smooth(t, q, Capped(t))
    BY <1>2, <1>10, <1>11, <1>12, <1>13
  <1>16. t.session # "boundary" => q.wait = t.wait
    BY <1>1, <1>2, <1>6, <1>8, <1>14
  <1> QED BY <1>3, <1>15, <1>16 DEF q

LEMMA ParkFate ==
  ASSUME NEW t \in Runs, NEW sent
  PROVE  /\ Smooth(t, ParkForUser(t, sent), Capped(t))
         /\ Smooth(t, ParkOnWaits(t, sent), Capped(t))
  <1> DEFINE user == [t EXCEPT !.status = "waiting", !.parked = TRUE, !.pool = FALSE]
             wait == [t EXCEPT !.status = "waiting", !.parked = TRUE, !.pool = TRUE]
  <1>1. /\ user \in Runs /\ user.wait = t.wait /\ user.status = "waiting"
        /\ user.flight = t.flight /\ user.wakes = t.wakes
    BY DEF Runs, Statuses
  <1>2. /\ wait \in Runs /\ wait.wait = t.wait /\ wait.status = "waiting" /\ wait.disk = t.disk
        /\ wait.flight = t.flight /\ wait.wakes = t.wakes
    BY DEF Runs, Statuses
  <1>3. ParkForUser(t, sent) = QueueWake(Commit(user), sent)
    BY DEF ParkForUser
  <1>4. ParkOnWaits(t, sent) \in {ParkForUser(t, sent), QueueWake(wait, sent)}
    BY DEF ParkOnWaits
  <1> HIDE DEF user, wait
  <1>5. /\ Commit(user) \in Runs /\ Smooth(t, Commit(user), Capped(t))
        /\ Capped(Commit(user)) = Capped(t)
    <2>1. /\ Commit(user).wait = t.wait /\ Synced(Commit(user))
          /\ Commit(user).status = "waiting"
          /\ Commit(user).flight = t.flight /\ Commit(user).wakes = t.wakes
      BY <1>1, CommitFate
    <2> QED BY <1>1, <2>1, CommitTyped, SmoothSame DEF Capped, Spent
  <1>6. Smooth(t, wait, Capped(t)) /\ Capped(wait) = Capped(t)
    BY <1>2, SmoothSame DEF Capped, Spent
  <1>7. Smooth(t, ParkForUser(t, sent), Capped(t))
    BY <1>3, <1>5, QueueWakeFate, SmoothChain
  <1>8. Smooth(t, QueueWake(wait, sent), Capped(t))
    BY <1>2, <1>6, QueueWakeFate, SmoothChain
  <1> QED BY <1>4, <1>7, <1>8

LEMMA CancelOpenWaitsFate ==
  ASSUME NEW t \in Runs, NEW ok
  PROVE  LET s == CancelOpenWaits(t, ok) IN
         /\ Spares(t, s, Wait) /\ (Synced(t) => Synced(s))
         /\ Listed(t) = {} => s.wait = t.wait
         /\ Resolved(t) = {} => Spares(t, s, {})
         /\ s.status = t.status /\ s.session = t.session /\ s.flight = t.flight
         /\ s.stopping = t.stopping /\ s.line \in {"none", t.line} \ {"wake"}
  <1> DEFINE cut  == [w \in Wait |-> IF w \in Listed(t) THEN "cancelled" ELSE t.wait[w]]
             base == IF ok THEN Commit(Cancelled(t, Listed(t)))
                     ELSE [t EXCEPT !.torn = @ \/ Listed(t) # {}]
             d    == Disarmed(base, Wait)
             line == IF d.line = "wake" THEN "none" ELSE d.line
             bare == [d EXCEPT !.retry = FALSE, !.backoff = FALSE, !.failures = 0,
                               !.admitted = FALSE, !.line = line]
             s    == CancelOpenWaits(t, ok)
  <1>1. /\ base \in Runs /\ base.wait = (IF ok THEN cut ELSE t.wait)
        /\ Synced(t) => Synced(base)
        /\ base.status = t.status /\ base.session = t.session /\ base.flight = t.flight
        /\ base.stopping = t.stopping /\ base.line = t.line
    <2> DEFINE c == Cancelled(t, Listed(t))
    <2> HIDE DEF cut
    <2>1. /\ c.wait = cut /\ c.status = t.status /\ c.session = t.session
          /\ c.flight = t.flight /\ c.stopping = t.stopping /\ c.line = t.line
      BY DEF Cancelled, Runs, cut
    <2>4. c \in Runs
      BY CancelTyped
    <2> HIDE DEF c
    <2>2. CASE ok
      BY <2>1, <2>2, <2>4, CommitTyped, CommitFate DEF c
    <2>3. CASE ~ok
      <3> DEFINE torn == t.torn \/ Listed(t) # {}
      <3>1. torn \in BOOLEAN /\ base = [t EXCEPT !.torn = torn]
        BY <2>3 DEF Runs
      <3> HIDE DEF torn, base
      <3>2. /\ base \in Runs /\ base.wait = t.wait /\ base.disk = t.disk
            /\ base.status = t.status /\ base.session = t.session /\ base.flight = t.flight
            /\ base.stopping = t.stopping /\ base.line = t.line
        BY <3>1 DEF Runs
      <3> QED BY <2>3, <3>2 DEF Synced
    <2> QED BY <2>2, <2>3
  <1>2. CancelOpenWaits(t, ok) = DisarmedRun(base, ok)
    BY DEF CancelOpenWaits
  <1> HIDE DEF base
  <1>3. /\ d \in Runs /\ d.wait = base.wait /\ d.disk = base.disk /\ d.status = base.status
        /\ d.session = base.session /\ d.flight = base.flight
        /\ d.stopping = base.stopping /\ d.line = base.line
    <2>1. d \in Runs
      BY <1>1, DisarmedTyped
    <2>2. d = [base EXCEPT !.watch = @ \ Wait, !.held = @ \ Wait]
      BY DEF Disarmed
    <2> HIDE DEF d
    <2> QED BY <1>1, <2>1, <2>2 DEF Runs
  <1>4. DisarmedRun(base, ok) = BestEffort(bare, ok)
    <2>1. bare = [d EXCEPT !.retry = FALSE, !.backoff = FALSE, !.failures = 0,
                           !.admitted = FALSE, !.line = IF @ = "wake" THEN "none" ELSE @]
      BY <1>3 DEF Runs
    <2> HIDE DEF bare
    <2> QED BY <2>1 DEF DisarmedRun
  <1> HIDE DEF d
  <1>5. line \in Lines /\ line \in {"none", t.line} \ {"wake"}
    BY <1>1, <1>3, ClearedTyped DEF Lines
  <1> HIDE DEF line
  <1>6. /\ bare \in Runs /\ bare.wait = base.wait /\ bare.disk = base.disk
        /\ bare.status = base.status /\ bare.session = base.session
        /\ bare.flight = base.flight /\ bare.stopping = base.stopping
        /\ bare.line = line
    <2>1. 0 \in 0..(MaxAttempts - 1)
      BY RunWaitsAssumption
    <2>2. bare \in Runs
      BY <1>3, <1>5, <2>1 DEF Runs
    <2>3. /\ bare.wait = d.wait /\ bare.disk = d.disk /\ bare.status = d.status
          /\ bare.session = d.session /\ bare.flight = d.flight
          /\ bare.stopping = d.stopping /\ bare.line = line
      BY <1>3 DEF Runs
    <2> QED BY <1>3, <2>2, <2>3
  <1> HIDE DEF bare
  <1>7. s \in {bare, Commit(bare)}
    BY <1>2, <1>4, <1>6, CommitFate
  <1> HIDE DEF s
  <1>8. /\ s.wait = (IF ok THEN cut ELSE t.wait) /\ (Synced(t) => Synced(s))
        /\ s.status = t.status /\ s.session = t.session /\ s.flight = t.flight
        /\ s.stopping = t.stopping /\ s.line = line
    BY <1>1, <1>6, <1>7, CommitFate DEF Synced
  <1>9. \A w \in Wait : /\ w \in Listed(t) <=> t.wait[w] \in {"open", "resolved"}
                        /\ w \in Resolved(t) <=> t.wait[w] = "resolved"
    BY DEF Listed, Resolved, In
  <1>10. Spares(t, s, Wait)
    BY <1>8, <1>9 DEF Spares, Ended
  <1>11. Resolved(t) = {} => Spares(t, s, {})
    BY <1>8, <1>9 DEF Spares, Ended
  <1>12. Listed(t) = {} => s.wait = t.wait
    <2>1. t.wait = [w \in Wait |-> t.wait[w]]
      BY DEF Runs
    <2>2. Listed(t) = {} => cut = [w \in Wait |-> t.wait[w]]
      BY Zenon
    <2> QED BY <1>8, <2>1, <2>2
  <1> QED BY <1>5, <1>8, <1>10, <1>11, <1>12 DEF s

LEMMA DecideFate ==
  ASSUME NEW t \in Runs, NEW c
  PROVE  Smooth(t, Decide(t, c), Capped(t)) /\ Smooth(t, SettleIdle(t, c), Capped(t))
  <1> DEFINE over  == [CancelOpenWaits(t, c.ok) EXCEPT !.session = "done"]
             asked == [t EXCEPT !.asked = TRUE]
             calm  == IF c.ok THEN Commit(asked) ELSE t
  <1>1. ASSUME Resolved(t) = {} PROVE Smooth(t, over, Capped(t))
    <2> DEFINE x == CancelOpenWaits(t, c.ok)
    <2>1. /\ x \in Runs /\ Spares(t, x, {}) /\ (Synced(t) => Synced(x)) /\ x.status = t.status
      BY <1>1, CancelTyped, CancelOpenWaitsFate
    <2> HIDE DEF x
    <2>2. /\ [x EXCEPT !.session = "done"].wait = x.wait
          /\ [x EXCEPT !.session = "done"].disk = x.disk
          /\ [x EXCEPT !.session = "done"].status = x.status
      BY <2>1 DEF Runs
    <2>3. Smooth(t, over, {})
      BY <2>1, <2>2 DEF x, Smooth, Spares, Synced
    <2> QED BY <2>3, SmoothMore
  <1>2. Smooth(t, ParkOnWaits(t, c.sent), Capped(t))
    BY ParkFate
  <1>3. Smooth(t, Nudge(t, c), Capped(t))
    <2> DEFINE n == Submit(t, {})
               x == [n EXCEPT !.wakes = @ + 1]
    <2>1. n \in Runs
      BY FlushTyped
    <2>2. n.wait = t.wait /\ n.disk = t.disk /\ n.status \in {t.status, "running"}
      BY SubmitFate
    <2> HIDE DEF n
    <2>3. x \in Runs /\ x.wait = n.wait /\ x.disk = n.disk /\ x.status = n.status
      BY <2>1 DEF Runs
    <2>4. Nudge(t, c) = BestEffort(x, c.ok)
      BY DEF Nudge, n
    <2> HIDE DEF x
    <2>5. Nudge(t, c) \in {x, Commit(x)}
      BY <2>3, <2>4, CommitFate
    <2> QED BY <2>2, <2>3, <2>5, CommitFate, SmoothSame
  <1>4. Smooth(t, Ask(t, c), Capped(t))
    <2>1. /\ asked \in Runs /\ asked.wait = t.wait /\ asked.status = t.status
          /\ asked.flight = t.flight /\ asked.wakes = t.wakes
      BY DEF Runs
    <2> HIDE DEF asked
    <2>2. /\ calm \in Runs /\ calm.wait = t.wait /\ calm.status = t.status
          /\ calm.flight = t.flight /\ calm.wakes = t.wakes
          /\ calm.disk = t.disk \/ Synced(calm)
      BY <2>1, CommitTyped, CommitFate
    <2>3. Ask(t, c) = ParkForUser(calm, c.sent)
      BY DEF Ask, asked
    <2> HIDE DEF calm
    <2>4. Smooth(t, calm, Capped(t)) /\ Capped(calm) = Capped(t)
      BY <2>2, SmoothSame DEF Capped, Spent
    <2> QED BY <2>2, <2>3, <2>4, ParkFate, SmoothChain
  <1>5. Smooth(t, Decide(t, c), Capped(t))
    <2> HIDE DEF over
    <2>1. \/ Resolved(t) = {} /\ Decide(t, c) = over
          \/ Decide(t, c) = ParkOnWaits(t, c.sent)
          \/ Decide(t, c) = Nudge(t, c)
          \/ Decide(t, c) = Ask(t, c)
      BY DEF Decide, over
    <2> QED BY <1>1, <1>2, <1>3, <1>4, <2>1
  <1> QED BY <1>5, SmoothSame DEF SettleIdle

LEMMA EndTurnFate ==
  ASSUME NEW t \in Runs, NEW c
  PROVE  Smooth(t, EndTurn(t, c), Capped(t))
  <1> DEFINE b == [t EXCEPT !.session = "boundary"]
             f == Flush(b, c.sent)
  <1>1. /\ b \in Runs /\ b.wait = t.wait /\ b.disk = t.disk /\ b.status = t.status
        /\ b.flight = t.flight /\ b.wakes = t.wakes
    BY DEF Runs, Sessions
  <1>2. EndTurn(t, c) = IF f.flight.on THEN f ELSE Decide(f, c)
    BY DEF EndTurn
  <1> HIDE DEF b
  <1>3. /\ f \in Runs /\ Smooth(b, f, Capped(b))
        /\ f.flight.on \/ (f.flight = b.flight /\ f.wakes = b.wakes)
    BY <1>1, FlushTyped, FlushFate
  <1> HIDE DEF f
  <1>4. Smooth(t, b, Capped(t)) /\ Capped(b) = Capped(t)
    BY <1>1, SmoothSame DEF Capped, Spent
  <1>5. Smooth(t, f, Capped(t))
    BY <1>3, <1>4, SmoothChain
  <1>6. ~f.flight.on => Capped(f) = Capped(t)
    BY <1>1, <1>3 DEF Capped, Spent
  <1> QED BY <1>2, <1>3, <1>5, <1>6, DecideFate, SmoothChain

(* As Spares, but that what is in flight may be delivered.                 *)
Hands(t, s, ws) ==
  \A w \in Wait :
    /\ t.wait[w] = "resolved" => \/ s.wait[w] = "resolved"
                                 \/ s.wait[w] = "delivered" /\ w \in t.flight.ids
                                 \/ s.wait[w] = "cancelled" /\ w \in ws
    /\ t.wait[w] \in Ended => s.wait[w] = t.wait[w]

LEMMA ReceivedFate ==
  ASSUME NEW t \in Runs
  PROVE  LET u == Received(t) IN
         /\ Hands(t, u, {}) /\ (Synced(t) => Synced(u))
         /\ u.status \in {t.status, "running"} /\ u \in Runs
         /\ Capped(u) \subseteq Capped(t)
  <1> DEFINE ids == t.flight.ids \cap Resolved(t)
             wait == [w \in Wait |-> IF w \in ids THEN "delivered" ELSE t.wait[w]]
             charged == IF ids \cap Charging # {} THEN t.charged + 1 ELSE t.charged
             a == [t EXCEPT !.wait = wait, !.charged = charged, !.failures = 0,
                            !.status = "running", !.wakes = Charge(t)]
             d == Deliver(t, ids)
             retry == d.retry /\ Resolved(d) # {}
             p == [d EXCEPT !.admitted = FALSE, !.parked = FALSE, !.retry = retry]
             s == IF ids = {} THEN t ELSE p
             late == t.session = "boundary"
             u == [s EXCEPT !.flight = NoFlight, !.late = late]
  <1>1. wait \in [Wait -> Phases] /\ charged \in Nat /\ Charge(t) \in Nat
    BY DEF Runs, Phases, Charge
  <1>2. \A w \in Wait :
          /\ t.wait[w] = "resolved" =>
               wait[w] = "resolved" \/ (wait[w] = "delivered" /\ w \in t.flight.ids)
          /\ t.wait[w] \in Ended => wait[w] = t.wait[w]
    BY DEF Resolved, In, Ended
  <1>3. d = Commit(a)
    BY DEF Deliver, Runs
  <1> HIDE DEF wait, charged
  <1>4. /\ a \in Runs /\ a.wait = wait /\ a.status = "running" /\ a.wakes = Charge(t)
    <2>1. 0 \in 0..(MaxAttempts - 1)
      BY RunWaitsAssumption
    <2> QED BY <1>1, <2>1 DEF Runs, Statuses
  <1> HIDE DEF a, d
  <1>5. /\ d \in Runs /\ d.wait = wait /\ Synced(d) /\ d.status = "running"
        /\ d.wakes = Charge(t)
    BY <1>3, <1>4, CommitTyped, CommitFate
  <1>6. p = Spend(d)
    BY <1>5 DEF Spend, Runs
  <1>7. retry \in BOOLEAN
    OBVIOUS
  <1> HIDE DEF retry
  <1>8. /\ p \in Runs /\ p.wait = d.wait /\ p.disk = d.disk /\ p.status = d.status
        /\ p.wakes = d.wakes
    <2>1. p \in Runs
      BY <1>5, <1>7 DEF Runs
    <2>2. p.wait = d.wait /\ p.disk = d.disk /\ p.status = d.status /\ p.wakes = d.wakes
      BY <1>5 DEF Runs
    <2> QED BY <2>1, <2>2
  <1> HIDE DEF p
  <1>9. Received(t) = u
    BY <1>6 DEF Received, d
  <1>10. late \in BOOLEAN /\ NoFlight \in Flight /\ ~NoFlight.reserved
    BY DEF NoFlight, Flight
  <1>11. /\ s \in Runs /\ (s.wait = t.wait \/ s.wait = wait) /\ (Synced(t) => Synced(s))
         /\ s.status \in {t.status, "running"} /\ s.wakes \in {t.wakes, Charge(t)}
    BY <1>5, <1>8 DEF Synced
  <1> HIDE DEF s, late
  <1>12. /\ u \in Runs /\ u.wait = s.wait /\ u.disk = s.disk /\ u.status = s.status
         /\ u.wakes = s.wakes /\ u.flight = NoFlight
    BY <1>10, <1>11 DEF Runs
  <1> HIDE DEF u
  <1>13. Hands(t, u, {})
    BY <1>2, <1>11, <1>12 DEF Hands
  <1>14. Capped(u) \subseteq Capped(t)
    <2>1. t.wakes \in Nat /\ t.flight.reserved \in BOOLEAN
      BY DEF Runs, Flight
    <2>2. Spent(u) \in Nat /\ Spent(t) \in Nat /\ Spent(u) <= Spent(t)
      BY <1>10, <1>11, <1>12, <2>1 DEF Spent, Charge
    <2> QED BY <2>2, RunWaitsAssumption DEF Capped
  <1> QED BY <1>9, <1>11, <1>12, <1>13, <1>14 DEF Synced

LEMMA AcknowledgedFate ==
  ASSUME NEW t \in Runs, NEW c
  PROVE  LET s == Acknowledged(t, c) IN
         /\ Hands(t, s, Capped(t)) /\ (Synced(t) => Synced(s))
         /\ s.status = "failed" => t.status = "failed"
  <1> DEFINE u == Received(t)
             f == Flush(u, c.sent)
             q == [t EXCEPT !.flight = NoFlight]
             s == Acknowledged(t, c)
  <1>1. s \in {q, f, SettleIdle(f, c)} /\ (f.flight.on => s \in {q, f})
    BY DEF Acknowledged
  <1>2. /\ u \in Runs /\ Hands(t, u, {}) /\ (Synced(t) => Synced(u))
        /\ u.status \in {t.status, "running"} /\ Capped(u) \subseteq Capped(t)
    BY ReceivedFate
  <1>3. q.wait = t.wait /\ q.disk = t.disk /\ q.status = t.status
    BY DEF Runs
  <1> HIDE DEF u, q, s
  <1>4. /\ f \in Runs /\ Smooth(u, f, Capped(t))
        /\ f.flight.on \/ (f.flight = u.flight /\ f.wakes = u.wakes)
    BY <1>2, FlushTyped, FlushFate, SmoothMore
  <1> HIDE DEF f
  <1>5. ~f.flight.on => Smooth(u, SettleIdle(f, c), Capped(t))
    <2> HAVE ~f.flight.on
    <2>1. Capped(f) = Capped(u)
      BY <1>4 DEF Capped, Spent
    <2>2. Smooth(f, SettleIdle(f, c), Capped(t))
      BY <1>2, <1>4, <2>1, DecideFate, SmoothMore
    <2> QED BY <1>4, <2>2, SmoothChain
  <1>6. \A x : Smooth(u, x, Capped(t)) =>
                 /\ Hands(t, x, Capped(t)) /\ (Synced(t) => Synced(x))
                 /\ x.status = "failed" => t.status = "failed"
    BY <1>2 DEF Smooth, Spares, Hands, Ended
  <1>7. /\ Hands(t, q, Capped(t)) /\ (Synced(t) => Synced(q)) /\ q.status = t.status
    BY <1>3 DEF Hands, Synced
  <1> QED BY <1>1, <1>4, <1>5, <1>6, <1>7 DEF s

(* The close: a stop cancels the results and the run with them, every      *)
(* other close leaves them as they are.                                    *)
LEMMA ClosedFate ==
  ASSUME NEW t \in Runs, NEW c, t.line \in {"none", "wake"}
  PROVE  LET s == Dropped(Closed(t, c)) IN
         /\ Synced(t) => Synced(s)
         /\ \/ Spares(t, s, {})
            \/ Spares(t, s, Wait) /\ s.status = "cancelled"
         /\ s.session = "none" /\ s.line = "none" /\ s.flight = t.flight
  <1> DEFINE asked == [t EXCEPT !.asked = FALSE]
             quiet == IF t.asked /\ c.withdrawn THEN Commit(asked) ELSE t
             x     == Closed(t, c)
  <1>1. /\ quiet \in Runs /\ quiet.wait = t.wait /\ (Synced(t) => Synced(quiet))
        /\ quiet.flight = t.flight /\ quiet.line = t.line /\ quiet.session = t.session
    <2>1. /\ asked \in Runs /\ asked.wait = t.wait /\ asked.flight = t.flight
          /\ asked.line = t.line /\ asked.session = t.session
      BY DEF Runs
    <2> HIDE DEF asked
    <2> QED BY <2>1, CommitTyped, CommitFate
  <1>2. \/ x = Terminal(quiet, "cancelled", c.ok)
        \/ /\ Listed(quiet) = {}
           /\ x \in {Terminal(quiet, "done", c.ok), Terminal(quiet, "failed", c.ok)}
        \/ x = FailedDelivery(quiet, c.ok)
        \/ x = [quiet EXCEPT !.status = "waiting"]
    <2> DEFINE over  == /\ Listed(quiet) = {}
                        /\ t.session = "done" \/ (t.session = "dead" /\ c.clean)
               broke == Listed(quiet) = {} /\ t.session = "dead" /\ ~c.clean
               rest  == [quiet EXCEPT !.status = "waiting"]
    <2>1. x = CASE t.stopping -> Terminal(quiet, "cancelled", c.ok)
                [] ~t.stopping /\ Resolved(quiet) # {} -> FailedDelivery(quiet, c.ok)
                [] ~t.stopping /\ over -> Terminal(quiet, "done", c.ok)
                [] ~t.stopping /\ broke -> Terminal(quiet, "failed", c.ok)
                [] OTHER -> rest
      BY DEF Closed
    <2>2. (over \/ broke) => Listed(quiet) = {}
      OBVIOUS
    <2>3. Listed(quiet) = {} => Resolved(quiet) = {}
      BY DEF Listed
    <2>4. ~(over /\ broke)
      OBVIOUS
    <2> SUFFICES \/ x = Terminal(quiet, "cancelled", c.ok)
                 \/ /\ Listed(quiet) = {}
                    /\ x \in {Terminal(quiet, "done", c.ok), Terminal(quiet, "failed", c.ok)}
                 \/ x = FailedDelivery(quiet, c.ok)
                 \/ x = rest
      OBVIOUS
    <2> HIDE DEF quiet, x, rest, over, broke
    <2>5. CASE t.stopping
      BY <2>1, <2>5
    <2>6. CASE ~t.stopping /\ Resolved(quiet) # {}
      BY <2>1, <2>2, <2>3, <2>6
    <2>7. CASE ~t.stopping /\ Resolved(quiet) = {} /\ over
      BY <2>1, <2>2, <2>4, <2>7
    <2>8. CASE ~t.stopping /\ Resolved(quiet) = {} /\ broke
      BY <2>1, <2>2, <2>4, <2>8
    <2>9. CASE ~t.stopping /\ Resolved(quiet) = {} /\ ~over /\ ~broke
      BY <2>1, <2>9
    <2> QED BY <2>5, <2>6, <2>7, <2>8, <2>9
  <1> HIDE DEF quiet, x
  <1>4. ASSUME NEW status \in Statuses
        PROVE  LET y == Terminal(quiet, status, c.ok) IN
               /\ y \in Runs /\ Spares(t, y, Wait) /\ (Synced(t) => Synced(y))
               /\ y.status = status /\ y.flight = t.flight /\ y.line \in {"none", t.line} \ {"wake"}
               /\ Listed(quiet) = {} => y.wait = t.wait
    <2> DEFINE r == [quiet EXCEPT !.status = status]
    <2>1. /\ r \in Runs /\ r.wait = t.wait /\ r.disk = quiet.disk /\ r.status = status
          /\ r.flight = t.flight /\ r.line = t.line
      BY <1>1 DEF Runs
    <2>2. Terminal(quiet, status, c.ok) = CancelOpenWaits(r, c.ok)
      BY DEF Terminal
    <2> HIDE DEF r
    <2>3. Listed(r) = Listed(quiet)
      BY <1>1, <2>1 DEF Listed, Resolved, In
    <2> QED BY <1>1, <2>1, <2>2, <2>3, CancelTyped, CancelOpenWaitsFate DEF Spares, Synced
  <1>5. /\ FailedDelivery(quiet, c.ok).wait = t.wait
        /\ Synced(t) => Synced(FailedDelivery(quiet, c.ok))
        /\ FailedDelivery(quiet, c.ok).flight = t.flight
        /\ FailedDelivery(quiet, c.ok).line = t.line
        /\ DOMAIN FailedDelivery(quiet, c.ok) = DOMAIN t
    BY <1>1 DEF FailedDelivery, GiveUp, PutOff, BestEffort, Commit, Stored, Runs, Synced
  <1>6. /\ [quiet EXCEPT !.status = "waiting"].wait = t.wait
        /\ [quiet EXCEPT !.status = "waiting"].disk = quiet.disk
        /\ [quiet EXCEPT !.status = "waiting"].flight = t.flight
        /\ [quiet EXCEPT !.status = "waiting"].line = t.line
        /\ DOMAIN [quiet EXCEPT !.status = "waiting"] = DOMAIN t
    BY <1>1 DEF Runs
  <1>7. /\ Synced(t) => Synced(x)
        /\ x.wait = t.wait \/ (Spares(t, x, Wait) /\ x.status = "cancelled")
        /\ x.flight = t.flight /\ x.line \in {"none", "wake"} /\ DOMAIN x = DOMAIN t
    BY <1>1, <1>2, <1>4, <1>5, <1>6 DEF Statuses, Synced, Runs
  <1>8. LET s == Dropped(x) IN
        /\ s.wait = x.wait /\ s.disk = x.disk /\ s.status = x.status
        /\ s.session = "none" /\ s.line = "none" /\ s.flight = x.flight
    BY <1>7 DEF Dropped, Runs
  <1> QED BY <1>7, <1>8 DEF x, Spares, Synced

LEMMA RecoveredFate ==
  ASSUME NEW r \in Rows, NEW sent
  PROVE  LET t == Recorded(r, Forgotten)
             s == Recovered(t, sent)
         IN /\ t \in Runs /\ t.wait = r.wait /\ Synced(s)
            /\ \/ s.wait = r.wait
               \/ Spares(t, s, Wait) /\ ~Live(s)
            /\ s.status = "failed" => s.session = "none" /\ s.line = "none" /\ ~s.flight.on
  <1> DEFINE t     == Recorded(r, Forgotten)
             armed == [t EXCEPT !.watch = In(t, "open")]
             waits == [armed EXCEPT !.status = "waiting"]
             again == [t EXCEPT !.status = "queued", !.line = "restart"]
             over  == CancelOpenWaits(t, TRUE)
             s     == Recovered(t, sent)
  <1>1. t \in Runs
    <2>1. "none" \in Sessions
      BY DEF Sessions
    <2> QED BY <2>1, RecordedTyped
  <1>2. /\ t.wait = r.wait /\ t.disk = r /\ t.session = "none" /\ t.line = "none"
        /\ t.flight = NoFlight /\ t.status = r.status
    BY DEF Recorded, Forgotten, Rows
  <1>3. ~NoFlight.on
    BY DEF NoFlight
  <1>4. \/ s = QueueWake(waits, sent) \/ s = Commit(again) \/ s = armed \/ s = t
        \/ s = over /\ ~Live(t)
    <2> DEFINE owes  == Live(t) /\ Listed(t) # {}
               idle  == Live(t) /\ Listed(t) = {} /\ t.status # "waiting"
               keeps == t.status = "failed" /\ Resolved(t) # {}
               ended == ~Live(t) /\ ~keeps
               wake  == QueueWake(waits, sent)
               start == Commit(again)
    <2>1. s = CASE owes -> wake [] idle -> start [] keeps -> armed [] ended -> over [] OTHER -> t
      BY DEF Recovered
    <2>2. ended => ~Live(t)
      OBVIOUS
    <2>3. keeps => ~Live(t)
      BY DEF Live
    <2>4. (owes \/ idle) => Live(t)
      OBVIOUS
    <2>5. ~(owes /\ idle) /\ ~(keeps /\ ended)
      OBVIOUS
    <2> SUFFICES s = wake \/ s = start \/ s = armed \/ s = t \/ (s = over /\ ~Live(t))
      OBVIOUS
    <2> HIDE DEF s, t, owes, idle, keeps, ended, wake, start, armed, over
    <2> QED BY <2>1, <2>2, <2>3, <2>4, <2>5
  <1> HIDE DEF t, s
  <1>5. /\ armed \in Runs /\ armed.wait = t.wait /\ armed.disk = t.disk
        /\ armed.session = "none" /\ armed.line = "none" /\ armed.flight = NoFlight
    <2>1. In(t, "open") \in SUBSET Wait
      BY DEF In
    <2> QED BY <1>1, <1>2, <2>1 DEF Runs
  <1> HIDE DEF armed
  <1>6. /\ waits \in Runs /\ waits.wait = t.wait /\ waits.disk = t.disk
        /\ waits.status = "waiting" /\ waits.session = "none"
    <2>1. "waiting" \in Statuses
      BY DEF Statuses
    <2> QED BY <1>5, <2>1 DEF Runs
  <1>7. again \in Runs /\ again.wait = t.wait /\ again.status = "queued"
    <2>1. "queued" \in Statuses /\ "restart" \in Lines
      BY DEF Statuses, Lines
    <2> QED BY <1>1, <2>1 DEF Runs
  <1> HIDE DEF waits, again
  <1>8. CASE s = QueueWake(waits, sent)
    <2>1. s.wait = waits.wait /\ Synced(s) /\ s.status # "failed"
      BY <1>2, <1>6, <1>8, QueueWakeFate DEF Smooth, Synced
    <2> QED BY <1>1, <1>2, <1>6, <2>1 DEF t, s
  <1>9. CASE s = Commit(again)
    <2>1. s.wait = again.wait /\ Synced(s) /\ s.status = "queued"
      BY <1>7, <1>9, CommitFate
    <2> QED BY <1>1, <1>2, <1>7, <2>1 DEF t, s
  <1>10. CASE s \in {armed, t}
    BY <1>1, <1>2, <1>3, <1>5, <1>10 DEF t, s, Synced
  <1>11. CASE s = over /\ ~Live(t)
    <2>1. /\ Spares(t, s, Wait) /\ (Synced(t) => Synced(s)) /\ s.status = t.status
          /\ s.session = t.session /\ s.line \in {"none", t.line} /\ s.flight = t.flight
      BY <1>1, <1>11, CancelOpenWaitsFate
    <2>2. ~Live(s)
      BY <1>11, <2>1 DEF Live
    <2> QED BY <1>1, <1>2, <1>3, <2>1, <2>2 DEF t, s, Synced
  <1> QED BY <1>4, <1>8, <1>9, <1>10, <1>11

-----------------------------------------------------------------------------
(* The steps.  A run that has failed is at rest: no session, no entry of   *)
(* the line and nothing in flight.                                         *)
AtRest(t) == t.session = "none" /\ t.line = "none" /\ ~t.flight.on

FateInv == Synced(run) /\ (run.status = "failed" => AtRest(run))

(* What every step but the end, a stop and a restart of the run does.      *)
Carries ==
  /\ Hands(run, run', Capped(run)) /\ Synced(run')
  /\ run'.status = "failed" => run.status = "failed"

LEMMA SmoothCarries ==
  ASSUME Synced(run), Smooth(run, run', Capped(run)) PROVE Carries
  BY DEF Smooth, Spares, Hands, Ended, Carries

LEMMA WatchCarries ==
  ASSUME run \in Runs, Synced(run),
         \/ \E w \in Wait, withdrawn, ok, sent \in BOOLEAN : OpenWait(w, withdrawn, ok, sent)
         \/ \E w \in Wait : CancelWait(w)
         \/ \E w \in Wait, ok, sent \in BOOLEAN : Resolve(w, ok, sent)
  PROVE  Carries
  <1>1. ASSUME NEW w \in Wait, NEW withdrawn, NEW ok, NEW sent, OpenWait(w, withdrawn, ok, sent)
        PROVE  Carries
    <2> DEFINE asked == [run EXCEPT !.asked = FALSE]
               quiet == IF run.asked /\ withdrawn THEN Commit(asked) ELSE run
               open  == [quiet EXCEPT !.wait[w] = "open"]
               o     == Commit(open)
               armed == [o EXCEPT !.watch = @ \cup {w}]
    <2>1. run.wait[w] = "none"
          /\ run' \in {quiet, ParkOnWaits(armed, sent), armed}
      BY <1>1 DEF OpenWait
    <2>2. /\ quiet \in Runs /\ quiet.wait = run.wait /\ Synced(quiet)
          /\ quiet.status = run.status /\ quiet.flight = run.flight /\ quiet.wakes = run.wakes
      <3>1. /\ asked \in Runs /\ asked.wait = run.wait /\ asked.status = run.status
            /\ asked.flight = run.flight /\ asked.wakes = run.wakes
        BY DEF Runs
      <3> HIDE DEF asked
      <3> QED BY <3>1, CommitTyped, CommitFate
    <2> HIDE DEF quiet
    <2>3. /\ open \in Runs /\ open.wait = [run.wait EXCEPT ![w] = "open"]
          /\ open.status = run.status /\ open.flight = run.flight /\ open.wakes = run.wakes
      BY <2>2 DEF Runs, Phases
    <2> HIDE DEF open
    <2>4. /\ o \in Runs /\ o.wait = open.wait /\ Synced(o)
          /\ o.status = run.status /\ o.flight = run.flight /\ o.wakes = run.wakes
      BY <2>3, CommitTyped, CommitFate
    <2> HIDE DEF o
    <2>5. /\ armed \in Runs /\ armed.wait = o.wait /\ armed.disk = o.disk
          /\ armed.status = run.status /\ armed.flight = run.flight /\ armed.wakes = run.wakes
      BY <2>4 DEF Runs
    <2> HIDE DEF armed
    <2>6. Smooth(run, quiet, Capped(run))
      BY <2>2, SmoothSame
    <2>7. Smooth(run, armed, Capped(run)) /\ Capped(armed) = Capped(run)
      <3>1. Spares(run, armed, Capped(run))
        BY <2>1, <2>3, <2>4, <2>5 DEF Spares, Ended, Runs
      <3> QED BY <2>4, <2>5, <3>1 DEF Smooth, Synced, Capped, Spent
    <2>8. Smooth(run, ParkOnWaits(armed, sent), Capped(run))
      BY <2>5, <2>7, ParkFate, SmoothChain
    <2> QED BY <2>1, <2>6, <2>7, <2>8, SmoothCarries
  <1>2. ASSUME NEW w \in Wait, CancelWait(w) PROVE Carries
    <2>1. run.wait[w] = "open" /\ run' = CancelAtCap(run, {w})
      BY <1>2 DEF CancelWait, CancelAtCap
    <2>2. /\ run'.wait = [v \in Wait |-> IF v \in {w} THEN "cancelled" ELSE run.wait[v]]
          /\ Synced(run') /\ run'.status = run.status
      BY <2>1, CancelAtCapFate
    <2>3. Spares(run, run', Capped(run))
      BY <2>1, <2>2 DEF Spares, Ended
    <2> QED BY <2>2, <2>3, SmoothCarries DEF Smooth
  <1>3. ASSUME NEW w \in Wait, NEW ok, NEW sent, Resolve(w, ok, sent) PROVE Carries
    <2> DEFINE fired == Disarmed(run, {w})
               owed  == [fired EXCEPT !.wait[w] = "resolved"]
               left  == CancelAtCap(fired, {w})
               asked == [left EXCEPT !.asked = TRUE]
    <2>1. \/ run' = fired
          \/ run' = Kept(fired, w)
          \/ run.wait[w] = "open" /\ run' \in {QueueWake(Commit(owed), sent), Repark(left),
                                               Commit(asked), left}
      BY <1>3, Zenon DEF Resolve
    <2>2. /\ fired \in Runs /\ fired.wait = run.wait /\ fired.disk = run.disk
          /\ fired.status = run.status /\ fired.flight = run.flight /\ fired.wakes = run.wakes
      BY DisarmedTyped DEF Disarmed, Runs
    <2> HIDE DEF fired
    <2>3. /\ Kept(fired, w).wait = run.wait /\ Kept(fired, w).disk = run.disk
          /\ Kept(fired, w).status = run.status
      BY <2>2 DEF Kept, Runs
    <2>4. /\ owed \in Runs /\ owed.wait = [run.wait EXCEPT ![w] = "resolved"]
          /\ owed.status = run.status /\ owed.flight = run.flight /\ owed.wakes = run.wakes
      BY <2>2 DEF Runs, Phases
    <2> HIDE DEF owed
    <2>5. /\ left \in Runs /\ Synced(left) /\ left.status = run.status
          /\ left.wait = [v \in Wait |-> IF v \in {w} THEN "cancelled" ELSE run.wait[v]]
      BY <2>2, CancelTyped, CancelAtCapFate
    <2> HIDE DEF left
    <2>6. asked \in Runs /\ asked.wait = left.wait /\ asked.status = run.status
      BY <2>5 DEF Runs
    <2> HIDE DEF asked
    <2>7. CASE run' = fired \/ run' = Kept(fired, w)
      BY <2>2, <2>3, <2>7, SmoothSame, SmoothCarries
    <2>8. CASE run.wait[w] = "open" /\ run' = QueueWake(Commit(owed), sent)
      <3>1. /\ Commit(owed) \in Runs /\ Commit(owed).wait = owed.wait /\ Synced(Commit(owed))
            /\ Commit(owed).status = run.status /\ Commit(owed).flight = run.flight
            /\ Commit(owed).wakes = run.wakes
        BY <2>4, CommitTyped, CommitFate
      <3>2. Spares(run, Commit(owed), Capped(run))
        BY <2>4, <2>8, <3>1 DEF Spares, Ended, Runs
      <3>3. Smooth(run, Commit(owed), Capped(run)) /\ Capped(Commit(owed)) = Capped(run)
        BY <3>1, <3>2 DEF Smooth, Capped, Spent
      <3> QED BY <2>8, <3>1, <3>3, QueueWakeFate, SmoothChain, SmoothCarries
    <2>9. CASE run.wait[w] = "open" /\ run' \in {Repark(left), Commit(asked), left}
      <3>1. run'.wait = left.wait /\ Synced(run') /\ run'.status = run.status
        BY <2>5, <2>6, <2>9, ReparkFate, CommitFate DEF Synced
      <3>2. Spares(run, run', Capped(run))
        BY <2>5, <2>9, <3>1 DEF Spares, Ended
      <3> QED BY <3>1, <3>2, SmoothCarries DEF Smooth
    <2> QED BY <2>1, <2>7, <2>8, <2>9
  <1> QED BY <1>1, <1>2, <1>3

LEMMA WakeCarries ==
  ASSUME run \in Runs, Synced(run),
         Launch \/ \E sent \in BOOLEAN : RetryFires(sent) \/ BackoffFires(sent) \/ AdmitWake(sent)
  PROVE  Carries
  <1>1. ASSUME NEW timer \in {"retry", "backoff"}, NEW sent, run' = Fired(timer, sent)
        PROVE  Carries
    <2> DEFINE x == [run EXCEPT ![timer] = FALSE]
    <2>1. /\ x \in Runs /\ x.wait = run.wait /\ x.disk = run.disk /\ x.status = run.status
          /\ x.flight = run.flight /\ x.wakes = run.wakes
      <3>1. CASE timer = "retry"
        BY <3>1 DEF Runs
      <3>2. CASE timer = "backoff"
        BY <3>2 DEF Runs
      <3> QED BY <3>1, <3>2
    <2>2. run' = QueueWake(x, sent)
      BY <1>1 DEF Fired
    <2> HIDE DEF x
    <2>3. Smooth(run, x, Capped(run)) /\ Capped(x) = Capped(run)
      BY <2>1, SmoothSame DEF Capped, Spent
    <2> QED BY <2>1, <2>2, <2>3, QueueWakeFate, SmoothChain, SmoothCarries
  <1>2. ASSUME NEW sent, AdmitWake(sent) PROVE Carries
    <2> DEFINE taken == [run EXCEPT !.line = "none"]
               admitted == [taken EXCEPT !.parked = FALSE, !.admitted = TRUE]
    <2>1. run' \in {taken, Retried(run), Flush(admitted, sent)}
      BY <1>2, Zenon DEF AdmitWake
    <2>2. /\ taken \in Runs /\ taken.wait = run.wait /\ taken.disk = run.disk
          /\ taken.status = run.status /\ taken.flight = run.flight /\ taken.wakes = run.wakes
      BY DEF Runs, Lines
    <2> HIDE DEF taken
    <2>3. /\ admitted \in Runs /\ admitted.wait = run.wait /\ admitted.disk = run.disk
          /\ admitted.status = run.status /\ admitted.flight = run.flight
          /\ admitted.wakes = run.wakes
      BY <2>2 DEF Runs
    <2> HIDE DEF admitted
    <2>4. /\ Retried(run).wait = run.wait /\ Retried(run).disk = run.disk
          /\ Retried(run).status = run.status
      BY DEF Retried, Runs
    <2>5. Smooth(run, admitted, Capped(run)) /\ Capped(admitted) = Capped(run)
      BY <2>3, SmoothSame DEF Capped, Spent
    <2>6. Smooth(run, Flush(admitted, sent), Capped(run))
      BY <2>3, <2>5, FlushFate, SmoothChain
    <2>7. Smooth(run, taken, Capped(run)) /\ Smooth(run, Retried(run), Capped(run))
      BY <2>2, <2>4, SmoothSame
    <2> QED BY <2>1, <2>6, <2>7, SmoothCarries
  <1>3. CASE Launch
    <2>1. run'.wait = run.wait /\ run'.disk = run.disk /\ run'.status = "running"
      BY <1>3 DEF Launch, Runs
    <2> QED BY <2>1, SmoothSame, SmoothCarries
  <1> QED BY <1>1, <1>2, <1>3 DEF RetryFires, BackoffFires

LEMMA SessionCarries ==
  ASSUME run \in Runs, Synced(run),
         \/ \E c \in Turn : TurnEnds(c) \/ Acknowledge(c)
         \/ \E refused \in BOOLEAN : DeliveryFails(refused)
         \/ \E how \in {"dead", "idle"} : SessionEnds(how)
  PROVE  Carries
  <1>1. ASSUME NEW c, TurnEnds(c) PROVE Carries
    BY <1>1, EndTurnFate, SmoothCarries DEF TurnEnds
  <1>2. ASSUME NEW c, Acknowledge(c) PROVE Carries
    BY <1>2, AcknowledgedFate DEF Acknowledge, Carries
  <1>3. ASSUME NEW refused, DeliveryFails(refused) PROVE Carries
    <2>1. run'.wait = run.wait /\ run'.disk = run.disk /\ run'.status = run.status
      BY <1>3 DEF DeliveryFails, Runs
    <2> QED BY <2>1, SmoothSame, SmoothCarries
  <1>4. ASSUME NEW how, SessionEnds(how) PROVE Carries
    <2>1. run'.wait = run.wait /\ run'.disk = run.disk /\ run'.status = run.status
      BY <1>4 DEF SessionEnds, Runs
    <2> QED BY <2>1, SmoothSame, SmoothCarries
  <1> QED BY <1>1, <1>2, <1>3, <1>4

LEMMA TalkCarries ==
  ASSUME run \in Runs, Synced(run), Save \/ \E ok \in BOOLEAN : Message(ok) \/ Continue(ok)
  PROVE  Carries
  <1> DEFINE Open(t) == [t EXCEPT !.asked = FALSE, !.wakes = 0, !.charged = 0, !.failures = 0]
  <1>1. ASSUME NEW t \in Runs, NEW ok, t.wait = run.wait, t.disk = run.disk
        PROVE  LET s == Answered(t, ok) IN
               /\ s \in Runs /\ s.wait = run.wait /\ Synced(s) /\ s.status = t.status
    <2> DEFINE o == Open(t)
    <2>1. o \in Runs /\ o.wait = t.wait /\ o.disk = t.disk /\ o.status = t.status
      <3>1. 0 \in 0..(MaxAttempts - 1)
        BY RunWaitsAssumption
      <3> QED BY <3>1 DEF Runs
    <2>2. Answered(t, ok) = BestEffort(o, ok)
      BY DEF Answered
    <2> HIDE DEF o
    <2>3. Answered(t, ok) \in {o, Commit(o)}
      BY <2>1, <2>2, CommitFate
    <2> QED BY <1>1, <2>1, <2>3, CommitTyped, CommitFate DEF Synced
  <1>2. ASSUME NEW ok, Message(ok) PROVE Carries
    <2> DEFINE a == Answered(run, ok)
    <2>1. a \in Runs /\ a.wait = run.wait /\ Synced(a) /\ a.status = run.status
      BY <1>1
    <2>2. run' = Resume(a)
      BY <1>2 DEF Message
    <2> HIDE DEF a
    <2>3. run'.wait = a.wait /\ run'.disk = a.disk /\ run'.status \in {a.status, "running"}
      BY <2>1, <2>2 DEF Resume, Runs
    <2> QED BY <2>1, <2>3, SmoothSame, SmoothCarries DEF Synced
  <1>3. ASSUME NEW ok, Continue(ok) PROVE Carries
    <2> DEFINE b == [run EXCEPT !.backoff = FALSE, !.session = "turn", !.status = "running"]
    <2>1. b \in Runs /\ b.wait = run.wait /\ b.disk = run.disk /\ b.status = "running"
      BY DEF Runs, Sessions, Statuses
    <2>2. run' = Answered(b, ok)
      BY <1>3 DEF Continue
    <2> HIDE DEF b
    <2>3. run'.wait = run.wait /\ Synced(run') /\ run'.status = "running"
      BY <1>1, <2>1, <2>2
    <2> QED BY <2>3, SmoothSame, SmoothCarries
  <1>4. CASE Save
    BY <1>4, CommitFate, SmoothSame, SmoothCarries DEF Save
  <1> QED BY <1>2, <1>3, <1>4

(* The close of a session, once nothing is in flight.                      *)
LEMMA SettlesFate ==
  ASSUME run \in Runs, Placed(run), Synced(run), NEW c, SessionSettles(c)
  PROVE  /\ FateInv'
         /\ Spares(run, run', {}) \/ (Spares(run, run', Wait) /\ ~Live(run'))
         /\ run'.status = "failed" => Spares(run, run', {})
  <1> DEFINE left == Dropped(Closed(run, c))
  <1>1. /\ run.line \in {"none", "wake"} /\ ~run.flight.on
        /\ run' = IF Listed(left) # {} THEN QueueWake(left, c.sent) ELSE left
    BY DEF SessionSettles, Placed, Runs, Lines
  <1>2. /\ Synced(left) /\ left.session = "none" /\ left.line = "none"
        /\ left.flight = run.flight /\ left \in Runs
        /\ Spares(run, left, {}) \/ (Spares(run, left, Wait) /\ left.status = "cancelled")
    BY <1>1, ClosedFate, ClosedTyped
  <1> HIDE DEF left
  <1>3. CASE run' = left
    <2>1. left.status = "cancelled" => ~Live(left)
      BY DEF Live
    <2>2. left.status = "failed" => left.status # "cancelled"
      OBVIOUS
    <2> QED BY <1>1, <1>2, <1>3, <2>1, <2>2 DEF FateInv, AtRest, Live, Synced, Spares
  <1>4. CASE run' # left /\ run' = QueueWake(left, c.sent)
    <2>1. /\ Live(left) /\ run'.wait = left.wait /\ Synced(run')
          /\ run'.status = "failed" => left.status = "failed"
      BY <1>2, <1>4, QueueWakeFate DEF Smooth
    <2>2. left.status # "failed" /\ left.status # "cancelled"
      BY <2>1 DEF Live
    <2>3. Spares(run, run', {})
      BY <1>2, <2>1, <2>2 DEF Spares
    <2> QED BY <2>1, <2>2, <2>3 DEF FateInv, Synced
  <1> QED BY <1>1, <1>3, <1>4

LEMMA StopFate ==
  ASSUME run \in Runs, FateInv, NEW ok, Stop(ok)
  PROVE  /\ FateInv'
         /\ Spares(run, run', {}) \/ (Spares(run, run', Wait) /\ (run'.stopping \/ ~Live(run')))
  <1> DEFINE quiet   == CancelOpenWaits(run, ok)
             stop    == [quiet EXCEPT !.stopping = TRUE]
             unqueue == [quiet EXCEPT !.line = "none", !.status = "cancelled"]
             over    == [quiet EXCEPT !.status = "cancelled"]
  <1>1. \/ run.session # "none" /\ run' = BestEffort(stop, ok)
        \/ run' \in {BestEffort(unqueue, ok), over}
        \/ (~Live(run) \/ Listed(run) = {}) /\ run' = quiet
    BY Zenon DEF Stop
  <1>2. /\ quiet \in Runs /\ Spares(run, quiet, Wait) /\ Synced(quiet)
        /\ Resolved(run) = {} => Spares(run, quiet, {})
        /\ quiet.status = run.status /\ quiet.session = run.session
        /\ quiet.flight = run.flight /\ quiet.line \in {"none", run.line}
    BY CancelTyped, CancelOpenWaitsFate DEF FateInv
  <1> HIDE DEF quiet
  <1>3. /\ stop \in Runs /\ stop.wait = quiet.wait /\ stop.disk = quiet.disk
        /\ stop.status = run.status /\ stop.session = run.session /\ stop.stopping
    BY <1>2 DEF Runs
  <1>4. /\ unqueue \in Runs /\ unqueue.wait = quiet.wait /\ unqueue.disk = quiet.disk
        /\ unqueue.status = "cancelled"
    BY <1>2 DEF Runs, Lines, Statuses
  <1>5. over.wait = quiet.wait /\ over.disk = quiet.disk /\ over.status = "cancelled"
    BY <1>2 DEF Runs
  <1> HIDE DEF stop, unqueue, over
  <1>6. CASE run.session # "none" /\ run' = BestEffort(stop, ok)
    <2>1. run'.wait = quiet.wait /\ Synced(run') /\ run'.status = run.status /\ run'.stopping
      BY <1>2, <1>3, <1>6, CommitFate DEF Synced
    <2>2. run.status # "failed"
      BY <1>6 DEF FateInv, AtRest
    <2> QED BY <1>2, <2>1, <2>2 DEF FateInv, Spares, Synced
  <1>7. CASE run' \in {BestEffort(unqueue, ok), over}
    <2>1. run'.wait = quiet.wait /\ Synced(run') /\ run'.status = "cancelled"
      BY <1>2, <1>4, <1>5, <1>7, CommitFate DEF Synced
    <2>2. ~Live(run')
      BY <2>1 DEF Live
    <2> QED BY <1>2, <2>1, <2>2 DEF FateInv, Spares, Synced
  <1>8. CASE (~Live(run) \/ Listed(run) = {}) /\ run' = quiet
    <2>1. Listed(run) = {} => Resolved(run) = {}
      BY DEF Listed
    <2>2. ~Live(run) => ~Live(run')
      BY <1>2, <1>8 DEF Live
    <2> QED BY <1>2, <1>8, <2>1, <2>2 DEF FateInv, AtRest, Synced
  <1> QED BY <1>1, <1>6, <1>7, <1>8

LEMMA RestartFate ==
  ASSUME run \in Runs, FateInv, NEW sent, Restart(sent)
  PROVE  /\ FateInv'
         /\ Spares(run, run', {}) \/ (Spares(run, run', Wait) /\ ~Live(run'))
  <1> DEFINE t == Recorded(run.disk, Forgotten)
  <1>1. run.disk \in Rows /\ run' = Recovered(t, sent)
    BY DEF Runs, Restart
  <1>2. /\ t.wait = run.disk.wait /\ Synced(run')
        /\ run'.wait = run.disk.wait \/ (Spares(t, run', Wait) /\ ~Live(run'))
        /\ run'.status = "failed" => AtRest(run')
    BY <1>1, RecoveredFate DEF AtRest
  <1> HIDE DEF t
  <1> QED BY <1>2 DEF FateInv, AtRest, Spares, Synced

(* Without the user and without a restart, a run that has failed stays as  *)
(* it is, and its results with it; only what is still watched resolves.    *)
Unattended ==
  \/ \E w \in Wait, withdrawn, ok, sent \in BOOLEAN : OpenWait(w, withdrawn, ok, sent)
  \/ \E w \in Wait : CancelWait(w)
  \/ \E w \in Wait, ok, sent \in BOOLEAN : Resolve(w, ok, sent)
  \/ \E sent \in BOOLEAN : RetryFires(sent) \/ BackoffFires(sent) \/ AdmitWake(sent)
  \/ Launch
  \/ \E c \in Turn : TurnEnds(c) \/ Acknowledge(c)
  \/ \E refused \in BOOLEAN : DeliveryFails(refused)
  \/ \E how \in {"dead", "idle"} : SessionEnds(how)
  \/ \E c \in Close : SessionSettles(c)
  \/ Save

LEMMA FailedStays ==
  ASSUME run \in Runs, Paused(run), run.status = "failed", AtRest(run), Unattended
  PROVE  run'.status = "failed" /\ AtRest(run') /\ Resolved(run) \subseteq Resolved(run')
  <1>1. ~run.backoff /\ run.session = "none" /\ run.line = "none" /\ ~run.flight.on
    BY DEF Paused, AtRest
  <1>2. \/ \E w \in Wait, ok, sent \in BOOLEAN : Resolve(w, ok, sent)
        \/ \E sent \in BOOLEAN : RetryFires(sent)
        \/ Save
    BY <1>1 DEF Unattended, OpenWait, CancelWait, BackoffFires, AdmitWake, Launch, TurnEnds,
                Acknowledge, DeliveryFails, SessionEnds, SessionSettles, SessionOpen
  <1>3. ASSUME NEW t \in Runs, t.status = "failed", NEW sent PROVE QueueWake(t, sent) = t
    BY <1>3, QueueWakeFate DEF Live
  <1>4. ASSUME NEW w \in Wait, NEW ok, NEW sent, Resolve(w, ok, sent)
        PROVE  run'.status = "failed" /\ AtRest(run') /\ Resolved(run) \subseteq Resolved(run')
    <2> DEFINE fired == Disarmed(run, {w})
               owed  == [fired EXCEPT !.wait[w] = "resolved"]
               left  == CancelAtCap(fired, {w})
    <2>1. \/ run' = fired
          \/ run' = Kept(fired, w)
          \/ run' = QueueWake(Commit(owed), sent)
          \/ run.wait[w] = "open" /\ run' = left
      <3>1. run.session = "none" /\ run.status # "waiting"
        BY <1>1
      <3> QED BY <1>4, <3>1, Zenon DEF Resolve
    <2>2. /\ fired \in Runs /\ fired.wait = run.wait /\ fired.status = "failed"
          /\ fired.session = "none" /\ fired.line = "none" /\ fired.flight = run.flight
      BY <1>1, DisarmedTyped DEF Disarmed, Runs
    <2> HIDE DEF fired
    <2>3. /\ Kept(fired, w).wait = run.wait /\ Kept(fired, w).status = "failed"
          /\ Kept(fired, w).session = "none" /\ Kept(fired, w).line = "none"
          /\ Kept(fired, w).flight = run.flight
      BY <2>2 DEF Kept, Runs
    <2>4. /\ owed \in Runs /\ owed.wait = [run.wait EXCEPT ![w] = "resolved"]
          /\ owed.status = "failed" /\ owed.session = "none" /\ owed.line = "none"
          /\ owed.flight = run.flight
      BY <2>2 DEF Runs, Phases
    <2> HIDE DEF owed
    <2>5. /\ left.wait = [v \in Wait |-> IF v \in {w} THEN "cancelled" ELSE run.wait[v]]
          /\ left.status = "failed" /\ left.session = "none" /\ left.line = "none"
          /\ left.flight = run.flight
      BY <2>2, CancelAtCapFate
    <2> HIDE DEF left
    <2>6. /\ QueueWake(Commit(owed), sent).wait = owed.wait
          /\ QueueWake(Commit(owed), sent).status = "failed"
          /\ QueueWake(Commit(owed), sent).session = "none"
          /\ QueueWake(Commit(owed), sent).line = "none"
          /\ QueueWake(Commit(owed), sent).flight = run.flight
      BY <1>3, <2>4, CommitTyped, CommitFate
    <2>7. /\ run'.status = "failed" /\ run'.session = "none" /\ run'.line = "none"
          /\ run'.flight = run.flight
      BY <2>1, <2>2, <2>3, <2>5, <2>6
    <2>8. \A v \in Wait : run.wait[v] = "resolved" => run'.wait[v] = "resolved"
      BY <2>1, <2>2, <2>3, <2>4, <2>5, <2>6 DEF Runs
    <2> QED BY <1>1, <2>7, <2>8 DEF AtRest, Resolved, In
  <1>5. ASSUME NEW sent, RetryFires(sent)
        PROVE  run'.status = "failed" /\ AtRest(run') /\ Resolved(run) \subseteq Resolved(run')
    <2> DEFINE x == [run EXCEPT !["retry"] = FALSE]
    <2>1. /\ x \in Runs /\ x.wait = run.wait /\ x.status = "failed"
          /\ x.session = "none" /\ x.line = "none" /\ x.flight = run.flight
      BY <1>1 DEF Runs
    <2>2. run' = QueueWake(x, sent)
      BY <1>5 DEF RetryFires, Fired
    <2> HIDE DEF x
    <2> QED BY <1>1, <1>3, <2>1, <2>2 DEF AtRest, Resolved, In
  <1>6. CASE Save
    BY <1>1, <1>6, CommitFate DEF Save, AtRest, Resolved, In
  <1> QED BY <1>2, <1>4, <1>5, <1>6

LEMMA CarriesNext ==
  ASSUME run \in Runs, Synced(run), [Next]_vars
  PROVE  \/ Carries
         \/ \E c \in Close : SessionSettles(c)
         \/ \E ok \in BOOLEAN : Stop(ok)
         \/ \E sent \in BOOLEAN : Restart(sent)
  <1>1. CASE \/ \E w \in Wait, withdrawn, ok, sent \in BOOLEAN : OpenWait(w, withdrawn, ok, sent)
             \/ \E w \in Wait : CancelWait(w)
             \/ \E w \in Wait, ok, sent \in BOOLEAN : Resolve(w, ok, sent)
    BY <1>1, WatchCarries
  <1>2. CASE Launch \/ \E sent \in BOOLEAN : RetryFires(sent) \/ BackoffFires(sent) \/ AdmitWake(sent)
    BY <1>2, WakeCarries
  <1>3. CASE \/ \E c \in Turn : TurnEnds(c) \/ Acknowledge(c)
             \/ \E refused \in BOOLEAN : DeliveryFails(refused)
             \/ \E how \in {"dead", "idle"} : SessionEnds(how)
    BY <1>3, SessionCarries
  <1>4. CASE Save \/ \E ok \in BOOLEAN : Message(ok) \/ Continue(ok)
    BY <1>4, TalkCarries
  <1>5. CASE UNCHANGED vars
    BY <1>5 DEF vars, Carries, Hands, Synced
  <1>6. CASE \/ \E c \in Close : SessionSettles(c)
             \/ \E ok \in BOOLEAN : Stop(ok)
             \/ \E sent \in BOOLEAN : Restart(sent)
    BY <1>6
  <1> QED BY <1>1, <1>2, <1>3, <1>4, <1>5, <1>6 DEF Next

LEMMA InitFate == Init => FateInv
  <1> SUFFICES ASSUME Init PROVE FateInv
    OBVIOUS
  <1> DEFINE r == [status |-> "running", wait |-> [w \in Wait |-> "none"], wakes |-> 0,
                   failures |-> 0, asked |-> FALSE, charged |-> 0]
  <1>1. run.disk = r /\ run.wait = r.wait /\ run.status = r.status
    BY DEF Init, Recorded, Forgotten
  <1> QED BY <1>1 DEF FateInv, Synced

LEMMA FateStep ==
  ASSUME run \in Runs, WaitInv, FateInv, [Next]_vars
  PROVE  FateInv'
  <1> Synced(run) /\ Placed(run) /\ Paused(run)
    BY DEF FateInv, WaitInv, Sound
  <1>1. CASE Carries
    <2>1. CASE run.status # "failed"
      BY <1>1, <2>1 DEF Carries, FateInv, Synced
    <2>2. CASE run.status = "failed"
      <3>1. AtRest(run)
        BY <2>2 DEF FateInv
      <3>2. CASE Unattended
        BY <1>1, <2>2, <3>1, <3>2, FailedStays DEF Carries, FateInv, AtRest, Synced
      <3>3. CASE \E ok \in BOOLEAN : Message(ok)
        BY <3>1, <3>3 DEF Message, SessionOpen, AtRest
      <3>4. ASSUME NEW ok, Continue(ok) PROVE FateInv'
        <4> DEFINE b == [run EXCEPT !.backoff = FALSE, !.session = "turn", !.status = "running"]
        <4>1. b \in Runs /\ b.status = "running"
          BY DEF Runs, Sessions, Statuses
        <4>2. run' = Answered(b, ok)
          BY <3>4 DEF Continue
        <4> HIDE DEF b
        <4>3. Answered(b, ok).status = b.status
          BY <4>1 DEF Answered, BestEffort, Commit, Runs
        <4> QED BY <1>1, <4>1, <4>2, <4>3 DEF Carries, FateInv, Synced
      <3>5. CASE \E ok \in BOOLEAN : Stop(ok)
        BY <3>5, StopFate
      <3>6. CASE \E sent \in BOOLEAN : Restart(sent)
        BY <3>6, RestartFate
      <3>7. CASE UNCHANGED vars
        BY <3>7 DEF vars, FateInv, Synced, AtRest
      <3> QED BY <3>2, <3>3, <3>4, <3>5, <3>6, <3>7 DEF Next, Unattended
    <2> QED BY <2>1, <2>2
  <1>2. CASE \E c \in Close : SessionSettles(c)
    BY <1>2, SettlesFate
  <1>3. CASE \E ok \in BOOLEAN : Stop(ok)
    BY <1>3, StopFate
  <1>4. CASE \E sent \in BOOLEAN : Restart(sent)
    BY <1>4, RestartFate
  <1> QED BY <1>1, <1>2, <1>3, <1>4, CarriesNext

(* runs/outcome-commit.ts, wait-registry.ts: every change of a wait is     *)
(* committed with it, so that a restart finds each where it was, and a run *)
(* that has failed has no session, no place in the line and no flight.     *)
THEOREM PhasesAreKept == Spec => [](RunsTyped /\ WaitInv /\ FateInv)
  <1>1. RunsTyped /\ WaitInv /\ FateInv /\ [Next]_vars => FateInv'
    BY FateStep DEF RunsTyped
  <1> QED BY <1>1, InitTyped, NextTyped, InitInv, WaitInvStep, InitFate, PTL DEF Spec

(* The body of ResultsEndOnPurpose.                                        *)
EndsOnPurpose ==
  \A w \in Wait :
    /\ run.wait[w] = "resolved" =>
         \/ run'.wait[w] = "resolved"
         \/ run'.wait[w] = "delivered" /\ w \in run.flight.ids
         \/ run'.wait[w] = "cancelled" /\ (run'.stopping \/ ~Live(run'))
         \/ run'.wait[w] = "cancelled" /\ w \in Charging /\ Spent(run) >= MaxWakes
    /\ run.wait[w] \in {"delivered", "cancelled"} => run'.wait[w] = run.wait[w]

(* outcome-commit.ts: a result that is owed ends by an acknowledged        *)
(* delivery, by the stop or the end of the run or at the spent budget, and *)
(* what has ended never comes back, through refused commits and restarts.  *)
THEOREM OwedResultsEndOnPurpose == Spec => ResultsEndOnPurpose
  <1>1. RunsTyped /\ WaitInv /\ FateInv /\ [Next]_vars => EndsOnPurpose
    <2> SUFFICES ASSUME RunsTyped, WaitInv, FateInv, [Next]_vars PROVE EndsOnPurpose
      OBVIOUS
    <2>1. run \in Runs /\ Synced(run) /\ Placed(run)
      BY DEF RunsTyped, FateInv, WaitInv, Sound
    <2>2. CASE Carries
      BY <2>2 DEF Carries, Hands, Capped, Ended, EndsOnPurpose
    <2>3. CASE ~Carries
      <3>1. Spares(run, run', {}) \/ (Spares(run, run', Wait) /\ (run'.stopping \/ ~Live(run')))
        BY <2>1, <2>3, CarriesNext, SettlesFate, StopFate, RestartFate
      <3> QED BY <3>1 DEF Spares, Ended, EndsOnPurpose
    <2> QED BY <2>2, <2>3
  <1> QED BY <1>1, PhasesAreKept, PTL DEF Spec, ResultsEndOnPurpose, EndsOnPurpose

(* wake-admission.ts failedWakeDelivery(): a run that fails at the limit   *)
(* of attempts keeps its results, and only the user wakes it again.        *)
THEOREM FailuresKeepResults == Spec => FailedRunsKeepResults
  <1> DEFINE Keeps ==
        talk' = talk /\ restarts' = restarts =>
          /\ run'.status = "failed" => Resolved(run) \subseteq Resolved(run')
          /\ run.status = "failed" =>
               run'.status = "failed" /\ run'.session = "none" /\ run'.line = "none"
  <1>1. RunsTyped /\ WaitInv /\ FateInv /\ [Next]_vars => Keeps
    <2> SUFFICES ASSUME RunsTyped, WaitInv, FateInv, [Next]_vars,
                        talk' = talk /\ restarts' = restarts
                 PROVE  /\ run'.status = "failed" => Resolved(run) \subseteq Resolved(run')
                        /\ run.status = "failed" =>
                             run'.status = "failed" /\ run'.session = "none" /\ run'.line = "none"
      OBVIOUS
    <2>1. /\ run \in Runs /\ Synced(run) /\ Placed(run) /\ Paused(run)
          /\ talk \in Nat /\ restarts \in Nat
      BY RunWaitsAssumption DEF RunsTyped, FateInv, WaitInv, Sound
    <2>2. Unattended \/ UNCHANGED vars
      <3>1. talk' # talk + 1 /\ restarts' # restarts + 1
        BY <2>1
      <3>2. ~\E ok \in BOOLEAN : Message(ok) \/ Continue(ok) \/ Stop(ok)
        BY <3>1 DEF Message, Continue, Stop
      <3>3. ~\E sent \in BOOLEAN : Restart(sent)
        BY <3>1 DEF Restart
      <3> QED BY <3>2, <3>3 DEF Next, Unattended
    <2>3. CASE UNCHANGED vars
      BY <2>3 DEF vars, Resolved, In, FateInv, AtRest
    <2>4. CASE Unattended /\ run.status = "failed"
      BY <2>1, <2>4, FailedStays DEF FateInv, AtRest
    <2>5. CASE Unattended /\ run.status # "failed"
      <3>1. CASE Carries
        BY <2>5, <3>1 DEF Carries
      <3>2. ASSUME NEW c \in Close, SessionSettles(c)
            PROVE  run'.status = "failed" => Resolved(run) \subseteq Resolved(run')
        BY <2>1, <3>2, SettlesFate DEF Spares, Resolved, In
      <3>3. CASE \E ok \in BOOLEAN : Stop(ok)
        BY <2>1, <3>3 DEF Stop
      <3>4. CASE \E sent \in BOOLEAN : Restart(sent)
        BY <2>1, <3>4 DEF Restart
      <3> QED BY <2>1, <2>5, <3>1, <3>2, <3>3, <3>4, CarriesNext
    <2> QED BY <2>2, <2>3, <2>4, <2>5
  <1> QED BY <1>1, PhasesAreKept, PTL DEF Spec, FailedRunsKeepResults

=============================================================================
