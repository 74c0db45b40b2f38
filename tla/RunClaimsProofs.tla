-------------------------- MODULE RunClaimsProofs ---------------------------
(* Proofs about RunClaims, for any stores, runs and families.              *)
EXTENDS RunClaims, TLAPS

-----------------------------------------------------------------------------
(* What the records of the model are made of.                              *)

LEMMA Constants ==
  /\ Absent \in Row /\ Out \in Record /\ Unclaimed \in Claim /\ NoStake \in Stake
  /\ Idle \in Call
<1>1. Absent \in Row /\ Out \in Record /\ Unclaimed \in Claim /\ NoStake \in Stake
  BY DEF Absent, Row, Out, Record, Unclaimed, Claim, NoStake, Stake
<1>2. Idle \in Call
  BY <1>1 DEF Idle, Call, Ops
<1> QED
  BY <1>1, <1>2

LEMMA RecordType ==
  ASSUME NEW rec \in Record
  PROVE  /\ rec.held \in BOOLEAN /\ rec.dirty \in BOOLEAN /\ rec.row \in Row /\ rec.under \in Nat
         /\ rec.held => rec.row \in Stored
         /\ ~rec.held => rec = Out
         /\ rec.dirty => rec.held
<1>1. CASE rec = Out
  BY <1>1, Constants DEF Out
<1>2. CASE rec \in [held : {TRUE}, dirty : BOOLEAN, row : Stored, under : Nat]
  <2>1. rec.held = TRUE /\ rec.dirty \in BOOLEAN /\ rec.row \in Stored /\ rec.under \in Nat
    BY <1>2
  <2>2. rec.row \in Row
    BY <2>1 DEF Stored, Row
  <2> QED
    BY <2>1, <2>2
<1> QED
  BY <1>1, <1>2 DEF Record

LEMMA MakeRecord ==
  ASSUME NEW row \in Row, row.rev # 0, NEW dirty \in BOOLEAN, NEW under \in Nat
  PROVE  [held |-> TRUE, dirty |-> dirty, row |-> row, under |-> under] \in Record
<1>1. row \in Stored
  BY DEF Row, Stored
<1> QED
  BY <1>1 DEF Record

LEMMA MakeStake ==
  ASSUME NEW k \in {"none", "claimed", "pending", "moved"}, NEW c \in Claim
  PROVE  [kind |-> k, as |-> c] \in Stake
BY DEF Stake

LEMMA UnderType ==
  ASSUME TypeOK, ClaimsAssumption, NEW s \in Stores, NEW r \in Runs
  PROVE  Under(s, r) \in Nat
<1>1. stake[s][FamilyOf[r]] \in Stake
  BY DEF TypeOK, ClaimsAssumption
<1> QED
  BY <1>1 DEF Under, Stake, Claim

LEMMA LoadedType ==
  ASSUME TypeOK, ClaimsAssumption, NEW s \in Stores, NEW r \in Runs,
         NEW row \in Row, row.rev # 0
  PROVE  Held(s, r, row) \in Record /\ Settled(s, r, row) \in Record
<1>1. [row EXCEPT !.live = FALSE] \in Row /\ [row EXCEPT !.live = FALSE].rev # 0 /\ row.live \in BOOLEAN
  BY DEF Row
<1> QED
  BY <1>1, UnderType, MakeRecord DEF Held, Settled

LEMMA ChangedType ==
  ASSUME NEW rec \in Record, rec.held, NEW live \in BOOLEAN, NEW w \in Writes
  PROVE  Changed(rec, live, w) \in Record
<1>1. rec \in [held : {TRUE}, dirty : BOOLEAN, row : Stored, under : Nat]
  <2>1. Out.held = FALSE
    BY DEF Out
  <2> QED
    BY <2>1 DEF Record
<1>2. [rev |-> rec.row.rev, live |-> live, log |-> rec.row.log \cup {w}] \in Stored
  BY <1>1 DEF Stored
<1> QED
  BY <1>1, <1>2 DEF Changed, Record

LEMMA WriteType ==
  ASSUME TypeOK, NEW s \in Stores
  PROVE  NewWrite(s) \in Writes /\ ThisWrite(s) \in Writes
BY DEF TypeOK, NewWrite, ThisWrite, Writes

LEMMA ClaimType ==
  ASSUME TypeOK, NEW s \in Stores
  PROVE  /\ ClaimOf(s) \in Claim
         /\ \A F \in SUBSET Families :
              Grant(s, F) => claims' \in [Families -> Claim] /\ gens' \in Nat
BY DEF TypeOK, ClaimOf, Grant, Claim

-----------------------------------------------------------------------------
(* The type invariant.                                                     *)

LEMMA MakeCall ==
  ASSUME NEW op \in Ops, NEW step \in {"judge", "take", "claimed", "sweep"},
         NEW run \in Runs \cup {None}, NEW q \in Runs, NEW row \in Row, NEW next \in Row,
         NEW known \in BOOLEAN
  PROVE  /\ [Idle EXCEPT !.op = op, !.step = step, !.run = run, !.next = next] \in Call
         /\ [Idle EXCEPT !.op = op, !.step = step, !.run = run, !.known = known,
                         !.seen[q] = row, !.next = next] \in Call
<1>1. Absent \in Row /\ NoStake \in Stake
  BY Constants
<1> QED
  BY <1>1 DEF Idle, Call

LEMMA MakePlainCall ==
  ASSUME NEW op \in Ops, NEW step \in {"judge", "take", "claimed", "sweep"}
  PROVE  [Idle EXCEPT !.op = op, !.step = step] \in Call
<1>1. Idle \in Call
  BY Constants
<1> QED
  BY <1>1 DEF Call

LEMMA StepType ==
  ASSUME TypeOK, NEW s \in Stores
  PROVE  /\ \A step \in {"judge", "take", "claimed", "sweep"} :
              Goto(s, step) => call' \in [Stores -> Call]
         /\ Return(s) => call' \in [Stores -> Call]
         /\ call[s] \in Call
<1>1. call[s] \in Call /\ Idle \in Call
  BY Constants DEF TypeOK
<1>2. \A step \in {"judge", "take", "claimed", "sweep"} : [call[s] EXCEPT !.step = step] \in Call
  BY <1>1 DEF Call
<1> QED
  BY <1>1, <1>2 DEF Goto, Return, TypeOK

(* The actions that only change the call a store is in.                    *)
LEMMA TypeOfCalls ==
  ASSUME ClaimsAssumption, TypeOK, NEW s \in Stores, NEW r, NEW live,
         \/ Open(s) \/ Save(s) \/ Judge(s) \/ Refuse(s)
         \/ /\ r \in Runs /\ live \in BOOLEAN
            /\ WriteCold(s, r, live) \/ Commit(s, r, live) \/ Delete(s, r) \/ Adopt(s, r)
  PROVE  TypeOK'
<1>0. Absent \in Row /\ Idle \in Call /\ NoStake \in Stake /\ Absent.log = {}
  BY Constants DEF Absent
<1>1. \A R : First(s, R) \in {"judge", "claimed"}
  BY DEF First
<1>2. r \in Runs => Base(s, r) \in Row
  BY RecordType DEF TypeOK, Base
<1>3. CASE Open(s)
  BY <1>0, <1>3 DEF Open, TypeOK, Call, Ops, Idle, database, local, history
<1>4. CASE r \in Runs /\ live \in BOOLEAN /\ WriteCold(s, r, live)
  <2>1. [Absent EXCEPT !.live = live] \in Row
    BY <1>4, <1>0 DEF Row
  <2>2. [Idle EXCEPT !.op = "write", !.step = First(s, {r}), !.run = r,
                     !.next = [Absent EXCEPT !.live = live]] \in Call
    BY <1>4, <1>1, <2>1, MakeCall, Constants DEF Ops
  <2> QED
    BY <1>4, <2>2 DEF WriteCold, CountWrite, TypeOK, database, local, history
<1>5. CASE r \in Runs /\ live \in BOOLEAN /\ Commit(s, r, live)
  <2>1. [rev |-> 0, live |-> live, log |-> Base(s, r).log \cup {NewWrite(s)}] \in Row
    BY <1>5, <1>2, WriteType DEF Row
  <2>2. Mine(s, r) \in BOOLEAN
    BY <1>5 DEF Mine, Owned
  <2>3. [Idle EXCEPT !.op = "commit", !.step = First(s, Dirty(s) \cup {r}),
          !.run = r, !.known = Mine(s, r), !.seen[r] = Base(s, r),
          !.next = [rev |-> 0, live |-> live, log |-> Base(s, r).log \cup {NewWrite(s)}]] \in Call
    BY <1>5, <1>1, <1>2, <2>1, <2>2, MakeCall, ZenonT(60) DEF Ops
  <2> QED
    BY <1>5, <2>3 DEF Commit, CountWrite, TypeOK, database, local, history
<1>6. CASE r \in Runs /\ live \in BOOLEAN /\ Delete(s, r)
  <2>2. Mine(s, r) \in BOOLEAN
    BY <1>6 DEF Mine, Owned
  <2>3. [Idle EXCEPT !.op = "commit", !.step = First(s, Dirty(s) \cup {r}),
          !.run = r, !.known = Mine(s, r), !.seen[r] = Base(s, r), !.next = Absent] \in Call
    BY <1>6, <1>0, <1>1, <1>2, <2>2, MakeCall, ZenonT(60) DEF Ops
  <2> QED
    BY <1>6, <2>3 DEF Delete, CountWrite, TypeOK, database, local, history
<1>7. CASE r \in Runs /\ live \in BOOLEAN /\ Adopt(s, r)
  BY <1>0, <1>7 DEF Adopt, TypeOK, Call, Ops, Idle, database, local, history
<1>8. CASE Save(s)
  <2>1. PICK op \in {"save", "close"} :
          call' = [call EXCEPT ![s] =
            [Idle EXCEPT !.op = op,
               !.step = IF Dirty(s) = {} THEN "sweep" ELSE First(s, Dirty(s))]]
    BY <1>8 DEF Save
  <2>2. [Idle EXCEPT !.op = op,
               !.step = IF Dirty(s) = {} THEN "sweep" ELSE First(s, Dirty(s))] \in Call
    BY <1>1, MakePlainCall DEF Ops
  <2> QED
    BY <1>8, <2>1, <2>2 DEF Save, TypeOK, database, local, history
<1>9. CASE Judge(s)
  <2>1. \A f \in Families :
          [kind |-> IF MayTakeLive(s, f) THEN "moved" ELSE "pending", as |-> claims[f]] \in Stake
    BY DEF TypeOK, Stake
  <2>2. PICK take \in [Families -> Stake], step \in {"claimed", "take"} :
          call' = [call EXCEPT ![s].take = take, ![s].step = step]
    BY <1>0, <1>9, <2>1 DEF Judge
  <2>3. [call[s] EXCEPT !.take = take, !.step = step] \in Call
    <3>1. call[s] \in Call
      BY StepType
    <3> QED
      BY <3>1 DEF Call
  <2>4. call' \in [Stores -> Call]
    BY <2>2, <2>3 DEF TypeOK
  <2> QED
    BY <1>9, <2>4 DEF Judge, TypeOK, database, local, history
<1>10. CASE Refuse(s)
  BY <1>0, <1>10 DEF Refuse, Return, TypeOK, database, local, history
<1> QED
  BY <1>3, <1>4, <1>5, <1>6, <1>7, <1>8, <1>9, <1>10

(* The actions that claim or read.                                         *)
LEMMA TypeOfReads ==
  ASSUME ClaimsAssumption, TypeOK, NEW s \in Stores, NEW r, NEW live,
         \/ r \in Runs /\ live \in BOOLEAN /\ WriteHeld(s, r, live)
         \/ Take(s) \/ TakeBusy(s) \/ Load(s) \/ LoadCold(s) \/ LoadAdopted(s)
  PROVE  TypeOK'
<1>0. Idle \in Call /\ Out \in Record
  BY Constants
<1>1. \A step \in {"judge", "take", "claimed", "sweep"} :
        Goto(s, step) => call' \in [Stores -> Call]
  BY StepType
<1>2. Return(s) => call' \in [Stores -> Call]
  BY StepType
<1>3. CASE r \in Runs /\ live \in BOOLEAN /\ WriteHeld(s, r, live)
  <2>1. Changed(mem[s][r], live, NewWrite(s)) \in Record
    BY <1>3, ChangedType, WriteType DEF WriteHeld, TypeOK
  <2> QED
    BY <1>3, <2>1, WriteType DEF WriteHeld, CountWrite, TypeOK, database
<1>4. CASE Take(s)
  <2>1. [kind |-> "claimed", as |-> ClaimOf(s)] \in Stake
    BY ClaimType, MakeStake
  <2>2. claims' \in [Families -> Claim] /\ gens' \in Nat
    BY <1>4, ClaimType DEF Take, Won
  <2>3. call' \in [Stores -> Call]
    BY <1>1, <1>4 DEF Take
  <2> QED
    BY <1>4, <2>1, <2>2, <2>3 DEF Take, TypeOK, history
<1>5. CASE TakeBusy(s)
  <2>1. call' \in [Stores -> Call] /\ \A f \in Families : call[s].take[f] \in Stake
    BY <1>1, <1>5 DEF TakeBusy, TypeOK, Call
  <2> QED
    BY <1>5, <2>1 DEF TakeBusy, FindsBusy, TypeOK, database, ClaimsAssumption
<1>6. CASE Load(s)
  <2>1. call' \in [Stores -> Call]
    BY <1>2, <1>6 DEF Load
  <2> DEFINE listed(q) == call[s].seen[q].live
             row(q) == IF listed(q) THEN call[s].seen[q] ELSE rows[q]
             kept(q) == IF s \in KeepLive THEN Held(s, q, row(q)) ELSE Settled(s, q, row(q))
             new(q) == IF ~Mine(s, q) \/ row(q).rev = 0 THEN Out
                       ELSE IF listed(q) THEN [kept(q) EXCEPT !.under = 0] ELSE kept(q)
  <2>2. ASSUME NEW q \in Runs PROVE new(q) \in Record
    <3>1. row(q) \in Row
      BY DEF TypeOK, Call
    <3> HIDE DEF row
    <3>2. CASE row(q).rev = 0
      BY <1>0, <3>2
    <3>3. CASE row(q).rev # 0
      <4>1. kept(q) \in Record
        BY <3>1, <3>3, LoadedType
      <4>2. [kept(q) EXCEPT !.under = 0] \in Record
        <5>1. Held(s, q, row(q)).held /\ Settled(s, q, row(q)).held
          BY DEF Held, Settled
        <5>2. kept(q).held
          BY <5>1
        <5>3. kept(q) \in [held : {TRUE}, dirty : BOOLEAN, row : Stored, under : Nat]
          <6>1. Out.held = FALSE
            BY DEF Out
          <6> HIDE DEF kept
          <6> QED
            BY <4>1, <5>2, <6>1 DEF Record
        <5> HIDE DEF kept
        <5> QED
          BY <5>3 DEF Record
      <4> HIDE DEF kept
      <4> QED
        BY <1>0, <4>1, <4>2
    <3> QED
      BY <3>2, <3>3
  <2>3. mem' = [mem EXCEPT ![s] = [q \in Runs |-> new(q)]]
    BY <1>6 DEF Load
  <2> HIDE DEF new
  <2>4. mem' \in [Stores -> [Runs -> Record]]
    BY <2>2, <2>3 DEF TypeOK
  <2> QED
    BY <1>6, <2>1, <2>4 DEF Load, TypeOK, database, history
<1>7. CASE LoadCold(s)
  <2>1. call' \in [Stores -> Call] /\ call[s].next.live \in BOOLEAN
    BY <1>2, <1>7 DEF LoadCold, TypeOK, Call, Row
  <2> DEFINE q == call[s].run
  <2>2. CASE rows[q].rev = 0
    BY <1>7, <2>1, <2>2 DEF LoadCold, TypeOK, database
  <2>3. CASE rows[q].rev # 0 /\ q \in Runs
    <3>1. Held(s, q, rows[q]) \in Record /\ Held(s, q, rows[q]).held
      BY <2>3, LoadedType DEF TypeOK, Held
    <3>2. Changed(Held(s, q, rows[q]), call[s].next.live, ThisWrite(s)) \in Record
      BY <2>1, <3>1, ChangedType, WriteType
    <3> QED
      <4>1. mem' = [mem EXCEPT ![s][q] = Changed(Held(s, q, rows[q]), call[s].next.live, ThisWrite(s))]
        BY <1>7, <2>3 DEF LoadCold
      <4>2. mem' \in [Stores -> [Runs -> Record]]
        BY <2>3, <3>2, <4>1 DEF TypeOK
      <4>3. accepted' \subseteq Writes
        BY <1>7, <2>3, WriteType DEF LoadCold, TypeOK
      <4> QED
        BY <1>7, <2>1, <4>2, <4>3 DEF LoadCold, TypeOK, database
  <2>4. CASE q \notin Runs
    <3>1. mem' \in [Stores -> [Runs -> Record]] /\ accepted' \subseteq Writes
      BY <1>7, <2>4, WriteType DEF LoadCold, TypeOK
    <3> QED
      BY <1>7, <2>1, <3>1 DEF LoadCold, TypeOK, database
  <2> QED
    BY <2>2, <2>3, <2>4
<1>8. CASE LoadAdopted(s)
  <2>1. call' \in [Stores -> Call]
    BY <1>2, <1>8 DEF LoadAdopted
  <2>2. \A q \in Runs : rows[q].rev # 0 => Settled(s, q, rows[q]) \in Record
    BY LoadedType DEF TypeOK
  <2>3. mem' \in [Stores -> [Runs -> Record]]
    BY <1>8, <2>2 DEF LoadAdopted, TypeOK
  <2> QED
    BY <1>8, <2>1, <2>3 DEF LoadAdopted, TypeOK, database, history
<1> QED
  BY <1>3, <1>4, <1>5, <1>6, <1>7, <1>8

(* A call about a run names one.                                           *)
RunInv ==
  \A s \in Stores : call[s].op \in {"write", "adopt", "commit"} => call[s].run \in Runs

LEMMA FenceTypes ==
  ASSUME TypeOK, RunInv, ClaimsAssumption, NEW s \in Stores, AtFence(s)
  PROVE  /\ Staged(s) \subseteq Runs /\ Deleted(s) \subseteq Staged(s)
         /\ WriteSet(s) \subseteq Runs /\ Dirty(s) \subseteq Runs
         /\ \A r \in Runs : Proposed(s, r) \in Row /\ call[s].seen[r] \in Row
         /\ call[s].next \in Row
<1>1. call[s] \in Call
  BY StepType
<1>2. call[s].next \in Row /\ \A r \in Runs : call[s].seen[r] \in Row
  BY <1>1 DEF Call
<1>3. \A r \in Runs : mem[s][r].row \in Row
  BY RecordType DEF TypeOK
<1>4. Staged(s) \subseteq Runs /\ Deleted(s) \subseteq Staged(s) /\ Dirty(s) \subseteq Runs
  BY DEF Staged, RunInv, Deleted, Dirty
<1> QED
  BY <1>2, <1>3, <1>4 DEF WriteSet, Proposed

LEMMA TypeOfPersist ==
  ASSUME ClaimsAssumption, TypeOK, RunInv, NEW s \in Stores, Persist(s)
  PROVE  TypeOK'
<1>0. AtFence(s) /\ seq + 1 \in Nat /\ seq' \in Nat /\ seq + 1 # 0
  BY DEF Persist, TypeOK
<1>1. \A r \in Runs : rows'[r] \in Row /\ (r \notin Deleted(s) /\ r \in WriteSet(s) => rows'[r].rev = seq + 1)
  <2>1. \A row \in Row : [row EXCEPT !.rev = seq + 1] \in Row /\ [row EXCEPT !.rev = seq + 1].rev = seq + 1
    BY <1>0 DEF Row
  <2> QED
    BY <1>0, <2>1, FenceTypes, Constants DEF Persist, TypeOK
<1>2. rows' \in [Runs -> Row]
  BY <1>1 DEF Persist
<1>3. claims' \in [Families -> Claim] /\ gens' \in Nat
  BY ClaimType DEF Persist, Claiming
<1>4. stake' \in [Stores -> [Families -> Stake]]
  <2>1. [kind |-> "claimed", as |-> ClaimOf(s)] \in Stake
    BY ClaimType, MakeStake
  <2> QED
    BY <2>1 DEF Persist, TypeOK
<1>5. \A r \in Runs : stake'[s][FamilyOf[r]].as.gen \in Nat
  BY <1>4 DEF Stake, Claim, ClaimsAssumption
<1>6. mem' \in [Stores -> [Runs -> Record]]
  <2>1. ASSUME NEW r \in Runs, r \notin Deleted(s), r \in WriteSet(s)
        PROVE  [held |-> TRUE, dirty |-> FALSE, row |-> rows'[r],
                under |-> stake'[s][FamilyOf[r]].as.gen] \in Record
    BY <1>0, <1>1, <1>5, <2>1, MakeRecord
  <2> QED
    BY <2>1, Constants, ZenonT(60) DEF Persist, TypeOK
<1>7. call' \in [Stores -> Call]
  BY StepType DEF Persist
<1>8. accepted' \subseteq Writes
  BY <1>0, FenceTypes DEF Persist, TypeOK, Row
<1>9. discarded' \subseteq Writes
  <2>1. \A r \in Deleted(s) : call[s].seen[r].log \subseteq Writes
    BY <1>0, FenceTypes DEF Row
  <2>2. discarded' = discarded \cup UNION {call[s].seen[r].log : r \in Deleted(s)}
    BY DEF Persist
  <2> QED
    BY <2>1, <2>2 DEF TypeOK
<1> QED
  BY <1>0, <1>2, <1>3, <1>4, <1>6, <1>7, <1>8, <1>9 DEF Persist, TypeOK

LEMMA TypeOfConflict ==
  ASSUME ClaimsAssumption, TypeOK, RunInv, NEW s \in Stores, Conflict(s)
  PROVE  TypeOK'
<1> DEFINE bad == Unexpected(s)
<1>0. AtFence(s)
  BY DEF Conflict
<1>1. bad \subseteq WriteSet(s) /\ bad \subseteq Runs
  BY <1>0, FenceTypes DEF Unexpected, Clashes
<1>2. evidence' \subseteq Writes
  <2>1. \A r \in bad : Proposed(s, r).log \subseteq Writes
    BY <1>0, <1>1, FenceTypes DEF Row
  <2>2. evidence' = evidence \cup UNION {Proposed(s, r).log : r \in bad}
    BY DEF Conflict
  <2> QED
    BY <2>1, <2>2 DEF TypeOK
<1>3. discarded' \subseteq Writes
  <2>1. \A r \in bad : call[s].seen[r].log \subseteq Writes
    BY <1>0, <1>1, FenceTypes DEF Row
  <2>2. discarded' = discarded \cup UNION {call[s].seen[r].log : r \in bad \cap Deleted(s)}
    BY DEF Conflict
  <2> QED
    BY <2>1, <2>2 DEF TypeOK
<1>4. quarantined' \in [Stores -> SUBSET Runs]
  BY <1>1 DEF Conflict, TypeOK
<1>5. stake' \in [Stores -> [Families -> Stake]]
  BY Constants DEF Conflict, TypeOK
<1>6. mem' \in [Stores -> [Runs -> Record]]
  <2>1. ASSUME NEW r \in Runs, rows[r].rev # 0
        PROVE  [held |-> TRUE, dirty |-> FALSE, row |-> rows[r], under |-> 0] \in Record
    BY <2>1, MakeRecord DEF TypeOK
  <2> QED
    BY <2>1, Constants DEF Conflict, TypeOK
<1>7. call' \in [Stores -> Call]
  <2>1. \A step \in {"sweep", "judge"} : [call[s] EXCEPT !.again = TRUE, !.step = step] \in Call
    <3>1. call[s] \in Call
      BY StepType
    <3> QED
      BY <3>1 DEF Call
  <2>2. Return(s) \/ \E step \in {"sweep", "judge"} :
          call' = [call EXCEPT ![s].again = TRUE, ![s].step = step]
    BY DEF Conflict
  <2>3. CASE Return(s)
    BY <2>3, StepType
  <2>4. ASSUME NEW step \in {"sweep", "judge"},
               call' = [call EXCEPT ![s].again = TRUE, ![s].step = step]
        PROVE  call' \in [Stores -> Call]
    <3>1. call' = [call EXCEPT ![s] = [call[s] EXCEPT !.again = TRUE, !.step = step]]
      BY <2>4 DEF TypeOK
    <3> QED
      BY <2>1, <3>1 DEF TypeOK
  <2> QED
    BY <2>2, <2>3, <2>4
<1> QED
  BY <1>2, <1>3, <1>4, <1>5, <1>6, <1>7 DEF Conflict, TypeOK

LEMMA TypeOfEnds ==
  ASSUME ClaimsAssumption, TypeOK, NEW s \in Stores,
         Fail(s) \/ Sweep(s) \/ Close(s) \/ End(s)
  PROVE  TypeOK'
<1>0. Out \in Record /\ NoStake \in Stake /\ Unclaimed \in Claim
  BY Constants
<1>1. CASE Fail(s)
  <2>1. call' \in [Stores -> Call]
    BY <1>1, StepType DEF Fail
  <2> QED
    BY <1>1, <2>1 DEF Fail, FindsBusy, TypeOK, database, local, ClaimsAssumption
<1>2. CASE Sweep(s)
  <2>1. call' \in [Stores -> Call]
    BY <1>2, StepType DEF Sweep
  <2>6. /\ mem \in [Stores -> [Runs -> Record]] /\ stake \in [Stores -> [Families -> Stake]]
        /\ claims \in [Families -> Claim] /\ busy \in 0 .. MaxBusy /\ MaxBusy \in Nat
    BY ClaimsAssumption DEF TypeOK
  <2>2. mem' \in [Stores -> [Runs -> Record]]
    BY <1>0, <1>2, <2>6, SMTT(30) DEF Sweep
  <2>3. stake' \in [Stores -> [Families -> Stake]]
    BY <1>0, <1>2, <2>6, SMTT(30) DEF Sweep
  <2>4. claims' \in [Families -> Claim]
    BY <1>0, <1>2, <2>6 DEF Sweep
  <2>7. UNCHANGED busy \/ FindsBusy
    BY <1>2 DEF Sweep
  <2>5. busy' \in 0 .. MaxBusy
    BY <2>6, <2>7 DEF FindsBusy
  <2> QED
    BY <1>2, <2>1, <2>2, <2>3, <2>4, <2>5 DEF Sweep, TypeOK
<1>3. Forget(s) => /\ call' \in [Stores -> Call]
                   /\ mem' \in [Stores -> [Runs -> Record]]
                   /\ stake' \in [Stores -> [Families -> Stake]]
                   /\ quarantined' \in [Stores -> SUBSET Runs]
  BY <1>0, StepType DEF Forget, TypeOK
<1>4. CASE Close(s)
  <2>1. Forget(s)
    BY <1>4 DEF Close
  <2>2. busy' \in 0 .. MaxBusy
    BY <1>4 DEF Close, FindsBusy, TypeOK, ClaimsAssumption
  <2>3. claims' \in [Families -> Claim]
    BY <1>0, <1>4 DEF Close, TypeOK
  <2> QED
    BY <1>3, <1>4, <2>1, <2>2, <2>3 DEF Close, TypeOK
<1>5. CASE End(s)
  <2>1. Forget(s)
    BY <1>5 DEF End
  <2> QED
    BY <1>3, <1>5, <2>1 DEF End, TypeOK, database, history
<1> QED
  BY <1>1, <1>2, <1>4, <1>5

LEMMA RunStep ==
  ASSUME TypeOK, RunInv, [Next]_vars
  PROVE  RunInv'
<1>1. CASE UNCHANGED vars
  BY <1>1 DEF vars, RunInv
<1>2. ASSUME NEW s \in Stores, StoreStep(s) \/ End(s)
      PROVE  RunInv'
  <2> DEFINE Kept == \A t \in Stores : call'[t].op = call[t].op /\ call'[t].run = call[t].run
             Named == /\ \A t \in Stores \ {s} : call'[t] = call[t]
                      /\ \/ call'[s].op \in {"idle", "open", "save", "close"}
                         \/ call'[s].run \in Runs
  <2>1. call \in [Stores -> Call] /\ \A t \in Stores : call[t] = [call[t] EXCEPT !.op = @]
    BY DEF TypeOK, Call
  <2>2. Kept \/ Named => RunInv'
    BY DEF RunInv
  <2>3. UNCHANGED call => Kept
    OBVIOUS
  <2>4. Return(s) => Named
    BY <2>1 DEF Return, Idle
  <2>5. ASSUME NEW step, Goto(s, step) PROVE Kept
    BY <2>1, <2>5 DEF Goto, Call
  <2>6. Judge(s) => Kept
    BY <2>1 DEF Judge, Call
  <2>7. ASSUME Conflict(s) PROVE Kept \/ Named
    <3>1. CASE Return(s)
      BY <2>4, <3>1
    <3>2. ASSUME NEW step, call' = [call EXCEPT ![s].again = TRUE, ![s].step = step]
          PROVE  Kept
      BY <2>1, <3>2 DEF Call
    <3> QED
      BY <2>7, <3>1, <3>2 DEF Conflict
  <2>8. Open(s) => Named
    BY <2>1 DEF Open, Idle
  <2>9. Save(s) => Named
    BY <2>1 DEF Save, Idle
  <2>10. ASSUME NEW r \in Runs, NEW live \in BOOLEAN,
               WriteCold(s, r, live) \/ Commit(s, r, live) \/ Delete(s, r) \/ Adopt(s, r)
        PROVE  Named
    <3>1. CASE WriteCold(s, r, live)
      BY <2>1, <3>1 DEF WriteCold, Idle
    <3>2. CASE Commit(s, r, live)
      BY <2>1, <3>2 DEF Commit, Idle
    <3>3. CASE Delete(s, r)
      BY <2>1, <3>3 DEF Delete, Idle
    <3>4. CASE Adopt(s, r)
      BY <2>1, <3>4 DEF Adopt, Idle
    <3> QED
      BY <2>10, <3>1, <3>2, <3>3, <3>4
  <2> HIDE DEF Kept, Named
  <2>11. Take(s) \/ TakeBusy(s) => Kept
    BY <2>5 DEF Take, TakeBusy
  <2>12. Refuse(s) \/ Load(s) \/ LoadCold(s) \/ LoadAdopted(s) \/ Sweep(s) \/ Close(s) \/ End(s) => Named
    BY <2>4 DEF Refuse, Load, LoadCold, LoadAdopted, Sweep, Close, End, Forget
  <2>13. Persist(s) \/ Fail(s) => Kept \/ Named
    BY <2>4, <2>5 DEF Persist, Fail
  <2>14. ASSUME NEW r \in Runs, NEW live \in BOOLEAN, WriteHeld(s, r, live) PROVE Kept
    BY <2>3, <2>14 DEF WriteHeld
  <2>15. ASSUME NEW r \in Runs, Delete(s, r) \/ Adopt(s, r) PROVE Named
    BY <2>10, <2>15
  <2> QED
    BY <1>2, <2>2, <2>6, <2>7, <2>8, <2>9, <2>10, <2>11, <2>12, <2>13, <2>14, <2>15 DEF StoreStep
<1> QED
  BY <1>1, <1>2 DEF Next

LEMMA TypeStep ==
  ASSUME ClaimsAssumption, TypeOK, RunInv, [Next]_vars
  PROVE  TypeOK'
<1>1. CASE UNCHANGED vars
  BY <1>1 DEF vars, database, local, history, TypeOK
<1>2. ASSUME NEW s \in Stores, StoreStep(s)
      PROVE  TypeOK'
  <2>1. ASSUME NEW r \in Runs, NEW live \in BOOLEAN,
               WriteHeld(s, r, live) \/ WriteCold(s, r, live) \/ Commit(s, r, live)
        PROVE  TypeOK'
    BY <2>1, TypeOfCalls, TypeOfReads
  <2>2. ASSUME NEW r \in Runs, Delete(s, r) \/ Adopt(s, r)
        PROVE  TypeOK'
    BY <2>2, TypeOfCalls
  <2>3. CASE Open(s) \/ Save(s) \/ Judge(s) \/ Refuse(s)
    BY <2>3, TypeOfCalls
  <2>4. CASE Take(s) \/ TakeBusy(s) \/ Load(s) \/ LoadCold(s) \/ LoadAdopted(s)
    BY <2>4, TypeOfReads
  <2>5. CASE Persist(s) \/ Conflict(s) \/ Fail(s) \/ Sweep(s) \/ Close(s)
    BY <2>5, TypeOfPersist, TypeOfConflict, TypeOfEnds
  <2> QED
    BY <1>2, <2>1, <2>2, <2>3, <2>4, <2>5 DEF StoreStep
<1>3. ASSUME NEW s \in Stores, End(s)
      PROVE  TypeOK'
  BY <1>3, TypeOfEnds
<1> QED
  BY <1>1, <1>2, <1>3 DEF Next

LEMMA TypeInit ==
  ASSUME ClaimsAssumption, Init
  PROVE  TypeOK /\ RunInv
<1>1. rows \in [Runs -> Row]
  BY DEF Init, Row
<1>2. TypeOK
  BY <1>1, Constants DEF Init, TypeOK, ClaimsAssumption
<1>3. RunInv
  BY DEF Init, RunInv, Idle
<1> QED
  BY <1>2, <1>3

(* The state of the stores and of their database keeps its types.          *)
THEOREM TypeCorrect == Spec => []TypeOK
<1>1. Init => TypeOK /\ RunInv
  BY TypeInit, ClaimsAssumption
<1>2. TypeOK /\ RunInv /\ [Next]_vars => (TypeOK /\ RunInv)'
  BY TypeStep, RunStep, ClaimsAssumption
<1> QED
  BY <1>1, <1>2, PTL DEF Spec


-----------------------------------------------------------------------------
(* What the claims and the fence promise: the inductive invariant.         *)

Working(s) == at[s] \in {"opening", "open"}

CallInv == \A s \in Stores : ~Working(s) => call[s] = Idle

(* Who has a claim is there, and who expects to replace one has seen its   *)
(* owner gone: no one ever takes a claim from a store that is at work.     *)
StakeInv ==
  \A s \in Stores, f \in Families :
    /\ stake[s][f].kind = "claimed" =>
         /\ Working(s)
         /\ stake[s][f].as.session = s
         /\ claims[f] = stake[s][f].as
    /\ Pending(s, f) => ~OwnerLive(stake[s][f].as)
    /\ call[s].take[f].kind # "none" =>
         /\ call[s].take[f].kind # "claimed"
         /\ ~OwnerLive(call[s].take[f].as)

(* A generation is never given twice, and none is 0.                       *)
GenInv ==
  /\ \A f \in Families : claims[f].gen <= gens
  /\ \A s \in Stores, f \in Families :
       /\ stake[s][f].as.gen <= gens /\ call[s].take[f].as.gen <= gens
       /\ stake[s][f].kind = "claimed" => stake[s][f].as.gen # 0
  /\ \A s \in Stores, r \in Runs : mem[s][r].under <= gens

(* What was read at a revision contains what was written up to it.         *)
Knows(row, r) ==
  /\ row.rev <= seq
  /\ row.rev = rows[r].rev => rows[r].log \subseteq row.log

VersionInv ==
  /\ \A r \in Runs : rows[r].rev <= seq /\ (rows[r].rev = 0 => rows[r].log = {})
  /\ \A s \in Stores, r \in Runs :
       /\ Knows(call[s].seen[r], r)
       /\ mem[s][r].held => Knows(mem[s][r].row, r)

(* Nothing happens to a run in memory while a call about it is under way.  *)
NextInv ==
  \A s \in Stores :
    /\ call[s].op = "write" => ~mem[s][call[s].run].held
    /\ call[s].op # "commit" => call[s].next.log = {}
    /\ call[s].op = "commit" =>
         /\ mem[s][call[s].run].held => mem[s][call[s].run].row = call[s].seen[call[s].run]
         /\ call[s].next # Absent => call[s].seen[call[s].run].log \subseteq call[s].next.log

(* A claim that an ordinary write is to replace was judged to have nothing *)
(* left to recover, and nobody can write under a claim whose owner is gone.*)
Quiet(k, f) ==
  (k.kind = "pending" /\ k.as.session # None /\ claims[f] = k.as) => ~HasLive(f)

QuietInv ==
  \A s \in Stores, f \in Families : Quiet(stake[s][f], f) /\ Quiet(call[s].take[f], f)

(* A store accepts no write before it is open.                             *)
AcceptInv ==
  /\ \A s \in Stores : at[s] = "opening" <=> call[s].op = "open"
  /\ \A w \in accepted : at[w[1]] \notin {"new", "opening"}

-----------------------------------------------------------------------------
(* What a step leaves alone.                                               *)

LEMMA StepCases ==
  ASSUME TypeOK, NEW s \in Stores, StoreStep(s) \/ End(s)
  PROVE  \/ Open(s) \/ Save(s) \/ Judge(s) \/ Refuse(s)
         \/ \E r \in Runs, live \in BOOLEAN :
              \/ WriteHeld(s, r, live) \/ WriteCold(s, r, live) \/ Commit(s, r, live)
              \/ Delete(s, r) \/ Adopt(s, r)
         \/ Take(s) \/ TakeBusy(s) \/ Load(s) \/ LoadCold(s) \/ LoadAdopted(s)
         \/ Persist(s) \/ Conflict(s) \/ Fail(s) \/ Sweep(s) \/ Close(s) \/ End(s)
<1>1. ASSUME NEW r \in Runs, Delete(s, r) \/ Adopt(s, r)
      PROVE  \E q \in Runs, live \in BOOLEAN : Delete(s, q) \/ Adopt(s, q)
  BY <1>1
<1> QED
  BY <1>1 DEF StoreStep

(* A step of one store leaves the memory of the others alone, and only a   *)
(* transaction changes the runs.                                           *)
LEMMA Others ==
  ASSUME TypeOK, NEW s \in Stores, StoreStep(s) \/ End(s)
  PROVE  /\ \A t \in Stores \ {s} :
              at'[t] = at[t] /\ call'[t] = call[t] /\ mem'[t] = mem[t] /\ stake'[t] = stake[t]
         /\ (rows' = rows /\ seq' = seq) \/ Persist(s)
<1> USE DEF TypeOK, database, local, history, Goto, Return
<1>1. CASE Open(s) \/ Save(s) \/ Judge(s) \/ Refuse(s)
  BY <1>1 DEF Open, Save, Judge, Refuse
<1>2. ASSUME NEW r \in Runs, NEW live \in BOOLEAN,
             \/ WriteHeld(s, r, live) \/ WriteCold(s, r, live) \/ Commit(s, r, live)
             \/ Delete(s, r) \/ Adopt(s, r)
      PROVE  /\ \A t \in Stores \ {s} :
                  at'[t] = at[t] /\ call'[t] = call[t] /\ mem'[t] = mem[t] /\ stake'[t] = stake[t]
             /\ rows' = rows /\ seq' = seq
  BY <1>2 DEF WriteHeld, WriteCold, Commit, Delete, Adopt
<1>3. CASE Take(s) \/ TakeBusy(s) \/ Load(s) \/ LoadCold(s) \/ LoadAdopted(s)
  BY <1>3 DEF Take, TakeBusy, Load, LoadCold, LoadAdopted
<1>4. CASE Persist(s)
  BY <1>4 DEF Persist
<1>5. CASE Conflict(s)
  <2>1. \A t \in Stores \ {s} : call'[t] = call[t]
    BY <1>5 DEF Conflict
  <2> QED
    BY <1>5, <2>1 DEF Conflict
<1>6. CASE Fail(s) \/ Sweep(s) \/ Close(s) \/ End(s)
  BY <1>6 DEF Fail, Sweep, Close, End, Forget
<1> QED
  BY <1>1, <1>2, <1>3, <1>4, <1>5, <1>6, StepCases

(* A store is at work when it is in a call.                                *)
LEMMA InCall ==
  ASSUME CallInv, NEW s \in Stores, call[s].op # "idle" \/ call[s].step # "judge"
  PROVE  Working(s)
BY DEF CallInv, Idle

LEMMA CallStep ==
  ASSUME TypeOK, CallInv, NEW s \in Stores, StoreStep(s) \/ End(s)
  PROVE  CallInv'
<1> USE DEF TypeOK, Working
<1>1. ASSUME at' = at, Working(s) PROVE CallInv'
  BY <1>1, Others DEF CallInv
<1>2. ASSUME Return(s) PROVE CallInv'
  BY <1>2, Others DEF CallInv, Return
<1>3. CASE Open(s)
  BY <1>3, Others DEF CallInv, Open
<1>4. ASSUME NEW r \in Runs, NEW live \in BOOLEAN,
             \/ WriteHeld(s, r, live) \/ WriteCold(s, r, live) \/ Commit(s, r, live)
             \/ Delete(s, r) \/ Adopt(s, r)
      PROVE  CallInv'
  BY <1>1, <1>4 DEF WriteHeld, WriteCold, Commit, Delete, Adopt, Ready, local
<1>5. CASE Save(s) \/ Judge(s) \/ Take(s) \/ TakeBusy(s)
  BY <1>1, <1>5, InCall DEF Save, Judge, Take, TakeBusy, Ready, local
<1>6. CASE Persist(s) \/ Conflict(s) \/ Fail(s)
  BY <1>1, <1>6, InCall DEF Persist, Conflict, Fail, AtFence, local
<1>7. CASE Refuse(s) \/ Load(s) \/ LoadCold(s) \/ LoadAdopted(s) \/ Sweep(s) \/ Close(s) \/ End(s)
  BY <1>2, <1>7 DEF Refuse, Load, LoadCold, LoadAdopted, Sweep, Close, End, Forget
<1> QED
  BY <1>3, <1>4, <1>5, <1>6, <1>7, StepCases

(* A process that is gone stays so.                                        *)
LEMMA GoneStays ==
  ASSUME TypeOK, CallInv, NEW s \in Stores, StoreStep(s) \/ End(s)
  PROVE  \A c \in Claim : ~OwnerLive(c) => ~OwnerLive(c)'
<1>1. at' = at \/ at[s] # "gone"
  <2> USE DEF database, local, history, Ready, Step
  <2>1. CASE Open(s) \/ Save(s) \/ Judge(s) \/ Refuse(s)
    BY <2>1 DEF Open, Save, Judge, Refuse
  <2>2. ASSUME NEW r \in Runs, NEW live \in BOOLEAN,
               \/ WriteHeld(s, r, live) \/ WriteCold(s, r, live) \/ Commit(s, r, live)
               \/ Delete(s, r) \/ Adopt(s, r)
        PROVE  at' = at
    BY <2>2 DEF WriteHeld, WriteCold, Commit, Delete, Adopt
  <2>3. CASE Take(s) \/ TakeBusy(s) \/ LoadCold(s) \/ LoadAdopted(s)
    BY <2>3 DEF Take, TakeBusy, LoadCold, LoadAdopted
  <2>4. CASE Persist(s) \/ Conflict(s) \/ Fail(s) \/ Sweep(s)
    BY <2>4 DEF Persist, Conflict, Fail, Sweep
  <2>5. CASE Load(s) \/ Close(s)
    BY <2>5, InCall DEF Load, Close, Working
  <2>6. CASE End(s)
    BY <2>6 DEF End
  <2> QED
    BY <2>1, <2>2, <2>3, <2>4, <2>5, <2>6, StepCases
<1>2. \A t \in Stores : at[t] = "gone" => at'[t] = "gone"
  BY <1>1, Others
<1> QED
  BY <1>2 DEF OwnerLive, Claim

-----------------------------------------------------------------------------
(* How stakes and claims change.                                           *)

Claims(s, f) == (Take(s) /\ f \in Won(s)) \/ (Persist(s) /\ f \in Claiming(s))
Judged(s, f) == [kind |-> IF MayTakeLive(s, f) THEN "moved" ELSE "pending", as |-> claims[f]]

LEMMA TakeChanges ==
  ASSUME TypeOK, NEW s \in Stores, StoreStep(s) \/ End(s), NEW f \in Families
  PROVE  \/ call'[s].take[f] = NoStake
         \/ call'[s].take[f] = call[s].take[f]
         \/ Judge(s) /\ Free(s, f) /\ call'[s].take[f] = Judged(s, f)
<1>1. call \in [Stores -> Call] /\ call[s] \in Call
  BY DEF TypeOK
<1>2. UNCHANGED call => call'[s].take[f] = call[s].take[f]
  OBVIOUS
<1>3. Return(s) => call'[s].take[f] = NoStake
  BY <1>1 DEF Return, Idle
<1>4. ASSUME NEW step, Goto(s, step) PROVE call'[s].take[f] = call[s].take[f]
  BY <1>1, <1>4 DEF Goto, Call
<1>5. CASE Open(s) \/ Save(s)
  <2>1. Idle.take[f] = NoStake
    BY DEF Idle
  <2>2. CASE Open(s)
    BY <1>1, <2>2 DEF Open, Idle
  <2>3. CASE Save(s)
    <3>1. PICK op \in {"save", "close"}, step \in {"judge", "claimed", "sweep"} : call' = [call EXCEPT ![s] = [Idle EXCEPT !.op = op, !.step = step]]
      BY <2>3 DEF Save, First
    <3> QED
      BY <1>1, <3>1 DEF Idle
  <2> QED
    BY <1>5, <2>2, <2>3
<1>6. CASE Judge(s)
  <2>1. PICK step :
          call' = [call EXCEPT
            ![s].take = [g \in Families |->
         IF g \in {h \in CallFamilies(s) : ~Owned(s, h) /\ Free(s, h)} THEN Judged(s, g) ELSE NoStake],
            ![s].step = step]
    BY <1>6 DEF Judge, Judged
  <2>2. call'[s].take[f] =
          IF f \in {h \in CallFamilies(s) : ~Owned(s, h) /\ Free(s, h)} THEN Judged(s, f) ELSE NoStake
    BY <1>1, <2>1 DEF Call
  <2> QED
    BY <1>6, <2>2
<1>7. ASSUME NEW r \in Runs, NEW live \in BOOLEAN,
             \/ WriteHeld(s, r, live) \/ WriteCold(s, r, live) \/ Commit(s, r, live)
             \/ Delete(s, r) \/ Adopt(s, r)
      PROVE  call'[s].take[f] = NoStake \/ call'[s].take[f] = call[s].take[f]
  <2>1. CASE WriteHeld(s, r, live)
    BY <1>2, <2>1 DEF WriteHeld
  <2>2. CASE WriteCold(s, r, live)
    BY <1>1, <2>2 DEF WriteCold, Idle
  <2>3. CASE Commit(s, r, live)
    BY <1>1, <2>3 DEF Commit, Idle
  <2>4. CASE Delete(s, r)
    BY <1>1, <2>4 DEF Delete, Idle
  <2>5. CASE Adopt(s, r)
    BY <1>1, <2>5 DEF Adopt, Idle
  <2> QED
    BY <1>7, <2>1, <2>2, <2>3, <2>4, <2>5
<1>8. CASE Take(s) \/ TakeBusy(s)
  BY <1>4, <1>8 DEF Take, TakeBusy
<1>9. CASE Refuse(s) \/ Load(s) \/ LoadCold(s) \/ LoadAdopted(s) \/ Sweep(s) \/ Close(s) \/ End(s)
  BY <1>3, <1>9 DEF Refuse, Load, LoadCold, LoadAdopted, Sweep, Close, End, Forget
<1>10. CASE Persist(s) \/ Fail(s)
  BY <1>3, <1>4, <1>10 DEF Persist, Fail
<1>11. CASE Conflict(s)
  <2>1. Return(s) \/ \E step : call' = [call EXCEPT ![s].again = TRUE, ![s].step = step]
    BY <1>11 DEF Conflict
  <2> QED
    BY <1>1, <1>3, <2>1 DEF Call
<1> QED
  BY <1>5, <1>6, <1>7, <1>8, <1>9, <1>10, <1>11, StepCases

LEMMA StakeChanges ==
  ASSUME TypeOK, NEW s \in Stores, StoreStep(s) \/ End(s), NEW f \in Families
  PROVE  \/ stake'[s][f] = NoStake
         \/ stake'[s][f] = stake[s][f]
         \/ /\ TakeBusy(s) /\ call[s].take[f].kind # "none"
            /\ stake'[s][f] = call[s].take[f]
         \/ /\ Claims(s, f)
            /\ stake'[s][f] = [kind |-> "claimed", as |-> ClaimOf(s)]
<1> USE DEF TypeOK, local
<1>1. CASE Open(s) \/ Save(s) \/ Judge(s) \/ Refuse(s)
  BY <1>1 DEF Open, Save, Judge, Refuse
<1>2. ASSUME NEW r \in Runs, NEW live \in BOOLEAN,
             \/ WriteHeld(s, r, live) \/ WriteCold(s, r, live) \/ Commit(s, r, live)
             \/ Delete(s, r) \/ Adopt(s, r)
      PROVE  stake' = stake
  BY <1>2 DEF WriteHeld, WriteCold, Commit, Delete, Adopt
<1>3. CASE Take(s) \/ TakeBusy(s)
  BY <1>3 DEF Take, TakeBusy, Claims
<1>4. CASE Load(s) \/ LoadCold(s) \/ LoadAdopted(s) \/ Fail(s)
  BY <1>4 DEF Load, LoadCold, LoadAdopted, Fail
<1>5. CASE Persist(s)
  BY <1>5 DEF Persist, Claims
<1>6. CASE Conflict(s)
  BY <1>6 DEF Conflict
<1>7. CASE Sweep(s)
  BY <1>7 DEF Sweep
<1>8. CASE Close(s) \/ End(s)
  BY <1>8 DEF Close, End, Forget
<1> QED
  BY <1>1, <1>2, <1>3, <1>4, <1>5, <1>6, <1>7, <1>8, StepCases

(* A claim changes when a store gives its own back, or when one takes what *)
(* it had expected to find.                                                *)
LEMMA ClaimChanges ==
  ASSUME TypeOK, NEW s \in Stores, StoreStep(s) \/ End(s), NEW f \in Families
  PROVE  \/ claims'[f] = claims[f]
         \/ /\ claims[f].session = s /\ claims'[f] = Unclaimed
            /\ stake'[s][f].kind # "claimed"
         \/ /\ claims'[f] = ClaimOf(s) /\ stake'[s][f] = [kind |-> "claimed", as |-> ClaimOf(s)]
            /\ gens' = gens + 1
            /\ \/ Take(s) /\ call[s].take[f].kind # "none" /\ claims[f] = call[s].take[f].as
               \/ /\ Persist(s) /\ Pending(s, f) /\ claims[f] = stake[s][f].as
<1> USE DEF TypeOK, database
<1>1. CASE Open(s) \/ Save(s) \/ Judge(s) \/ Refuse(s)
  BY <1>1 DEF Open, Save, Judge, Refuse
<1>2. ASSUME NEW r \in Runs, NEW live \in BOOLEAN,
             \/ WriteHeld(s, r, live) \/ WriteCold(s, r, live) \/ Commit(s, r, live)
             \/ Delete(s, r) \/ Adopt(s, r)
      PROVE  claims' = claims
  BY <1>2 DEF WriteHeld, WriteCold, Commit, Delete, Adopt
<1>3. CASE TakeBusy(s) \/ Load(s) \/ LoadCold(s) \/ LoadAdopted(s) \/ Fail(s) \/ Conflict(s) \/ End(s)
  BY <1>3 DEF TakeBusy, Load, LoadCold, LoadAdopted, Fail, Conflict, End
<1>4. CASE Take(s)
  BY <1>4 DEF Take, Won, Grant
<1>5. CASE Persist(s)
  <2>1. ASSUME f \in Claiming(s) PROVE claims[f] = stake[s][f].as
    BY <1>5, <2>1 DEF Persist, Claiming, Clashes, Lost
  <2> QED
    BY <1>5, <2>1 DEF Persist, Claiming, Grant
<1>6. CASE Sweep(s)
  <2>1. claims'[f] = claims[f] \/ (claims[f].session = s /\ claims'[f] = Unclaimed /\ stake'[s][f] = NoStake)
    BY <1>6 DEF Sweep
  <2> QED
    BY <2>1 DEF NoStake
<1>7. CASE Close(s)
  <2>1. stake'[s][f] = NoStake
    BY <1>7 DEF Close, Forget
  <2> QED
    BY <1>7, <2>1 DEF Close, NoStake
<1> QED
  BY <1>1, <1>2, <1>3, <1>4, <1>5, <1>6, <1>7, StepCases

LEMMA WorkingStays ==
  ASSUME TypeOK, CallInv, NEW s \in Stores, StoreStep(s) \/ End(s), NEW f \in Families
  PROVE  /\ Working(s) => Working(s)' \/ stake'[s][f] = NoStake
         /\ Claims(s, f) => Working(s)' /\ claims'[f] = ClaimOf(s)
<1> USE DEF TypeOK, local, Working
<1>1. ASSUME Open(s) \/ Save(s) \/ Judge(s) \/ Refuse(s)
      PROVE  Working(s) => Working(s)' \/ stake'[s][f] = NoStake
  BY <1>1 DEF Open, Save, Judge, Refuse
<1>2. ASSUME at' = at PROVE Working(s) => Working(s)'
  BY <1>2
<1>3. ASSUME NEW r \in Runs, NEW live \in BOOLEAN,
             \/ WriteHeld(s, r, live) \/ WriteCold(s, r, live) \/ Commit(s, r, live)
             \/ Delete(s, r) \/ Adopt(s, r)
      PROVE  at' = at
  BY <1>3 DEF WriteHeld, WriteCold, Commit, Delete, Adopt
<1>4. ASSUME Take(s) \/ TakeBusy(s) \/ LoadCold(s) \/ LoadAdopted(s) \/ Fail(s) \/ Persist(s) \/ Conflict(s) \/ Sweep(s)
      PROVE  Working(s) => Working(s)' \/ stake'[s][f] = NoStake
  BY <1>4 DEF Take, TakeBusy, LoadCold, LoadAdopted, Fail, Persist, Conflict, Sweep
<1>5. ASSUME Load(s)
      PROVE  Working(s) => Working(s)' \/ stake'[s][f] = NoStake
  BY <1>5 DEF Load
<1>6. ASSUME Close(s) \/ End(s)
      PROVE  Working(s) => Working(s)' \/ stake'[s][f] = NoStake
  BY <1>6 DEF Close, End, Forget
<1>7. Claims(s, f) => Working(s) /\ at' = at /\ claims'[f] = ClaimOf(s)
  BY InCall DEF Claims, Take, Persist, AtFence, Grant
<1> QED
  BY <1>1, <1>2, <1>3, <1>4, <1>5, <1>6, <1>7, StepCases

LEMMA StakeTypes ==
  ASSUME TypeOK, NEW s \in Stores, NEW f \in Families
  PROVE  /\ stake[s][f] \in Stake /\ stake[s][f].as \in Claim
         /\ call[s].take[f] \in Stake /\ call[s].take[f].as \in Claim
         /\ stake[s][f].kind \in {"none", "claimed", "pending", "moved"}
<1>1. stake[s][f] \in Stake /\ call[s].take[f] \in Stake
  BY DEF TypeOK, Call
<1> QED
  BY <1>1 DEF Stake

LEMMA StakeStep ==
  ASSUME TypeOK, CallInv, StakeInv, NEW s \in Stores, StoreStep(s) \/ End(s)
  PROVE  StakeInv'
<1> SUFFICES ASSUME NEW t \in Stores, NEW f \in Families
             PROVE  /\ stake'[t][f].kind = "claimed" =>
                         /\ Working(t)'
                         /\ stake'[t][f].as.session = t
                         /\ claims'[f] = stake'[t][f].as
                    /\ stake'[t][f].kind \in {"pending", "moved"} => ~OwnerLive(stake[t][f].as)'
                    /\ call'[t].take[f].kind # "none" =>
                         /\ call'[t].take[f].kind # "claimed"
                         /\ ~OwnerLive(call[t].take[f].as)'
  BY DEF StakeInv, Pending, Working, OwnerLive
<1> DEFINE Lives(c) == c.session # None /\ at'[c.session] # "gone"
<1>1. OwnerLive(stake[t][f].as)' = Lives(stake'[t][f].as) /\ OwnerLive(call[t].take[f].as)' = Lives(call'[t].take[f].as)
  BY DEF OwnerLive
<1>2. \A c \in Claim : ~OwnerLive(c) => ~Lives(c)
  BY GoneStays DEF OwnerLive
<1> HIDE DEF Lives
<1>3. NoStake.kind = "none"
  BY DEF NoStake
<1>4. stake'[t][f].kind = "claimed" =>
        Working(t)' /\ stake'[t][f].as.session = t /\ claims'[f] = stake'[t][f].as
  <2>1. CASE t = s
    <3>1. ASSUME stake'[s][f] = stake[s][f], stake[s][f].kind = "claimed"
          PROVE  Working(s)' /\ stake'[s][f].as.session = s /\ claims'[f] = stake'[s][f].as
      <4>1. Working(s) /\ stake[s][f].as.session = s /\ claims[f] = stake[s][f].as
        BY <3>1 DEF StakeInv
      <4>2. Working(s)'
        BY <1>3, <3>1, <4>1, WorkingStays
      <4>3. claims'[f] = stake'[s][f].as
        <5>1. stake'[s][f].kind = "claimed"
          BY <3>1
        <5>2. CASE claims'[f] = claims[f]
          BY <3>1, <4>1, <5>2
        <5>3. CASE claims'[f] = ClaimOf(s) /\ stake'[s][f] = [kind |-> "claimed", as |-> ClaimOf(s)]
          BY <5>3
        <5> QED
          BY <5>1, <5>2, <5>3, ClaimChanges
      <4> QED
        BY <3>1, <4>1, <4>2, <4>3
    <3>2. ASSUME Claims(s, f), stake'[s][f] = [kind |-> "claimed", as |-> ClaimOf(s)]
          PROVE  Working(s)' /\ stake'[s][f].as.session = s /\ claims'[f] = stake'[s][f].as
      BY <3>2, WorkingStays DEF ClaimOf
    <3>3. stake'[s][f].kind = "claimed" =>
            Working(s)' /\ stake'[s][f].as.session = s /\ claims'[f] = stake'[s][f].as
      BY <1>3, <3>1, <3>2, StakeChanges DEF StakeInv
    <3> QED
      BY <2>1, <3>3 DEF Working
  <2>2. CASE t # s
    <3>1. stake'[t] = stake[t] /\ at'[t] = at[t]
      BY <2>2, Others
    <3>2. SUFFICES ASSUME stake[t][f].kind = "claimed"
                   PROVE  claims'[f] = claims[f]
      BY <3>1 DEF StakeInv, Working
    <3>3. claims[f].session = t /\ OwnerLive(claims[f])
      <4>1. claims[f].session = t /\ Working(t)
        BY <3>2 DEF StakeInv
      <4> QED
        BY <4>1, ClaimsAssumption DEF OwnerLive, Working, ClaimsAssumption
    <3> QED
      BY <2>2, <3>3, ClaimChanges DEF StakeInv
  <2> QED
    BY <2>1, <2>2
<1>5. stake'[t][f].kind \in {"pending", "moved"} => ~Lives(stake'[t][f].as)
  <2>1. CASE stake'[t][f] = stake[t][f]
    BY <1>2, <2>1, StakeTypes DEF StakeInv, Pending
  <2>2. CASE call[t].take[f].kind # "none" /\ stake'[t][f] = call[t].take[f]
    BY <1>2, <2>2, StakeTypes DEF StakeInv
  <2>3. CASE t = s
    <3>1. Claims(s, f) /\ stake'[s][f] = [kind |-> "claimed", as |-> ClaimOf(s)]
             => stake'[s][f].kind = "claimed"
      OBVIOUS
    <3> QED
      BY <1>3, <2>1, <2>2, <2>3, <3>1, StakeChanges
  <2> QED
    BY <2>1, <2>3, Others
<1>6. call'[t].take[f].kind # "none" => call'[t].take[f].kind # "claimed" /\ ~Lives(call'[t].take[f].as)
  <2>1. CASE call'[t].take[f] = call[t].take[f]
    BY <1>2, <2>1, StakeTypes DEF StakeInv
  <2>2. CASE Free(t, f) /\ call'[t].take[f] = Judged(t, f)
    <3>1. claims[f] \in Claim /\ ~OwnerLive(claims[f])
      BY <2>2 DEF TypeOK, Free
    <3> QED
      BY <1>2, <2>2, <3>1 DEF Judged
  <2> QED
    BY <1>3, <2>1, <2>2, TakeChanges, Others
<1> QED
  BY <1>1, <1>4, <1>5, <1>6

-----------------------------------------------------------------------------
(* How the runs in memory change.                                          *)

Grown(s, r) ==
  /\ mem[s][r].held /\ mem'[s][r].held
  /\ mem'[s][r].row.rev = mem[s][r].row.rev
  /\ mem[s][r].row.log \subseteq mem'[s][r].row.log
  /\ mem'[s][r].under = mem[s][r].under

Fresh(s, r) ==
  /\ rows' = rows /\ seq' = seq
  /\ mem'[s][r].row.rev = rows[r].rev
  /\ rows[r].log \subseteq mem'[s][r].row.log
  /\ mem'[s][r].under = 0 \/ (mem'[s][r].under = Under(s, r) /\ stake' = stake)

Listed(s, r) ==
  /\ rows' = rows /\ seq' = seq
  /\ mem'[s][r].row.rev = call[s].seen[r].rev
  /\ mem'[s][r].row.log = call[s].seen[r].log
  /\ mem'[s][r].under = 0

Kept(s, r) ==
  /\ Persist(s) /\ r \in WriteSet(s) /\ r \notin Deleted(s)
  /\ mem'[s][r].row = rows'[r]
  /\ mem'[s][r].under = stake'[s][FamilyOf[r]].as.gen

LEMMA MemChanges ==
  ASSUME TypeOK, RunInv, NEW s \in Stores, StoreStep(s) \/ End(s), NEW r \in Runs
  PROVE  \/ mem'[s][r] = mem[s][r] \/ ~mem'[s][r].held
         \/ Grown(s, r) \/ Fresh(s, r) \/ Listed(s, r) \/ Kept(s, r)
<1> USE DEF TypeOK, local
<1>0. mem[s][r] \in Record /\ Out.held = FALSE
  BY DEF Out
<1>1. CASE Open(s) \/ Save(s) \/ Judge(s) \/ Refuse(s)
  BY <1>1 DEF Open, Save, Judge, Refuse
<1>2. ASSUME NEW q \in Runs, NEW live \in BOOLEAN,
             WriteCold(s, q, live) \/ Commit(s, q, live) \/ Delete(s, q) \/ Adopt(s, q)
      PROVE  mem' = mem
  BY <1>2 DEF WriteCold, Commit, Delete, Adopt
<1>3. ASSUME NEW q \in Runs, NEW live \in BOOLEAN, WriteHeld(s, q, live)
      PROVE  mem'[s][r] = mem[s][r] \/ Grown(s, r)
  <2>1. CASE q = r
    <3>1. mem'[s][r] = Changed(mem[s][r], live, NewWrite(s)) /\ mem[s][r].held
      BY <1>3, <2>1 DEF WriteHeld
    <3>2. mem[s][r] \in [held : {TRUE}, dirty : BOOLEAN, row : Stored, under : Nat]
      BY <1>0, <3>1 DEF Record
    <3> QED
      BY <3>1, <3>2 DEF Changed, Grown
  <2>2. CASE q # r
    BY <1>3, <2>2 DEF WriteHeld
  <2> QED
    BY <2>1, <2>2
<1>4. CASE Take(s) \/ TakeBusy(s) \/ Fail(s)
  BY <1>4 DEF Take, TakeBusy, Fail
<1>5. ASSUME NEW row \in Row
      PROVE  /\ Held(s, r, row).row = row /\ Held(s, r, row).under = Under(s, r)
             /\ Settled(s, r, row).row.rev = row.rev /\ Settled(s, r, row).row.log = row.log
             /\ Settled(s, r, row).under = Under(s, r)
  BY DEF Held, Settled, Row
<1>6. CASE Load(s)
  <2>1. rows' = rows /\ seq' = seq /\ stake' = stake
    BY <1>6 DEF Load, database
  <2>2. rows[r] \in Row /\ call[s].seen[r] \in Row
    BY DEF Call
  <2>3. \/ mem'[s][r] = Out
        \/ mem'[s][r] = [Held(s, r, call[s].seen[r]) EXCEPT !.under = 0]
        \/ mem'[s][r] = [Settled(s, r, call[s].seen[r]) EXCEPT !.under = 0]
        \/ mem'[s][r] = Held(s, r, rows[r])
        \/ mem'[s][r] = Settled(s, r, rows[r])
    BY <1>6 DEF Load
  <2> QED
    <3>1. CASE \/ mem'[s][r] = [Held(s, r, call[s].seen[r]) EXCEPT !.under = 0]
               \/ mem'[s][r] = [Settled(s, r, call[s].seen[r]) EXCEPT !.under = 0]
      <4>1. Listed(s, r)
        <5>1. ASSUME NEW row \in Row,
                     \/ mem'[s][r] = [Held(s, r, row) EXCEPT !.under = 0]
                     \/ mem'[s][r] = [Settled(s, r, row) EXCEPT !.under = 0]
              PROVE  /\ mem'[s][r].row.rev = row.rev /\ mem'[s][r].row.log = row.log
                     /\ mem'[s][r].under = 0
          <6>1. CASE mem'[s][r] = [Held(s, r, row) EXCEPT !.under = 0]
            <7>1. mem'[s][r] = [held |-> TRUE, dirty |-> FALSE, row |-> row, under |-> 0]
              BY <6>1 DEF Held
            <7> QED
              BY <7>1
          <6>2. CASE mem'[s][r] = [Settled(s, r, row) EXCEPT !.under = 0]
            <7>1. mem'[s][r] = [held |-> TRUE, dirty |-> row.live, row |-> [row EXCEPT !.live = FALSE], under |-> 0]
              BY <6>2 DEF Settled
            <7>2. [row EXCEPT !.live = FALSE].rev = row.rev /\ [row EXCEPT !.live = FALSE].log = row.log
              BY DEF Row
            <7>3. mem'[s][r].row = [row EXCEPT !.live = FALSE] /\ mem'[s][r].under = 0
              BY <7>1
            <7> QED
              BY <7>2, <7>3
          <6> QED
            BY <5>1, <6>1, <6>2
        <5> QED
          BY <2>1, <2>2, <3>1, <5>1 DEF Listed
      <4> QED
        BY <4>1
    <3>2. CASE mem'[s][r] = Held(s, r, rows[r]) \/ mem'[s][r] = Settled(s, r, rows[r])
      <4>1. Fresh(s, r)
        BY <1>5, <2>1, <2>2, <3>2 DEF Fresh
      <4> QED
        BY <4>1
    <3> QED
      BY <1>0, <2>3, <3>1, <3>2
<1>7. CASE LoadCold(s)
  <2>1. rows' = rows /\ seq' = seq /\ stake' = stake
    BY <1>7 DEF LoadCold, database
  <2>2. rows[r] \in Row
    OBVIOUS
  <2>3. \/ mem'[s][r] = mem[s][r]
        \/ mem'[s][r] = Changed(Held(s, r, rows[r]), call[s].next.live, ThisWrite(s))
    BY <1>7 DEF LoadCold
  <2>4. ASSUME NEW live, NEW w
        PROVE  LET new == Changed(Held(s, r, rows[r]), live, w) IN
               new.row.rev = rows[r].rev /\ new.row.log = rows[r].log \cup {w} /\ new.under = Under(s, r)
    BY <2>2 DEF Changed, Held
  <2> QED
    BY <2>1, <2>3, <2>4 DEF Fresh
<1>8. CASE LoadAdopted(s)
  <2>1. rows' = rows /\ seq' = seq /\ stake' = stake
    BY <1>8 DEF LoadAdopted, database
  <2>2. rows[r] \in Row
    OBVIOUS
  <2>3. mem'[s][r] = mem[s][r] \/ mem'[s][r] = Settled(s, r, rows[r])
    BY <1>8 DEF LoadAdopted
  <2> QED
    BY <1>5, <2>1, <2>2, <2>3 DEF Fresh
<1>9. CASE Persist(s)
  BY <1>0, <1>9 DEF Persist, Kept
<1>10. CASE Conflict(s)
  <2>1. \/ mem'[s][r] = mem[s][r] \/ mem'[s][r] = Out
        \/ mem'[s][r] = [held |-> TRUE, dirty |-> FALSE, row |-> rows[r], under |-> 0]
    BY <1>10 DEF Conflict
  <2>2. rows' = rows /\ seq' = seq
    BY <1>10 DEF Conflict
  <2> QED
    BY <1>0, <2>1, <2>2 DEF Fresh
<1>11. CASE Sweep(s)
  <2>1. mem'[s][r] = mem[s][r] \/ mem'[s][r] = Out
    BY <1>11 DEF Sweep
  <2> QED
    BY <1>0, <2>1
<1>12. CASE Close(s) \/ End(s)
  BY <1>0, <1>12 DEF Close, End, Forget
<1> QED
  BY <1>1, <1>2, <1>3, <1>4, <1>6, <1>7, <1>8, <1>9, <1>10, <1>11, <1>12, StepCases

-----------------------------------------------------------------------------
(* Claims are held, and what was read under one stays current.             *)

LEMMA GensGrow ==
  ASSUME TypeOK, NEW s \in Stores, StoreStep(s) \/ End(s)
  PROVE  /\ gens \in Nat /\ gens' \in Nat /\ gens <= gens'
         /\ \A f \in Families : Claims(s, f) => gens' = gens + 1
<1> USE DEF TypeOK, database
<1>1. ASSUME Open(s) \/ Save(s) \/ Judge(s) \/ Refuse(s)
      PROVE  gens' = gens
  BY <1>1 DEF Open, Save, Judge, Refuse
<1>2. gens' = gens \/ Take(s) \/ Persist(s)
  <2>1. ASSUME NEW r \in Runs, NEW live \in BOOLEAN,
               \/ WriteHeld(s, r, live) \/ WriteCold(s, r, live) \/ Commit(s, r, live)
               \/ Delete(s, r) \/ Adopt(s, r)
        PROVE  gens' = gens
    BY <2>1 DEF WriteHeld, WriteCold, Commit, Delete, Adopt
  <2>2. CASE TakeBusy(s) \/ Load(s) \/ LoadCold(s) \/ LoadAdopted(s) \/ Fail(s) \/ Conflict(s)
             \/ Sweep(s) \/ Close(s) \/ End(s)
    BY <2>2 DEF TakeBusy, Load, LoadCold, LoadAdopted, Fail, Conflict, Sweep, Close, End
  <2> QED
    BY <1>1, <2>1, <2>2, StepCases
<1>3. \A F : Grant(s, F) => gens' \in {gens, gens + 1} /\ (F # {} => gens' = gens + 1)
  BY DEF Grant
<1>4. Take(s) => gens' \in {gens, gens + 1} /\ (Won(s) # {} => gens' = gens + 1)
  BY <1>3 DEF Take
<1>5. Persist(s) => gens' \in {gens, gens + 1} /\ (Claiming(s) # {} => gens' = gens + 1)
  BY <1>3 DEF Persist
<1> QED
  BY <1>2, <1>4, <1>5 DEF Claims

LEMMA GenStep ==
  ASSUME TypeOK, TypeOK', RunInv, CallInv, StakeInv, GenInv, NEW s \in Stores,
         StoreStep(s) \/ End(s)
  PROVE  GenInv'
<1>1. gens \in Nat /\ gens' \in Nat /\ gens <= gens'
  BY GensGrow
<1>2. NoStake.as.gen = 0 /\ Unclaimed.gen = 0 /\ NoStake.kind = "none" /\ ClaimOf(s).gen = gens + 1
  BY DEF NoStake, Unclaimed, ClaimOf
<1>3. \A f \in Families : claims[f].gen \in Nat
  BY DEF TypeOK, Claim
<1>4. ASSUME NEW f \in Families PROVE claims'[f].gen <= gens'
  <2>1. CASE claims'[f] = claims[f]
    BY <1>1, <1>3, <2>1 DEF GenInv
  <2>2. CASE claims'[f] = Unclaimed
    BY <1>1, <1>2, <2>2
  <2>3. CASE claims'[f] = ClaimOf(s) /\ gens' = gens + 1
    BY <1>1, <1>2, <2>3
  <2> QED
    BY <2>1, <2>2, <2>3, ClaimChanges
<1>5. ASSUME NEW t \in Stores, NEW f \in Families
      PROVE  stake'[t][f].as.gen <= gens' /\ (stake'[t][f].kind = "claimed" => stake'[t][f].as.gen # 0)
  <2>1. stake[t][f].as.gen \in Nat /\ call[t].take[f].as.gen \in Nat
    BY StakeTypes DEF Claim
  <2>2. CASE stake'[t][f] = stake[t][f]
    BY <1>1, <2>1, <2>2 DEF GenInv
  <2>3. CASE stake'[t][f] = NoStake
    BY <1>1, <1>2, <2>3
  <2>4. CASE call[t].take[f].kind # "none" /\ stake'[t][f] = call[t].take[f]
    BY <1>1, <2>1, <2>4 DEF GenInv, StakeInv
  <2>5. CASE Claims(s, f) /\ stake'[t][f] = [kind |-> "claimed", as |-> ClaimOf(s)]
    <3>1. gens' = gens + 1 /\ stake'[t][f].as.gen = gens + 1
      BY <1>2, <2>5, GensGrow
    <3> QED
      BY <1>1, <3>1
  <2> QED
    BY <2>2, <2>3, <2>4, <2>5, Others, StakeChanges
<1>6. ASSUME NEW t \in Stores, NEW f \in Families PROVE call'[t].take[f].as.gen <= gens'
  <2>1. call[t].take[f].as.gen \in Nat
    BY StakeTypes DEF Claim
  <2>2. CASE call'[t].take[f] = call[t].take[f]
    BY <1>1, <2>1, <2>2 DEF GenInv
  <2>3. CASE call'[t].take[f] = NoStake
    BY <1>1, <1>2, <2>3
  <2>4. CASE call'[t].take[f] = Judged(s, f)
    <3>1. call'[t].take[f].as.gen = claims[f].gen
      BY <2>4 DEF Judged
    <3> QED
      BY <1>1, <1>3, <3>1 DEF GenInv
  <2> QED
    BY <2>2, <2>3, <2>4, Others, TakeChanges
<1>7. ASSUME NEW t \in Stores, NEW r \in Runs PROVE mem'[t][r].under <= gens'
  <2>1. mem[t][r].under \in Nat /\ mem[t][r].under <= gens
    BY RecordType DEF TypeOK, GenInv
  <2>2. mem'[t][r] \in Record
    BY DEF TypeOK
  <2>3. ~mem'[t][r].held => mem'[t][r].under = 0
    BY <2>2, RecordType DEF Out
  <2>4. CASE mem'[t][r] = mem[t][r]
    BY <1>1, <2>1, <2>4
  <2>5. CASE t = s /\ (Grown(s, r) \/ Listed(s, r))
    BY <1>1, <2>1, <2>5 DEF Grown, Listed
  <2>6. CASE t = s /\ Fresh(s, r)
    <3>1. stake[s][FamilyOf[r]].as.gen <= gens /\ stake[s][FamilyOf[r]].as.gen \in Nat
      BY StakeTypes, ClaimsAssumption DEF GenInv, ClaimsAssumption, Claim
    <3> QED
      BY <1>1, <2>6, <3>1 DEF Fresh, Under
  <2>7. CASE t = s /\ Kept(s, r)
    BY <1>5, <2>7, ClaimsAssumption DEF Kept, ClaimsAssumption
  <2> QED
    BY <1>1, <2>3, <2>4, <2>5, <2>6, <2>7, Others, MemChanges
<1> QED
  BY <1>4, <1>5, <1>6, <1>7 DEF GenInv

LEMMA RowsChange ==
  ASSUME TypeOK, NEW s \in Stores, StoreStep(s) \/ End(s), NEW r \in Runs
  PROVE  rows'[r] = rows[r] \/ (Persist(s) /\ r \in WriteSet(s))
<1>1. CASE Persist(s)
  <2>1. Deleted(s) \subseteq WriteSet(s)
    BY DEF Deleted, WriteSet
  <2> QED
    BY <1>1, <2>1 DEF Persist
<1> QED
  BY <1>1, Others

(* While a store at work has a claim nobody else gets past the fence.      *)
LEMMA Fenced ==
  ASSUME TypeOK, StakeInv, NEW s \in Stores, Persist(s), NEW r \in Runs, r \in WriteSet(s)
  PROVE  /\ claims[FamilyOf[r]] = stake[s][FamilyOf[r]].as
         /\ Pending(s, FamilyOf[r]) \/ stake[s][FamilyOf[r]].kind = "claimed"
         /\ \A t \in Stores \ {s} : stake[t][FamilyOf[r]].kind # "claimed"
<1> DEFINE f == FamilyOf[r]
<1>0. f \in Families
  BY ClaimsAssumption DEF ClaimsAssumption
<1> HIDE DEF f
<1>1. Owned(s, f) /\ claims[f] = stake[s][f].as
  BY DEF Persist, Clashes, Lost, f
<1>2. Pending(s, f) \/ stake[s][f].kind = "claimed"
  BY <1>0, <1>1, StakeTypes DEF Owned, Pending
<1>3. ASSUME NEW t \in Stores \ {s}, stake[t][f].kind = "claimed" PROVE FALSE
  <2>1. claims[f].session = t /\ Working(t)
    BY <1>0, <1>3 DEF StakeInv
  <2>2. OwnerLive(claims[f])
    BY <1>3, <2>1, ClaimsAssumption DEF OwnerLive, Working, ClaimsAssumption
  <2> QED
    BY <1>0, <1>1, <1>2, <1>3, <2>1, <2>2 DEF StakeInv
<1> QED
  BY <1>1, <1>2, <1>3 DEF f

LEMMA ReadStep ==
  ASSUME TypeOK, TypeOK', RunInv, CallInv, StakeInv, GenInv, GenInv', ReadUnderClaimIsCurrent,
         NEW s \in Stores, StoreStep(s) \/ End(s)
  PROVE  ReadUnderClaimIsCurrent'
<1> SUFFICES ASSUME NEW t \in Stores, NEW r \in Runs,
                    stake'[t][FamilyOf[r]].kind = "claimed", mem'[t][r].held,
                    mem'[t][r].under = stake'[t][FamilyOf[r]].as.gen
             PROVE  mem'[t][r].row.rev = rows'[r].rev
  BY DEF ReadUnderClaimIsCurrent
<1> DEFINE f == FamilyOf[r]
<1>0. f \in Families
  BY ClaimsAssumption DEF ClaimsAssumption
<1> HIDE DEF f
<1>1. ASSUME stake'[t][f] = stake[t][f], mem[t][r].held, mem[t][r].under = mem'[t][r].under
      PROVE  mem[t][r].row.rev = rows[r].rev
  BY <1>1 DEF ReadUnderClaimIsCurrent, f
<1>2. CASE t # s
  <2>1. stake'[t] = stake[t] /\ mem'[t] = mem[t]
    BY <1>2, Others
  <2>2. rows'[r] = rows[r]
    BY <1>2, <2>1, RowsChange, Fenced
  <2> QED
    BY <1>1, <2>1, <2>2
<1>3. CASE t = s /\ Persist(s) /\ r \in WriteSet(s)
  <2>1. Out.held = FALSE
    BY DEF Out
  <2>2. mem'[s][r] = Out \/ mem'[s][r].row = rows'[r]
    BY <1>3 DEF Persist, TypeOK
  <2> QED
    BY <1>3, <2>1, <2>2
<1>4. CASE t = s /\ rows'[r] = rows[r] /\ ~(Persist(s) /\ r \in WriteSet(s))
  <2>1. CASE mem'[s][r] = mem[s][r] \/ Grown(s, r)
    <3>1. mem[s][r].held /\ mem'[s][r].row.rev = mem[s][r].row.rev /\ mem'[s][r].under = mem[s][r].under
      BY <1>4, <2>1 DEF Grown
    <3>2. stake'[s][f].as.gen <= gens
      <4>1. mem[s][r].under <= gens
        BY DEF GenInv
      <4> QED
        BY <1>4, <3>1, <4>1 DEF f
    <3>3. stake'[s][f] = stake[s][f]
      <4>1. CASE Claims(s, f) /\ stake'[s][f] = [kind |-> "claimed", as |-> ClaimOf(s)]
        <5>1. stake'[s][f].as.gen = gens + 1 /\ gens \in Nat
          BY <4>1 DEF ClaimOf, TypeOK
        <5> QED
          BY <3>2, <5>1
      <4>2. NoStake.kind = "none"
        BY DEF NoStake
      <4>3. stake'[s][f].kind = "claimed"
        BY <1>4 DEF f
      <4> QED
        BY <1>0, <4>1, <4>2, <4>3, StakeChanges DEF StakeInv
    <3> QED
      BY <1>1, <1>4, <3>1, <3>3
  <2>2. CASE Fresh(s, r)
    BY <1>4, <2>2 DEF Fresh
  <2>3. CASE Listed(s, r)
    BY <1>0, <1>4, <2>3 DEF Listed, GenInv, f
  <2> QED
    BY <1>4, <2>1, <2>2, <2>3, MemChanges DEF Kept
<1> QED
  BY <1>2, <1>3, <1>4, RowsChange

-----------------------------------------------------------------------------

OwnershipInv == TypeOK /\ RunInv /\ CallInv /\ StakeInv /\ GenInv /\ ReadUnderClaimIsCurrent

LEMMA OwnershipInit == Init => OwnershipInv
<1> SUFFICES ASSUME Init PROVE OwnershipInv
  OBVIOUS
<1>1. TypeOK /\ RunInv
  BY TypeInit, ClaimsAssumption
<1>2. /\ \A s \in Stores : call[s] = Idle
      /\ \A f \in Families : Idle.take[f] = NoStake
      /\ \A s \in Stores, f \in Families : stake[s][f] = NoStake
      /\ \A s \in Stores, r \in Runs : mem[s][r] = Out
      /\ \A f \in Families : claims[f] = Unclaimed
      /\ gens = 0
  BY DEF Init, Idle
<1>3. NoStake.kind = "none" /\ NoStake.as = Unclaimed /\ Unclaimed.gen = 0 /\ Out.under = 0 /\ Out.held = FALSE
  BY DEF NoStake, Unclaimed, Out
<1>4. CallInv /\ StakeInv
  BY <1>2, <1>3 DEF CallInv, StakeInv, Pending
<1>5. GenInv
  BY <1>2, <1>3 DEF GenInv
<1>6. ReadUnderClaimIsCurrent
  BY <1>2, <1>3 DEF ReadUnderClaimIsCurrent
<1> QED
  BY <1>1, <1>4, <1>5, <1>6 DEF OwnershipInv

LEMMA OwnershipStep == OwnershipInv /\ [Next]_vars => OwnershipInv'
<1> SUFFICES ASSUME OwnershipInv, [Next]_vars PROVE OwnershipInv'
  OBVIOUS
<1> USE DEF OwnershipInv
<1>1. TypeOK' /\ RunInv'
  BY TypeStep, RunStep, ClaimsAssumption
<1>2. ASSUME NEW s \in Stores, StoreStep(s) \/ End(s)
      PROVE  OwnershipInv'
  <2>1. CallInv' /\ StakeInv'
    BY <1>2, CallStep, StakeStep
  <2>2. GenInv'
    BY <1>1, <1>2, GenStep
  <2>3. ReadUnderClaimIsCurrent'
    BY <1>1, <1>2, <2>2, ReadStep
  <2> QED
    BY <1>1, <2>1, <2>2, <2>3
<1>3. CASE UNCHANGED vars
  <2>1. UNCHANGED <<rows, claims, gens, at, call, mem, stake>>
    BY <1>3 DEF vars, database, local
  <2>2. CallInv' /\ StakeInv'
    BY <2>1 DEF CallInv, StakeInv, Working, Pending, OwnerLive
  <2>3. GenInv' /\ ReadUnderClaimIsCurrent'
    BY <2>1 DEF GenInv, ReadUnderClaimIsCurrent
  <2> QED
    BY <1>1, <2>2, <2>3
<1> QED
  BY <1>2, <1>3 DEF Next

(* A claim a store at work holds is in the database, so no two stores own  *)
(* a family together however their judgements and transactions interleave. *)
THEOREM ClaimsHold == Spec => []ClaimedMeansOwned
<1>1. OwnershipInv => ClaimedMeansOwned
  BY DEF OwnershipInv, StakeInv, ClaimedMeansOwned
<1> QED
  BY <1>1, OwnershipInit, OwnershipStep, PTL DEF Spec

(* What a store read or wrote under the claim it holds is what the         *)
(* database has, whatever the other stores do.                             *)
THEOREM ReadsAreCurrent == Spec => []ReadUnderClaimIsCurrent
<1>1. OwnershipInv => ReadUnderClaimIsCurrent
  BY DEF OwnershipInv
<1> QED
  BY <1>1, OwnershipInit, OwnershipStep, PTL DEF Spec

-----------------------------------------------------------------------------
(* No committed write is lost.                                             *)

SameCall(s) ==
  /\ call'[s].op = call[s].op /\ call'[s].run = call[s].run
  /\ call'[s].seen = call[s].seen /\ call'[s].next = call[s].next

NewCommit(s, r) ==
  /\ call'[s].op = "commit" /\ call'[s].run = r
  /\ call'[s].seen = [[q \in Runs |-> Absent] EXCEPT ![r] = Base(s, r)]
  /\ call'[s].next = Absent \/ Base(s, r).log \subseteq call'[s].next.log

(* How the call of a store changes what it has read and what it is to write. *)
LEMMA CallChanges ==
  ASSUME TypeOK, NEW s \in Stores, StoreStep(s) \/ End(s)
  PROVE  \/ SameCall(s) /\ (mem' = mem \/ call[s].op \in {"idle", "save", "close"})
         \/ /\ call'[s].op \in {"idle", "save", "close", "open", "adopt"} /\ call'[s].next.log = {}
            /\ \A q \in Runs : call'[s].seen[q] \in {Absent, rows[q]}
            /\ call'[s].op # "open" => \A q \in Runs : call'[s].seen[q] = Absent
         \/ /\ call'[s].op = "write" /\ call'[s].next.log = {} /\ mem' = mem
            /\ \A q \in Runs : call'[s].seen[q] = Absent
            /\ ~mem[s][call'[s].run].held
         \/ \E r \in Runs : NewCommit(s, r) /\ mem' = mem
<1>0. call \in [Stores -> Call] /\ call[s] \in Call /\ Absent.log = {}
  BY DEF TypeOK, Absent
<1>1. UNCHANGED call => SameCall(s)
  BY DEF SameCall
<1>2. ASSUME NEW step, Goto(s, step) PROVE SameCall(s)
  BY <1>0, <1>2 DEF Goto, SameCall, Call
<1>3. Return(s) => /\ call'[s].op = "idle" /\ call'[s].next.log = {}
                   /\ \A q \in Runs : call'[s].seen[q] = Absent
  BY <1>0 DEF Return, Idle
<1>4. CASE Open(s)
  <2>1. call'[s].op = "open" /\ call'[s].next = Absent
    BY <1>0, <1>4 DEF Open, Idle
  <2>2. call'[s].seen = [r \in Runs |-> IF rows[r].live THEN rows[r] ELSE Absent]
    BY <1>0, <1>4 DEF Open, Idle
  <2> QED
    BY <1>0, <2>1, <2>2
<1>5. CASE Save(s)
  <2>1. PICK op \in {"save", "close"}, step \in {"judge", "claimed", "sweep"} : call' = [call EXCEPT ![s] = [Idle EXCEPT !.op = op, !.step = step]]
    BY <1>5 DEF Save, First
  <2>2. call'[s].op \in {"save", "close"} /\ call'[s].next = Absent /\ call'[s].seen = [r \in Runs |-> Absent]
    BY <1>0, <2>1 DEF Idle
  <2> QED
    BY <1>0, <2>2
<1>6. CASE Judge(s)
  <2>1. PICK take, step : call' = [call EXCEPT ![s].take = take, ![s].step = step]
    BY <1>6 DEF Judge
  <2>2. SameCall(s)
    BY <1>0, <2>1 DEF SameCall, Call
  <2> QED
    BY <1>6, <2>2 DEF Judge, local
<1>7. CASE Refuse(s) \/ Load(s) \/ LoadCold(s) \/ LoadAdopted(s) \/ Sweep(s) \/ Close(s) \/ End(s)
  BY <1>3, <1>7 DEF Refuse, Load, LoadCold, LoadAdopted, Sweep, Close, End, Forget
<1>8. ASSUME NEW r \in Runs, NEW live \in BOOLEAN, WriteHeld(s, r, live)
      PROVE  SameCall(s) /\ call[s].op = "idle"
  BY <1>1, <1>8 DEF WriteHeld, Ready
<1>9. ASSUME NEW r \in Runs, NEW live \in BOOLEAN, WriteCold(s, r, live)
      PROVE  /\ call'[s].op = "write" /\ call'[s].next.log = {} /\ mem' = mem
             /\ \A q \in Runs : call'[s].seen[q] = Absent
             /\ ~mem[s][call'[s].run].held
  <2>1. call'[s].op = "write" /\ call'[s].run = r /\ call'[s].next = [Absent EXCEPT !.live = live]
    BY <1>0, <1>9 DEF WriteCold, Idle
  <2>2. call'[s].seen = [q \in Runs |-> Absent]
    BY <1>0, <1>9 DEF WriteCold, Idle
  <2>3. [Absent EXCEPT !.live = live].log = {}
    BY DEF Absent
  <2> QED
    BY <1>9, <2>1, <2>2, <2>3 DEF WriteCold, local
<1>10. ASSUME NEW r \in Runs, NEW live \in BOOLEAN, Commit(s, r, live)
       PROVE  NewCommit(s, r) /\ mem' = mem
  <2>1. call'[s].op = "commit" /\ call'[s].run = r
    BY <1>0, <1>10 DEF Commit, Idle
  <2>2. call'[s].seen = [[q \in Runs |-> Absent] EXCEPT ![r] = Base(s, r)]
    BY <1>0, <1>10 DEF Commit, Idle
  <2>3. call'[s].next = [rev |-> 0, live |-> live, log |-> Base(s, r).log \cup {NewWrite(s)}]
    BY <1>0, <1>10 DEF Commit, Idle
  <2> QED
    BY <1>10, <2>1, <2>2, <2>3 DEF Commit, NewCommit, local
<1>11. ASSUME NEW r \in Runs, Delete(s, r)
       PROVE  NewCommit(s, r) /\ mem' = mem
  <2>1. call'[s].op = "commit" /\ call'[s].run = r /\ call'[s].next = Absent
    BY <1>0, <1>11 DEF Delete, Idle
  <2>2. call'[s].seen = [[q \in Runs |-> Absent] EXCEPT ![r] = Base(s, r)]
    BY <1>0, <1>11 DEF Delete, Idle
  <2> QED
    BY <1>11, <2>1, <2>2 DEF Delete, NewCommit, local
<1>12. ASSUME NEW r \in Runs, Adopt(s, r)
       PROVE  /\ call'[s].op = "adopt" /\ call'[s].next.log = {}
              /\ \A q \in Runs : call'[s].seen[q] = Absent
  BY <1>0, <1>12 DEF Adopt, Idle
<1>13. CASE Take(s) \/ TakeBusy(s)
  BY <1>2, <1>13 DEF Take, TakeBusy
<1>14. CASE Persist(s) \/ Fail(s)
  <2>1. Return(s) \/ (SameCall(s) /\ call[s].op \in {"idle", "save", "close"})
    BY <1>2, <1>14 DEF Persist, Fail, AtFence
  <2> QED
    BY <1>3, <2>1
<1>15. CASE Conflict(s)
  <2>1. \/ Return(s)
        \/ call[s].op \in {"save", "close"} /\ \E step : call' = [call EXCEPT ![s].again = TRUE, ![s].step = step]
    BY <1>15 DEF Conflict, AtFence
  <2>2. ASSUME NEW step, call' = [call EXCEPT ![s].again = TRUE, ![s].step = step] PROVE SameCall(s)
    BY <1>0, <2>2 DEF SameCall, Call
  <2> QED
    BY <1>3, <2>1, <2>2
<1> QED
  BY <1>4, <1>5, <1>6, <1>7, <1>8, <1>9, <1>10, <1>11, <1>12, <1>13, <1>14, <1>15, StepCases

LEMMA NextStep ==
  ASSUME TypeOK, NextInv, NEW s \in Stores, StoreStep(s) \/ End(s)
  PROVE  NextInv'
<1> DEFINE Fits(t) ==
      /\ call[t].op = "write" => ~mem[t][call[t].run].held
      /\ call[t].op # "commit" => call[t].next.log = {}
      /\ call[t].op = "commit" =>
           /\ mem[t][call[t].run].held => mem[t][call[t].run].row = call[t].seen[call[t].run]
           /\ call[t].next # Absent => call[t].seen[call[t].run].log \subseteq call[t].next.log
<1>1. \A t \in Stores : Fits(t)
  BY DEF NextInv
<1>2. ASSUME NEW t \in Stores \ {s} PROVE Fits(t)'
  BY <1>1, <1>2, Others
<1>3. Fits(s)'
  <2>1. CASE SameCall(s) /\ (mem' = mem \/ call[s].op \in {"idle", "save", "close"})
    <3>1. Fits(s)
      BY <1>1
    <3>2. CASE mem' = mem
      BY <2>1, <3>1, <3>2 DEF SameCall
    <3>3. CASE call[s].op \in {"idle", "save", "close"}
      BY <2>1, <3>1, <3>3 DEF SameCall
    <3> QED
      BY <2>1, <3>2, <3>3
  <2>2. CASE call'[s].op \in {"idle", "save", "close", "open", "adopt"} /\ call'[s].next.log = {}
    BY <2>2
  <2>3. CASE /\ call'[s].op = "write" /\ call'[s].next.log = {} /\ mem' = mem
             /\ ~mem[s][call'[s].run].held
    BY <2>3
  <2>4. ASSUME NEW r \in Runs, NewCommit(s, r), mem' = mem PROVE Fits(s)'
    <3>1. call'[s].seen[r] = Base(s, r)
      BY <2>4 DEF NewCommit
    <3> QED
      BY <2>4, <3>1 DEF NewCommit, Base
  <2> HIDE DEF Fits
  <2> QED
    BY <2>1, <2>2, <2>3, <2>4, CallChanges
<1> QED
  BY <1>2, <1>3 DEF NextInv

LEMMA RowsTypes ==
  ASSUME TypeOK
  PROVE  /\ seq \in Nat
         /\ \A r \in Runs : rows[r] \in Row /\ rows[r].rev \in Nat
         /\ \A t \in Stores, r \in Runs :
              /\ call[t].seen[r] \in Row /\ mem[t][r].row \in Row /\ mem[t][r] \in Record
<1>1. \A t \in Stores, r \in Runs : mem[t][r] \in Record /\ call[t].seen[r] \in Row
  BY DEF TypeOK, Call
<1>2. \A r \in Runs : rows[r] \in Row /\ rows[r].rev \in Nat
  BY DEF TypeOK, Row
<1> QED
  BY <1>1, <1>2, RecordType DEF TypeOK

LEMMA PersistRow ==
  ASSUME TypeOK, NEW s \in Stores, Persist(s), NEW r \in Runs, r \in WriteSet(s)
  PROVE  \/ r \in Deleted(s) /\ rows'[r] = Absent
         \/ r \notin Deleted(s) /\ seq' = seq + 1 /\ rows'[r].rev = seq + 1 /\ rows'[r].log = Proposed(s, r).log
<1>1. Proposed(s, r) \in Row
  BY RowsTypes DEF Proposed, TypeOK, Call
<1>2. [Proposed(s, r) EXCEPT !.rev = seq + 1].rev = seq + 1 /\ [Proposed(s, r) EXCEPT !.rev = seq + 1].log = Proposed(s, r).log
  BY <1>1 DEF Row
<1> QED
  BY <1>2 DEF Persist

LEMMA KnowsStays ==
  ASSUME TypeOK, NEW s \in Stores, StoreStep(s) \/ End(s), NEW r \in Runs, NEW row \in Row,
         Knows(row, r)
  PROVE  /\ row.rev <= seq'
         /\ row.rev = rows'[r].rev => rows'[r].log \subseteq row.log
<1>1. row.rev \in Nat /\ seq \in Nat
  BY DEF Row, TypeOK
<1>2. seq' = seq \/ seq' = seq + 1
  BY Others DEF Persist
<1>3. CASE rows'[r] = rows[r]
  BY <1>1, <1>2, <1>3 DEF Knows
<1>4. CASE Persist(s) /\ r \in WriteSet(s)
  BY <1>1, <1>2, <1>4, PersistRow DEF Knows, Absent
<1> QED
  BY <1>3, <1>4, RowsChange

LEMMA VersionStep ==
  ASSUME TypeOK, TypeOK', RunInv, VersionInv, NEW s \in Stores, StoreStep(s) \/ End(s)
  PROVE  VersionInv'
<1> DEFINE Known(row, r) == /\ row.rev <= seq'
                            /\ row.rev = rows'[r].rev => rows'[r].log \subseteq row.log
<1>1. ASSUME NEW r \in Runs PROVE rows'[r].rev <= seq' /\ (rows'[r].rev = 0 => rows'[r].log = {})
  <2>1. CASE rows'[r] = rows[r]
    <3>1. seq' = seq \/ seq' = seq + 1
      BY Others DEF Persist
    <3> QED
      BY <2>1, <3>1, RowsTypes DEF VersionInv
  <2>2. CASE Persist(s) /\ r \in WriteSet(s)
    <3>1. CASE rows'[r] = Absent
      <4>1. seq' \in Nat
        BY DEF TypeOK
      <4> QED
        BY <3>1, <4>1 DEF Absent
    <3>2. CASE seq' = seq + 1 /\ rows'[r].rev = seq + 1
      BY <3>2, RowsTypes
    <3> QED
      BY <2>2, <3>1, <3>2, PersistRow
  <2> QED
    BY <2>1, <2>2, RowsChange
<1>2. ASSUME NEW r \in Runs, NEW row \in Row, Knows(row, r) PROVE Known(row, r)
  BY <1>2, KnowsStays
<1>3. ASSUME NEW r \in Runs PROVE Knows(rows[r], r) /\ Knows(Absent, r)
  <2>1. Absent.rev = 0 /\ Absent.log = {}
    BY DEF Absent
  <2> QED
    BY <2>1, RowsTypes DEF Knows, VersionInv
<1>4. ASSUME NEW t \in Stores, NEW r \in Runs PROVE Known(call'[t].seen[r], r)
  <2>1. CASE call'[t].seen[r] = call[t].seen[r]
    BY <1>2, <2>1, RowsTypes DEF VersionInv
  <2>2. CASE call'[t].seen[r] \in {Absent, rows[r]}
    BY <1>2, <1>3, <2>2, RowsTypes, Constants
  <2>3. CASE t = s /\ \E q \in Runs : NewCommit(s, q)
    <3>1. PICK q \in Runs : NewCommit(s, q)
      BY <2>3
    <3>2. call'[s].seen[r] = Absent \/ call'[s].seen[r] = Base(s, r)
      BY <3>1 DEF NewCommit
    <3>3. Knows(Base(s, r), r) /\ Base(s, r) \in Row
      BY <1>3, RowsTypes DEF Base, VersionInv
    <3> QED
      BY <1>2, <1>3, <2>3, <3>2, <3>3, Constants
  <2> HIDE DEF Known
  <2>4. CASE t = s
    BY <2>1, <2>2, <2>3, <2>4, CallChanges DEF SameCall
  <2> QED
    BY <2>1, <2>4, Others
<1>5. ASSUME NEW t \in Stores, NEW r \in Runs, mem'[t][r].held PROVE Known(mem'[t][r].row, r)
  <2>1. mem[t][r].held => Knows(mem[t][r].row, r)
    BY DEF VersionInv
  <2>2. CASE mem'[t][r] = mem[t][r]
    BY <1>2, <1>5, <2>1, <2>2, RowsTypes
  <2>3. CASE t = s /\ Grown(s, r)
    <3>1. Known(mem[s][r].row, r)
      BY <1>2, <2>1, <2>3, RowsTypes DEF Grown
    <3> QED
      BY <2>3, <3>1 DEF Grown
  <2>4. CASE t = s /\ Fresh(s, r)
    BY <1>3, <2>4, RowsTypes DEF Fresh, Knows
  <2>5. CASE t = s /\ Listed(s, r)
    <3>1. Known(call[s].seen[r], r)
      BY <1>2, RowsTypes DEF VersionInv
    <3> QED
      BY <2>5, <3>1 DEF Listed
  <2>6. CASE t = s /\ Kept(s, r)
    BY <1>1, <2>6 DEF Kept
  <2> HIDE DEF Known
  <2> QED
    BY <1>5, <2>2, <2>3, <2>4, <2>5, <2>6, Others, MemChanges
<1> QED
  BY <1>1, <1>4, <1>5 DEF VersionInv, Knows

LEMMA UpdateStep ==
  ASSUME TypeOK, RunInv, VersionInv, NextInv, NEW s \in Stores, StoreStep(s) \/ End(s),
         NEW r \in Runs
  PROVE  rows[r].log \subseteq rows'[r].log \cup discarded'
<1>1. SUFFICES ASSUME Persist(s), r \in WriteSet(s)
               PROVE  rows[r].log \subseteq rows'[r].log \cup discarded'
  BY RowsChange
<1>2. rows[r].rev = ReadAt(s, r)
  BY <1>1 DEF Persist, Clashes
<1>3. ASSUME r \in Staged(s)
      PROVE  rows[r].log \subseteq call[s].seen[r].log
  <2>1. call[s].op = "commit" /\ call[s].run = r
    BY <1>3 DEF Staged
  <2>2. rows[r].rev = call[s].seen[r].rev
    BY <1>2, <2>1 DEF ReadAt, NextInv
  <2> QED
    BY <2>2 DEF VersionInv, Knows
<1>4. CASE r \in Deleted(s)
  <2>1. call[s].seen[r].log \subseteq discarded'
    BY <1>1, <1>4 DEF Persist
  <2>2. r \in Staged(s)
    BY <1>4 DEF Deleted
  <2> QED
    BY <1>3, <2>1, <2>2
<1>5. CASE r \notin Deleted(s) /\ r \in Staged(s)
  <2>1. call[s].next # Absent /\ call[s].op = "commit" /\ call[s].run = r
    BY <1>5 DEF Deleted, Staged
  <2>2. rows'[r].log = call[s].next.log
    BY <1>1, <1>5, PersistRow DEF Proposed
  <2> QED
    BY <1>3, <1>5, <2>1, <2>2 DEF NextInv
<1>6. CASE r \notin Deleted(s) /\ r \notin Staged(s)
  <2>1. mem[s][r].held
    BY <1>1, <1>6, RowsTypes, RecordType DEF WriteSet, Dirty
  <2>2. rows[r].log \subseteq mem[s][r].row.log
    BY <1>2, <2>1 DEF ReadAt, VersionInv, Knows
  <2> QED
    BY <1>1, <1>6, <2>2, PersistRow DEF Proposed
<1> QED
  BY <1>4, <1>5, <1>6

UpdateInv == TypeOK /\ RunInv /\ VersionInv /\ NextInv

LEMMA UpdateInit == Init => UpdateInv
<1> SUFFICES ASSUME Init PROVE UpdateInv
  OBVIOUS
<1>1. TypeOK /\ RunInv
  BY TypeInit, ClaimsAssumption
<1>2. /\ \A s \in Stores : call[s] = Idle
      /\ \A r \in Runs : Idle.seen[r] = Absent
      /\ Idle.op = "idle" /\ Idle.next = Absent
      /\ \A s \in Stores, r \in Runs : mem[s][r] = Out
      /\ \A r \in Runs : rows[r].rev = 1 /\ rows[r].log = {}
      /\ seq = 1
  BY DEF Init, Idle
<1>3. Absent.rev = 0 /\ Absent.log = {} /\ Out.held = FALSE
  BY DEF Absent, Out
<1>4. VersionInv
  BY <1>2, <1>3 DEF VersionInv, Knows
<1>5. NextInv
  BY <1>2, <1>3 DEF NextInv
<1> QED
  BY <1>1, <1>4, <1>5 DEF UpdateInv

LEMMA UpdateInvStep == UpdateInv /\ [Next]_vars => UpdateInv'
<1> SUFFICES ASSUME UpdateInv, [Next]_vars PROVE UpdateInv'
  OBVIOUS
<1> USE DEF UpdateInv
<1>1. TypeOK' /\ RunInv'
  BY TypeStep, RunStep, ClaimsAssumption
<1>2. ASSUME NEW s \in Stores, StoreStep(s) \/ End(s)
      PROVE  VersionInv' /\ NextInv'
  BY <1>1, <1>2, VersionStep, NextStep
<1>3. CASE UNCHANGED vars
  <2>1. UNCHANGED <<rows, seq, call, mem>>
    BY <1>3 DEF vars, database, local
  <2> QED
    BY <1>1, <2>1 DEF VersionInv, Knows, NextInv
<1> QED
  BY <1>1, <1>2, <1>3 DEF Next

(* Whatever the stores do, a transaction that replaces a row contains all  *)
(* that was committed to it, and one that deletes a row had read all of it. *)
THEOREM UpdatesSurvive == Spec => NoLostUpdate
<1>1. ASSUME UpdateInv, [Next]_vars
      PROVE  [\A r \in Runs : rows[r].log \subseteq rows'[r].log \cup discarded']_vars
  <2>1. ASSUME NEW s \in Stores, StoreStep(s) \/ End(s)
        PROVE  \A r \in Runs : rows[r].log \subseteq rows'[r].log \cup discarded'
    BY <1>1, <2>1, UpdateStep DEF UpdateInv
  <2> QED
    BY <1>1, <2>1 DEF Next
<1> QED
  BY <1>1, UpdateInit, UpdateInvStep, PTL DEF Spec, NoLostUpdate

-----------------------------------------------------------------------------
(* A live run of a process that is gone is not inherited quietly.          *)

LEMMA QuietStep ==
  ASSUME TypeOK, TypeOK', CallInv, StakeInv, GenInv, QuietInv, NEW s \in Stores,
         StoreStep(s) \/ End(s)
  PROVE  QuietInv'
<1> SUFFICES ASSUME NEW t \in Stores, NEW f \in Families
             PROVE  Quiet(stake[t][f], f)' /\ Quiet(call[t].take[f], f)'
  BY DEF QuietInv
<1> DEFINE Calm(k) == (k.kind = "pending" /\ k.as.session # None /\ claims'[f] = k.as)
                         => \A r \in Runs : FamilyOf[r] = f => ~rows'[r].live
<1>0. NoStake.kind = "none" /\ Unclaimed.session = None
  BY DEF NoStake, Unclaimed
<1>1. Quiet(stake[t][f], f)' = Calm(stake'[t][f]) /\ Quiet(call[t].take[f], f)' = Calm(call'[t].take[f])
  BY DEF Quiet, HasLive
(* Who replaces the claim of a gone owner is the first to write under it.  *)
<1>2. ASSUME NEW k \in Stake, Quiet(k, f), ~OwnerLive(k.as), k.as.gen <= gens
      PROVE  Calm(k)
  <2>1. SUFFICES ASSUME k.kind = "pending", k.as.session # None, claims'[f] = k.as
                 PROVE  \A r \in Runs : FamilyOf[r] = f => ~rows'[r].live
    OBVIOUS
  <2>2. claims[f] = k.as
    <3>1. ClaimOf(s).gen = gens + 1 /\ gens \in Nat /\ k.as.gen \in Nat
      BY DEF ClaimOf, TypeOK, Stake, Claim
    <3> QED
      <4>1. claims'[f] # ClaimOf(s)
        BY <1>2, <2>1, <3>1
      <4>2. claims'[f] # Unclaimed
        BY <1>0, <2>1
      <4> QED
        BY <2>1, <4>1, <4>2, ClaimChanges
  <2>3. ~HasLive(f)
    BY <1>2, <2>1, <2>2 DEF Quiet
  <2>4. ASSUME NEW r \in Runs, FamilyOf[r] = f, Persist(s), r \in WriteSet(s)
        PROVE  FALSE
    <3>1. claims[f] = stake[s][f].as
      BY <2>4, Fenced
    <3>2. CASE stake[s][f].kind = "claimed"
      <4>1. claims[f].session = s /\ Working(s)
        BY <3>1, <3>2 DEF StakeInv
      <4> QED
        BY <1>2, <2>2, <4>1, ClaimsAssumption DEF OwnerLive, Working, ClaimsAssumption
    <3>3. CASE Pending(s, f)
      <4>1. f \in Claiming(s)
        BY <2>4, <3>3 DEF Claiming
      <4>2. claims'[f] = ClaimOf(s)
        BY <2>4, <4>1 DEF Persist, Grant
      <4>3. ClaimOf(s).gen = gens + 1 /\ gens \in Nat /\ k.as.gen \in Nat
        BY DEF ClaimOf, TypeOK, Stake, Claim
      <4> QED
        BY <1>2, <2>1, <4>2, <4>3
    <3> QED
      BY <2>4, <3>2, <3>3, Fenced
  <2> QED
    BY <2>3, <2>4, RowsChange DEF HasLive
<1> HIDE DEF Calm
<1>3. Calm(stake[t][f]) /\ Calm(call[t].take[f])
  <2>1. ASSUME stake[t][f].kind = "pending" PROVE Calm(stake[t][f])
    BY <1>2, <2>1, StakeTypes DEF QuietInv, StakeInv, Pending, GenInv
  <2>2. stake[t][f].kind # "pending" => Calm(stake[t][f])
    BY DEF Calm
  <2>3. ASSUME call[t].take[f].kind = "pending" PROVE Calm(call[t].take[f])
    BY <1>2, <2>3, StakeTypes DEF QuietInv, StakeInv, GenInv
  <2>4. call[t].take[f].kind # "pending" => Calm(call[t].take[f])
    BY DEF Calm
  <2> QED
    BY <2>1, <2>2, <2>3, <2>4
<1>4. Calm(NoStake) /\ \A c : Calm([kind |-> "claimed", as |-> c])
  BY <1>0 DEF Calm
<1>5. Calm(stake'[t][f])
  <2>1. CASE t # s
    BY <1>3, <2>1, Others
  <2>2. CASE t = s
    BY <1>3, <1>4, <2>2, StakeChanges
  <2> QED
    BY <2>1, <2>2
<1>6. Calm(call'[t].take[f])
  <2>1. CASE t # s
    BY <1>3, <2>1, Others
  <2>2. CASE t = s /\ Judge(s) /\ Free(s, f) /\ call'[s].take[f] = Judged(s, f)
    <3>1. rows' = rows
      BY <2>2 DEF Judge, database
    <3>2. CASE MayTakeLive(s, f)
      BY <2>2, <3>2 DEF Judged, Calm
    <3>3. CASE ~MayTakeLive(s, f)
      BY <2>2, <3>1, <3>3 DEF Free, HasLive, Calm
    <3> QED
      BY <3>2, <3>3
  <2> QED
    BY <1>3, <1>4, <2>1, <2>2, TakeChanges
<1> QED
  BY <1>1, <1>5, <1>6

LEMMA InheritStep ==
  ASSUME OwnershipInv, QuietInv, NEW s \in Stores, StoreStep(s) \/ End(s),
         NEW t \in Stores, NEW f \in Families, Inherits(t, f)
  PROVE  ~HasLive(f)
<1> USE DEF OwnershipInv
<1>0. Unclaimed.session = None /\ ClaimOf(s).session = s
  BY DEF Unclaimed, ClaimOf
<1>1. /\ claims'[f] = ClaimOf(s) /\ t = s
      /\ \/ Take(s) /\ claims[f] = call[s].take[f].as
         \/ Persist(s) /\ claims[f] = stake[s][f].as
  <2>1. claims'[f] # claims[f] /\ claims'[f].session # None /\ claims'[f].session = t
    BY ClaimsAssumption DEF Inherits, ClaimsAssumption
  <2> QED
    BY <1>0, <2>1, ClaimChanges
<1>2. CASE Take(s) /\ claims[f] = call[s].take[f].as
  <2>1. call[s].take[f].kind = "pending"
    BY <1>1, <1>2 DEF Inherits, Take
  <2> QED
    BY <1>2, <2>1 DEF Inherits, QuietInv, Quiet
<1>3. CASE Persist(s) /\ claims[f] = stake[s][f].as
  <2>1. stake[s][f].kind = "pending"
    BY <1>1, <1>3 DEF Inherits, Persist, AtFence
  <2> QED
    BY <1>3, <2>1 DEF Inherits, QuietInv, Quiet
<1> QED
  BY <1>1, <1>2, <1>3

(* An ordinary write takes the claim of a process that is gone only when   *)
(* nothing in the family is live at that moment, although the family was   *)
(* judged in an earlier read.                                              *)
THEOREM InheritanceIsQuiet == Spec => NoQuietInheritance
<1>1. Init => QuietInv
  <2>1. NoStake.kind = "none" /\ \A f \in Families : Idle.take[f] = NoStake
    BY DEF NoStake, Idle
  <2> QED
    BY <2>1 DEF Init, QuietInv, Quiet
<1>2. OwnershipInv /\ OwnershipInv' /\ QuietInv /\ [Next]_vars => QuietInv'
  <2> SUFFICES ASSUME OwnershipInv, OwnershipInv', QuietInv, [Next]_vars PROVE QuietInv'
    OBVIOUS
  <2>1. ASSUME NEW s \in Stores, StoreStep(s) \/ End(s) PROVE QuietInv'
    BY <2>1, QuietStep DEF OwnershipInv
  <2>2. CASE UNCHANGED vars
    BY <2>2 DEF vars, database, local, QuietInv, Quiet, HasLive
  <2> QED
    BY <2>1, <2>2 DEF Next
<1>3. ASSUME OwnershipInv, QuietInv, [Next]_vars
      PROVE  [\A s \in Stores, f \in Families : Inherits(s, f) => ~HasLive(f)]_vars
  <2>1. ASSUME NEW s \in Stores, StoreStep(s) \/ End(s)
        PROVE  \A t \in Stores, f \in Families : Inherits(t, f) => ~HasLive(f)
    BY <1>3, <2>1, InheritStep
  <2> QED
    BY <1>3, <2>1 DEF Next
<1> QED
  BY <1>1, <1>2, <1>3, OwnershipInit, OwnershipStep, PTL DEF Spec, NoQuietInheritance

-----------------------------------------------------------------------------
(* No accepted write vanishes.                                             *)

LEMMA OpenStep ==
  ASSUME TypeOK, CallInv, AcceptInv, NEW s \in Stores, StoreStep(s) \/ End(s)
  PROVE  /\ at'[s] = "opening" <=> call'[s].op = "open"
         /\ at'[s] \in {"new", "opening"} => Open(s) \/ at'[s] = at[s]
         /\ at'[s] = "open" => at[s] = "open" \/ Load(s)
<1> USE DEF TypeOK, local
<1>0. call \in [Stores -> Call] /\ (at[s] = "opening" <=> call[s].op = "open") /\ Idle.op = "idle"
  BY DEF AcceptInv, Idle
<1>1. ASSUME at' = at, SameCall(s) PROVE at'[s] = "opening" <=> call'[s].op = "open"
  BY <1>0, <1>1 DEF SameCall
<1>2. Return(s) => call'[s].op = "idle"
  BY <1>0 DEF Return
<1>3. CASE Open(s)
  BY <1>0, <1>3 DEF Open, Idle
<1>4. ASSUME Ready(s), at' = at, call'[s].op # "open"
      PROVE  at'[s] = "opening" <=> call'[s].op = "open"
  BY <1>4 DEF Ready
<1>5. CASE Save(s)
  <2>1. PICK op \in {"save", "close"}, step \in {"judge", "claimed", "sweep"} : call' = [call EXCEPT ![s] = [Idle EXCEPT !.op = op, !.step = step]]
    BY <1>5 DEF Save, First
  <2>2. call'[s].op = op
    BY <1>0, <2>1 DEF Idle
  <2> QED
    BY <1>4, <1>5, <2>2 DEF Save
<1>6. ASSUME NEW r \in Runs, NEW live \in BOOLEAN,
             \/ WriteHeld(s, r, live) \/ WriteCold(s, r, live) \/ Commit(s, r, live)
             \/ Delete(s, r) \/ Adopt(s, r)
      PROVE  at' = at /\ Ready(s) /\ call'[s].op # "open"
  <2>1. CASE WriteHeld(s, r, live)
    BY <2>1 DEF WriteHeld, Ready
  <2>2. CASE WriteCold(s, r, live)
    BY <1>0, <2>2 DEF WriteCold, Idle
  <2>3. CASE Commit(s, r, live)
    BY <1>0, <2>3 DEF Commit, Idle
  <2>4. CASE Delete(s, r)
    BY <1>0, <2>4 DEF Delete, Idle
  <2>5. CASE Adopt(s, r)
    BY <1>0, <2>5 DEF Adopt, Idle
  <2> QED
    BY <1>6, <2>1, <2>2, <2>3, <2>4, <2>5
<1>7. CASE Judge(s)
  <2>1. PICK take, step : call' = [call EXCEPT ![s].take = take, ![s].step = step]
    BY <1>7 DEF Judge
  <2>2. call'[s].op = call[s].op
    BY <1>0, <2>1 DEF Call
  <2> QED
    BY <1>0, <1>7, <2>2 DEF Judge
<1>8. ASSUME NEW step, Goto(s, step) PROVE call'[s].op = call[s].op
  BY <1>0, <1>8 DEF Goto, Call
<1>9. CASE Take(s) \/ TakeBusy(s)
  BY <1>0, <1>8, <1>9 DEF Take, TakeBusy
<1>10. CASE Refuse(s) \/ LoadCold(s) \/ LoadAdopted(s) \/ Sweep(s)
  BY <1>0, <1>2, <1>10 DEF Refuse, LoadCold, LoadAdopted, Sweep, Step
<1>11. CASE Load(s)
  BY <1>2, <1>11 DEF Load
<1>12. CASE Close(s) \/ End(s)
  BY <1>2, <1>12 DEF Close, End, Forget
<1>13. CASE Persist(s) \/ Fail(s)
  BY <1>0, <1>2, <1>8, <1>13 DEF Persist, Fail, AtFence
<1>14. CASE Conflict(s)
  <2>1. Return(s) \/ \E step : call' = [call EXCEPT ![s].again = TRUE, ![s].step = step]
    BY <1>14 DEF Conflict
  <2>2. call'[s].op \in {"idle", call[s].op}
    BY <1>0, <1>2, <2>1 DEF Call
  <2> QED
    BY <1>0, <1>14, <2>2 DEF Conflict, AtFence
<1> QED
  BY <1>3, <1>4, <1>5, <1>6, <1>7, <1>9, <1>10, <1>11, <1>12, <1>13, <1>14, StepCases

(* What is accepted is in memory or in the database.                       *)
LEMMA Accepts ==
  ASSUME TypeOK, RunInv, CallInv, NextInv, AcceptInv, NEW s \in Stores, StoreStep(s) \/ End(s),
         NEW w \in accepted' \ accepted
  PROVE  /\ w[1] = s /\ at[s] = "open" /\ at'[s] = "open"
         /\ \E r \in Runs : w \in rows'[r].log \/ (mem'[s][r].dirty /\ w \in mem'[s][r].row.log)
<1> USE DEF TypeOK, local, history
<1>0. ThisWrite(s)[1] = s /\ NewWrite(s)[1] = s
  BY DEF ThisWrite, NewWrite
<1>1. accepted' = accepted \/ LoadCold(s) \/ Persist(s)
      \/ \E r \in Runs, live \in BOOLEAN : WriteHeld(s, r, live)
  <2>1. CASE Open(s) \/ Save(s) \/ Judge(s) \/ Refuse(s)
    BY <2>1 DEF Open, Save, Judge, Refuse
  <2>2. ASSUME NEW r \in Runs, NEW live \in BOOLEAN,
               WriteCold(s, r, live) \/ Commit(s, r, live) \/ Delete(s, r) \/ Adopt(s, r)
        PROVE  accepted' = accepted
    BY <2>2 DEF WriteCold, Commit, Delete, Adopt
  <2>3. CASE Take(s) \/ TakeBusy(s) \/ Load(s) \/ LoadAdopted(s) \/ Fail(s) \/ Conflict(s)
             \/ Sweep(s) \/ Close(s) \/ End(s)
    BY <2>3 DEF Take, TakeBusy, Load, LoadAdopted, Fail, Conflict, Sweep, Close, End
  <2> QED
    BY <2>1, <2>2, <2>3, StepCases
<1>2. call[s].op \in {"write", "commit"} => at[s] = "open"
  BY InCall DEF AcceptInv, Working
<1>3. ASSUME NEW r \in Runs, NEW live \in BOOLEAN, WriteHeld(s, r, live)
      PROVE  /\ w[1] = s /\ at[s] = "open" /\ at'[s] = "open"
             /\ mem'[s][r].dirty /\ w \in mem'[s][r].row.log
  <2>1. w = NewWrite(s) /\ at[s] = "open" /\ at' = at
    BY <1>3 DEF WriteHeld, Ready
  <2>2. mem'[s][r] = Changed(mem[s][r], live, NewWrite(s)) /\ mem[s][r].held
    BY <1>3 DEF WriteHeld
  <2>3. mem[s][r] \in [held : {TRUE}, dirty : BOOLEAN, row : Stored, under : Nat]
    <3>1. Out.held = FALSE
      BY DEF Out
    <3> QED
      BY <2>2, <3>1 DEF Record
  <2>4. mem'[s][r].dirty /\ NewWrite(s) \in mem'[s][r].row.log
    BY <2>2, <2>3 DEF Changed
  <2> QED
    BY <1>0, <2>1, <2>4
<1>4. CASE LoadCold(s)
  <2> DEFINE r == call[s].run
  <2>1. r \in Runs /\ call[s].op = "write"
    BY <1>4 DEF RunInv, LoadCold, Step
  <2>2. w = ThisWrite(s) /\ at' = at
        /\ mem' = [mem EXCEPT ![s][r] = Changed(Held(s, r, rows[r]), call[s].next.live, ThisWrite(s))]
    BY <1>4 DEF LoadCold
  <2>3. mem'[s][r] = Changed(Held(s, r, rows[r]), call[s].next.live, ThisWrite(s))
    BY <2>1, <2>2
  <2>4. mem'[s][r].dirty /\ ThisWrite(s) \in mem'[s][r].row.log
    BY <2>3 DEF Changed, Held
  <2> HIDE DEF r
  <2> QED
    BY <1>0, <1>2, <2>1, <2>2, <2>4
<1>5. CASE Persist(s)
  <2>1. w = ThisWrite(s) /\ w \in call[s].next.log /\ at' = at
    BY <1>5 DEF Persist
  <2>2. call[s].op = "commit" /\ call[s].run \in Runs
    BY <2>1 DEF NextInv, RunInv
  <2>3. call[s].run \in Staged(s) /\ call[s].run \notin Deleted(s)
    BY <2>1, <2>2 DEF Staged, Deleted, Absent
  <2>4. rows'[call[s].run].log = call[s].next.log
    BY <1>5, <2>2, <2>3, PersistRow DEF WriteSet, Proposed
  <2> QED
    BY <1>0, <1>2, <2>1, <2>2, <2>4
<1> QED
  BY <1>1, <1>3, <1>4, <1>5

LEMMA ProposedKeeps ==
  ASSUME TypeOK, NextInv, NEW s \in Stores, NEW r \in Runs, mem[s][r].dirty
  PROVE  /\ r \in WriteSet(s)
         /\ r \in Deleted(s) => mem[s][r].row.log = call[s].seen[r].log
         /\ r \notin Deleted(s) => mem[s][r].row.log \subseteq Proposed(s, r).log
<1>1. mem[s][r].held
  BY RowsTypes, RecordType
<1>2. r \in Staged(s) => /\ mem[s][r].row = call[s].seen[r]
                         /\ call[s].next # Absent => call[s].seen[r].log \subseteq call[s].next.log
  BY <1>1 DEF Staged, NextInv
<1> QED
  BY <1>2 DEF WriteSet, Dirty, Deleted, Proposed, Staged

(* A pending write stays pending until it is in the database, in the       *)
(* evidence, or gone with the run its deleter knew.                        *)
LEMMA DirtyStays ==
  ASSUME TypeOK, RunInv, NextInv, AcceptInv, NEW s \in Stores, StoreStep(s) \/ End(s),
         at[s] = "open", at'[s] = "open",
         NEW r \in Runs, mem[s][r].dirty, NEW w \in mem[s][r].row.log
  PROVE  \/ mem'[s][r].dirty /\ w \in mem'[s][r].row.log
         \/ w \in rows'[r].log \cup evidence' \cup discarded'
<1> USE DEF TypeOK, local
<1>0. mem[s][r].held /\ call[s].op # "open"
  BY RowsTypes, RecordType DEF AcceptInv
<1>1. CASE Open(s) \/ Save(s) \/ Judge(s) \/ Refuse(s) \/ Take(s) \/ TakeBusy(s) \/ Fail(s)
  BY <1>1 DEF Open, Save, Judge, Refuse, Take, TakeBusy, Fail
<1>2. ASSUME NEW q \in Runs, NEW live \in BOOLEAN,
             WriteCold(s, q, live) \/ Commit(s, q, live) \/ Delete(s, q) \/ Adopt(s, q)
      PROVE  mem' = mem
  BY <1>2 DEF WriteCold, Commit, Delete, Adopt
<1>3. ASSUME NEW q \in Runs, NEW live \in BOOLEAN, WriteHeld(s, q, live)
      PROVE  mem'[s][r].dirty /\ w \in mem'[s][r].row.log
  <2>1. CASE q = r
    <3>1. mem'[s][r] = Changed(mem[s][r], live, NewWrite(s))
      BY <1>3, <2>1 DEF WriteHeld
    <3>2. mem[s][r] \in [held : {TRUE}, dirty : BOOLEAN, row : Stored, under : Nat]
      <4>1. Out.held = FALSE
        BY DEF Out
      <4> QED
        BY <1>0, <4>1 DEF Record
    <3> QED
      BY <3>1, <3>2 DEF Changed
  <2>2. CASE q # r
    BY <1>3, <2>2 DEF WriteHeld
  <2> QED
    BY <2>1, <2>2
<1>4. CASE Load(s)
  BY <1>0, <1>4 DEF Load, Step
<1>5. CASE LoadCold(s)
  <2>1. call[s].run # r
    BY <1>0, <1>5 DEF LoadCold, Step, NextInv
  <2> QED
    BY <1>5, <2>1 DEF LoadCold
<1>6. CASE LoadAdopted(s)
  BY <1>0, <1>6 DEF LoadAdopted
<1>7. CASE Persist(s)
  <2>1. CASE r \in Deleted(s)
    <3>1. call[s].seen[r].log \subseteq discarded'
      BY <1>7, <2>1 DEF Persist
    <3>2. w \in call[s].seen[r].log
      BY <2>1, ProposedKeeps
    <3> QED
      BY <3>1, <3>2
  <2>2. CASE r \notin Deleted(s)
    BY <1>7, <2>2, ProposedKeeps, PersistRow
  <2> QED
    BY <2>1, <2>2
<1>8. CASE Conflict(s)
  <2>1. CASE r \in Unexpected(s) /\ r \in Deleted(s)
    <3>1. call[s].seen[r].log \subseteq discarded'
      BY <1>8, <2>1 DEF Conflict
    <3>2. w \in call[s].seen[r].log
      BY <2>1, ProposedKeeps
    <3> QED
      BY <3>1, <3>2
  <2>2. CASE r \in Unexpected(s) /\ r \notin Deleted(s)
    <3>1. Proposed(s, r).log \subseteq evidence'
      BY <1>8, <2>2 DEF Conflict
    <3> QED
      BY <2>2, <3>1, ProposedKeeps
  <2>3. CASE r \notin Unexpected(s)
    <3>1. mem'[s][r] = mem[s][r]
      BY <1>8, <2>3 DEF Conflict
    <3> QED
      BY <3>1
  <2> QED
    BY <2>1, <2>2, <2>3
<1>9. CASE Sweep(s)
  <2>1. Anchored(s, FamilyOf[r])
    BY <1>0 DEF Anchored
  <2>2. mem'[s][r] = mem[s][r]
    BY <1>9, <2>1 DEF Sweep
  <2> QED
    BY <2>2
<1>10. CASE Close(s) \/ End(s)
  BY <1>10 DEF Close, End
<1> QED
  BY <1>1, <1>2, <1>3, <1>4, <1>5, <1>6, <1>7, <1>8, <1>9, <1>10, StepCases

KeepInv == UpdateInv /\ CallInv /\ AcceptInv /\ NothingVanishes

LEMMA HistoryGrows ==
  ASSUME TypeOK, NEW s \in Stores, StoreStep(s) \/ End(s)
  PROVE  evidence \subseteq evidence' /\ discarded \subseteq discarded'
<1> USE DEF database, history
<1>1. CASE Open(s) \/ Save(s) \/ Judge(s) \/ Refuse(s)
  BY <1>1 DEF Open, Save, Judge, Refuse
<1>2. ASSUME NEW r \in Runs, NEW live \in BOOLEAN,
             \/ WriteHeld(s, r, live) \/ WriteCold(s, r, live) \/ Commit(s, r, live)
             \/ Delete(s, r) \/ Adopt(s, r)
      PROVE  evidence' = evidence /\ discarded' = discarded
  BY <1>2 DEF WriteHeld, WriteCold, Commit, Delete, Adopt
<1>3. CASE Take(s) \/ TakeBusy(s) \/ Load(s) \/ LoadCold(s) \/ LoadAdopted(s)
  BY <1>3 DEF Take, TakeBusy, Load, LoadCold, LoadAdopted
<1>4. CASE Persist(s) \/ Conflict(s) \/ Fail(s) \/ Sweep(s) \/ Close(s) \/ End(s)
  BY <1>4 DEF Persist, Conflict, Fail, Sweep, Close, End
<1> QED
  BY <1>1, <1>2, <1>3, <1>4, StepCases

LEMMA KeepStep ==
  ASSUME KeepInv, NEW s \in Stores, StoreStep(s) \/ End(s)
  PROVE  AcceptInv' /\ NothingVanishes'
<1> USE DEF KeepInv, UpdateInv
<1>1. AcceptInv'
  <2>1. ASSUME NEW t \in Stores PROVE at'[t] = "opening" <=> call'[t].op = "open"
    BY <2>1, Others, OpenStep DEF AcceptInv
  <2>2. ASSUME NEW w \in accepted' PROVE at'[w[1]] \notin {"new", "opening"}
    <3>1. CASE w \notin accepted
      BY <2>2, <3>1, Accepts
    <3>2. CASE w \in accepted
      <4>1. w[1] \in Stores /\ at[w[1]] \notin {"new", "opening"}
        BY <3>2 DEF AcceptInv, TypeOK, Writes
      <4>2. CASE w[1] = s
        BY <4>1, <4>2, OpenStep DEF Open
      <4>3. CASE w[1] # s
        BY <4>1, <4>3, Others
      <4> QED
        BY <4>2, <4>3
    <3> QED
      BY <3>1, <3>2
  <2> QED
    BY <2>1, <2>2 DEF AcceptInv
<1>2. ASSUME NEW w \in accepted' \ (discarded' \cup evidence'), at'[w[1]] = "open"
      PROVE  \E r \in Runs : w \in rows'[r].log \/ (mem'[w[1]][r].dirty /\ w \in mem'[w[1]][r].row.log)
  <2>1. CASE w \notin accepted
    BY <1>2, <2>1, Accepts
  <2>2. CASE w \in accepted
    <3>1. w[1] \in Stores /\ at[w[1]] \notin {"new", "opening"}
      BY <2>2 DEF AcceptInv, TypeOK, Writes
    <3>2. at[w[1]] = "open"
      <4>1. CASE w[1] = s
        BY <1>2, <3>1, <4>1, OpenStep DEF Load, Step, AcceptInv
      <4>2. CASE w[1] # s
        BY <1>2, <3>1, <4>2, Others
      <4> QED
        BY <4>1, <4>2
    <3>3. w \notin discarded /\ w \notin evidence
      BY <1>2, HistoryGrows
    <3>4. PICK r \in Runs : w \in rows[r].log \/ (mem[w[1]][r].dirty /\ w \in mem[w[1]][r].row.log)
      BY <2>2, <3>2, <3>3 DEF NothingVanishes
    <3>5. CASE w \in rows[r].log
      BY <1>2, <3>5, UpdateStep
    <3>6. CASE mem[w[1]][r].dirty /\ w \in mem[w[1]][r].row.log
      <4>1. CASE w[1] # s
        BY <3>1, <3>6, <4>1, Others
      <4>2. CASE w[1] = s
        BY <1>2, <3>2, <3>6, <4>2, DirtyStays
      <4> QED
        BY <4>1, <4>2
    <3> QED
      BY <3>4, <3>5, <3>6
  <2> QED
    BY <2>1, <2>2
<1>3. NothingVanishes'
  BY <1>2 DEF NothingVanishes
<1> QED
  BY <1>1, <1>3

(* An accepted write is in the database, pending in the store that         *)
(* accepted it or in the evidence of a conflict while that store is open,  *)
(* whatever conflicts, busy databases, sweeps and takeovers come between.  *)
THEOREM WritesNeverVanish == Spec => []NothingVanishes
<1>1. Init => KeepInv
  <2>1. Init => UpdateInv /\ CallInv
    BY UpdateInit, OwnershipInit DEF OwnershipInv
  <2>2. Init => AcceptInv /\ NothingVanishes
    BY DEF Init, AcceptInv, NothingVanishes, Idle
  <2> QED
    BY <2>1, <2>2 DEF KeepInv
<1>2. KeepInv /\ [Next]_vars => KeepInv'
  <2> SUFFICES ASSUME KeepInv, [Next]_vars PROVE KeepInv'
    OBVIOUS
  <2>1. UpdateInv'
    BY UpdateInvStep DEF KeepInv
  <2>2. ASSUME NEW s \in Stores, StoreStep(s) \/ End(s)
        PROVE  CallInv' /\ AcceptInv' /\ NothingVanishes'
    BY <2>2, CallStep, KeepStep DEF KeepInv, UpdateInv
  <2>3. CASE UNCHANGED vars
    <3>1. UNCHANGED <<rows, evidence, at, call, mem, accepted, discarded>>
      BY <2>3 DEF vars, database, local, history
    <3>2. CallInv'
      BY <3>1 DEF KeepInv, CallInv, Working
    <3>3. AcceptInv'
      BY <3>1 DEF KeepInv, AcceptInv
    <3>4. NothingVanishes'
      BY <3>1 DEF KeepInv, NothingVanishes
    <3> QED
      BY <2>1, <3>2, <3>3, <3>4 DEF KeepInv
  <2> QED
    BY <2>1, <2>2, <2>3 DEF Next, KeepInv
<1>3. KeepInv => NothingVanishes
  BY DEF KeepInv
<1> QED
  BY <1>1, <1>2, <1>3, PTL DEF Spec
=============================================================================
