------------------------------ MODULE RunClaims ------------------------------
(***************************************************************************)
(* Who may write a run (ADR 0006): the stores of several processes share   *)
(* one database of runs (runs/store.ts, runs/claim-families.ts,            *)
(* runs/run-database.ts).  A store claims the family of a run before it    *)
(* writes it; it judges outside the transaction whether the owner of a     *)
(* claim is still there (runs/run-claims.ts), and every transaction checks *)
(* the claims and the row revisions it was prepared from.                  *)
(*                                                                         *)
(* A step is one transaction or one read of the database, together with    *)
(* what the store does in memory after it: a store runs its calls one at a *)
(* time, and only the statements of other stores come in between.  A run   *)
(* is its revision, whether it is live, and the writes it contains.        *)
(***************************************************************************)
EXTENDS Naturals

CONSTANTS
  Stores,     \* the sessions of RunStore, one process each
  None,
  Runs,
  Families,
  FamilyOf,   \* the family of each run
  KeepLive,   \* the stores that recover live runs; the others settle them
  MaxWrites,  \* bound: the writes and deletions of each store
  MaxBusy     \* bound: the transactions that find the database busy

ASSUME ClaimsAssumption ==
  /\ None \notin Stores /\ None \notin Runs
  /\ FamilyOf \in [Runs -> Families]
  /\ KeepLive \subseteq Stores
  /\ MaxWrites \in [Stores -> Nat] /\ MaxBusy \in Nat

VARIABLES
  rows,        \* the table of runs
  claims,      \* the table of claims: whose a family is, at which generation
  evidence,    \* the writes kept in the table run_conflicts
  seq,         \* the revision of the last commit
  gens,        \* the generation of the last claim
  at,          \* what has become of each store and its process
  call,        \* the call each store is in
  mem,         \* held, dirty and base: the runs each store has in memory
  stake,       \* claimed and pendingClaims: what each store holds on a family
  quarantined, \* the runs each store does not write any more
  written,     \* how many writes each store has begun
  accepted,    \* history: the writes a caller was told are done
  discarded,   \* history: the writes that went with a run their deleter knew
  busy         \* how many transactions found the database busy

database == <<rows, claims, evidence, seq, gens>>
local    == <<at, mem, stake, quarantined>>
history  == <<written, accepted, discarded, busy>>
vars == <<database, local, call, history>>

Writes == Stores \X Nat
Row    == [rev : Nat, live : BOOLEAN, log : SUBSET Writes]
Absent == [rev |-> 0, live |-> FALSE, log |-> {}]

Claim     == [session : Stores \cup {None}, gen : Nat]
Unclaimed == [session |-> None, gen |-> 0]

(* What a store has on a family: nothing, a claim, or the claim it will    *)
(* replace in its next transaction, for an ordinary write ("pending") or   *)
(* for one that may take over live runs ("moved").                         *)
Stake   == [kind : {"none", "claimed", "pending", "moved"}, as : Claim]
NoStake == [kind |-> "none", as |-> Unclaimed]

(* A run in memory; under is the generation of the claim it was read or    *)
(* written under, 0 when the claim was not taken yet.                      *)
Out    == [held |-> FALSE, dirty |-> FALSE, row |-> Absent, under |-> 0]
Stored == [rev : Nat \ {0}, live : BOOLEAN, log : SUBSET Writes]
Record == {Out} \cup [held : {TRUE}, dirty : BOOLEAN, row : Stored, under : Nat]

Ops == {"idle", "open", "write", "adopt", "commit", "save", "close"}
Call ==
  [op : Ops, step : {"judge", "take", "claimed", "sweep"},
   run : Runs \cup {None}, \* the run of a write, an adoption or a commit
   seen : [Runs -> Row],  \* the rows read before any claim
   next : Row,            \* what is to become of the run; Absent deletes it
   known : BOOLEAN,       \* the family was this store's when the row was read
   take : [Families -> Stake],
   again : BOOLEAN]       \* the second attempt of a save
Idle ==
  [op |-> "idle", step |-> "judge", run |-> None,
   seen |-> [r \in Runs |-> Absent], next |-> Absent, known |-> FALSE,
   take |-> [f \in Families |-> NoStake], again |-> FALSE]

TypeOK ==
  /\ rows \in [Runs -> Row]
  /\ claims \in [Families -> Claim]
  /\ evidence \subseteq Writes
  /\ seq \in Nat /\ gens \in Nat
  /\ at \in [Stores -> {"new", "opening", "open", "left", "gone"}]
  /\ call \in [Stores -> Call]
  /\ mem \in [Stores -> [Runs -> Record]]
  /\ stake \in [Stores -> [Families -> Stake]]
  /\ quarantined \in [Stores -> SUBSET Runs]
  /\ written \in [Stores -> Nat]
  /\ accepted \subseteq Writes
  /\ discarded \subseteq Writes
  /\ busy \in 0 .. MaxBusy

(* No store is open; an earlier one was closed and may have left runs for  *)
(* the next to recover.                                                    *)
Init ==
  /\ \E live \in SUBSET Runs :
       rows = [r \in Runs |-> [rev |-> 1, live |-> r \in live, log |-> {}]]
  /\ claims = [f \in Families |-> Unclaimed]
  /\ evidence = {} /\ seq = 1 /\ gens = 0
  /\ at = [s \in Stores |-> "new"]
  /\ call = [s \in Stores |-> Idle]
  /\ mem = [s \in Stores |-> [r \in Runs |-> Out]]
  /\ stake = [s \in Stores |-> [f \in Families |-> NoStake]]
  /\ quarantined = [s \in Stores |-> {}]
  /\ written = [s \in Stores |-> 0]
  /\ accepted = {} /\ discarded = {} /\ busy = 0

-----------------------------------------------------------------------------

(* claimOwnerLive(): only a process that is proven to be gone has lost its *)
(* claims.  One whose start cannot be read lingers when its pid is reused. *)
OwnerLive(claim) == claim.session # None /\ at[claim.session] # "gone"

\* familyHasLive()
HasLive(f) == \E r \in Runs : FamilyOf[r] = f /\ rows[r].live

Owned(s, f) == stake[s][f].kind # "none"
Mine(s, r)  == Owned(s, FamilyOf[r])
Pending(s, f) == stake[s][f].kind \in {"pending", "moved"}

Dirty(s) == {r \in Runs : mem[s][r].dirty}

\* A call claims the families of the runs it needs unless it has them.
First(s, R) == IF \A r \in R : Mine(s, r) THEN "claimed" ELSE "judge"

Ready(s) == at[s] = "open" /\ call[s].op = "idle"
Step(s, op, step) == call[s].op = op /\ call[s].step = step
Goto(s, step) == call' = [call EXCEPT ![s].step = step]
Return(s) == call' = [call EXCEPT ![s] = Idle]

FindsBusy == busy < MaxBusy /\ busy' = busy + 1

(* The identity of a write: accepted or not, it is never used twice.       *)
NewWrite(s)  == <<s, written[s] + 1>>
ThisWrite(s) == <<s, written[s]>>
CountWrite(s) == written[s] < MaxWrites[s] /\ written' = [written EXCEPT ![s] = @ + 1]

-----------------------------------------------------------------------------
(* The calls of a store.                                                   *)

(* RunStore.open(): the live rows are read first.                          *)
Open(s) ==
  /\ at[s] = "new"
  /\ at' = [at EXCEPT ![s] = "opening"]
  /\ call' = [call EXCEPT ![s] =
       [Idle EXCEPT !.op = "open",
          !.seen = [r \in Runs |-> IF rows[r].live THEN rows[r] ELSE Absent]]]
  /\ UNCHANGED <<database, mem, stake, quarantined, history>>

Changed(record, live, write) ==
  [record EXCEPT !.dirty = TRUE,
     !.row = [rev |-> record.row.rev, live |-> live, log |-> record.row.log \cup {write}]]

(* A write to a run in memory changes it there; the next save stores it.   *)
WriteHeld(s, r, live) ==
  /\ Ready(s) /\ mem[s][r].held /\ r \notin quarantined[s]
  /\ CountWrite(s)
  /\ mem' = [mem EXCEPT ![s][r] = Changed(@, live, NewWrite(s))]
  /\ accepted' = accepted \cup {NewWrite(s)}
  /\ UNCHANGED <<database, at, stake, quarantined, call, discarded, busy>>

(* A write to any other run claims its family and then reads it.           *)
WriteCold(s, r, live) ==
  /\ Ready(s) /\ ~mem[s][r].held /\ r \notin quarantined[s]
  /\ rows[r].rev # 0
  /\ CountWrite(s)
  /\ call' = [call EXCEPT ![s] =
       [Idle EXCEPT !.op = "write", !.step = First(s, {r}), !.run = r,
          !.next = [Absent EXCEPT !.live = live]]]
  /\ UNCHANGED <<database, local, accepted, discarded, busy>>

(* commitIndex(): the caller waits for the database.  The run is in memory *)
(* or was read before anything is claimed.                                 *)
Base(s, r) == IF mem[s][r].held THEN mem[s][r].row ELSE rows[r]

Commit(s, r, live) ==
  /\ Ready(s) /\ r \notin quarantined[s]
  /\ Base(s, r).rev # 0
  /\ CountWrite(s)
  /\ call' = [call EXCEPT ![s] =
       [Idle EXCEPT !.op = "commit", !.step = First(s, Dirty(s) \cup {r}),
          !.run = r, !.known = Mine(s, r),
          !.seen[r] = Base(s, r),
          !.next = [rev |-> 0, live |-> live, log |-> Base(s, r).log \cup {NewWrite(s)}]]]
  /\ UNCHANGED <<database, local, accepted, discarded, busy>>

(* deleteRun() claims like a write; deleteDelegatedRun() ends in a commit  *)
(* of no run.  A live run is not deleted.                                  *)
Delete(s, r) ==
  /\ Ready(s) /\ r \notin quarantined[s]
  /\ Base(s, r).rev # 0 /\ ~Base(s, r).live
  /\ CountWrite(s)
  /\ call' = [call EXCEPT ![s] =
       [Idle EXCEPT !.op = "commit", !.step = First(s, Dirty(s) \cup {r}),
          !.run = r, !.known = Mine(s, r),
          !.seen[r] = Base(s, r), !.next = Absent]]
  /\ UNCHANGED <<database, local, accepted, discarded, busy>>

(* requireRunControl: a control on a run that nobody alive owns and that a *)
(* dead owner left live adopts its family.                                 *)
Adopt(s, r) ==
  /\ Ready(s) /\ r \notin quarantined[s] /\ ~Mine(s, r)
  /\ rows[r].rev # 0
  /\ ~OwnerLive(claims[FamilyOf[r]]) /\ HasLive(FamilyOf[r])
  /\ call' = [call EXCEPT ![s] = [Idle EXCEPT !.op = "adopt", !.run = r]]
  /\ UNCHANGED <<database, local, history>>

(* The save timer and flush(), with anything to write, evict or release,   *)
(* and close().                                                            *)
HasWork(s) == (\E r \in Runs : mem[s][r].held) \/ (\E f \in Families : Owned(s, f))

Save(s) ==
  /\ Ready(s)
  /\ \E op \in {"save", "close"} :
       /\ op = "close" \/ HasWork(s)
       /\ call' = [call EXCEPT ![s] =
            [Idle EXCEPT !.op = op,
               !.step = IF Dirty(s) = {} THEN "sweep" ELSE First(s, Dirty(s))]]
  /\ UNCHANGED <<database, local, history>>

-----------------------------------------------------------------------------
(* claimStoreFamilies().                                                   *)

CallFamilies(s) ==
  CASE call[s].op = "open" -> {FamilyOf[r] : r \in {q \in Runs : call[s].seen[q].live}}
    [] call[s].op \in {"write", "adopt"} -> {FamilyOf[call[s].run]}
    [] call[s].op = "commit" -> {FamilyOf[r] : r \in Dirty(s) \cup {call[s].run}}
    [] OTHER -> {FamilyOf[r] : r \in Dirty(s)}

(* Recovery follows an open and an adoption, and a run this store holds is *)
(* its own to move; any other write must leave a live run to them.         *)
MayTakeLive(s, f) ==
  CASE call[s].op = "write" -> FALSE
    [] call[s].op = "commit" ->
          f = FamilyOf[call[s].run] => (mem[s][call[s].run].held /\ call[s].next # Absent)
    [] OTHER -> TRUE

\* Mutant of Free: the live rows of the family are not looked at
MutFree(s, f) == ~OwnerLive(claims[f])

Free(s, f) == ~OwnerLive(claims[f]) /\ (MayTakeLive(s, f) \/ ~HasLive(f))

(* familiesToTake(): which families are free, by what the tables say now.  *)
Judge(s) ==
  LET free == {f \in CallFamilies(s) : ~Owned(s, f) /\ Free(s, f)} IN
  /\ call[s].op # "idle" /\ call[s].step = "judge"
  /\ call' = [call EXCEPT
       ![s].take = [f \in Families |->
          IF f \in free
          THEN [kind |-> IF MayTakeLive(s, f) THEN "moved" ELSE "pending", as |-> claims[f]]
          ELSE NoStake],
       ![s].step = IF free = {} THEN "claimed" ELSE "take"]
  /\ UNCHANGED <<database, local, history>>

(* The family is another's: the write, the adoption or the commit is       *)
(* refused.                                                                *)
Refuse(s) ==
  /\ call[s].op \in {"write", "adopt", "commit"} /\ call[s].step = "claimed"
  /\ ~Mine(s, call[s].run)
  /\ Return(s)
  /\ UNCHANGED <<database, local, history>>

\* Mutant of Won: the claims are not compared again in the transaction
MutWon(s) == {f \in Families : call[s].take[f].kind # "none"}

(* takeClaims(): those that still are as they were judged, in one          *)
(* transaction.                                                            *)
Won(s) ==
  {f \in Families : call[s].take[f].kind # "none" /\ claims[f] = call[s].take[f].as}

ClaimOf(s) == [session |-> s, gen |-> gens + 1]
Grant(s, F) ==
  /\ gens' = IF F = {} THEN gens ELSE gens + 1
  /\ claims' = [f \in Families |-> IF f \in F THEN ClaimOf(s) ELSE claims[f]]

Take(s) ==
  /\ call[s].step = "take"
  /\ Grant(s, Won(s))
  /\ stake' = [stake EXCEPT ![s] = [f \in Families |->
       IF f \in Won(s) THEN [kind |-> "claimed", as |-> ClaimOf(s)] ELSE @[f]]]
  /\ Goto(s, "claimed")
  /\ UNCHANGED <<rows, evidence, seq, at, mem, quarantined, history>>

(* A busy database: recovery cannot start, a write claims when it commits. *)
TakeBusy(s) ==
  /\ call[s].step = "take" /\ FindsBusy
  /\ stake' = IF call[s].op \in {"open", "adopt"} THEN stake ELSE
       [stake EXCEPT ![s] = [f \in Families |->
          IF call[s].take[f].kind # "none" THEN call[s].take[f] ELSE @[f]]]
  /\ Goto(s, "claimed")
  /\ UNCHANGED <<database, at, mem, quarantined, written, accepted, discarded>>

-----------------------------------------------------------------------------
(* What is read into memory.                                               *)

Under(s, r) == IF stake[s][FamilyOf[r]].kind = "claimed" THEN stake[s][FamilyOf[r]].as.gen ELSE 0

Held(s, r, row)  == [held |-> TRUE, dirty |-> FALSE, row |-> row, under |-> Under(s, r)]
Settled(s, r, row) ==
  [held |-> TRUE, dirty |-> row.live, row |-> [row EXCEPT !.live = FALSE], under |-> Under(s, r)]

(* loadHeldRows(): the live rows as they were listed, before they were     *)
(* claimed, then the rest of their families as it is now.                  *)
Load(s) ==
  /\ Step(s, "open", "claimed")
  /\ LET listed(r) == call[s].seen[r].live
         row(r) == IF listed(r) THEN call[s].seen[r] ELSE rows[r]
         kept(r) == IF s \in KeepLive THEN Held(s, r, row(r)) ELSE Settled(s, r, row(r))
     IN mem' = [mem EXCEPT ![s] = [r \in Runs |->
          IF ~Mine(s, r) \/ row(r).rev = 0 THEN Out
          ELSE IF listed(r) THEN [kept(r) EXCEPT !.under = 0] ELSE kept(r)]]
  /\ at' = [at EXCEPT ![s] = "open"]
  /\ Return(s)
  /\ UNCHANGED <<database, stake, quarantined, history>>

(* hold(), then the write.                                                 *)
LoadCold(s) ==
  /\ Step(s, "write", "claimed")
  /\ LET r == call[s].run IN
     /\ Mine(s, r)
     /\ IF rows[r].rev = 0 THEN UNCHANGED <<mem, accepted>> ELSE
        /\ mem' = [mem EXCEPT ![s][r] =
             Changed(Held(s, r, rows[r]), call[s].next.live, ThisWrite(s))]
        /\ accepted' = accepted \cup {ThisWrite(s)}
  /\ Return(s)
  /\ UNCHANGED <<database, at, stake, quarantined, written, discarded, busy>>

(* adoptFamily(): what is live in the family is settled.                   *)
LoadAdopted(s) ==
  /\ Step(s, "adopt", "claimed") /\ Mine(s, call[s].run)
  /\ mem' = [mem EXCEPT ![s] = [r \in Runs |->
       IF FamilyOf[r] = FamilyOf[call[s].run] /\ ~@[r].held /\ rows[r].rev # 0
       THEN Settled(s, r, rows[r]) ELSE @[r]]]
  /\ Return(s)
  /\ UNCHANGED <<database, at, stake, quarantined, history>>

-----------------------------------------------------------------------------
(* persist() and transaction(): all that is dirty, and what is committed.  *)

Staged(s)   == IF call[s].op = "commit" THEN {call[s].run} ELSE {}
Deleted(s)  == IF call[s].next = Absent THEN Staged(s) ELSE {}
WriteSet(s) == Dirty(s) \cup Staged(s)
Proposed(s, r) == IF r \in Staged(s) THEN call[s].next ELSE mem[s][r].row
ReadAt(s, r) == IF mem[s][r].held THEN mem[s][r].row.rev ELSE call[s].seen[r].rev

AtFence(s) ==
  /\ call[s].op \in {"commit", "save", "close"} /\ call[s].step = "claimed"
  /\ call[s].op = "commit" => Mine(s, call[s].run)

\* Mutant of Lost: only the owner is compared, not the claim
MutLost(s, f) == ~Owned(s, f)

(* checkFence(): the claims and the rows are as the writer last saw them.  *)
Lost(s, f) == ~Owned(s, f) \/ claims[f] # stake[s][f].as

\* Mutant of Clashes: the revisions of the rows are not compared
MutClashes(s) == {r \in WriteSet(s) : Lost(s, FamilyOf[r])}

Clashes(s) ==
  {r \in WriteSet(s) : Lost(s, FamilyOf[r]) \/ rows[r].rev # ReadAt(s, r)}

Claiming(s) == {f \in Families : Pending(s, f) /\ \E r \in WriteSet(s) : FamilyOf[r] = f}

Persist(s) ==
  /\ AtFence(s) /\ Clashes(s) = {}
  /\ seq' = IF WriteSet(s) \subseteq Deleted(s) THEN seq ELSE seq + 1
  /\ rows' = [r \in Runs |->
       IF r \in Deleted(s) THEN Absent
       ELSE IF r \in WriteSet(s) THEN [Proposed(s, r) EXCEPT !.rev = seq + 1]
       ELSE rows[r]]
  /\ Grant(s, Claiming(s))
  /\ stake' = [stake EXCEPT ![s] = [f \in Families |->
       IF f \in Claiming(s) THEN [kind |-> "claimed", as |-> ClaimOf(s)] ELSE @[f]]]
  /\ mem' = [mem EXCEPT ![s] = [r \in Runs |->
       IF r \in Deleted(s) THEN Out
       ELSE IF r \in WriteSet(s)
       THEN [held |-> TRUE, dirty |-> FALSE, row |-> rows'[r], under |-> stake'[s][FamilyOf[r]].as.gen]
       ELSE @[r]]]
  /\ accepted' = accepted \cup (call[s].next.log \cap {ThisWrite(s)})
  /\ discarded' = discarded \cup UNION {call[s].seen[r].log : r \in Deleted(s)}
  /\ IF call[s].op = "commit" THEN Return(s) ELSE Goto(s, "sweep")
  /\ UNCHANGED <<evidence, at, quarantined, written, busy>>

(* handleConflicts(): the writes that clash with another's are kept as     *)
(* evidence and the runs are not written any more.  A run that was only    *)
(* read, before its family was claimed, just fails the commit.             *)
Unexpected(s) == {r \in Clashes(s) : mem[s][r].held \/ call[s].known}

Conflict(s) ==
  LET bad == Unexpected(s)
      lost == {f \in Families : Lost(s, f) /\ \E r \in bad : FamilyOf[r] = f}
  IN
  /\ AtFence(s) /\ Clashes(s) # {}
  /\ evidence' = evidence \cup UNION {Proposed(s, r).log : r \in bad}
  /\ quarantined' = [quarantined EXCEPT ![s] = @ \cup bad]
  /\ stake' = [stake EXCEPT ![s] = [f \in Families |-> IF f \in lost THEN NoStake ELSE @[f]]]
  /\ mem' = [mem EXCEPT ![s] = [r \in Runs |->
       IF r \notin bad THEN @[r]
       ELSE IF @[r].held /\ rows[r].rev # 0
       THEN [held |-> TRUE, dirty |-> FALSE, row |-> rows[r], under |-> 0]
       ELSE Out]]
  \* The changes that a deletion was to take with it are not in its evidence
  /\ discarded' = discarded \cup UNION {call[s].seen[r].log : r \in bad \cap Deleted(s)}
  /\ IF call[s].op = "commit" THEN Return(s)
     ELSE call' = [call EXCEPT ![s].again = TRUE,
            ![s].step = IF call[s].again \/ Dirty(s) \subseteq bad THEN "sweep" ELSE "judge"]
  /\ UNCHANGED <<rows, claims, seq, gens, at, written, accepted, busy>>

\* Mutant of Fail: what was pending counts as saved
MutFail(s) ==
  /\ AtFence(s) /\ FindsBusy
  /\ mem' = [mem EXCEPT ![s] = [r \in Runs |-> IF r \in Dirty(s) THEN [@[r] EXCEPT !.dirty = FALSE] ELSE @[r]]]
  /\ IF call[s].op = "commit" THEN Return(s) ELSE Goto(s, "sweep")
  /\ UNCHANGED <<database, at, stake, quarantined, written, accepted, discarded>>

(* The transaction finds the database busy, or the evidence cannot be      *)
(* stored: all that was pending stays pending.                             *)
Fail(s) ==
  /\ AtFence(s) /\ FindsBusy
  /\ IF call[s].op = "commit" THEN Return(s) ELSE Goto(s, "sweep")
  /\ UNCHANGED <<database, local, written, accepted, discarded>>

-----------------------------------------------------------------------------

(* evictSettled(): families with a live, a dirty or a pinned run stay.     *)
(* With nothing left to write, releaseUnheldClaims() gives the others      *)
(* back, and a busy database leaves them for the next sweep.               *)
Anchored(s, f) ==
  \E r \in Runs : FamilyOf[r] = f /\ mem[s][r].held /\ (mem[s][r].row.live \/ mem[s][r].dirty)

Sweep(s) ==
  /\ Step(s, "save", "sweep")
  /\ \E pinned \in SUBSET Families, reached \in BOOLEAN :
     LET stays(f) == Anchored(s, f) \/ f \in pinned
         left(f) == Dirty(s) = {} /\ ~ \E r \in Runs : FamilyOf[r] = f /\ mem'[s][r].held
         given == {f \in Families : left(f) /\ stake[s][f].kind = "claimed"}
         released == IF reached THEN given ELSE {}
     IN
     /\ mem' = [mem EXCEPT ![s] = [r \in Runs |-> IF stays(FamilyOf[r]) THEN @[r] ELSE Out]]
     /\ stake' = [stake EXCEPT ![s] = [f \in Families |->
          IF f \in released \/ (left(f) /\ Pending(s, f)) THEN NoStake ELSE @[f]]]
     /\ claims' = [f \in Families |->
          IF f \in released /\ claims[f].session = s THEN Unclaimed ELSE claims[f]]
     /\ IF reached THEN UNCHANGED busy ELSE given # {} /\ FindsBusy
  /\ Return(s)
  /\ UNCHANGED <<rows, evidence, seq, gens, at, quarantined, written, accepted, discarded>>

Forget(s) ==
  /\ mem' = [mem EXCEPT ![s] = [r \in Runs |-> Out]]
  /\ stake' = [stake EXCEPT ![s] = [f \in Families |-> NoStake]]
  /\ quarantined' = [quarantined EXCEPT ![s] = {}]
  /\ Return(s)

(* close(): all claims go at once, or stay until the process has ended.    *)
Close(s) ==
  /\ Step(s, "close", "sweep")
  /\ \/ /\ claims' = [f \in Families |-> IF claims[f].session = s THEN Unclaimed ELSE claims[f]]
        /\ UNCHANGED busy
     \/ FindsBusy /\ UNCHANGED claims
  /\ at' = [at EXCEPT ![s] = "left"]
  /\ Forget(s)
  /\ UNCHANGED <<rows, evidence, seq, gens, written, accepted, discarded>>

(* A process ends or crashes.  Where start times cannot be read another    *)
(* process may have its pid for a while, and it seems to be there still,   *)
(* like the process of a store that was closed.                            *)
End(s) ==
  /\ at[s] \in {"opening", "open", "left"}
  /\ \E as \in {"left", "gone"} : at[s] # as /\ at' = [at EXCEPT ![s] = as]
  /\ Forget(s)
  /\ UNCHANGED <<database, history>>

-----------------------------------------------------------------------------

StoreStep(s) ==
  \/ Open(s) \/ Save(s)
  \/ \E r \in Runs, live \in BOOLEAN : WriteHeld(s, r, live) \/ WriteCold(s, r, live) \/ Commit(s, r, live)
  \/ \E r \in Runs : Delete(s, r) \/ Adopt(s, r)
  \/ Judge(s) \/ Take(s) \/ TakeBusy(s) \/ Refuse(s)
  \/ Load(s) \/ LoadCold(s) \/ LoadAdopted(s)
  \/ Persist(s) \/ Conflict(s) \/ Fail(s)
  \/ Sweep(s) \/ Close(s)

Next == \E s \in Stores : StoreStep(s) \/ End(s)

Spec == Init /\ [][Next]_vars

-----------------------------------------------------------------------------

(* A store that holds a claim has it in the database: until its process is *)
(* gone nobody takes a family over, so two stores never own one together.  *)
ClaimedMeansOwned ==
  \A s \in Stores, f \in Families :
    stake[s][f].kind = "claimed" => claims[f] = stake[s][f].as

(* "Its family is claimed first, then the row is read, so the version held *)
(* is the claimed one": what a store has read or written under the claim   *)
(* it holds is what the database has, until it gives the claim back.       *)
ReadUnderClaimIsCurrent ==
  \A s \in Stores, r \in Runs :
    LET f == FamilyOf[r] IN
    (stake[s][f].kind = "claimed" /\ mem[s][r].held /\ mem[s][r].under = stake[s][f].as.gen) =>
      mem[s][r].row.rev = rows[r].rev

(* An accepted write is in the database, still pending in the memory of    *)
(* the store that accepted it, or in the evidence of a conflict, as long   *)
(* as that store is open: conflicts and failed saves drop nothing.         *)
NothingVanishes ==
  \A w \in accepted \ (discarded \cup evidence) :
    at[w[1]] = "open" =>
      \E r \in Runs : w \in rows[r].log \/ (mem[w[1]][r].dirty /\ w \in mem[w[1]][r].row.log)

(* Every committed write stays: what replaces a row contains all of it,    *)
(* and a row is deleted only by a store that had seen all of it.           *)
NoLostUpdate ==
  [][\A r \in Runs : rows[r].log \subseteq rows'[r].log \cup discarded']_vars

(* "An ordinary write must not quietly inherit a dead process's live run": *)
(* the claim of a process that is gone passes to an ordinary write only    *)
(* when nothing in the family is left to recover.                          *)
Inherits(s, f) ==
  /\ claims[f].session # None
  /\ claims'[f] # claims[f] /\ claims'[f].session = s
  /\ \/ call[s].step = "take" /\ call[s].take[f].kind = "pending"
     \/ call[s].step = "claimed" /\ stake[s][f].kind = "pending"

NoQuietInheritance ==
  [][\A s \in Stores, f \in Families : Inherits(s, f) => ~HasLive(f)]_vars

(* "This process will not write it again until cezar restarts": after a    *)
(* conflict the store that met it never writes that run.                   *)
QuarantineLasts ==
  [][\A s \in Stores, r \in Runs :
       (r \in quarantined[s] /\ AtFence(s)) => rows'[r] = rows[r]]_vars
=============================================================================
