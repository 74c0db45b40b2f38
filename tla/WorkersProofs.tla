---------------------------- MODULE WorkersProofs ---------------------------
(***************************************************************************)
(* Proofs about Workers, for any finite set of workers, any capacity and   *)
(* any number of generations, requests, faults, strays and crashes.        *)
(*                                                                         *)
(* Workers share nothing but the capacity, so the invariant (WorkerOK)     *)
(* speaks of one worker: what its record, the memory of the cockpit and    *)
(* its processes say of each other.  Each step has a lemma that names what *)
(* the worker's three records become (Becomes) and shows that they still   *)
(* agree; a crash and a restart do so for all workers at once.  The        *)
(* capacity is a second invariant: receipts whose destroy has left nothing *)
(* are spent for good, and no step but a spawn that finds room makes one   *)
(* that is not.                                                            *)
(***************************************************************************)
EXTENDS Workers, FiniteSetTheorems, TLAPS

-----------------------------------------------------------------------------
(* Types.                                                                  *)
Phases   == {"none", "queued", "starting", "complete"}
Trees    == {"planned", "bare", "ready", "branch", "gone"}
Statuses == {"absent", "queued", "running", "ended"}
Strays   == {"none", "group", "other", "late"}

Memory ==
  [line : BOOLEAN, exec : 0..MaxGen, admitted : BOOLEAN, engine : Engines, done : 0..MaxGen,
   claimed : BOOLEAN, attempt : Attempts, timer : BOOLEAN,
   seen : SUBSET [key : Statuses \X (0..MaxGen) \X Phases \X Trees,
                  holders : SUBSET ({"session"} \cup Strays)]]
Os == [session : BOOLEAN, stray : Strays]

Typed ==
  /\ disk \in [Worker -> Record] /\ mem \in [Worker -> Memory] /\ os \in [Worker -> Os]

(* What disk, memory and processes of one worker say of each other: an     *)
(* engine belongs to a generation that has started; a session, in this     *)
(* cockpit or left by a dead one, has a worktree and an unfinished         *)
(* generation; a destroy, once asked for, keeps the worker out of the line *)
(* for good, and it removes only after the generation and its result.      *)
WorkerOK(d, m, o) ==
  /\ m.engine # "off" => m.exec # 0 /\ ~m.line
  /\ m.exec # 0 => d.phase = "starting" /\ m.done = 0
  /\ m.done # 0 => d.phase = "starting"
  /\ o.session => /\ d.phase = "starting" /\ d.tree = "ready"
                  /\ m.engine = "session" \/ (m.exec = 0 /\ m.done = 0)
  /\ m.engine = "making" => d.tree = "bare"
  /\ m.engine \in {"made", "session"} => d.tree = "ready"
  /\ d.intent # "none" => ~m.line
  /\ m.attempt # "idle" => d.intent # "none"
  /\ m.attempt \in {"collecting", "removing", "git"} => m.exec = 0 /\ d.phase = "complete"
  /\ m.attempt \in {"removing", "git"} /\ d.tree = "ready" => d.result = d.gen
  /\ m.attempt = "git" => d.tree = "ready" /\ o.stray \in {"none", "late"}
  /\ d.tree \in {"branch", "gone"} => d.result = d.gen /\ d.phase = "complete" /\ d.intent # "none"
  /\ o.stray \in {"group", "other"} => d.tree = "ready"
  /\ d.intent = "complete" => d.tree \in {"planned", "gone"} /\ m.exec = 0
  /\ d.status = "absent" => /\ d.intent = "none" /\ d.tree = "planned" /\ ~o.session
                            /\ ~m.line /\ m.exec = 0 /\ m.done = 0 /\ m.attempt = "idle" /\ ~m.timer

Sound == \A w \in Worker : WorkerOK(disk[w], mem[w], os[w])

WorkersInv == Typed /\ Sound

(* A worker that a destroy has left nothing of.                            *)
Spent(d, m) == d.intent # "none" /\ d.tree \in {"planned", "gone"} /\ m.exec = 0
Charged == {w \in Worker : disk[w].status # "absent" /\ ~Spent(disk[w], mem[w])}
ChargeInv == Cardinality(Charged) <= Capacity

-----------------------------------------------------------------------------
(* A step of one worker.  Only one that finds room makes a charged one.    *)
Room == Cardinality(Outstanding) < Capacity

Steps(w) ==
  /\ Typed' /\ WorkerOK(disk'[w], mem'[w], os'[w])
  /\ \A x \in Worker \ {w} : disk'[x] = disk[x] /\ mem'[x] = mem[x] /\ os'[x] = os[x]
  /\ w \in Charged' => w \in Charged \/ Room

(* What is known of a worker before a step, and of what it becomes.        *)
Known(w) ==
  /\ disk[w] \in Record /\ mem[w] \in Memory /\ os[w] \in Os
  /\ WorkerOK(disk[w], mem[w], os[w])

LEMMA KnownOf == ASSUME WorkersInv, NEW w \in Worker PROVE Known(w)
  BY DEF WorkersInv, Typed, Sound, Known

Becomes(w, d, m, o) ==
  disk' = [disk EXCEPT ![w] = d] /\ mem' = [mem EXCEPT ![w] = m] /\ os' = [os EXCEPT ![w] = o]

Charges(w, d, m) ==
  d.status # "absent" /\ ~Spent(d, m) => (disk[w].status # "absent" /\ ~Spent(disk[w], mem[w])) \/ Room

LEMMA StepsOf ==
  ASSUME WorkersInv, NEW w \in Worker, NEW d \in Record, NEW m \in Memory, NEW o \in Os,
         Becomes(w, d, m, o), WorkerOK(d, m, o), Charges(w, d, m)
  PROVE  Steps(w)
PROOF
  <1> HIDE DEF Room
  <1> QED BY DEF WorkersInv, Typed, Becomes, Charges, Steps, Charged

LEMMA Unmoved ==
  ASSUME WorkersInv, NEW w \in Worker
  PROVE  disk = [disk EXCEPT ![w] = disk[w]] /\ mem = [mem EXCEPT ![w] = mem[w]]
         /\ os = [os EXCEPT ![w] = os[w]]
  BY DEF WorkersInv, Typed

LEMMA StopSteps ==
  ASSUME WorkersInv, NEW w \in Worker, Stop(w)
  PROVE  Steps(w)
PROOF
  <1> DEFINE d == Cancelled(disk[w], mem[w])
             m == Unqueued(mem[w])
             o == os[w]
  <1>1. Known(w)
    BY KnownOf
  <1>2. d \in Record /\ m \in Memory /\ o \in Os
    BY <1>1, ZenonT(60) DEF Known, Record, Memory, Os, Engines, Attempts, Strays, Cancelled, Unqueued,
                          Stop, Stores
  <1>3. WorkerOK(d, m, o)
    BY <1>1 DEF Known, Record, Memory, Os, WorkerOK, Cancelled, Unqueued, Stop, Stores
  <1>4. Charges(w, d, m)
    BY <1>1 DEF Known, Record, Memory, Os, WorkerOK, Spent, Charges, Cancelled, Unqueued, Stop,
                Stores
  <1>5. Becomes(w, d, m, o)
    BY Unmoved DEF Becomes, Cancelled, Unqueued, Stop, Stores
  <1> HIDE DEF d, m, o
  <1> QED BY <1>2, <1>3, <1>4, <1>5, StepsOf

LEMMA AttemptSteps ==
  ASSUME WorkersInv, NEW w \in Worker, Attempt(w), disk[w].status # "absent", UNCHANGED os
  PROVE  Steps(w)
PROOF
  <1> DEFINE d == [Cancelled(disk[w], mem[w]) EXCEPT !.intent = "terminating"]
             m == [Unqueued(mem[w]) EXCEPT !.timer = FALSE,
                    !.attempt = IF Unqueued(mem[w]).exec # 0 THEN "waiting" ELSE "reaping"]
             o == os[w]
  <1>1. Known(w)
    BY KnownOf
  <1>2. d \in Record /\ m \in Memory /\ o \in Os
    <2>1. d \in Record
      BY <1>1, ZenonT(60) DEF Known, Record, Memory, Os, Engines, Attempts, Strays, Attempt, Cancelled,
                  Unqueued, Stores
    <2>2. m \in Memory
      BY <1>1, ZenonT(60) DEF Known, Record, Memory, Os, Engines, Attempts, Strays, Attempt,
                            Cancelled, Unqueued, Stores
    <2>3. o \in Os
      BY <1>1 DEF Known, Record, Memory, Os, Engines, Attempts, Strays, Attempt, Cancelled,
                  Unqueued, Stores
    <2> QED BY <2>1, <2>2, <2>3
  <1>3. WorkerOK(d, m, o)
    BY <1>1 DEF Known, Record, Memory, Os, WorkerOK, Attempt, Cancelled, Unqueued, Stores
  <1>4. Charges(w, d, m)
    BY <1>1 DEF Known, Record, Memory, Os, WorkerOK, Spent, Charges, Attempt, Cancelled, Unqueued,
                Stores
  <1>5. Becomes(w, d, m, o)
    BY Unmoved DEF Becomes, Attempt, Cancelled, Unqueued, Stores
  <1> HIDE DEF d, m, o
  <1> QED BY <1>2, <1>3, <1>4, <1>5, StepsOf

LEMMA WriteReceiptSteps ==
  ASSUME WorkersInv, NEW w \in Worker, WriteReceipt(w)
  PROVE  Steps(w)
PROOF
  <1> DEFINE d == [disk[w] EXCEPT !.tree = "ready"]
             m == [mem[w] EXCEPT !.engine = "made"]
             o == os[w]
  <1>1. Known(w)
    BY KnownOf
  <1>2. d \in Record /\ m \in Memory /\ o \in Os
    BY <1>1 DEF Known, Record, Memory, Os, Engines, Attempts, Strays, WriteReceipt, Stores
  <1>3. WorkerOK(d, m, o)
    BY <1>1 DEF Known, Record, Memory, Os, WorkerOK, WriteReceipt, Stores
  <1>4. Charges(w, d, m)
    BY <1>1 DEF Known, Record, Memory, Os, WorkerOK, Spent, Charges, WriteReceipt, Stores
  <1>5. Becomes(w, d, m, o)
    BY Unmoved DEF Becomes, WriteReceipt, Stores
  <1> HIDE DEF d, m, o
  <1> QED BY <1>2, <1>3, <1>4, <1>5, StepsOf

LEMMA CollectSteps ==
  ASSUME WorkersInv, NEW w \in Worker, Collect(w)
  PROVE  Steps(w)
PROOF
  <1> DEFINE d == [disk[w] EXCEPT !.result = disk[w].gen]
             m == mem[w]
             o == os[w]
  <1>1. Known(w)
    BY KnownOf
  <1>2. d \in Record /\ m \in Memory /\ o \in Os
    BY <1>1 DEF Known, Record, Memory, Os, Engines, Attempts, Strays, Collect, Stores
  <1>3. WorkerOK(d, m, o)
    BY <1>1 DEF Known, Record, Memory, Os, WorkerOK, Collect, Stores
  <1>4. Charges(w, d, m)
    BY <1>1 DEF Known, Record, Memory, Os, WorkerOK, Spent, Charges, Collect, Stores
  <1>5. Becomes(w, d, m, o)
    BY Unmoved DEF Becomes, Collect, Stores
  <1> HIDE DEF d, m, o
  <1> QED BY <1>2, <1>3, <1>4, <1>5, StepsOf

LEMMA SettleOrphanSteps ==
  ASSUME WorkersInv, NEW w \in Worker, SettleOrphan(w)
  PROVE  Steps(w)
PROOF
  <1> DEFINE d == [disk[w] EXCEPT !.phase = "complete"]
             m == mem[w]
             o == os[w]
  <1>1. Known(w)
    BY KnownOf
  <1>2. d \in Record /\ m \in Memory /\ o \in Os
    BY <1>1 DEF Known, Record, Memory, Os, Engines, Attempts, Strays, SettleOrphan, Orphaned,
                Holders, Stores
  <1>3. WorkerOK(d, m, o)
    BY <1>1 DEF Known, Record, Memory, Os, WorkerOK, SettleOrphan, Orphaned, Holders, Stores
  <1>4. Charges(w, d, m)
    BY <1>1 DEF Known, Record, Memory, Os, WorkerOK, Spent, Charges, SettleOrphan, Orphaned,
                Holders, Stores
  <1>5. Becomes(w, d, m, o)
    BY Unmoved DEF Becomes, SettleOrphan, Orphaned, Holders, Stores
  <1> HIDE DEF d, m, o
  <1> QED BY <1>2, <1>3, <1>4, <1>5, StepsOf

LEMMA GitRemovesSteps ==
  ASSUME WorkersInv, NEW w \in Worker, GitRemoves(w)
  PROVE  Steps(w)
PROOF
  <1> DEFINE d == [disk[w] EXCEPT !.tree = "branch"]
             m == [mem[w] EXCEPT !.attempt = "removing"]
             o == os[w]
  <1>1. Known(w)
    BY KnownOf
  <1>2. d \in Record /\ m \in Memory /\ o \in Os
    BY <1>1 DEF Known, Record, Memory, Os, Engines, Attempts, Strays, GitRemoves, Stores
  <1>3. WorkerOK(d, m, o)
    BY <1>1 DEF Known, Record, Memory, Os, WorkerOK, GitRemoves, Stores
  <1>4. Charges(w, d, m)
    BY <1>1 DEF Known, Record, Memory, Os, WorkerOK, Spent, Charges, GitRemoves, Stores
  <1>5. Becomes(w, d, m, o)
    BY Unmoved DEF Becomes, GitRemoves, Stores
  <1> HIDE DEF d, m, o
  <1> QED BY <1>2, <1>3, <1>4, <1>5, StepsOf

LEMMA WaitSteps ==
  ASSUME WorkersInv, NEW w \in Worker, Wait(w)
  PROVE  Steps(w)
PROOF
  <1> DEFINE d == disk[w]
             m == [mem[w] EXCEPT !.attempt = "judging"]
             o == os[w]
  <1>1. Known(w)
    BY KnownOf
  <1>2. d \in Record /\ m \in Memory /\ o \in Os
    BY <1>1 DEF Known, Record, Memory, Os, Engines, Attempts, Strays, Wait, Recalls
  <1>3. WorkerOK(d, m, o)
    BY <1>1 DEF Known, Record, Memory, Os, WorkerOK, Wait, Recalls
  <1>4. Charges(w, d, m)
    BY <1>1 DEF Known, Record, Memory, Os, WorkerOK, Spent, Charges, Wait, Recalls
  <1>5. Becomes(w, d, m, o)
    BY Unmoved DEF Becomes, Wait, Recalls
  <1> HIDE DEF d, m, o
  <1> QED BY <1>2, <1>3, <1>4, <1>5, StepsOf

LEMMA SpawnSteps ==
  ASSUME WorkersInv, NEW w \in Worker, WorkersAssumption, Spawn(w)
  PROVE  Steps(w)
PROOF
  <1> DEFINE d == [NoRecord EXCEPT !.status = "queued", !.gen = 1, !.phase = "queued"]
             m == [mem[w] EXCEPT !.line = TRUE]
             o == os[w]
  <1>1. Known(w)
    BY KnownOf
  <1>6. 1 \in 0..MaxGen /\ 0 \in 0..MaxGen
    BY DEF WorkersAssumption
  <1>2. d \in Record /\ m \in Memory /\ o \in Os
    <2>1. d \in Record
      BY <1>1, <1>6 DEF Known, Record, Memory, Os, Engines, Attempts, Strays, Spawn, Room, NoRecord,
                        Stores, WorkersAssumption
    <2>2. m \in Memory
      BY <1>1, <1>6 DEF Known, Record, Memory, Os, Engines, Attempts, Strays, Spawn, Room, NoRecord,
                        Stores, WorkersAssumption
    <2>3. o \in Os
      BY <1>1, <1>6 DEF Known, Record, Memory, Os, Engines, Attempts, Strays, Spawn, Room, NoRecord,
                        Stores, WorkersAssumption
    <2> QED BY <2>1, <2>2, <2>3
  <1>3. WorkerOK(d, m, o)
    BY <1>1 DEF Known, Record, Memory, Os, WorkerOK, Spawn, Room, NoRecord, Stores,
                WorkersAssumption
  <1>4. Charges(w, d, m)
    BY <1>1 DEF Known, Record, Memory, Os, WorkerOK, Spent, Charges, Spawn, Room, NoRecord, Stores,
                WorkersAssumption
  <1>5. Becomes(w, d, m, o)
    BY Unmoved DEF Becomes, Spawn, Room, NoRecord, Stores, WorkersAssumption
  <1> HIDE DEF d, m, o
  <1> QED BY <1>2, <1>3, <1>4, <1>5, StepsOf

LEMMA AdmittedSteps ==
  ASSUME WorkersInv, NEW w \in Worker, mem[w].line, mem[w].exec # 0, UNCHANGED os,
         Stores(w, [disk[w] EXCEPT !.status = "running"],
                   [mem[w] EXCEPT !.line = FALSE, !.engine = "setup", !.admitted = TRUE])
  PROVE  Steps(w)
PROOF
  <1> DEFINE d == [disk[w] EXCEPT !.status = "running"]
             m == [mem[w] EXCEPT !.line = FALSE, !.engine = "setup", !.admitted = TRUE]
             o == os[w]
  <1>1. Known(w)
    BY KnownOf
  <1>2. d \in Record /\ m \in Memory /\ o \in Os
    BY <1>1 DEF Known, Record, Memory, Os, Engines, Attempts, Strays, Stores
  <1>3. WorkerOK(d, m, o)
    BY <1>1 DEF Known, Record, Memory, Os, WorkerOK, Stores
  <1>4. Charges(w, d, m)
    BY <1>1 DEF Known, Record, Memory, Os, WorkerOK, Spent, Charges, Stores
  <1>5. Becomes(w, d, m, o)
    BY Unmoved DEF Becomes, Stores
  <1> HIDE DEF d, m, o
  <1> QED BY <1>2, <1>3, <1>4, <1>5, StepsOf

LEMMA RefusedSteps ==
  ASSUME WorkersInv, NEW w \in Worker, mem[w].line, mem[w].exec = 0, UNCHANGED os,
         Stores(w, [disk[w] EXCEPT !.status = "ended"], [mem[w] EXCEPT !.line = FALSE])
  PROVE  Steps(w)
PROOF
  <1> DEFINE d == [disk[w] EXCEPT !.status = "ended"]
             m == [mem[w] EXCEPT !.line = FALSE]
             o == os[w]
  <1>1. Known(w)
    BY KnownOf
  <1>2. d \in Record /\ m \in Memory /\ o \in Os
    BY <1>1 DEF Known, Record, Memory, Os, Engines, Attempts, Strays, Stores
  <1>3. WorkerOK(d, m, o)
    BY <1>1 DEF Known, Record, Memory, Os, WorkerOK, Stores
  <1>4. Charges(w, d, m)
    BY <1>1 DEF Known, Record, Memory, Os, WorkerOK, Spent, Charges, Stores
  <1>5. Becomes(w, d, m, o)
    BY Unmoved DEF Becomes, Stores
  <1> HIDE DEF d, m, o
  <1> QED BY <1>2, <1>3, <1>4, <1>5, StepsOf

LEMMA BegunSteps ==
  ASSUME WorkersInv, NEW w \in Worker, WorkersAssumption, NEW now \in BOOLEAN,
         NEW status \in {"running", "queued"},
         Admissible(w), disk[w].gen < MaxGen,
         mem[w].line \/ (disk[w].status = "ended" /\ mem[w].engine = "off"),
         UNCHANGED os,
         Stores(w, [Begun(disk[w]) EXCEPT !.status = status],
           [mem[w] EXCEPT !.line = ~now, !.exec = disk[w].gen + 1, !.admitted = now, !.done = 0,
                          !.engine = IF now THEN "setup" ELSE "off"])
  PROVE  Steps(w)
PROOF
  <1> DEFINE d == [Begun(disk[w]) EXCEPT !.status = status]
             m == [mem[w] EXCEPT !.line = ~now, !.exec = disk[w].gen + 1, !.admitted = now, !.done = 0,
                             !.engine = IF now THEN "setup" ELSE "off"]
             o == os[w]
  <1>1. Known(w)
    BY KnownOf
  <1>6. disk[w].gen + 1 \in 0..MaxGen /\ 0 \in 0..MaxGen
    BY <1>1 DEF Known, Record, WorkersAssumption
  <1>2. d \in Record /\ m \in Memory /\ o \in Os
    <2>1. d \in Record
      BY <1>1, <1>6 DEF Known, Record, Memory, Os, Engines, Attempts, Strays, Begun, Admissible,
                        Holders, Stores, WorkersAssumption
    <2>2. m \in Memory
      BY <1>1, <1>6, ZenonT(60) DEF Known, Record, Memory, Os, Engines, Attempts, Strays, Begun,
                                  Admissible, Holders, Stores, WorkersAssumption
    <2>3. o \in Os
      BY <1>1, <1>6 DEF Known, Record, Memory, Os, Engines, Attempts, Strays, Begun, Admissible,
                        Holders, Stores, WorkersAssumption
    <2> QED BY <2>1, <2>2, <2>3
  <1>3. WorkerOK(d, m, o)
    BY <1>1 DEF Known, Record, Memory, Os, WorkerOK, Begun, Admissible, Holders, Stores,
                WorkersAssumption
  <1>4. Charges(w, d, m)
    BY <1>1 DEF Known, Record, Memory, Os, WorkerOK, Spent, Charges, Begun, Admissible, Holders,
                Stores, WorkersAssumption
  <1>5. Becomes(w, d, m, o)
    BY Unmoved DEF Becomes, Begun, Admissible, Holders, Stores, WorkersAssumption
  <1> HIDE DEF d, m, o
  <1> QED BY <1>2, <1>3, <1>4, <1>5, StepsOf

LEMMA ClosingSteps ==
  ASSUME WorkersInv, NEW w \in Worker, Closing(w),
         mem[w].engine \in {"setup", "making", "made"}, UNCHANGED os
  PROVE  Steps(w)
PROOF
  <1> DEFINE d == [disk[w] EXCEPT !.status = "ended"]
             m == [mem[w] EXCEPT !.engine = "closing"]
             o == os[w]
  <1>1. Known(w)
    BY KnownOf
  <1>2. d \in Record /\ m \in Memory /\ o \in Os
    BY <1>1 DEF Known, Record, Memory, Os, Engines, Attempts, Strays, Closing, Stores
  <1>3. WorkerOK(d, m, o)
    BY <1>1 DEF Known, Record, Memory, Os, WorkerOK, Closing, Stores
  <1>4. Charges(w, d, m)
    BY <1>1 DEF Known, Record, Memory, Os, WorkerOK, Spent, Charges, Closing, Stores
  <1>5. Becomes(w, d, m, o)
    BY Unmoved DEF Becomes, Closing, Stores
  <1> HIDE DEF d, m, o
  <1> QED BY <1>2, <1>3, <1>4, <1>5, StepsOf

LEMMA MakingSteps ==
  ASSUME WorkersInv, NEW w \in Worker, mem[w].engine = "setup", disk[w].tree = "planned",
         disk[w].intent = "none", UNCHANGED os,
         Stores(w, [disk[w] EXCEPT !.tree = "bare"], [mem[w] EXCEPT !.engine = "making"])
  PROVE  Steps(w)
PROOF
  <1> DEFINE d == [disk[w] EXCEPT !.tree = "bare"]
             m == [mem[w] EXCEPT !.engine = "making"]
             o == os[w]
  <1>1. Known(w)
    BY KnownOf
  <1>2. d \in Record /\ m \in Memory /\ o \in Os
    BY <1>1 DEF Known, Record, Memory, Os, Engines, Attempts, Strays, Stores
  <1>3. WorkerOK(d, m, o)
    BY <1>1 DEF Known, Record, Memory, Os, WorkerOK, Stores
  <1>4. Charges(w, d, m)
    BY <1>1 DEF Known, Record, Memory, Os, WorkerOK, Spent, Charges, Stores
  <1>5. Becomes(w, d, m, o)
    BY Unmoved DEF Becomes, Stores
  <1> HIDE DEF d, m, o
  <1> QED BY <1>2, <1>3, <1>4, <1>5, StepsOf

LEMMA MadeSteps ==
  ASSUME WorkersInv, NEW w \in Worker, mem[w].engine = "setup", disk[w].tree = "ready",
         UNCHANGED os,
         Recalls(w, [mem[w] EXCEPT !.engine = "made"])
  PROVE  Steps(w)
PROOF
  <1> DEFINE d == disk[w]
             m == [mem[w] EXCEPT !.engine = "made"]
             o == os[w]
  <1>1. Known(w)
    BY KnownOf
  <1>2. d \in Record /\ m \in Memory /\ o \in Os
    BY <1>1 DEF Known, Record, Memory, Os, Engines, Attempts, Strays, Recalls
  <1>3. WorkerOK(d, m, o)
    BY <1>1 DEF Known, Record, Memory, Os, WorkerOK, Recalls
  <1>4. Charges(w, d, m)
    BY <1>1 DEF Known, Record, Memory, Os, WorkerOK, Spent, Charges, Recalls
  <1>5. Becomes(w, d, m, o)
    BY Unmoved DEF Becomes, Recalls
  <1> HIDE DEF d, m, o
  <1> QED BY <1>2, <1>3, <1>4, <1>5, StepsOf

LEMMA SessionSteps ==
  ASSUME WorkersInv, NEW w \in Worker, mem[w].engine = "made",
         os' = [os EXCEPT ![w].session = TRUE],
         Recalls(w, [mem[w] EXCEPT !.engine = "session"])
  PROVE  Steps(w)
PROOF
  <1> DEFINE d == disk[w]
             m == [mem[w] EXCEPT !.engine = "session"]
             o == [os[w] EXCEPT !.session = TRUE]
  <1>1. Known(w)
    BY KnownOf
  <1>2. d \in Record /\ m \in Memory /\ o \in Os
    BY <1>1 DEF Known, Record, Memory, Os, Engines, Attempts, Strays, Recalls
  <1>3. WorkerOK(d, m, o)
    BY <1>1 DEF Known, Record, Memory, Os, WorkerOK, Recalls
  <1>4. Charges(w, d, m)
    BY <1>1 DEF Known, Record, Memory, Os, WorkerOK, Spent, Charges, Recalls
  <1>5. Becomes(w, d, m, o)
    BY Unmoved DEF Becomes, Recalls
  <1> HIDE DEF d, m, o
  <1> QED BY <1>2, <1>3, <1>4, <1>5, StepsOf

LEMMA SessionEnds ==
  ASSUME WorkersInv, NEW w \in Worker, mem[w].engine = "session", Closing(w),
         NEW left \in {os[w].stray, "group"}, os' = [os EXCEPT ![w] = [session |-> FALSE, stray |-> left]]
  PROVE  Steps(w)
PROOF
  <1> DEFINE d == [disk[w] EXCEPT !.status = "ended"]
             m == [mem[w] EXCEPT !.engine = "closing"]
             o == [session |-> FALSE, stray |-> left]
  <1>1. Known(w)
    BY KnownOf
  <1>2. d \in Record /\ m \in Memory /\ o \in Os
    BY <1>1 DEF Known, Record, Memory, Os, Engines, Attempts, Strays, Closing, Stores
  <1>3. WorkerOK(d, m, o)
    BY <1>1 DEF Known, Record, Memory, Os, WorkerOK, Closing, Stores
  <1>4. Charges(w, d, m)
    BY <1>1 DEF Known, Record, Memory, Os, WorkerOK, Spent, Charges, Closing, Stores
  <1>5. Becomes(w, d, m, o)
    BY Unmoved DEF Becomes, Closing, Stores
  <1> HIDE DEF d, m, o
  <1> QED BY <1>2, <1>3, <1>4, <1>5, StepsOf

LEMMA FinishedSteps ==
  ASSUME WorkersInv, NEW w \in Worker, WorkersAssumption, mem[w].engine = "closing",
         NEW ok \in BOOLEAN, UNCHANGED os,
         Stores(w, [disk[w] EXCEPT !.phase = IF ok THEN "complete" ELSE @],
            [mem[w] EXCEPT !.engine = "off", !.exec = 0, !.admitted = FALSE,
                           !.done = IF ok THEN 0 ELSE mem[w].exec])
  PROVE  Steps(w)
PROOF
  <1> DEFINE d == [disk[w] EXCEPT !.phase = IF ok THEN "complete" ELSE @]
             m == [mem[w] EXCEPT !.engine = "off", !.exec = 0, !.admitted = FALSE,
                            !.done = IF ok THEN 0 ELSE mem[w].exec]
             o == os[w]
  <1>1. Known(w)
    BY KnownOf
  <1>6. 1 \in 0..MaxGen /\ 0 \in 0..MaxGen
    BY DEF WorkersAssumption
  <1>2. d \in Record /\ m \in Memory /\ o \in Os
    <2>1. d \in Record
      BY <1>1, <1>6 DEF Known, Record, Memory, Os, Engines, Attempts, Strays, Stores
    <2>2. m \in Memory
      BY <1>1, <1>6 DEF Known, Record, Memory, Os, Engines, Attempts, Strays, Stores
    <2>3. o \in Os
      BY <1>1, <1>6 DEF Known, Record, Memory, Os, Engines, Attempts, Strays, Stores
    <2> QED BY <2>1, <2>2, <2>3
  <1>3. WorkerOK(d, m, o)
    BY <1>1 DEF Known, Record, Memory, Os, WorkerOK, Stores
  <1>4. Charges(w, d, m)
    BY <1>1 DEF Known, Record, Memory, Os, WorkerOK, Spent, Charges, Stores
  <1>5. Becomes(w, d, m, o)
    BY Unmoved DEF Becomes, Stores
  <1> HIDE DEF d, m, o
  <1> QED BY <1>2, <1>3, <1>4, <1>5, StepsOf

LEMMA FailsSteps ==
  ASSUME WorkersInv, NEW w \in Worker, NEW explained \in BOOLEAN, Fails(w, explained),
         UNCHANGED os, mem[w].attempt # "idle"
  PROVE  Steps(w)
PROOF
  <1> DEFINE d == [disk[w] EXCEPT !.intent = "incomplete"]
             m == [mem[w] EXCEPT !.attempt = "idle", !.claimed = FALSE, !.timer = TRUE,
                !.seen = IF explained THEN {[key |-> Key(w), holders |-> Holders(w)]} ELSE {}]
             o == os[w]
  <1>1. Known(w)
    BY KnownOf
  <1>6. {[key |-> Key(w), holders |-> Holders(w)]}
          \in SUBSET [key : Statuses \X (0..MaxGen) \X Phases \X Trees, holders : SUBSET ({"session"} \cup Strays)]
    BY <1>1 DEF Known, Record, Os, Strays, Key, Holders, Phases, Trees, Statuses
  <1>2. d \in Record /\ m \in Memory /\ o \in Os
    <2>1. d \in Record
      BY <1>1, <1>6 DEF Known, Record, Memory, Os, Engines, Attempts, Strays, Fails, Stores
    <2>2. m \in Memory
      BY <1>1, <1>6 DEF Known, Record, Memory, Os, Engines, Attempts, Strays, Fails, Stores
    <2>3. o \in Os
      BY <1>1, <1>6 DEF Known, Record, Memory, Os, Engines, Attempts, Strays, Fails, Stores
    <2> QED BY <2>1, <2>2, <2>3
  <1>3. WorkerOK(d, m, o)
    BY <1>1 DEF Known, Record, Memory, Os, WorkerOK, Fails, Stores
  <1>4. Charges(w, d, m)
    BY <1>1 DEF Known, Record, Memory, Os, WorkerOK, Spent, Charges, Fails, Stores
  <1>5. Becomes(w, d, m, o)
    BY Unmoved DEF Becomes, Fails, Stores
  <1> HIDE DEF d, m, o
  <1> QED BY <1>2, <1>3, <1>4, <1>5, StepsOf

LEMMA ProvenSteps ==
  ASSUME WorkersInv, NEW w \in Worker, mem[w].attempt = "judging", mem[w].exec = 0,
         disk[w].phase = "complete",
         Stores(w, [disk[w] EXCEPT !.intent = "cleaning"], [mem[w] EXCEPT !.attempt = "collecting"]),
         os' = [os EXCEPT ![w].stray = IF @ = "group" THEN "none" ELSE @]
  PROVE  Steps(w)
PROOF
  <1> DEFINE d == [disk[w] EXCEPT !.intent = "cleaning"]
             m == [mem[w] EXCEPT !.attempt = "collecting"]
             o == [os[w] EXCEPT !.stray = IF @ = "group" THEN "none" ELSE @]
  <1>1. Known(w)
    BY KnownOf
  <1>2. d \in Record /\ m \in Memory /\ o \in Os
    BY <1>1 DEF Known, Record, Memory, Os, Engines, Attempts, Strays, Stores
  <1>3. WorkerOK(d, m, o)
    BY <1>1 DEF Known, Record, Memory, Os, WorkerOK, Stores
  <1>4. Charges(w, d, m)
    BY <1>1 DEF Known, Record, Memory, Os, WorkerOK, Spent, Charges, Stores
  <1>5. Becomes(w, d, m, o)
    BY Unmoved DEF Becomes, Stores
  <1> HIDE DEF d, m, o
  <1> QED BY <1>2, <1>3, <1>4, <1>5, StepsOf

LEMMA KeptSteps ==
  ASSUME WorkersInv, NEW w \in Worker, mem[w].attempt = "collecting", UNCHANGED os,
         Stores(w, [disk[w] EXCEPT !.result = Evidence(w)],
                   [mem[w] EXCEPT !.attempt = "removing", !.claimed = TRUE])
  PROVE  Steps(w)
PROOF
  <1> DEFINE d == [disk[w] EXCEPT !.result = Evidence(w)]
             m == [mem[w] EXCEPT !.attempt = "removing", !.claimed = TRUE]
             o == os[w]
  <1>1. Known(w)
    BY KnownOf
  <1>2. d \in Record /\ m \in Memory /\ o \in Os
    BY <1>1 DEF Known, Record, Memory, Os, Engines, Attempts, Strays, Stores, Evidence
  <1>3. WorkerOK(d, m, o)
    BY <1>1 DEF Known, Record, Memory, Os, WorkerOK, Stores, Evidence
  <1>4. Charges(w, d, m)
    BY <1>1 DEF Known, Record, Memory, Os, WorkerOK, Spent, Charges, Stores, Evidence
  <1>5. Becomes(w, d, m, o)
    BY Unmoved DEF Becomes, Stores, Evidence
  <1> HIDE DEF d, m, o
  <1> QED BY <1>2, <1>3, <1>4, <1>5, StepsOf

LEMMA DoneSteps ==
  ASSUME WorkersInv, NEW w \in Worker, mem[w].attempt = "removing",
         disk[w].tree \notin {"bare", "ready"}, Done(w), UNCHANGED os
  PROVE  Steps(w)
PROOF
  <1> DEFINE d == [disk[w] EXCEPT !.intent = "complete", !.tree = IF @ = "branch" THEN "gone" ELSE @]
             m == [mem[w] EXCEPT !.attempt = "idle", !.claimed = FALSE, !.timer = FALSE, !.seen = {}]
             o == os[w]
  <1>1. Known(w)
    BY KnownOf
  <1>2. d \in Record /\ m \in Memory /\ o \in Os
    BY <1>1, ZenonT(60) DEF Known, Record, Memory, Os, Engines, Attempts, Strays, Done, Stores
  <1>3. WorkerOK(d, m, o)
    BY <1>1 DEF Known, Record, Memory, Os, WorkerOK, Done, Stores
  <1>4. Charges(w, d, m)
    BY <1>1 DEF Known, Record, Memory, Os, WorkerOK, Spent, Charges, Done, Stores
  <1>5. Becomes(w, d, m, o)
    BY Unmoved DEF Becomes, Done, Stores
  <1> HIDE DEF d, m, o
  <1> QED BY <1>2, <1>3, <1>4, <1>5, StepsOf

LEMMA ToGitSteps ==
  ASSUME WorkersInv, NEW w \in Worker, mem[w].attempt = "removing", disk[w].tree = "ready",
         Unheld(w), UNCHANGED os,
         Recalls(w, [mem[w] EXCEPT !.attempt = "git"])
  PROVE  Steps(w)
PROOF
  <1> DEFINE d == disk[w]
             m == [mem[w] EXCEPT !.attempt = "git"]
             o == os[w]
  <1>1. Known(w)
    BY KnownOf
  <1>2. d \in Record /\ m \in Memory /\ o \in Os
    BY <1>1 DEF Known, Record, Memory, Os, Engines, Attempts, Strays, Recalls, Unheld, Holders
  <1>3. WorkerOK(d, m, o)
    BY <1>1 DEF Known, Record, Memory, Os, WorkerOK, Recalls, Unheld, Holders
  <1>4. Charges(w, d, m)
    BY <1>1 DEF Known, Record, Memory, Os, WorkerOK, Spent, Charges, Recalls, Unheld, Holders
  <1>5. Becomes(w, d, m, o)
    BY Unmoved DEF Becomes, Recalls, Unheld, Holders
  <1> HIDE DEF d, m, o
  <1> QED BY <1>2, <1>3, <1>4, <1>5, StepsOf

LEMMA ComeBySteps ==
  ASSUME WorkersInv, NEW w \in Worker, ComeBy(w)
  PROVE  Steps(w)
PROOF
  <1> DEFINE d == disk[w]
             m == mem[w]
             o == [os[w] EXCEPT !.stray = IF mem[w].attempt = "git" THEN "late" ELSE "other"]
  <1>1. Known(w)
    BY KnownOf
  <1>2. d \in Record /\ m \in Memory /\ o \in Os
    BY <1>1 DEF Known, Record, Memory, Os, Engines, Attempts, Strays, ComeBy
  <1>3. WorkerOK(d, m, o)
    BY <1>1 DEF Known, Record, Memory, Os, WorkerOK, ComeBy
  <1>4. Charges(w, d, m)
    BY <1>1 DEF Known, Record, Memory, Os, WorkerOK, Spent, Charges, ComeBy
  <1>5. Becomes(w, d, m, o)
    BY Unmoved DEF Becomes, ComeBy
  <1> HIDE DEF d, m, o
  <1> QED BY <1>2, <1>3, <1>4, <1>5, StepsOf

LEMMA SessionLeaves ==
  ASSUME WorkersInv, NEW w \in Worker, mem[w].engine # "session",
         os' = [os EXCEPT ![w].session = FALSE], UNCHANGED <<disk, mem>>
  PROVE  Steps(w)
PROOF
  <1> DEFINE d == disk[w]
             m == mem[w]
             o == [os[w] EXCEPT !.session = FALSE]
  <1>1. Known(w)
    BY KnownOf
  <1>2. d \in Record /\ m \in Memory /\ o \in Os
    BY <1>1 DEF Known, Record, Memory, Os, Engines, Attempts, Strays
  <1>3. WorkerOK(d, m, o)
    BY <1>1 DEF Known, Record, Memory, Os, WorkerOK
  <1>4. Charges(w, d, m)
    BY <1>1 DEF Known, Record, Memory, Os, WorkerOK, Spent, Charges
  <1>5. Becomes(w, d, m, o)
    BY Unmoved DEF Becomes
  <1> HIDE DEF d, m, o
  <1> QED BY <1>2, <1>3, <1>4, <1>5, StepsOf

LEMMA StrayLeaves ==
  ASSUME WorkersInv, NEW w \in Worker, os' = [os EXCEPT ![w].stray = "none"],
         UNCHANGED <<disk, mem>>
  PROVE  Steps(w)
PROOF
  <1> DEFINE d == disk[w]
             m == mem[w]
             o == [os[w] EXCEPT !.stray = "none"]
  <1>1. Known(w)
    BY KnownOf
  <1>2. d \in Record /\ m \in Memory /\ o \in Os
    BY <1>1 DEF Known, Record, Memory, Os, Engines, Attempts, Strays
  <1>3. WorkerOK(d, m, o)
    BY <1>1 DEF Known, Record, Memory, Os, WorkerOK
  <1>4. Charges(w, d, m)
    BY <1>1 DEF Known, Record, Memory, Os, WorkerOK, Spent, Charges
  <1>5. Becomes(w, d, m, o)
    BY Unmoved DEF Becomes
  <1> HIDE DEF d, m, o
  <1> QED BY <1>2, <1>3, <1>4, <1>5, StepsOf

LEMMA ReapedSteps ==
  ASSUME WorkersInv, NEW w \in Worker, WorkersAssumption, mem[w].attempt = "reaping",
         NEW proven \in BOOLEAN,
         proven => mem[w].done # 0 \/ Orphaned(w),
         disk' = [disk EXCEPT ![w].phase = IF proven THEN "complete" ELSE @],
         mem' = [mem EXCEPT ![w].attempt = "judging", ![w].done = IF proven THEN 0 ELSE @],
         os' = IF Orphaned(w)
               THEN [os EXCEPT ![w].session = FALSE, ![w].stray = IF @ = "group" THEN "none" ELSE @]
               ELSE os
  PROVE  Steps(w)
PROOF
  <1> DEFINE d == [disk[w] EXCEPT !.phase = IF proven THEN "complete" ELSE @]
             m == [mem[w] EXCEPT !.attempt = "judging", !.done = IF proven THEN 0 ELSE @]
             o == IF Orphaned(w)
                  THEN [os[w] EXCEPT !.session = FALSE, !.stray = IF @ = "group" THEN "none" ELSE @]
                  ELSE os[w]
  <1>1. Known(w)
    BY KnownOf
  <1>6. 1 \in 0..MaxGen /\ 0 \in 0..MaxGen
    BY DEF WorkersAssumption
  <1>2. d \in Record /\ m \in Memory /\ o \in Os
    <2>1. d \in Record
      BY <1>1, <1>6 DEF Known, Record, Memory, Os, Engines, Attempts, Strays, Orphaned
    <2>2. m \in Memory
      BY <1>1, <1>6 DEF Known, Record, Memory, Os, Engines, Attempts, Strays, Orphaned
    <2>3. o \in Os
      BY <1>1, <1>6 DEF Known, Record, Memory, Os, Engines, Attempts, Strays, Orphaned
    <2> QED BY <2>1, <2>2, <2>3
  <1>3. WorkerOK(d, m, o)
    BY <1>1 DEF Known, Record, Memory, Os, WorkerOK, Orphaned
  <1>4. Charges(w, d, m)
    BY <1>1 DEF Known, Record, Memory, Os, WorkerOK, Spent, Charges, Orphaned
  <1>5. Becomes(w, d, m, o)
    BY Unmoved DEF Becomes, Orphaned
  <1> HIDE DEF d, m, o
  <1> QED BY <1>2, <1>3, <1>4, <1>5, StepsOf

(* The actions in terms of those.                                          *)
LEMMA LaunchSteps ==
  ASSUME WorkersAssumption, WorkersInv, NEW w \in Worker, Launch(w) PROVE Steps(w)
PROOF
  <1> DEFINE left == [mem[w] EXCEPT !.line = FALSE]
             runs == [left EXCEPT !.engine = "setup", !.admitted = TRUE]
  <1>1. mem[w] \in Memory
    BY KnownOf DEF Known
  <1>2. CASE /\ mem[w].exec # 0
             /\ Stores(w, [disk[w] EXCEPT !.status = "running"], runs)
    <2>1. runs = [mem[w] EXCEPT !.line = FALSE, !.engine = "setup", !.admitted = TRUE]
      BY <1>1 DEF Memory
    <2> QED BY <1>2, <2>1, AdmittedSteps DEF Launch
  <1>3. CASE /\ Admissible(w) /\ disk[w].gen < MaxGen
             /\ Stores(w, [Begun(disk[w]) EXCEPT !.status = "running"], Begins(runs, disk[w].gen + 1, TRUE))
    <2>1. Begins(runs, disk[w].gen + 1, TRUE)
            = [mem[w] EXCEPT !.line = ~TRUE, !.exec = disk[w].gen + 1, !.admitted = TRUE, !.done = 0,
                             !.engine = IF TRUE THEN "setup" ELSE "off"]
      BY <1>1 DEF Memory, Begins
    <2> QED BY <1>3, <2>1, BegunSteps DEF Launch
  <1>4. CASE /\ mem[w].exec = 0 /\ ~Admissible(w)
             /\ Stores(w, [disk[w] EXCEPT !.status = "ended"], left)
    BY <1>4, RefusedSteps DEF Launch
  <1> QED BY <1>2, <1>3, <1>4 DEF Launch

LEMMA ContinueSteps ==
  ASSUME WorkersAssumption, WorkersInv, NEW w \in Worker, Continue(w) PROVE Steps(w)
PROOF
  <1> PICK now \in BOOLEAN :
        Stores(w, [Begun(disk[w]) EXCEPT !.status = IF now THEN "running" ELSE "queued"],
                  [Begins(mem[w], disk[w].gen + 1, now) EXCEPT
                     !.line = ~now, !.engine = IF now THEN "setup" ELSE "off"])
    BY DEF Continue
  <1>1. mem[w] \in Memory
    BY KnownOf DEF Known
  <1>2. [Begins(mem[w], disk[w].gen + 1, now) EXCEPT
           !.line = ~now, !.engine = IF now THEN "setup" ELSE "off"]
          = [mem[w] EXCEPT !.line = ~now, !.exec = disk[w].gen + 1, !.admitted = now, !.done = 0,
                           !.engine = IF now THEN "setup" ELSE "off"]
    BY <1>1 DEF Memory, Begins
  <1>3. (IF now THEN "running" ELSE "queued") \in {"running", "queued"}
    OBVIOUS
  <1> QED BY <1>2, <1>3, BegunSteps DEF Continue

LEMMA ProvisionSteps ==
  ASSUME WorkersInv, NEW w \in Worker, Provision(w) PROVE Steps(w)
  BY MakingSteps, MadeSteps, ClosingSteps DEF Provision

LEMMA SetupFailsSteps ==
  ASSUME WorkersInv, NEW w \in Worker, SetupFails(w) PROVE Steps(w)
  BY ClosingSteps DEF SetupFails

LEMMA StartSessionSteps ==
  ASSUME WorkersInv, NEW w \in Worker, StartSession(w) PROVE Steps(w)
  BY SessionSteps, ClosingSteps DEF StartSession

LEMMA EndSessionSteps ==
  ASSUME WorkersInv, NEW w \in Worker, EndSession(w) PROVE Steps(w)
  BY SessionEnds DEF EndSession

LEMMA FinishSteps ==
  ASSUME WorkersAssumption, WorkersInv, NEW w \in Worker, Finish(w) PROVE Steps(w)
  BY FinishedSteps DEF Finish

LEMMA DestroySteps ==
  ASSUME WorkersInv, NEW w \in Worker, Destroy(w) \/ Retry(w) PROVE Steps(w)
PROOF
  <1>1. disk[w].status # "absent"
    BY KnownOf DEF Known, WorkerOK, Destroy, Retry
  <1>2. Attempt(w) /\ UNCHANGED os
    BY DEF Destroy, Retry, Attempt
  <1> QED BY <1>1, <1>2, AttemptSteps

LEMMA ReapSteps ==
  ASSUME WorkersAssumption, WorkersInv, NEW w \in Worker, Reap(w) PROVE Steps(w)
PROOF
  <1> DEFINE survivors == Holders(w) \ {"session", "group"}
             proven    == mem[w].done # 0 \/ (Orphaned(w) /\ survivors = {})
             judge     == [mem[w] EXCEPT !.attempt = "judging"]
  <1>1. Known(w)
    BY KnownOf
  <1>2. /\ mem[w].attempt = "reaping"
        /\ os' = IF Orphaned(w)
                 THEN [os EXCEPT ![w].session = FALSE, ![w].stray = IF @ = "group" THEN "none" ELSE @]
                 ELSE os
    BY DEF Reap
  <1>3. CASE proven /\ Stores(w, [disk[w] EXCEPT !.phase = "complete"], [judge EXCEPT !.done = 0])
    <2>1. disk' = [disk EXCEPT ![w].phase = IF TRUE THEN "complete" ELSE @]
      BY <1>3 DEF Stores
    <2>2. mem' = [mem EXCEPT ![w].attempt = "judging", ![w].done = IF TRUE THEN 0 ELSE @]
      BY <1>1, <1>3 DEF Stores, WorkersInv, Typed, Memory
    <2> QED BY <1>2, <1>3, <2>1, <2>2, ReapedSteps
  <1>4. CASE Recalls(w, judge)
    <2>1. disk' = [disk EXCEPT ![w].phase = IF FALSE THEN "complete" ELSE @]
      BY <1>4 DEF Recalls, WorkersInv, Typed, Record
    <2>2. mem' = [mem EXCEPT ![w].attempt = "judging", ![w].done = IF FALSE THEN 0 ELSE @]
      BY <1>1, <1>4 DEF Recalls, WorkersInv, Typed, Memory
    <2> QED BY <1>2, <2>1, <2>2, ReapedSteps
  <1> QED BY <1>3, <1>4 DEF Reap

LEMMA JudgeSteps ==
  ASSUME WorkersInv, NEW w \in Worker, Judge(w) PROVE Steps(w)
PROOF
  <1>1. CASE mem[w].exec # 0 \/ disk[w].phase # "complete"
    <2>1. (Orphaned(w) /\ Holders(w) # {}) \in BOOLEAN
      BY DEF Orphaned
    <2> QED BY <1>1, <2>1, FailsSteps DEF Judge
  <1>2. CASE mem[w].exec = 0 /\ disk[w].phase = "complete"
    BY <1>2, ProvenSteps DEF Judge
  <1> QED BY <1>1, <1>2 DEF Judge

LEMMA KeepSteps ==
  ASSUME WorkersInv, NEW w \in Worker, Keep(w) PROVE Steps(w)
  BY KeptSteps, FailsSteps DEF Keep

LEMMA RemoveSteps ==
  ASSUME WorkersInv, NEW w \in Worker, Remove(w) PROVE Steps(w)
PROOF
  <1>1. mem[w].attempt = "removing" /\ UNCHANGED os
    BY DEF Remove
  <1>2. \/ Fails(w, FALSE)
        \/ Fails(w, TRUE)
        \/ /\ disk[w].tree = "ready" /\ Unheld(w)
           /\ Recalls(w, [mem[w] EXCEPT !.attempt = "git"])
        \/ disk[w].tree \notin {"bare", "ready"} /\ Done(w)
    BY DEF Remove
  <1> QED BY <1>1, <1>2, FailsSteps, ToGitSteps, DoneSteps

LEMMA LeaveSteps ==
  ASSUME WorkersInv, NEW w \in Worker, Leave(w) PROVE Steps(w)
  BY SessionLeaves, StrayLeaves DEF Leave

LEMMA WorksSteps ==
  ASSUME WorkersAssumption, WorkersInv, NEW w \in Worker, Works(w) PROVE Steps(w)
  BY SpawnSteps, LaunchSteps, ContinueSteps, StopSteps, SetupFailsSteps, EndSessionSteps,
     SettleOrphanSteps, CollectSteps, DestroySteps, ProvisionSteps, WriteReceiptSteps,
     StartSessionSteps, FinishSteps, WaitSteps, ReapSteps, JudgeSteps, KeepSteps, RemoveSteps,
     GitRemovesSteps
     DEF Works, Engine, Cleanup

-----------------------------------------------------------------------------
(* The invariants.  A charged worker is outstanding and whoever holds      *)
(* resources is charged, so the receipts that may still hold something     *)
(* never outnumber the capacity.                                           *)
LEMMA ChargedSets ==
  ASSUME WorkersInv
  PROVE  /\ Charged \subseteq Outstanding
         /\ {w \in Worker : HoldsResources(w)} \subseteq Charged
PROOF
  <1>1. ASSUME NEW w \in Worker, w \in Charged PROVE w \in Outstanding
    BY <1>1, KnownOf DEF Known, WorkerOK, Charged, Spent, Outstanding, Released
  <1>2. ASSUME NEW w \in Worker, HoldsResources(w) PROVE w \in Charged
    BY <1>2, KnownOf DEF Known, WorkerOK, Charged, Spent, HoldsResources
  <1> QED BY <1>1, <1>2 DEF Charged

LEMMA FiniteWorkers ==
  ASSUME WorkersAssumption, NEW S \in SUBSET Worker
  PROVE  IsFiniteSet(S) /\ Cardinality(S) \in Nat
  BY FS_Subset, FS_CardinalityType DEF WorkersAssumption

WorkersAndCharges == WorkersInv /\ ChargeInv

LEMMA StepsInv ==
  ASSUME WorkersAssumption, WorkersAndCharges, NEW w \in Worker, Steps(w)
  PROVE  WorkersAndCharges'
PROOF
  <1>1. Sound'
    BY DEF WorkersAndCharges, WorkersInv, Sound, Steps
  <1>2. ChargeInv'
    <2>1. \A x \in Worker \ {w} : x \in Charged' => x \in Charged
      BY DEF Steps, Charged
    <2>2. Charged \in SUBSET Worker /\ Charged' \in SUBSET Worker /\ Outstanding \in SUBSET Worker
      BY DEF Charged, Outstanding
    <2>3. /\ IsFiniteSet(Charged) /\ Cardinality(Charged) \in Nat /\ Cardinality(Charged') \in Nat
          /\ IsFiniteSet(Outstanding) /\ Cardinality(Outstanding) \in Nat /\ Capacity \in Nat
      BY <2>2, FiniteWorkers DEF WorkersAssumption
    <2>4. CASE w \in Charged' => w \in Charged
      <3>1. Charged' \subseteq Charged
        BY <2>1, <2>2, <2>4
      <3>2. Cardinality(Charged') <= Cardinality(Charged)
        BY <2>3, <3>1, FS_Subset
      <3> QED BY <2>3, <3>2 DEF WorkersAndCharges, ChargeInv
    <2>5. CASE Room
      <3>1. Charged' \subseteq Charged \cup {w}
        BY <2>1, <2>2
      <3>2. Cardinality(Charged) <= Cardinality(Outstanding)
        BY <2>3, ChargedSets, FS_Subset DEF WorkersAndCharges
      <3>3. IsFiniteSet(Charged \cup {w}) /\ Cardinality(Charged \cup {w}) <= Cardinality(Charged) + 1
        BY <2>3, FS_AddElement, SMTT(30)
      <3>4. Cardinality(Charged \cup {w}) \in Nat /\ Cardinality(Charged') <= Cardinality(Charged \cup {w})
        BY <3>1, <3>3, FS_Subset, FS_CardinalityType
      <3> QED BY <2>3, <2>5, <3>2, <3>3, <3>4 DEF ChargeInv, Room
    <2> QED BY <2>4, <2>5 DEF Steps
  <1> QED BY <1>1, <1>2 DEF WorkersAndCharges, WorkersInv, Steps

(* A crash and a restart change all workers at once.                       *)
AllStep ==
  /\ Typed' /\ \A w \in Worker : WorkerOK(disk'[w], mem'[w], os'[w])
  /\ Charged' \subseteq Charged

LEMMA AllStepInv ==
  ASSUME WorkersAssumption, WorkersAndCharges, AllStep PROVE WorkersAndCharges'
PROOF
  <1>1. Charged \in SUBSET Worker /\ Charged' \in SUBSET Worker
    BY DEF Charged
  <1>2. Cardinality(Charged') <= Cardinality(Charged)
    BY <1>1, FiniteWorkers, FS_Subset DEF AllStep
  <1>3. Cardinality(Charged) \in Nat /\ Cardinality(Charged') \in Nat /\ Capacity \in Nat
    BY <1>1, FiniteWorkers DEF WorkersAssumption
  <1> QED BY <1>2, <1>3 DEF AllStep, WorkersAndCharges, WorkersInv, Sound, ChargeInv

LEMMA ForgottenIsMemory == ASSUME WorkersAssumption PROVE Forgotten \in Memory
  BY DEF WorkersAssumption, Forgotten, Memory, Engines, Attempts

LEMMA CrashSteps == ASSUME WorkersAssumption, WorkersInv, Crash PROVE AllStep
PROOF
  <1> PICK dying \in SUBSET Worker, removed \in SUBSET Worker :
        /\ removed \subseteq {w \in Worker : mem[w].attempt = "git"}
        /\ os' = [w \in Worker |-> [os[w] EXCEPT !.session = @ /\ w \notin dying]]
        /\ disk' = [w \in Worker |-> [disk[w] EXCEPT !.tree = IF w \in removed THEN "branch" ELSE @]]
    BY DEF Crash
  <1>1. mem' = [w \in Worker |-> Forgotten]
    BY DEF Crash
  <1>2. ASSUME NEW w \in Worker
        PROVE  /\ disk'[w] \in Record /\ os'[w] \in Os /\ WorkerOK(disk'[w], mem'[w], os'[w])
               /\ w \in Charged' => w \in Charged
    <2>1. Known(w)
      BY KnownOf
    <2>2. disk'[w] \in Record /\ os'[w] \in Os
      BY <2>1 DEF Known, Record, Os
    <2>3. WorkerOK(disk'[w], mem'[w], os'[w])
      BY <1>1, <2>1, ZenonT(60) DEF Known, Record, Os, WorkerOK, Forgotten
    <2>4. w \in Charged' => w \in Charged
      BY <1>1, <2>1 DEF Known, Record, Os, WorkerOK, Forgotten, Charged, Spent
    <2> QED BY <2>2, <2>3, <2>4
  <1>3. Typed'
    BY <1>1, <1>2, ForgottenIsMemory DEF Typed
  <1> QED BY <1>2, <1>3 DEF AllStep, Charged

LEMMA RecoveredFacts ==
  ASSUME WorkersAssumption, WorkersInv, NEW w \in Worker, NEW requeued \in BOOLEAN
  PROVE  LET d == Recovered(w, requeued).d
             m == Recovered(w, requeued).m
         IN /\ d \in Record /\ m \in Memory /\ WorkerOK(d, m, os[w])
            /\ d.status = "absent" \/ Spent(d, m) \/ ~(disk[w].status = "absent" \/ Spent(disk[w], mem[w]))
PROOF
  <1> DEFINE e == IF disk[w].phase = "starting" /\ Holders(w) = {}
                  THEN [disk[w] EXCEPT !.phase = "complete"] ELSE disk[w]
             Goal(d, m) ==
               /\ d \in Record /\ m \in Memory /\ WorkerOK(d, m, os[w])
               /\ d.status = "absent" \/ Spent(d, m) \/ ~(disk[w].status = "absent" \/ Spent(disk[w], mem[w]))
  <1>1. Known(w)
    BY KnownOf
  <1>2. /\ e \in Record /\ WorkerOK(e, Forgotten, os[w])
        /\ e.intent = disk[w].intent /\ e.tree = disk[w].tree /\ e.status = disk[w].status
    BY <1>1 DEF Known, Record, WorkerOK, Forgotten, Holders
  <1>3. Spent(disk[w], mem[w]) => e.intent # "none" /\ Spent(e, Forgotten)
    BY <1>2 DEF Spent, Forgotten
  <1>4. Holders(w) = {} => ~os[w].session /\ os[w].stray = "none"
    BY DEF Holders
  <1> HIDE DEF e
  <1>5. CASE e.intent # "none"
    <2> DEFINE m == [Forgotten EXCEPT !.timer = ~Released(w)]
    <2>1. m \in Memory
      BY ForgottenIsMemory DEF Memory, Released
    <2>2. WorkerOK(e, m, os[w])
      BY <1>2, <1>5 DEF WorkerOK, Forgotten
    <2>3. Goal(e, m)
      BY <1>2, <1>3, <2>1, <2>2 DEF Spent, Forgotten
    <2>4. Recovered(w, requeued) = [d |-> e, m |-> m]
      BY <1>5 DEF Recovered, e
    <2> HIDE DEF m, Goal
    <2>5. Goal(Recovered(w, requeued).d, Recovered(w, requeued).m)
      BY <2>3, <2>4
    <2> QED BY <2>5 DEF Goal
  <1>6. CASE e.intent = "none" /\ (e.status = "queued" \/ (e.status = "running" /\ requeued))
    <2> DEFINE d == [e EXCEPT !.status = "queued"]
               m == [Forgotten EXCEPT !.line = TRUE]
    <2>1. d \in Record /\ m \in Memory
      BY <1>2, ForgottenIsMemory DEF Record, Memory
    <2>2. WorkerOK(d, m, os[w])
      BY <1>2, <1>6 DEF Record, WorkerOK, Forgotten
    <2>3. Goal(d, m)
      BY <1>2, <1>3, <1>6, <2>1, <2>2
    <2>4. Recovered(w, requeued) = [d |-> d, m |-> m]
      BY <1>6 DEF Recovered, e
    <2> HIDE DEF d, m, Goal
    <2>5. Goal(Recovered(w, requeued).d, Recovered(w, requeued).m)
      BY <2>3, <2>4
    <2> QED BY <2>5 DEF Goal
  <1>7. CASE /\ e.intent = "none" /\ e.status = "running" /\ ~requeued
             /\ e.phase = "complete" /\ Holders(w) = {} /\ e.gen < MaxGen
    <2> DEFINE d == Begun([e EXCEPT !.status = "queued"])
               m == Begins([Forgotten EXCEPT !.line = TRUE], e.gen + 1, FALSE)
    <2>1. e.gen + 1 \in 0..MaxGen /\ e.gen + 1 # 0
      BY <1>2, <1>7 DEF Record, WorkersAssumption
    <2>2. d \in Record /\ m \in Memory
      <3>1. d \in Record
        BY <1>2, <2>1 DEF Record, Begun
      <3>2. 0 \in 0..MaxGen
        BY DEF WorkersAssumption
      <3>3. m \in Memory
        BY <2>1, <3>2, ForgottenIsMemory DEF Memory, Begins, Engines
      <3> QED BY <3>1, <3>3
    <2>3. WorkerOK(d, m, os[w])
      BY <1>2, <1>4, <1>7, <2>1 DEF Record, WorkerOK, Forgotten, Begun, Begins
    <2>4. Goal(d, m)
      BY <1>2, <1>3, <1>7, <2>2, <2>3
    <2>5. Recovered(w, requeued) = [d |-> d, m |-> m]
      BY <1>7 DEF Recovered, e
    <2> HIDE DEF d, m, Goal
    <2>6. Goal(Recovered(w, requeued).d, Recovered(w, requeued).m)
      BY <2>4, <2>5
    <2> QED BY <2>6 DEF Goal
  <1>8. CASE /\ e.intent = "none" /\ e.status = "running" /\ ~requeued
             /\ ~(e.phase = "complete" /\ Holders(w) = {} /\ e.gen < MaxGen)
    <2> DEFINE d == [e EXCEPT !.status = "ended"]
    <2>1. d \in Record
      BY <1>2 DEF Record
    <2>2. WorkerOK(d, Forgotten, os[w])
      BY <1>2, <1>8 DEF Record, WorkerOK, Forgotten
    <2>3. Goal(d, Forgotten)
      BY <1>2, <1>3, <1>8, <2>1, <2>2, ForgottenIsMemory
    <2>4. Recovered(w, requeued) = [d |-> d, m |-> Forgotten]
      BY <1>8 DEF Recovered, e
    <2> HIDE DEF d, Goal
    <2>5. Goal(Recovered(w, requeued).d, Recovered(w, requeued).m)
      BY <2>3, <2>4
    <2> QED BY <2>5 DEF Goal
  <1>9. CASE e.intent = "none" /\ e.status \notin {"queued", "running"}
    <2>1. Goal(e, Forgotten)
      BY <1>2, <1>3, <1>9, ForgottenIsMemory
    <2>2. Recovered(w, requeued) = [d |-> e, m |-> Forgotten]
      BY <1>9 DEF Recovered, e
    <2> HIDE DEF Goal
    <2>3. Goal(Recovered(w, requeued).d, Recovered(w, requeued).m)
      BY <2>1, <2>2
    <2> QED BY <2>3 DEF Goal
  <1> QED BY <1>5, <1>6, <1>7, <1>8, <1>9

LEMMA RestartSteps == ASSUME WorkersAssumption, WorkersInv, Restart PROVE AllStep
PROOF
  <1> PICK requeued \in SUBSET Worker :
        /\ disk' = [w \in Worker |-> Recovered(w, w \in requeued).d]
        /\ mem' = [w \in Worker |-> Recovered(w, w \in requeued).m]
    BY DEF Restart
  <1>1. UNCHANGED os
    BY DEF Restart
  <1>2. ASSUME NEW w \in Worker
        PROVE  /\ disk'[w] \in Record /\ mem'[w] \in Memory /\ WorkerOK(disk'[w], mem'[w], os[w])
               /\ \/ disk'[w].status = "absent" \/ Spent(disk'[w], mem'[w])
                  \/ ~(disk[w].status = "absent" \/ Spent(disk[w], mem[w]))
    <2>1. CASE w \in requeued
      <3>1. disk'[w] = Recovered(w, TRUE).d /\ mem'[w] = Recovered(w, TRUE).m
        BY <2>1
      <3> QED BY <3>1, RecoveredFacts
    <2>2. CASE w \notin requeued
      <3>1. disk'[w] = Recovered(w, FALSE).d /\ mem'[w] = Recovered(w, FALSE).m
        <4>1. (w \in requeued) = FALSE
          BY <2>2
        <4>2. /\ disk'[w] = Recovered(w, w \in requeued).d
              /\ mem'[w] = Recovered(w, w \in requeued).m
          OBVIOUS
        <4> QED BY <4>1, <4>2, Zenon
      <3> QED BY <3>1, RecoveredFacts
    <2> QED BY <2>1, <2>2
  <1>3. Typed'
    BY <1>1, <1>2 DEF Typed, WorkersInv
  <1>4. Charged' \subseteq Charged
    BY <1>2 DEF Charged
  <1> QED BY <1>1, <1>2, <1>3, <1>4 DEF AllStep

LEMMA InitWorkers == ASSUME WorkersAssumption PROVE Init => WorkersAndCharges
PROOF
  <1> SUFFICES ASSUME Init PROVE WorkersAndCharges
    OBVIOUS
  <1>1. NoRecord \in Record
    BY DEF WorkersAssumption, NoRecord, Record
  <1>2. Typed
    BY <1>1, ForgottenIsMemory DEF Init, Typed, Os, Strays
  <1>3. Sound
    BY DEF Init, Sound, WorkerOK, NoRecord, Forgotten
  <1>4. Charged = {}
    BY DEF Init, Charged, NoRecord
  <1>5. ChargeInv
    BY <1>4, FS_EmptySet DEF ChargeInv, WorkersAssumption
  <1> QED BY <1>2, <1>3, <1>5 DEF WorkersAndCharges, WorkersInv

LEMMA NextWorkers ==
  ASSUME WorkersAssumption PROVE WorkersAndCharges /\ [Next]_vars => WorkersAndCharges'
PROOF
  <1> SUFFICES ASSUME WorkersAndCharges, [Next]_vars PROVE WorkersAndCharges'
    OBVIOUS
  <1>1. WorkersInv
    BY DEF WorkersAndCharges
  <1>2. CASE \E w \in Worker : Works(w) \/ ComeBy(w) \/ Leave(w)
    <2> PICK w \in Worker : Works(w) \/ ComeBy(w) \/ Leave(w)
      BY <1>2
    <2>1. Steps(w)
      BY <1>1, WorksSteps, ComeBySteps, LeaveSteps
    <2> QED BY <2>1, StepsInv
  <1>3. CASE Crash \/ Restart
    BY <1>1, <1>3, CrashSteps, RestartSteps, AllStepInv
  <1>4. CASE UNCHANGED vars
    BY <1>4 DEF vars, WorkersAndCharges, WorkersInv, Typed, Sound, ChargeInv, Charged
  <1> QED BY <1>2, <1>3, <1>4 DEF Next

(* The record, the checkpoint, the memory of the cockpit and the processes *)
(* of a worker agree in every state, whatever crashed, failed or was asked *)
(* for again, and the receipts that may hold something fit the capacity.   *)
THEOREM WorkersAgree == ASSUME WorkersAssumption PROVE Spec => []WorkersAndCharges
  BY InitWorkers, NextWorkers, PTL DEF Spec

(* removePresent() never takes a worktree from under the worker's session, *)
(* what the session left behind or a process that was there before it.     *)
THEOREM NobodyEverLosesAWorktree ==
  ASSUME WorkersAssumption PROVE Spec => []NobodyLosesAWorktree
PROOF
  <1>1. WorkersAndCharges => NobodyLosesAWorktree
    BY KnownOf DEF WorkersAndCharges, Known, WorkerOK, NobodyLosesAWorktree
  <1> QED BY <1>1, WorkersAgree, PTL

(* cleanWorkspace() keeps the last generation's result before anything is  *)
(* removed, and no crash, retry or restart separates the two.              *)
THEOREM EvidenceAlwaysOutlives ==
  ASSUME WorkersAssumption PROVE Spec => []EvidenceOutlivesTheWorktree
PROOF
  <1>1. WorkersAndCharges => EvidenceOutlivesTheWorktree
    BY KnownOf DEF WorkersAndCharges, Known, WorkerOK, EvidenceOutlivesTheWorktree
  <1> QED BY <1>1, WorkersAgree, PTL

(* workerCapacity() counts receipts, and that bounds what workers hold: no *)
(* continuation, recovery or repeated destroy of a released worker brings  *)
(* a resource back.                                                        *)
THEOREM CapacityAlwaysBounds ==
  ASSUME WorkersAssumption PROVE Spec => []CapacityBoundsResources
PROOF
  <1>1. WorkersAndCharges => CapacityBoundsResources
    <2> SUFFICES ASSUME WorkersAndCharges PROVE CapacityBoundsResources
      OBVIOUS
    <2> DEFINE H == {w \in Worker : HoldsResources(w)}
    <2>1. H \subseteq Charged /\ Charged \in SUBSET Worker /\ H \in SUBSET Worker
      BY ChargedSets DEF WorkersAndCharges, Charged
    <2>2. /\ Cardinality(H) \in Nat /\ Cardinality(Charged) \in Nat /\ IsFiniteSet(Charged)
          /\ Capacity \in Nat
      BY <2>1, FiniteWorkers DEF WorkersAssumption
    <2> HIDE DEF H
    <2>3. Cardinality(H) <= Cardinality(Charged)
      BY <2>1, <2>2, FS_Subset
    <2>4. Cardinality(H) <= Capacity
      BY <2>2, <2>3 DEF WorkersAndCharges, ChargeInv
    <2> QED BY <2>4 DEF CapacityBoundsResources, H
  <1> QED BY <1>1, WorkersAgree, PTL
=============================================================================
