----------------------------- MODULE HomeStore ------------------------------
(***************************************************************************)
(* home/store.ts and home/version-log.ts: one file of the home directory,  *)
(* the journal kept beside it in .versions/<file>/, and the operations of  *)
(* HomeStore on both.                                                      *)
(*                                                                         *)
(* HomeLock lets one operation at a time touch the journal; here that is   *)
(* the one transaction tx.  Two things ignore the lock: a crash, which may *)
(* come between any two durable writes, and an outside writer (an editor,  *)
(* an older version) that replaces or deletes the live file at any moment. *)
(* Every durable write is therefore an action of its own.                  *)
(*                                                                         *)
(* A content stands for its bytes and for their digest.  Rotating backups  *)
(* and config.json.bak are auxiliary and are left out: what an operation   *)
(* reads from them is any content.                                         *)
(***************************************************************************)
EXTENDS Integers, FiniteSets

CONSTANTS
  Full,         \* contents of a registry with entries
  Empty,        \* contents of a registry without entries
  Opaque,       \* contents of no registry: any other file, or broken JSON
  Writable,     \* what callers write: a registry is never deleted, a grant or a lock is
  Absent,       \* the file does not exist; its digest is null
  None,         \* no record, no argument
  MaxOps,       \* bound: operations begun
  MaxOutside    \* bound: outside writes

ASSUME ContentAssumption ==
  /\ Full \cap Empty = {} /\ Full \cap Opaque = {} /\ Empty \cap Opaque = {}
  /\ {Absent, None} \cap (Full \cup Empty \cup Opaque) = {}
  /\ Absent # None
  /\ Writable \subseteq Full \cup Empty \cup Opaque \cup {Absent}
ASSUME BoundAssumption == MaxOps \in Nat /\ MaxOutside \in Nat

Content == Full \cup Empty \cup Opaque
Bytes   == Content \cup {Absent}
Time    == Nat   \* the values of detectedAt

VARIABLES
  live,      \* the file
  head,      \* HEAD: the committed content
  pending,   \* PENDING: the content being written
  outside,   \* OUTSIDE: [restore, observed, at]
  reset,     \* RESET: [restore, observed, at, pending]
  accepted,  \* ACCEPTED: [content, empty]
  stored,    \* the contents kept under their digest
  at,        \* the next step of the operation in progress
  tx,        \* what the operation was called with and what it has read
  clock,     \* counts the incidents, to tell their detectedAt apart
  ops,       \* operations begun
  outsiders, \* outside writes so far
  raced      \* an outside write came since the last operation began

journal == <<head, pending, outside, reset, accepted, stored>>
history == <<ops, outsiders, raced>>
vars == <<live, journal, at, tx, clock, history>>

Incident == [restore : Bytes, observed : Bytes, at : Time]
Reset    == [restore : Bytes, observed : Bytes, at : Time, pending : BOOLEAN]
Acceptance == [content : Bytes, empty : BOOLEAN]

\* null is told apart from every record
ASSUME RecordAssumption == None \notin Incident \cup Reset

Ops == {"read", "demand", "write", "create", "rollback", "restore", "accept"}

Steps ==
  {"idle", "inspect", "seed", "settle", "decide", "promote", "flag", "store", "pend", "live",
   "head", "clear", "exists", "again", "accepted", "unflag", "unreset"}

(* The locals of an operation: what it was called with (next, base, named) *)
(* and what it has read and decided (prev, keep, keepReset, twice).        *)
Transaction ==
  [op : Ops, next : Bytes \cup {None}, base : Bytes \cup {None},
   named : Time \cup {None}, prev : Bytes, keep : BOOLEAN, keepReset : BOOLEAN, twice : BOOLEAN]
NoCall ==
  [op |-> "read", next |-> None, base |-> None, named |-> None, prev |-> Absent,
   keep |-> FALSE, keepReset |-> FALSE, twice |-> FALSE]

TypeOK ==
  /\ live \in Bytes
  /\ head \in Bytes \cup {None}
  /\ pending \in Bytes \cup {None}
  /\ outside \in Incident \cup {None}
  /\ reset \in Reset \cup {None}
  /\ accepted \in Acceptance \cup {None}
  /\ stored \subseteq Content
  /\ at \in Steps
  /\ tx \in Transaction
  /\ clock \in Time
  /\ ops \in 0 .. MaxOps
  /\ outsiders \in 0 .. MaxOutside
  /\ raced \in BOOLEAN

(* An installed home: the file is there or not, and has no journal yet.    *)
Init ==
  /\ live \in Bytes
  /\ head = None /\ pending = None
  /\ outside = None /\ reset = None /\ accepted = None
  /\ stored = {}
  /\ at = "idle" /\ tx = NoCall
  /\ clock = 0 /\ ops = 0 /\ outsiders = 0
  /\ raced = FALSE

-----------------------------------------------------------------------------

Goto(step) == at' = step /\ tx' = tx
Done == at' = "idle" /\ tx' = NoCall

Pin(bytes) == IF bytes = Absent THEN stored ELSE stored \cup {bytes}

(* VersionLog.reset: a pending RESET counts once HEAD has its content.     *)
Promotable == reset # None /\ reset.pending /\ head = reset.observed
Effective  == reset # None /\ (~reset.pending \/ head = reset.observed)
Promoted   == IF Promotable THEN [reset EXCEPT !.pending = FALSE] ELSE reset

\* VersionLog.accepted
Accepted(bytes) ==
  accepted # None /\ (accepted.content = bytes \/ (accepted.empty /\ bytes \in Empty))

-----------------------------------------------------------------------------

(* An operation begins when it has the lock and has read the live file.    *)
Begin(op, next, base, named) ==
  /\ at = "idle"
  /\ ops < MaxOps
  /\ ops' = ops + 1
  /\ at' = "inspect"
  /\ tx' = [op |-> op, next |-> next, base |-> base, named |-> named,
            prev |-> live, keep |-> FALSE, keepReset |-> FALSE, twice |-> FALSE]
  /\ raced' = FALSE
  /\ UNCHANGED <<live, journal, clock, outsiders>>

Call ==
  \/ \E op \in {"read", "demand"} : Begin(op, None, None, None)
  \/ \E next \in Writable : \E base \in Bytes \cup {None} : Begin("write", next, base, None)
  \/ \E next \in Writable \ {Absent} : Begin("create", next, None, None)
  \/ \E next \in Content : Begin("rollback", next, None, None)
  \/ \E op \in {"restore", "accept"}, named \in 1 .. clock \cup {None} : Begin(op, None, None, named)

(* VersionLog.inspect.  A file without HEAD is seeded as it is.            *)
InspectUnseeded ==
  /\ at = "inspect"
  /\ head = None
  /\ stored' = Pin(tx.prev)
  /\ Goto("seed")
  /\ UNCHANGED <<live, head, pending, outside, reset, accepted, clock, history>>

Seed ==
  /\ at = "seed"
  /\ head' = tx.prev
  /\ Goto("decide")
  /\ UNCHANGED <<live, pending, outside, reset, accepted, stored, clock, history>>

\* Mutant of InspectInterrupted: the new bytes are found, and HEAD not advanced
InspectForgetful ==
  /\ at = "inspect"
  /\ head # None
  /\ pending # None
  /\ tx.prev \in {pending, head}
  /\ Goto("settle")
  /\ UNCHANGED <<live, journal, clock, history>>

(* A crash after PENDING left either the new bytes or the old ones: both   *)
(* are ours, and the interrupted replacement is finished or forgotten.     *)
InspectInterrupted ==
  /\ at = "inspect"
  /\ head # None
  /\ pending # None
  /\ tx.prev \in {pending, head}
  /\ head' = IF tx.prev = pending THEN pending ELSE head
  /\ Goto("settle")
  /\ UNCHANGED <<live, pending, outside, reset, accepted, stored, clock, history>>

Settle ==
  /\ at = "settle"
  /\ pending' = None
  /\ Goto("decide")
  /\ UNCHANGED <<live, head, outside, reset, accepted, stored, clock, history>>

\* Foreign bytes: the first incident is kept until it is resolved
InspectForeign ==
  /\ at = "inspect"
  /\ head # None
  /\ tx.prev \notin {pending, head}
  /\ IF outside = None
       THEN /\ outside' = [restore |-> head, observed |-> tx.prev, at |-> clock + 1]
            /\ clock' = clock + 1
       ELSE UNCHANGED <<outside, clock>>
  /\ Goto("decide")
  /\ UNCHANGED <<live, head, pending, reset, accepted, stored, history>>

InspectCommitted ==
  /\ at = "inspect"
  /\ head # None
  /\ pending = None
  /\ tx.prev = head
  /\ Goto("decide")
  /\ UNCHANGED <<live, journal, clock, history>>

-----------------------------------------------------------------------------

(* read and outsideWrite only inspect.                                     *)
EndRead ==
  /\ at = "decide"
  /\ tx.op = "read"
  /\ Done
  /\ UNCHANGED <<live, journal, clock, history>>

(* recovery: the cockpit asks whether the file has an incident.  An empty  *)
(* registry that nobody accepted, beside a backup with entries, is one.    *)
DecideDemand ==
  /\ at = "decide"
  /\ tx.op = "demand"
  /\ LET suspicious == outside = None /\ tx.prev \in Empty /\ ~Effective /\ ~Accepted(tx.prev)
     IN  \/ /\ suspicious
            /\ \E newest \in Full : tx' = [tx EXCEPT !.next = newest] /\ stored' = Pin(newest)
            /\ at' = "flag"
            /\ reset' = reset
         \/ /\ reset' = IF outside = None THEN Promoted ELSE reset
            /\ Done
            /\ stored' = stored
  /\ UNCHANGED <<live, head, pending, outside, accepted, clock, history>>

(* checkOutside: the registry loader may replace a file that was deleted,  *)
(* when the base it recovered is the pinned version.                       *)
Healing == outside # None /\ tx.prev = Absent /\ tx.base = outside.restore

Refuse ==
  /\ at = "decide"
  /\ tx.op \in {"write", "create"}
  /\ outside # None
  /\ ~(tx.op = "write" /\ Healing)
  /\ Done
  /\ UNCHANGED <<live, journal, clock, history>>

\* Mutant of DecideWrite: a reset committed before a crash is not finished first
DecideWriteUnpromoted ==
  /\ at = "decide"
  /\ tx.op = "write"
  /\ outside = None \/ Healing
  /\ LET empties == tx.prev \in Full /\ tx.next \in Empty /\ ~Effective
     IN  /\ at' = IF empties THEN "flag" ELSE "store"
         /\ tx' = tx
         /\ stored' = IF empties THEN Pin(tx.prev) ELSE stored
  /\ UNCHANGED <<live, head, pending, outside, reset, accepted, clock, history>>

(* A write that empties a registry pins the old one before it replaces it. *)
DecideWrite ==
  /\ at = "decide"
  /\ tx.op = "write"
  /\ outside = None \/ Healing
  /\ LET empties == tx.prev \in Full /\ tx.next \in Empty /\ ~Effective
     IN  /\ at' = IF empties THEN "flag" ELSE "store"
         /\ tx' = [tx EXCEPT !.keep = Healing \/ (~Effective /\ tx.prev \in Empty /\ Accepted(tx.prev))]
         /\ stored' = IF empties THEN Pin(tx.prev) ELSE stored
  /\ reset' = Promoted
  /\ UNCHANGED <<live, head, pending, outside, accepted, clock, history>>

\* Mutant of Flag: the reset counts before the registry is replaced
FlagAtOnce ==
  /\ at = "flag"
  /\ clock' = clock + 1
  /\ tx.op = "write"
  /\ reset' = [restore |-> tx.prev, observed |-> tx.next, at |-> clock + 1, pending |-> FALSE]
  /\ Goto("store")
  /\ UNCHANGED <<live, head, pending, outside, accepted, stored, history>>

\* VersionLog.flagReset, by a write that empties or by a demand that finds empty
Flag ==
  /\ at = "flag"
  /\ clock' = clock + 1
  /\ \/ /\ tx.op = "write"
        /\ reset' = [restore |-> tx.prev, observed |-> tx.next, at |-> clock + 1, pending |-> TRUE]
        /\ Goto("store")
     \/ /\ tx.op = "demand"
        /\ reset' = [restore |-> tx.next, observed |-> tx.prev, at |-> clock + 1, pending |-> FALSE]
        /\ Done
  /\ UNCHANGED <<live, head, pending, outside, accepted, stored, history>>

DecideCreate ==
  /\ at = "decide"
  /\ tx.op = "create"
  /\ outside = None
  /\ Goto("store")
  /\ UNCHANGED <<live, journal, clock, history>>

\* restoreFile called from the command line with an older backup
DecideRollback ==
  /\ at = "decide"
  /\ tx.op = "rollback" \/ (tx.op = "restore" /\ tx.twice)
  /\ Goto("store")
  /\ UNCHANGED <<live, journal, clock, history>>

\* Mutant of Named: the caller's detectedAt is not compared
NamedAnyhow(incident) == TRUE

Named(incident) == tx.named \in {None, incident.at}

(* restoreRecovery and acceptRecovery act on the current incident, and     *)
(* only if it is the one the caller has seen.                              *)
DecideRecovery ==
  /\ at = "decide"
  /\ tx.op \in {"restore", "accept"}
  /\ ~tx.twice
  /\ reset' = IF tx.op = "restore" \/ outside = None THEN Promoted ELSE reset
  /\ LET flag == IF outside # None THEN outside ELSE reset
     IN  IF (outside # None \/ Effective) /\ Named(flag)
           THEN /\ at' = "again"
                /\ tx' = [tx EXCEPT !.next = IF tx.op = "restore" THEN flag.restore ELSE None,
                                    !.keepReset = tx.op = "restore" /\ outside # None /\ Effective]
           ELSE Done
  /\ UNCHANGED <<live, head, pending, outside, accepted, stored, clock, history>>

\* restoreFile and acceptOutsideWrite read and inspect the file once more
ReadAgain ==
  /\ at = "again"
  /\ at' = "inspect"
  /\ tx' = [tx EXCEPT !.prev = live, !.twice = TRUE]
  /\ UNCHANGED <<live, journal, clock, history>>

\* VersionLog.accept reads the file a third time, and commits what it finds
Adopt ==
  /\ at = "decide"
  /\ tx.op = "accept"
  /\ tx.twice
  /\ stored' = Pin(live)
  /\ at' = "head"
  /\ tx' = [tx EXCEPT !.next = live]
  /\ UNCHANGED <<live, head, pending, outside, reset, accepted, clock, history>>

-----------------------------------------------------------------------------

\* Mutant of Store: PENDING names bytes that were never kept
StoreNothing ==
  /\ at = "store"
  /\ Goto("pend")
  /\ UNCHANGED <<live, journal, clock, history>>

(* VersionLog.replace and createExclusive: durable bytes, PENDING, the     *)
(* file, HEAD, PENDING away.                                               *)
Store ==
  /\ at = "store"
  /\ stored' = Pin(tx.next)
  /\ Goto("pend")
  /\ UNCHANGED <<live, head, pending, outside, reset, accepted, clock, history>>

Pend ==
  /\ at = "pend"
  /\ pending' = tx.next
  /\ Goto("live")
  /\ UNCHANGED <<live, head, outside, reset, accepted, stored, clock, history>>

ReplaceLive ==
  /\ at = "live"
  /\ tx.op # "create"
  /\ live' = tx.next
  /\ Goto("head")
  /\ UNCHANGED <<journal, clock, history>>

\* Mutant of LinkLive: the staged file is renamed over whatever is there
LinkOverwrites ==
  /\ at = "live"
  /\ tx.op = "create"
  /\ live' = tx.next
  /\ Goto("head")
  /\ UNCHANGED <<journal, clock, history>>

\* The hard link refuses an existing file
LinkLive ==
  /\ at = "live"
  /\ tx.op = "create"
  /\ IF live = Absent THEN live' = tx.next /\ Goto("head")
                      ELSE live' = live /\ Goto("exists")
  /\ UNCHANGED <<journal, clock, history>>

LinkFailed ==
  /\ at = "exists"
  /\ pending' = None
  /\ Done
  /\ UNCHANGED <<live, head, outside, reset, accepted, stored, clock, history>>

CommitHead ==
  /\ at = "head"
  /\ head' = tx.next
  /\ Goto("clear")
  /\ UNCHANGED <<live, pending, outside, reset, accepted, stored, clock, history>>

ClearPending ==
  /\ at = "clear"
  /\ pending' = None
  /\ CASE tx.op = "create" -> Done
       [] tx.op = "write" -> Goto("promote")
       [] OTHER -> Goto(IF tx.keepReset THEN "unflag" ELSE "accepted")
  /\ UNCHANGED <<live, head, outside, reset, accepted, stored, clock, history>>

\* The second log.reset() of a write: the reset it announced is now durable
PromoteReset ==
  /\ at = "promote"
  /\ reset' = Promoted
  /\ IF tx.keep THEN Goto("accepted") ELSE Done
  /\ UNCHANGED <<live, head, pending, outside, accepted, stored, clock, history>>

(* VersionLog.clearRecovery: acceptance first, then the flags.             *)
RecordAccepted ==
  /\ at = "accepted"
  /\ accepted' = [content |-> tx.next, empty |-> tx.next \in Empty]
  /\ Goto("unflag")
  /\ UNCHANGED <<live, head, pending, outside, reset, stored, clock, history>>

ClearOutside ==
  /\ at = "unflag"
  /\ outside' = None
  /\ IF tx.keepReset THEN Done ELSE Goto("unreset")
  /\ UNCHANGED <<live, head, pending, reset, accepted, stored, clock, history>>

ClearReset ==
  /\ at = "unreset"
  /\ reset' = None
  /\ Done
  /\ UNCHANGED <<live, head, pending, outside, accepted, stored, clock, history>>

-----------------------------------------------------------------------------

(* The process dies, or a write of the operation fails: either way the     *)
(* operation ends where it is, and the lock is free again.                 *)
Crash ==
  /\ at # "idle"
  /\ Done
  /\ UNCHANGED <<live, journal, clock, history>>

Outsider ==
  /\ outsiders < MaxOutside
  /\ outsiders' = outsiders + 1
  /\ raced' = TRUE
  /\ \E bytes \in Bytes \ {live} : live' = bytes
  /\ UNCHANGED <<journal, at, tx, clock, ops>>

Decide ==
  \/ EndRead \/ DecideDemand \/ Refuse \/ DecideWrite \/ DecideCreate
  \/ DecideRollback \/ DecideRecovery \/ Adopt

Inspect ==
  InspectUnseeded \/ Seed \/ InspectInterrupted \/ Settle \/ InspectForeign \/ InspectCommitted

Write ==
  \/ Flag \/ Store \/ Pend \/ ReplaceLive \/ LinkLive \/ LinkFailed
  \/ CommitHead \/ ClearPending \/ PromoteReset
  \/ RecordAccepted \/ ClearOutside \/ ClearReset

Next == Call \/ Inspect \/ Decide \/ ReadAgain \/ Write \/ Crash \/ Outsider

Spec == Init /\ [][Next]_vars

-----------------------------------------------------------------------------

(* Crashes never look like tampering: as long as nobody but HomeStore      *)
(* writes the file, no sequence of operations, interrupted anywhere, makes *)
(* inspect record an OUTSIDE incident.                                     *)
NoFalseAlarm == outsiders = 0 => outside = None

(* Whatever the journal may have to give back is kept under its digest: a  *)
(* restore never finds its pinned version missing.                         *)
PinsAreStored ==
  /\ {head, pending} \subseteq stored \cup {Absent, None}
  /\ outside # None => outside.restore \in stored \cup {Absent}
  /\ reset # None => reset.restore \in stored

(* An ordinary write that is not raced replaces only what HomeStore itself *)
(* committed, or an absent registry by one merged from the pinned version. *)
WritesStartFromHead ==
  (at = "live" /\ tx.op \in {"write", "create"} /\ ~raced) =>
    \/ live = head
    \/ live = Absent /\ outside # None /\ tx.base = outside.restore

(* A creation that is not raced commits only where HomeStore last left no  *)
(* file: it never takes over a lock that HomeStore wrote for another.      *)
CreationsAreExclusive ==
  [][(at = "head" /\ tx.op = "create" /\ head' # head /\ ~raced) => head = Absent]_vars

(* An OUTSIDE incident keeps the version it pinned until an operation that *)
(* means to resolve it has done so: a restore or an accept of this very    *)
(* incident, a rollback by hand, or a healed deletion.  When nobody raced  *)
(* it, the file is then what HEAD says, and after a restore the pinned one.*)
Resolves ==
  /\ at = "unflag"
  /\ tx.op \in {"restore", "accept", "rollback", "write"}
  /\ head = tx.next
  /\ tx.op = "write" => tx.base = outside.restore
  /\ ~raced =>
       /\ live = head
       /\ tx.op \in {"restore", "accept"} => tx.named \in {None, outside.at}
       /\ tx.op = "restore" => head = outside.restore

IncidentsEndOnPurpose ==
  [][outside # None /\ outside' # outside => outside' = None /\ Resolves]_vars
=============================================================================
