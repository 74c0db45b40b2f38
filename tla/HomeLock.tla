------------------------------ MODULE HomeLock ------------------------------
(***************************************************************************)
(* home/write-lock.ts: the per-root write lock of the home directory, a    *)
(* Lamport bakery whose tickets are claim files in .locks/write.lock/.     *)
(*                                                                         *)
(* A Call is one execution of withHomeLock.  Its name orders it: a claim   *)
(* file is called <pid>-<uuid>.json, so the order of two names says        *)
(* nothing about time, and a name is never used twice.  Owner[c] is the    *)
(* process that makes the call.  withHomeLock is synchronous, so a process *)
(* makes its calls one after the other, or one inside the operation of     *)
(* another (the reentrant call, which takes no claim).                     *)
(*                                                                         *)
(* The file system offers only: publish a claim (write aside and rename),  *)
(* list the directory, read one claim, remove one claim.  Each is a step   *)
(* of its own here, because another process may act between any two.      *)
(***************************************************************************)
EXTENDS Integers, FiniteSets

CONSTANTS
  Call,         \* names of the claims: one per call of withHomeLock
  Proc,         \* the processes that share the home directory
  Owner,        \* Owner[c]: the process that makes call c
  Unconfirmed,  \* processes whose start token nobody can read
  NoClaim       \* the claim file does not exist

ASSUME CallAssumption == Call \subseteq Nat
ASSUME OwnerAssumption == Owner \in [Call -> Proc]
ASSUME NoClaimAssumption == NoClaim \notin Nat

VARIABLES
  pc,      \* pc[c]: where call c is
  claim,   \* claim[c]: the ticket in the claim file of c, 0 while it chooses
  ticket,  \* ticket[c]: the local variable `ticket`
  todo,    \* todo[c]: the listed peers that c has still to read in this pass
  dead,    \* the processes that have died
  reused,  \* dead processes whose pid a new process has taken
  held     \* the processes whose module-level set `held` has this root

vars == <<pc, claim, ticket, todo, dead, reused, held>>

Waiting == {"scan", "pass", "blocked"}
Bakery  == {"list", "read"} \cup Waiting
Inside  == {"operate", "nested"}
Active  == Bakery \cup Inside
Stopped == {"returned", "timedout", "crashed"}

TypeOK ==
  /\ pc \in [Call -> {"idle"} \cup Active \cup Stopped]
  /\ claim \in [Call -> Nat \cup {NoClaim}]
  /\ ticket \in [Call -> Nat]
  /\ todo \in [Call -> SUBSET Call]
  /\ \A c \in Call : c \notin todo[c]
  /\ dead \subseteq Proc
  /\ reused \subseteq dead
  /\ held \subseteq Proc

Init ==
  /\ pc = [c \in Call |-> "idle"]
  /\ claim = [c \in Call |-> NoClaim]
  /\ ticket = [c \in Call |-> 0]
  /\ todo = [c \in Call |-> {}]
  /\ dead = {}
  /\ reused = {}
  /\ held = {}

Goto(c, label) == pc' = [pc EXCEPT ![c] = label]

ActiveCalls(p) == {c \in Call : Owner[c] = p /\ pc[c] \in Active}

\* readdirSync: the claims in the directory, without the reader's own
Peers(c) == {d \in Call : d # c /\ claim[d] # NoClaim}

\* peer.ticket < ticket, or the same ticket and an earlier name
Before(t, c, u, d) == t < u \/ (t = u /\ c < d)

(* recordedProcessLive: a start token tells a live owner from a dead one   *)
(* and from a stranger under the same pid; without one the pid decides.    *)
RecordedLive(p) == p \notin dead \/ (p \in reused /\ p \in Unconfirmed)

\* Mutant of MayRemove: the claim of any owner may be found expired
MayRemoveAny(d) == TRUE

(* The claims readClaim may find stale: that of a dead owner, always, and  *)
(* any unconfirmed one, once it is older than 30 seconds.                  *)
MustRemove(d) == ~RecordedLive(Owner[d])
MayRemove(d)  == MustRemove(d) \/ Owner[d] \in Unconfirmed

-----------------------------------------------------------------------------

\* Mutant of Enter: the ticket is chosen before anything is published
EnterUnannounced(c) ==
  /\ pc[c] = "idle"
  /\ Owner[c] \notin dead
  /\ Owner[c] \notin held
  /\ ActiveCalls(Owner[c]) = {}
  /\ Goto(c, "list")
  /\ UNCHANGED <<claim, ticket, todo, dead, reused, held>>

(* A call of a process that does not hold the root publishes ticket 0.     *)
Enter(c) ==
  /\ pc[c] = "idle"
  /\ Owner[c] \notin dead
  /\ Owner[c] \notin held
  /\ ActiveCalls(Owner[c]) = {}
  /\ claim' = [claim EXCEPT ![c] = 0]
  /\ Goto(c, "list")
  /\ UNCHANGED <<ticket, todo, dead, reused, held>>

(* A call from within the operation of the same process runs at once.      *)
EnterNested(c) ==
  /\ pc[c] = "idle"
  /\ Owner[c] \in held
  /\ Goto(c, "nested")
  /\ UNCHANGED <<claim, ticket, todo, dead, reused, held>>

ReturnNested(c) ==
  /\ pc[c] = "nested"
  /\ Goto(c, "returned")
  /\ UNCHANGED <<claim, ticket, todo, dead, reused, held>>

\* Mutant of ListPeers: the claims already there are not listed
ListNobody(c) ==
  /\ pc[c] = "list"
  /\ ticket' = [ticket EXCEPT ![c] = 1]
  /\ Goto(c, "read")
  /\ UNCHANGED <<claim, todo, dead, reused, held>>

ListPeers(c) ==
  /\ pc[c] = "list"
  /\ ticket' = [ticket EXCEPT ![c] = 1]
  /\ todo' = [todo EXCEPT ![c] = Peers(c)]
  /\ Goto(c, "read")
  /\ UNCHANGED <<claim, dead, reused, held>>

(* One readClaim of the loop that chooses the ticket.  A claim that is     *)
(* gone, or that is found stale and removed, leaves the ticket as it is.   *)
ReadTicket(c, d) ==
  /\ pc[c] = "read"
  /\ d \in todo[c]
  /\ todo' = [todo EXCEPT ![c] = @ \ {d}]
  /\ \/ /\ claim[d] # NoClaim
        /\ ~MustRemove(d)
        /\ ticket' = [ticket EXCEPT ![c] = IF claim[d] >= @ THEN claim[d] + 1 ELSE @]
        /\ claim' = claim
     \/ /\ claim[d] # NoClaim
        /\ MayRemove(d)
        /\ claim' = [claim EXCEPT ![d] = NoClaim]
        /\ ticket' = ticket
     \/ /\ claim[d] = NoClaim
        /\ UNCHANGED <<claim, ticket>>
  /\ UNCHANGED <<pc, dead, reused, held>>

PublishTicket(c) ==
  /\ pc[c] = "read"
  /\ todo[c] = {}
  /\ claim' = [claim EXCEPT ![c] = ticket[c]]
  /\ Goto(c, "scan")
  /\ UNCHANGED <<ticket, todo, dead, reused, held>>

\* The peers() of one round of the waiting loop
StartPass(c) ==
  /\ pc[c] = "scan"
  /\ todo' = [todo EXCEPT ![c] = Peers(c)]
  /\ Goto(c, "pass")
  /\ UNCHANGED <<claim, ticket, dead, reused, held>>

\* Blocked by the claim of a peer that chooses, or that goes first
BlockedBy(c, d) == claim[d] = 0 \/ Before(claim[d], d, ticket[c], c)

(* One readClaim of `some`: the first claim that blocks ends the pass.     *)
CheckPeer(c, d) ==
  /\ pc[c] = "pass"
  /\ d \in todo[c]
  /\ \/ /\ claim[d] # NoClaim
        /\ ~MustRemove(d)
        /\ BlockedBy(c, d)
        /\ Goto(c, "blocked")
        /\ UNCHANGED <<claim, todo>>
     \/ /\ claim[d] # NoClaim
        /\ ~MustRemove(d)
        /\ ~BlockedBy(c, d)
        /\ todo' = [todo EXCEPT ![c] = @ \ {d}]
        /\ UNCHANGED <<pc, claim>>
     \/ /\ claim[d] # NoClaim
        /\ MayRemove(d)
        /\ claim' = [claim EXCEPT ![d] = NoClaim]
        /\ todo' = [todo EXCEPT ![c] = @ \ {d}]
        /\ pc' = pc
     \/ /\ claim[d] = NoClaim
        /\ todo' = [todo EXCEPT ![c] = @ \ {d}]
        /\ UNCHANGED <<pc, claim>>
  /\ UNCHANGED <<ticket, dead, reused, held>>

\* Before the deadline: pause 10 ms and list the directory again
Retry(c) ==
  /\ pc[c] = "blocked"
  /\ Goto(c, "scan")
  /\ UNCHANGED <<claim, ticket, todo, dead, reused, held>>

(* After the 10 s deadline a blocked call throws; `finally` takes its      *)
(* claim away.  The clock is abstract: a blocked round may be the last.    *)
TimeOut(c) ==
  /\ pc[c] = "blocked"
  /\ claim' = [claim EXCEPT ![c] = NoClaim]
  /\ Goto(c, "timedout")
  /\ UNCHANGED <<ticket, todo, dead, reused, held>>

Acquire(c) ==
  /\ pc[c] = "pass"
  /\ todo[c] = {}
  /\ held' = held \cup {Owner[c]}
  /\ Goto(c, "operate")
  /\ UNCHANGED <<claim, ticket, todo, dead, reused>>

(* The operation has returned or thrown, and every call nested in it.      *)
Release(c) ==
  /\ pc[c] = "operate"
  /\ ActiveCalls(Owner[c]) = {c}
  /\ held' = held \ {Owner[c]}
  /\ claim' = [claim EXCEPT ![c] = NoClaim]
  /\ Goto(c, "returned")
  /\ UNCHANGED <<ticket, todo, dead, reused>>

-----------------------------------------------------------------------------

(* A process dies at any moment and leaves its claim file behind.          *)
Crash(p) ==
  /\ p \notin dead
  /\ dead' = dead \cup {p}
  /\ held' = held \ {p}
  /\ pc' = [c \in Call |-> IF c \in ActiveCalls(p) THEN "crashed" ELSE pc[c]]
  /\ UNCHANGED <<claim, ticket, todo, reused>>

(* The operating system gives the pid of a dead process to a new one.      *)
ReusePid(p) ==
  /\ p \in dead \ reused
  /\ reused' = reused \cup {p}
  /\ UNCHANGED <<pc, claim, ticket, todo, dead, held>>

Step(c) ==
  \/ Enter(c) \/ EnterNested(c) \/ ReturnNested(c)
  \/ ListPeers(c) \/ (\E d \in Call : ReadTicket(c, d)) \/ PublishTicket(c)
  \/ StartPass(c) \/ (\E d \in Call : CheckPeer(c, d))
  \/ Retry(c) \/ TimeOut(c) \/ Acquire(c) \/ Release(c)

Next == (\E c \in Call : Step(c)) \/ (\E p \in Proc : Crash(p) \/ ReusePid(p))

Spec == Init /\ [][Next]_vars

(* A process that is running takes its next step, and its operation ends.  *)
(* Nothing obliges a call to start, a process to die or a pid to be reused,*)
(* and no deadline is assumed to pass.                                     *)
Progress(c) ==
  \/ ReturnNested(c)
  \/ ListPeers(c) \/ (\E d \in Call : ReadTicket(c, d)) \/ PublishTicket(c)
  \/ StartPass(c) \/ (\E d \in Call : CheckPeer(c, d))
  \/ Retry(c) \/ Acquire(c) \/ Release(c)

(* A stale unconfirmed claim is older than 30 seconds sooner or later, and *)
(* then every reader removes it.                                           *)
Expire(c) ==
  \E d \in Call :
    /\ Owner[d] \in dead
    /\ ReadTicket(c, d) \/ CheckPeer(c, d)
    /\ claim'[d] = NoClaim

FairSpec ==
  /\ Spec
  /\ \A c \in Call : WF_vars(Progress(c)) /\ SF_vars(Expire(c))

-----------------------------------------------------------------------------

Operating(c) == pc[c] \in Inside

Confirmed(c) == Owner[c] \notin Unconfirmed

(* The operations of two processes never overlap, whatever dies meanwhile  *)
(* and whoever cleans up after it, as long as both have a readable start   *)
(* token.  (withHomeLock: "unique claims cannot be stolen by two           *)
(* simultaneous stale-lock reclaimers".)                                   *)
Exclusion ==
  \A c, d \in Call :
    (Operating(c) /\ Operating(d) /\ Confirmed(c) /\ Confirmed(d)) => Owner[c] = Owner[d]

(* No reader ever removes the claim of a confirmed owner that is alive: a  *)
(* claim disappears by its owner's `finally`, or after its owner's death.  *)
ClaimsAreNotStolen ==
  [][\A c \in Call :
       (claim[c] # NoClaim /\ claim'[c] = NoClaim /\ Confirmed(c)) =>
         \/ Owner[c] \in dead
         \/ pc[c] \in {"operate", "blocked"} /\ pc'[c] \in Stopped]_vars

(* The lock is the abstract one: the processes whose `held` set has the    *)
(* root are the holders of Mutex.  Only while every token is readable.     *)
Lock == INSTANCE Mutex WITH holders <- held
ImplementsMutex == Lock!Spec

(* Every call returns, times out or dies with its process: no claim, not   *)
(* even one whose dead owner left a pid that somebody else now has, keeps  *)
(* the others out for good.                                                *)
CallsEnd == \A c \in Call : pc[c] \in Active ~> pc[c] \in Stopped
=============================================================================
