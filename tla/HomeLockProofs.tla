--------------------------- MODULE HomeLockProofs ---------------------------
(* Proofs about HomeLock, for every set of calls, processes and owners.    *)
EXTENDS HomeLockOrder, TLAPS

\* The calls that have published their ticket
Holding == Waiting \cup {"operate"}

\* In its current pass c has found that d does not go first
Cleared(c, d) == pc[c] = "operate" \/ (pc[c] = "pass" /\ d \notin todo[c])

AliveInv ==
  /\ \A c \in Call : pc[c] \in Active => Owner[c] \notin dead
  /\ held \cap dead = {}

HeldInv ==
  /\ \A c \in Call : pc[c] \in Inside => Owner[c] \in held
  /\ \A p \in held : \E c \in Call : Owner[c] = p /\ pc[c] = "operate"

ClaimInv ==
  \A c \in Call : Confirmed(c) =>
    /\ pc[c] \in {"list", "read"} => claim[c] = 0
    /\ pc[c] \in Holding => claim[c] = ticket[c] /\ ticket[c] >= 1
    /\ pc[c] = "read" => ticket[c] >= 1

OrderInv ==
  \A c, d \in Call :
    (c # d /\ Confirmed(c) /\ Confirmed(d) /\ Cleared(c, d)) =>
      /\ pc[d] \in Holding => Before(ticket[c], c, ticket[d], d)
      /\ pc[d] = "read" => c \in todo[d] \/ ticket[d] > ticket[c]

IInv == TypeOK /\ AliveInv /\ HeldInv /\ ClaimInv /\ OrderInv

-----------------------------------------------------------------------------

(* The steps keep the types. *)
LEMMA TypeStep ==
  ASSUME TypeOK, [Next]_vars
  PROVE  TypeOK'
<1> USE CallAssumption, OwnerAssumption, NoClaimAssumption DEF TypeOK, Active, Bakery, Waiting, Inside, Stopped, Goto
<1>1. ASSUME NEW c \in Call, Enter(c) PROVE TypeOK'
  BY <1>1 DEF Enter
<1>2. ASSUME NEW c \in Call, EnterNested(c) PROVE TypeOK'
  BY <1>2 DEF EnterNested
<1>3. ASSUME NEW c \in Call, ReturnNested(c) PROVE TypeOK'
  BY <1>3 DEF ReturnNested
<1>4. ASSUME NEW c \in Call, ListPeers(c) PROVE TypeOK'
  BY <1>4 DEF ListPeers, Peers
<1>5. ASSUME NEW c \in Call, NEW d \in Call, ReadTicket(c, d) PROVE TypeOK'
  BY <1>5 DEF ReadTicket
<1>6. ASSUME NEW c \in Call, PublishTicket(c) PROVE TypeOK'
  BY <1>6 DEF PublishTicket
<1>7. ASSUME NEW c \in Call, StartPass(c) PROVE TypeOK'
  BY <1>7 DEF StartPass, Peers
<1>8. ASSUME NEW c \in Call, NEW d \in Call, CheckPeer(c, d) PROVE TypeOK'
  BY <1>8 DEF CheckPeer
<1>9. ASSUME NEW c \in Call, Retry(c) PROVE TypeOK'
  BY <1>9 DEF Retry
<1>10. ASSUME NEW c \in Call, TimeOut(c) PROVE TypeOK'
  BY <1>10 DEF TimeOut
<1>11. ASSUME NEW c \in Call, Acquire(c) PROVE TypeOK'
  BY <1>11 DEF Acquire
<1>12. ASSUME NEW c \in Call, Release(c) PROVE TypeOK'
  BY <1>12 DEF Release
<1>13. ASSUME NEW p \in Proc, Crash(p) PROVE TypeOK'
  BY <1>13 DEF Crash
<1>14. ASSUME NEW p \in Proc, ReusePid(p) PROVE TypeOK'
  BY <1>14 DEF ReusePid
<1>15. CASE UNCHANGED vars
  BY <1>15 DEF vars
<1> QED
  BY <1>1, <1>2, <1>3, <1>4, <1>5, <1>6, <1>7, <1>8,
     <1>9, <1>10, <1>11, <1>12, <1>13, <1>14, <1>15 DEF Next, Step

(* Only live processes are inside a call, and a death ends all of theirs. *)
LEMMA AliveStep ==
  ASSUME TypeOK, AliveInv, [Next]_vars
  PROVE  AliveInv'
<1> USE CallAssumption, OwnerAssumption, NoClaimAssumption DEF TypeOK, Active, Bakery, Waiting, Inside, Stopped, Goto, AliveInv
<1>1. ASSUME NEW c \in Call, Enter(c) PROVE AliveInv'
  BY <1>1 DEF Enter
<1>2. ASSUME NEW c \in Call, EnterNested(c) PROVE AliveInv'
  BY <1>2 DEF EnterNested
<1>3. ASSUME NEW c \in Call, ReturnNested(c) PROVE AliveInv'
  BY <1>3 DEF ReturnNested
<1>4. ASSUME NEW c \in Call, ListPeers(c) PROVE AliveInv'
  BY <1>4 DEF ListPeers
<1>5. ASSUME NEW c \in Call, NEW d \in Call, ReadTicket(c, d) PROVE AliveInv'
  BY <1>5 DEF ReadTicket
<1>6. ASSUME NEW c \in Call, PublishTicket(c) PROVE AliveInv'
  BY <1>6 DEF PublishTicket
<1>7. ASSUME NEW c \in Call, StartPass(c) PROVE AliveInv'
  BY <1>7 DEF StartPass
<1>8. ASSUME NEW c \in Call, NEW d \in Call, CheckPeer(c, d) PROVE AliveInv'
  BY <1>8 DEF CheckPeer
<1>9. ASSUME NEW c \in Call, Retry(c) PROVE AliveInv'
  BY <1>9 DEF Retry
<1>10. ASSUME NEW c \in Call, TimeOut(c) PROVE AliveInv'
  BY <1>10 DEF TimeOut
<1>11. ASSUME NEW c \in Call, Acquire(c) PROVE AliveInv'
  BY <1>11 DEF Acquire
<1>12. ASSUME NEW c \in Call, Release(c) PROVE AliveInv'
  BY <1>12 DEF Release, ActiveCalls
<1>13. ASSUME NEW p \in Proc, Crash(p) PROVE AliveInv'
  BY <1>13 DEF Crash, ActiveCalls
<1>14. ASSUME NEW p \in Proc, ReusePid(p) PROVE AliveInv'
  BY <1>14 DEF ReusePid
<1>15. CASE UNCHANGED vars
  BY <1>15 DEF vars
<1> QED
  BY <1>1, <1>2, <1>3, <1>4, <1>5, <1>6, <1>7, <1>8,
     <1>9, <1>10, <1>11, <1>12, <1>13, <1>14, <1>15 DEF Next, Step

(* The `held` set is that of the processes that operate. *)
LEMMA HeldStep ==
  ASSUME TypeOK, HeldInv, [Next]_vars
  PROVE  HeldInv'
<1> USE CallAssumption, OwnerAssumption, NoClaimAssumption DEF TypeOK, Active, Bakery, Waiting, Inside, Stopped, Goto, HeldInv
<1>1. ASSUME NEW c \in Call, Enter(c) PROVE HeldInv'
  BY <1>1 DEF Enter, ActiveCalls
<1>2. ASSUME NEW c \in Call, EnterNested(c) PROVE HeldInv'
  BY <1>2 DEF EnterNested
<1>3. ASSUME NEW c \in Call, ReturnNested(c) PROVE HeldInv'
  BY <1>3 DEF ReturnNested
<1>4. ASSUME NEW c \in Call, ListPeers(c) PROVE HeldInv'
  BY <1>4 DEF ListPeers
<1>5. ASSUME NEW c \in Call, NEW d \in Call, ReadTicket(c, d) PROVE HeldInv'
  BY <1>5 DEF ReadTicket
<1>6. ASSUME NEW c \in Call, PublishTicket(c) PROVE HeldInv'
  BY <1>6 DEF PublishTicket
<1>7. ASSUME NEW c \in Call, StartPass(c) PROVE HeldInv'
  BY <1>7 DEF StartPass
<1>8. ASSUME NEW c \in Call, NEW d \in Call, CheckPeer(c, d) PROVE HeldInv'
  BY <1>8 DEF CheckPeer
<1>9. ASSUME NEW c \in Call, Retry(c) PROVE HeldInv'
  BY <1>9 DEF Retry
<1>10. ASSUME NEW c \in Call, TimeOut(c) PROVE HeldInv'
  BY <1>10 DEF TimeOut
<1>11. ASSUME NEW c \in Call, Acquire(c) PROVE HeldInv'
  BY <1>11 DEF Acquire
<1>12. ASSUME NEW c \in Call, Release(c) PROVE HeldInv'
  BY <1>12 DEF Release, ActiveCalls
<1>13. ASSUME NEW p \in Proc, Crash(p) PROVE HeldInv'
  BY <1>13 DEF Crash, ActiveCalls
<1>14. ASSUME NEW p \in Proc, ReusePid(p) PROVE HeldInv'
  BY <1>14 DEF ReusePid
<1>15. CASE UNCHANGED vars
  BY <1>15 DEF vars
<1> QED
  BY <1>1, <1>2, <1>3, <1>4, <1>5, <1>6, <1>7, <1>8,
     <1>9, <1>10, <1>11, <1>12, <1>13, <1>14, <1>15 DEF Next, Step

(* A confirmed call finds its own claim as it wrote it: no reader removes  *)
(* it, because its owner is alive (AliveInv) and can be told to be.        *)
LEMMA ClaimStep ==
  ASSUME TypeOK, AliveInv, ClaimInv, [Next]_vars
  PROVE  ClaimInv'
<1> USE CallAssumption, OwnerAssumption, NoClaimAssumption DEF TypeOK, Active, Bakery, Waiting, Inside, Stopped, Goto, AliveInv, ClaimInv, Confirmed, Holding
<1>1. ASSUME NEW c \in Call, Enter(c) PROVE ClaimInv'
  BY <1>1 DEF Enter
<1>2. ASSUME NEW c \in Call, EnterNested(c) PROVE ClaimInv'
  BY <1>2 DEF EnterNested
<1>3. ASSUME NEW c \in Call, ReturnNested(c) PROVE ClaimInv'
  BY <1>3 DEF ReturnNested
<1>4. ASSUME NEW c \in Call, ListPeers(c) PROVE ClaimInv'
  BY <1>4 DEF ListPeers
<1>5. ASSUME NEW c \in Call, NEW d \in Call, ReadTicket(c, d) PROVE ClaimInv'
  BY <1>5 DEF ReadTicket, MayRemove, MustRemove, RecordedLive
<1>6. ASSUME NEW c \in Call, PublishTicket(c) PROVE ClaimInv'
  BY <1>6 DEF PublishTicket
<1>7. ASSUME NEW c \in Call, StartPass(c) PROVE ClaimInv'
  BY <1>7 DEF StartPass
<1>8. ASSUME NEW c \in Call, NEW d \in Call, CheckPeer(c, d) PROVE ClaimInv'
  BY <1>8 DEF CheckPeer, MayRemove, MustRemove, RecordedLive
<1>9. ASSUME NEW c \in Call, Retry(c) PROVE ClaimInv'
  BY <1>9 DEF Retry
<1>10. ASSUME NEW c \in Call, TimeOut(c) PROVE ClaimInv'
  BY <1>10 DEF TimeOut
<1>11. ASSUME NEW c \in Call, Acquire(c) PROVE ClaimInv'
  BY <1>11 DEF Acquire
<1>12. ASSUME NEW c \in Call, Release(c) PROVE ClaimInv'
  BY <1>12 DEF Release, ActiveCalls
<1>13. ASSUME NEW p \in Proc, Crash(p) PROVE ClaimInv'
  BY <1>13 DEF Crash, ActiveCalls
<1>14. ASSUME NEW p \in Proc, ReusePid(p) PROVE ClaimInv'
  BY <1>14 DEF ReusePid
<1>15. CASE UNCHANGED vars
  BY <1>15 DEF vars
<1> QED
  BY <1>1, <1>2, <1>3, <1>4, <1>5, <1>6, <1>7, <1>8,
     <1>9, <1>10, <1>11, <1>12, <1>13, <1>14, <1>15 DEF Next, Step

(* Lamport's argument: a call that has cleared another goes before it, for *)
(* the other has either a later ticket or has yet to read this one.        *)
LEMMA OrderStep ==
  ASSUME TypeOK, AliveInv, ClaimInv, OrderInv, [Next]_vars
  PROVE  OrderInv'
<1> USE CallAssumption, OwnerAssumption, NoClaimAssumption DEF TypeOK, Active, Bakery, Waiting, Inside, Stopped, Goto, AliveInv, ClaimInv, OrderInv, Cleared, Before, Confirmed, Holding
<1>1. ASSUME NEW c \in Call, Enter(c) PROVE OrderInv'
  BY <1>1 DEF Enter
<1>2. ASSUME NEW c \in Call, EnterNested(c) PROVE OrderInv'
  BY <1>2 DEF EnterNested
<1>3. ASSUME NEW c \in Call, ReturnNested(c) PROVE OrderInv'
  BY <1>3 DEF ReturnNested
<1>4. ASSUME NEW c \in Call, ListPeers(c) PROVE OrderInv'
  \* Whoever has cleared c has a claim, so c lists it.
  <2>1. \A x \in Call : (x # c /\ Confirmed(x) /\ Cleared(x, c)) => x \in Peers(c)
    BY DEF Peers
  <2>2. todo'[c] = Peers(c)
    BY <1>4 DEF ListPeers, Peers
  <2> QED
    BY <1>4, <2>1, <2>2 DEF ListPeers
<1>5. ASSUME NEW c \in Call, NEW d \in Call, ReadTicket(c, d) PROVE OrderInv'
  \* Reading the claim of a call that has cleared c leaves c a later ticket.
  <2>1. ASSUME Confirmed(c), Confirmed(d), c # d, Cleared(d, c)
        PROVE  ticket'[c] > ticket[d]
    <3>1. claim[d] = ticket[d] /\ claim[d] # NoClaim /\ ~MayRemove(d)
      BY <2>1 DEF MayRemove, MustRemove, RecordedLive
    <3> QED
      BY <1>5, <3>1 DEF ReadTicket
  <2>2. ticket'[c] >= ticket[c]
    BY <1>5 DEF ReadTicket
  <2> QED
    BY <1>5, <2>1, <2>2 DEF ReadTicket
<1>6. ASSUME NEW c \in Call, PublishTicket(c) PROVE OrderInv'
  BY <1>6 DEF PublishTicket
<1>7. ASSUME NEW c \in Call, StartPass(c) PROVE OrderInv'
  \* A call without a claim has not listed its peers yet.
  <2>1. \A x \in Call : (x # c /\ Confirmed(x) /\ x \notin Peers(c)) => pc[x] \notin Holding \cup {"read"}
    BY DEF Peers
  <2>2. todo'[c] = Peers(c)
    BY <1>7 DEF StartPass, Peers
  <2> QED
    BY <1>7, <2>1, <2>2 DEF StartPass
<1>8. ASSUME NEW c \in Call, NEW d \in Call, CheckPeer(c, d) PROVE OrderInv'
  \* c clears d only if d is not choosing and its ticket comes later.
  <2>1. ASSUME Confirmed(c), Confirmed(d), c # d, pc'[c] = "pass"
        PROVE  /\ pc[d] \in Holding => Before(ticket[c], c, ticket[d], d)
               /\ pc[d] # "read"
    <3>1. pc[d] \in Holding \cup {"read"} => claim[d] # NoClaim /\ ~MayRemove(d)
      BY <2>1 DEF MayRemove, MustRemove, RecordedLive
    <3> QED
      BY <1>8, <2>1, <3>1 DEF CheckPeer, BlockedBy
  <2> QED
    BY <1>8, <2>1 DEF CheckPeer
<1>9. ASSUME NEW c \in Call, Retry(c) PROVE OrderInv'
  BY <1>9 DEF Retry
<1>10. ASSUME NEW c \in Call, TimeOut(c) PROVE OrderInv'
  BY <1>10 DEF TimeOut
<1>11. ASSUME NEW c \in Call, Acquire(c) PROVE OrderInv'
  BY <1>11 DEF Acquire
<1>12. ASSUME NEW c \in Call, Release(c) PROVE OrderInv'
  BY <1>12 DEF Release, ActiveCalls
<1>13. ASSUME NEW p \in Proc, Crash(p) PROVE OrderInv'
  BY <1>13 DEF Crash, ActiveCalls
<1>14. ASSUME NEW p \in Proc, ReusePid(p) PROVE OrderInv'
  BY <1>14 DEF ReusePid
<1>15. CASE UNCHANGED vars
  BY <1>15 DEF vars
<1> QED
  BY <1>1, <1>2, <1>3, <1>4, <1>5, <1>6, <1>7, <1>8,
     <1>9, <1>10, <1>11, <1>12, <1>13, <1>14, <1>15 DEF Next, Step

(* The invariant holds at the start and every step keeps it.               *)
THEOREM Invariant == Spec => []IInv
<1>1. Init => IInv
  BY OwnerAssumption, NoClaimAssumption
     DEF Init, IInv, TypeOK, AliveInv, HeldInv, ClaimInv, OrderInv, Cleared, Holding,
         Active, Bakery, Waiting, Inside, Stopped
<1>2. IInv /\ [Next]_vars => IInv'
  BY TypeStep, AliveStep, HeldStep, ClaimStep, OrderStep DEF IInv
<1> QED
  BY <1>1, <1>2, PTL DEF Spec

(* The variables of withHomeLock keep their types for any number of calls. *)
THEOREM TypeCorrect == Spec => []TypeOK
<1>1. IInv => TypeOK
  BY DEF IInv
<1> QED
  BY Invariant, <1>1, PTL

(* Two calls that operate have cleared each other, so each would go first. *)
LEMMA OneOperates ==
  ASSUME IInv, NEW c \in Call, NEW d \in Call, Confirmed(c), Confirmed(d),
         pc[c] = "operate", pc[d] = "operate"
  PROVE  c = d
<1>1. SUFFICES ASSUME c # d PROVE FALSE
  OBVIOUS
<1>2. Before(ticket[c], c, ticket[d], d) /\ Before(ticket[d], d, ticket[c], c)
  BY <1>1 DEF IInv, OrderInv, Cleared, Holding
<1>3. ticket[c] \in Nat /\ ticket[d] \in Nat /\ c \in Nat /\ d \in Nat
  BY CallAssumption DEF IInv, TypeOK
<1> QED
  BY <1>1, <1>2, <1>3 DEF Before

(* The operations of two confirmed processes never overlap, for every      *)
(* number of processes and calls, every crash and every clean-up.          *)
THEOREM ExclusionHolds == Spec => []Exclusion
<1>1. IInv => Exclusion
  <2>1. SUFFICES ASSUME IInv, NEW c \in Call, NEW d \in Call, Operating(c), Operating(d),
                        Confirmed(c), Confirmed(d)
                 PROVE  Owner[c] = Owner[d]
    BY DEF Exclusion
  <2>2. PICK x \in Call : Owner[x] = Owner[c] /\ pc[x] = "operate"
    BY <2>1 DEF IInv, HeldInv, Operating
  <2>3. PICK y \in Call : Owner[y] = Owner[d] /\ pc[y] = "operate"
    BY <2>1 DEF IInv, HeldInv, Operating
  <2>4. x = y
    BY <2>1, <2>2, <2>3, OneOperates DEF Confirmed
  <2> QED
    BY <2>2, <2>3, <2>4
<1> QED
  BY Invariant, <1>1, PTL

(* A live confirmed owner keeps its claim until its own `finally`.         *)
THEOREM NeverStolen == Spec => ClaimsAreNotStolen
<1> DEFINE Stays == \A c \in Call :
             (claim[c] # NoClaim /\ claim'[c] = NoClaim /\ Confirmed(c)) =>
               \/ Owner[c] \in dead
               \/ pc[c] \in {"operate", "blocked"} /\ pc'[c] \in Stopped
<1>1. TypeOK /\ [Next]_vars => [Stays]_vars
  <2> SUFFICES ASSUME TypeOK, Next PROVE Stays
    OBVIOUS
  <2> USE DEF TypeOK, Confirmed, Goto, Stopped
  <2>2. ASSUME NEW x \in Call, Enter(x) \/ EnterNested(x) \/ ReturnNested(x) \/ ListPeers(x)
                               \/ PublishTicket(x) \/ StartPass(x) \/ Retry(x) \/ Acquire(x)
        PROVE  Stays
    BY <2>2, NoClaimAssumption
       DEF Enter, EnterNested, ReturnNested, ListPeers, PublishTicket, StartPass, Retry, Acquire
  <2>3. ASSUME NEW x \in Call, NEW d \in Call, ReadTicket(x, d) PROVE Stays
    BY <2>3 DEF ReadTicket, MayRemove, MustRemove, RecordedLive
  <2>4. ASSUME NEW x \in Call, NEW d \in Call, CheckPeer(x, d) PROVE Stays
    BY <2>4 DEF CheckPeer, MayRemove, MustRemove, RecordedLive
  <2>5. ASSUME NEW x \in Call, TimeOut(x) \/ Release(x) PROVE Stays
    BY <2>5 DEF TimeOut, Release
  <2>6. ASSUME NEW p \in Proc, Crash(p) \/ ReusePid(p) PROVE Stays
    BY <2>6 DEF Crash, ReusePid
  <2> QED
    BY <2>2, <2>3, <2>4, <2>5, <2>6 DEF Next, Step
<1> QED
  BY TypeCorrect, <1>1, PTL DEF Spec, ClaimsAreNotStolen

(* With every token readable the bakery implements the abstract lock.      *)
THEOREM Refinement == ASSUME Unconfirmed = {} PROVE Spec => ImplementsMutex
<1>1. Init => Lock!Init
  BY DEF Init, Lock!Init
<1>2. IInv /\ IInv' /\ [Next]_vars => [Lock!Next]_held
  <2>1. SUFFICES ASSUME IInv, IInv', Next PROVE Lock!Next \/ held' = held
    BY DEF vars
  <2>2. ASSUME NEW c \in Call, Acquire(c) PROVE Lock!Next \/ held' = held
    <3>1. Owner[c] \in Proc /\ pc'[c] = "operate" /\ held' = held \cup {Owner[c]}
      BY <2>1, <2>2, OwnerAssumption DEF Acquire, Goto, IInv, TypeOK
    <3>2. ASSUME NEW p \in held PROVE p = Owner[c]
      <4>1. PICK d \in Call : Owner[d] = p /\ pc[d] = "operate"
        BY <2>1 DEF IInv, HeldInv
      <4>2. pc'[d] = "operate"
        BY <2>1, <2>2, <4>1 DEF Acquire, Goto, IInv, TypeOK
      <4>3. Owner[c] = Owner[d]
        <5>1. c = d
          <6>1. \A x, y \in Call : (pc'[x] = "operate" /\ pc'[y] = "operate" /\ x # y) =>
                  Before(ticket'[x], x, ticket'[y], y)
            BY <2>1 DEF IInv, OrderInv, Cleared, Holding, Confirmed
          <6>2. ticket'[c] \in Nat /\ ticket'[d] \in Nat /\ c \in Nat /\ d \in Nat
            BY <2>1, CallAssumption DEF IInv, TypeOK
          <6> QED
            BY <3>1, <4>2, <6>1, <6>2 DEF Before
        <5> QED
          BY <5>1
      <4> QED
        BY <4>1, <4>3
    <3>3. held = {} \/ held' = held
      BY <3>1, <3>2
    <3> QED
      BY <3>1, <3>3 DEF Lock!Next, Lock!Take
  <2>3. ASSUME NEW c \in Call, Release(c) PROVE Lock!Next \/ held' = held
    BY <2>1, <2>3, OwnerAssumption DEF Release, IInv, HeldInv, Inside, Lock!Next, Lock!Give
  <2>4. ASSUME NEW p \in Proc, Crash(p) PROVE Lock!Next \/ held' = held
    BY <2>4 DEF Crash, Lock!Next, Lock!Give
  <2>5. ASSUME NEW c \in Call, NEW d \in Call, ReadTicket(c, d) \/ CheckPeer(c, d)
        PROVE  held' = held
    BY <2>5 DEF ReadTicket, CheckPeer
  <2>6. ASSUME NEW c \in Call, Enter(c) \/ EnterNested(c) \/ ReturnNested(c) \/ ListPeers(c)
                               \/ PublishTicket(c) \/ StartPass(c) \/ Retry(c) \/ TimeOut(c)
        PROVE  held' = held
    BY <2>6 DEF Enter, EnterNested, ReturnNested, ListPeers, PublishTicket, StartPass, Retry,
                TimeOut
  <2>7. ASSUME NEW p \in Proc, ReusePid(p) PROVE held' = held
    BY <2>7 DEF ReusePid
  <2> QED
    BY <2>1, <2>2, <2>3, <2>4, <2>5, <2>6, <2>7 DEF Next, Step
<1> QED
  BY Invariant, <1>1, <1>2, PTL DEF Spec, ImplementsMutex, Lock!Spec
-----------------------------------------------------------------------------

(* Who was there when c listed its peers keeps an earlier ticket than c's. *)
AheadInv ==
  /\ ahead \in [Call -> SUBSET Call]
  /\ \A c, d \in Call : d \in ahead[c] =>
       /\ d # c /\ pc[d] \in Holding \cup Stopped
       /\ (Confirmed(d) /\ pc[d] \in Holding) =>
            /\ pc[c] = "read" => d \in todo[c] \/ ticket[c] > ticket[d]
            /\ pc[c] \in Holding => ticket[c] > ticket[d]

(* The history changes only when a call lists its peers.                   *)
LEMMA Listing ==
  ASSUME TypeOK, AheadInv, HNext
  PROVE  /\ \A c \in Call : ListPeers(c) => ahead' = [ahead EXCEPT ![c] = Ticketed]
         /\ (\A c \in Call : ~(pc[c] = "list" /\ pc'[c] = "read")) => ahead' = ahead
<1>1. ahead' = [c \in Call |-> IF pc[c] = "list" /\ pc'[c] = "read" THEN Ticketed ELSE ahead[c]]
  BY DEF HNext
<1>2. ASSUME NEW c \in Call, ListPeers(c)
      PROVE  ahead' = [ahead EXCEPT ![c] = Ticketed]
  <2>1. \A d \in Call : (pc[d] = "list" /\ pc'[d] = "read") <=> d = c
    BY <1>2 DEF ListPeers, Goto, TypeOK
  <2> QED
    BY <1>1, <2>1 DEF AheadInv
<1> QED
  BY <1>1, <1>2 DEF AheadInv

(* No step lets a call past one that was there before it.                  *)
LEMMA AheadStep ==
  ASSUME IInv, AheadInv, HNext
  PROVE  AheadInv'
<1> USE CallAssumption, OwnerAssumption, NoClaimAssumption
    DEF IInv, TypeOK, Active, Bakery, Waiting, Inside, Stopped, Goto, AliveInv, ClaimInv, Confirmed, Holding, AheadInv
<1>1. ASSUME NEW c \in Call, Enter(c) PROVE AheadInv'
  BY <1>1, Listing DEF Enter
<1>2. ASSUME NEW c \in Call, EnterNested(c) PROVE AheadInv'
  BY <1>2, Listing DEF EnterNested
<1>3. ASSUME NEW c \in Call, ReturnNested(c) PROVE AheadInv'
  BY <1>3, Listing DEF ReturnNested
<1>4. ASSUME NEW c \in Call, ListPeers(c) PROVE AheadInv'
  \* Whoever holds a ticket that counts has a claim, so c lists it.
  <2>1. \A d \in Call : pc[d] \in Holding /\ Confirmed(d) => d # c /\ d \in todo'[c]
    BY <1>4 DEF ListPeers, Peers
  <2>2. ahead' = [ahead EXCEPT ![c] = Ticketed]
    BY <1>4, Listing
  <2> QED
    BY <1>4, <2>1, <2>2 DEF ListPeers, Ticketed
<1>5. ASSUME NEW c \in Call, NEW d \in Call, ReadTicket(c, d) PROVE AheadInv'
  \* c reads the ticket of d, if d still holds it, and takes a later one.
  <2>1. pc[d] \in Holding /\ Confirmed(d) => ticket'[c] > ticket[d]
    <3>1. pc[d] \in Holding /\ Confirmed(d) => claim[d] = ticket[d] /\ claim[d] # NoClaim /\ ~MayRemove(d)
      BY DEF MayRemove, MustRemove, RecordedLive
    <3> QED
      BY <1>5, <3>1 DEF ReadTicket
  <2>2. ticket'[c] >= ticket[c]
    BY <1>5 DEF ReadTicket
  <2> QED
    BY <1>5, <2>1, <2>2, Listing DEF ReadTicket
<1>6. ASSUME NEW c \in Call, PublishTicket(c) PROVE AheadInv'
  BY <1>6, Listing DEF PublishTicket
<1>7. ASSUME NEW c \in Call, StartPass(c) PROVE AheadInv'
  BY <1>7, Listing DEF StartPass
<1>8. ASSUME NEW c \in Call, NEW d \in Call, CheckPeer(c, d) PROVE AheadInv'
  BY <1>8, Listing DEF CheckPeer
<1>9. ASSUME NEW c \in Call, Retry(c) PROVE AheadInv'
  BY <1>9, Listing DEF Retry
<1>10. ASSUME NEW c \in Call, TimeOut(c) PROVE AheadInv'
  BY <1>10, Listing DEF TimeOut
<1>11. ASSUME NEW c \in Call, Acquire(c) PROVE AheadInv'
  BY <1>11, Listing DEF Acquire
<1>12. ASSUME NEW c \in Call, Release(c) PROVE AheadInv'
  BY <1>12, Listing DEF Release, ActiveCalls
<1>13. ASSUME NEW p \in Proc, Crash(p) PROVE AheadInv'
  BY <1>13, Listing DEF Crash, ActiveCalls
<1>14. ASSUME NEW p \in Proc, ReusePid(p) PROVE AheadInv'
  BY <1>14, Listing DEF ReusePid
<1> QED
  BY <1>1, <1>2, <1>3, <1>4, <1>5, <1>6, <1>7, <1>8,
     <1>9, <1>10, <1>11, <1>12, <1>13, <1>14 DEF HNext, Next, Step

(* Two confirmed calls are served in the order of their arrival, whatever  *)
(* dies meanwhile: who finds a ticket published does not operate before    *)
(* its owner is gone.                                                      *)
THEOREM ServedInOrder == HSpec => []FirstComeFirstServed
<1>1. HInit => Init /\ AheadInv
  BY DEF HInit, AheadInv
<1>2. [HNext]_<<vars, ahead>> => [Next]_vars
  BY DEF HNext
<1>3. IInv /\ AheadInv /\ [HNext]_<<vars, ahead>> => AheadInv'
  <2>1. ASSUME AheadInv, UNCHANGED <<vars, ahead>>
        PROVE  AheadInv'
    BY <2>1 DEF vars, AheadInv
  <2> QED
    BY <2>1, AheadStep
<1>4. IInv /\ AheadInv => FirstComeFirstServed
  <2> SUFFICES ASSUME IInv, AheadInv, NEW c \in Call, pc[c] = "operate", NEW d \in ahead[c],
                      d \in Ticketed, Confirmed(d), Confirmed(c)
               PROVE  FALSE
    BY DEF FirstComeFirstServed
  <2>1. d \in Call /\ d # c /\ pc[d] \in Holding /\ ticket[c] > ticket[d]
    BY DEF AheadInv, Ticketed, Holding
  <2>2. Before(ticket[c], c, ticket[d], d)
    BY <2>1 DEF IInv, OrderInv, Cleared
  <2> QED
    BY <2>1, <2>2 DEF Before, IInv, TypeOK
<1>5. HSpec => Spec
  BY <1>1, <1>2, PTL DEF HSpec, Spec
<1> QED
  BY <1>1, <1>3, <1>4, <1>5, Invariant, PTL DEF HSpec
=============================================================================
