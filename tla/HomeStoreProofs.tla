-------------------------- MODULE HomeStoreProofs ---------------------------
(* Proofs about HomeStore, for every set of contents and every bound.      *)
EXTENDS MCHomeStore, TLAPS

(* An operation that writes has something to write.                        *)
NextInv ==
  /\ at # "idle" /\ tx.op \in {"write", "create", "rollback"} => tx.next \in Bytes
  /\ at = "flag" => tx.op = "write" \/ tx.next \in Bytes
  /\ at # "idle" /\ tx.op = "restore" /\ (tx.twice \/ at = "again") => tx.next \in Bytes
  /\ at \in {"store", "pend", "live", "head", "clear", "exists", "promote", "accepted"} =>
       tx.next \in Bytes

(* What a crash may find at each step, when nobody else writes the file.   *)
CleanInv ==
  outsiders = 0 =>
    /\ outside = None
    /\ head = None => pending = None
    /\ head # None => live \in {head, pending}
    /\ at \in {"inspect", "seed"} => tx.prev = live
    /\ at = "seed" => head = None
    /\ at \notin {"idle", "inspect", "seed"} => head # None
    /\ at \in {"settle", "decide", "flag", "again", "store", "pend", "live", "exists", "clear",
               "promote", "accepted", "unflag", "unreset"} => live = head
    /\ at \in {"decide", "flag", "again", "store", "pend", "promote", "accepted",
               "unflag", "unreset"} => pending = None
    /\ at = "live" => pending = tx.next
    /\ at \in {"head", "clear"} => live = tx.next

(* Contents are kept before anything refers to them.                       *)
StoredInv ==
  /\ PinsAreStored
  /\ at = "seed" => tx.prev \in stored \cup {Absent}
  /\ at = "flag" => IF tx.op = "write" THEN tx.prev \in stored ELSE tx.next \in stored
  /\ at \in {"pend", "live", "head", "clear"} => tx.next \in stored \cup {Absent}

IInv == TypeOK /\ NextInv /\ CleanInv /\ StoredInv

-----------------------------------------------------------------------------

LEMMA NoCallType == NoCall \in Transaction
BY DEF NoCall, Transaction, Ops, Bytes

\* What an operation assigns to its locals keeps their types.
LEMMA Locals ==
  ASSUME TypeOK
  PROVE  /\ tx.next \in Bytes \cup {None} /\ tx.prev \in Bytes
         /\ NoCall \in Transaction
         /\ \A n \in Bytes \cup {None} : [tx EXCEPT !.next = n] \in Transaction
         /\ \A k \in BOOLEAN : [tx EXCEPT !.keep = k] \in Transaction
         /\ \A n \in Bytes \cup {None}, k \in BOOLEAN :
              [tx EXCEPT !.next = n, !.keepReset = k] \in Transaction
         /\ \A p \in Bytes : [tx EXCEPT !.prev = p, !.twice = TRUE] \in Transaction
<1>1. tx \in Transaction
  BY DEF TypeOK
<1> QED
  BY <1>1, NoCallType DEF Transaction

\* The records that flag an incident
LEMMA IncidentType ==
  \A x, y \in Bytes : \A t \in Time : \A b \in BOOLEAN :
    /\ [restore |-> x, observed |-> y, at |-> t] \in Incident
    /\ [restore |-> x, observed |-> y, at |-> t, pending |-> b] \in Reset
BY DEF Incident, Reset

LEMMA PromotedType == ASSUME TypeOK PROVE Promoted \in Reset \cup {None}
BY DEF TypeOK, Promoted, Promotable, Reset

(* The calls of Call, with the types of their arguments.                   *)
LEMMA CallCases ==
  ASSUME TypeOK, Call
  PROVE  \E op \in Ops, next \in Bytes \cup {None}, base \in Bytes \cup {None}, named \in Time \cup {None} :
           /\ Begin(op, next, base, named)
           /\ op \in {"write", "create", "rollback"} => next \in Bytes
           /\ op = "rollback" => next # Absent
<1>1. Writable \subseteq Bytes /\ Content \subseteq Bytes
  BY ContentAssumption DEF Bytes, Content
<1>2. (1 .. clock \cup {None}) \subseteq Time \cup {None}
  BY DEF TypeOK, Time
<1>3. CASE \E op \in {"read", "demand"} : Begin(op, None, None, None)
  BY <1>3 DEF Ops
<1>4. CASE \E next \in Writable : \E base \in Bytes \cup {None} : Begin("write", next, base, None)
  BY <1>1, <1>4 DEF Ops
<1>5. CASE \E next \in Writable \ {Absent} : Begin("create", next, None, None)
  BY <1>1, <1>5 DEF Ops
<1>6. CASE \E next \in Content : Begin("rollback", next, None, None)
  BY <1>1, <1>6, ContentAssumption DEF Ops, Content
<1>7. CASE \E op \in {"restore", "accept"}, named \in 1 .. clock \cup {None} : Begin(op, None, None, named)
  BY <1>2, <1>7 DEF Ops
<1> QED
  BY <1>3, <1>4, <1>5, <1>6, <1>7 DEF Call

(* The steps keep the types. *)
LEMMA TypeStep ==
  ASSUME TypeOK, NextInv, [Next]_vars
  PROVE  TypeOK'
<1> USE ContentAssumption DEF TypeOK, Goto, Done, journal, history, Steps
<1>1. ASSUME NEW op \in Ops, NEW next \in Bytes \cup {None}, NEW base \in Bytes \cup {None},
            NEW named \in Time \cup {None}, Begin(op, next, base, named),
            op \in {"write", "create", "rollback"} => next \in Bytes
     PROVE  TypeOK'
  <2>1. tx' \in Transaction
    BY <1>1 DEF Begin, Transaction
  <2>2. ops' \in 0 .. MaxOps
    BY <1>1, BoundAssumption DEF Begin
  <2> QED
    BY <1>1, <2>1, <2>2 DEF Begin
<1>2. CASE InspectUnseeded
  BY <1>2, Locals DEF InspectUnseeded, Pin, Bytes
<1>3. CASE Seed
  BY <1>3, Locals DEF Seed
<1>4. CASE InspectInterrupted
  BY <1>4, Locals DEF InspectInterrupted
<1>5. CASE Settle
  BY <1>5, Locals DEF Settle
<1>6. CASE InspectForeign
  <2>1. clock + 1 \in Time
    BY DEF Time
  <2>2. outside' \in Incident \cup {None}
    <3>1. CASE outside = None
      <4>1. head \in Bytes /\ tx.prev \in Bytes
        BY <1>6, Locals DEF InspectForeign
      <4>2. outside' = [restore |-> head, observed |-> tx.prev, at |-> clock + 1]
        BY <1>6, <3>1 DEF InspectForeign
      <4> QED
        BY <2>1, <4>1, <4>2, IncidentType
    <3> QED
      BY <1>6, <3>1 DEF InspectForeign
  <2> QED
    BY <1>6, <2>1, <2>2 DEF InspectForeign
<1>7. CASE InspectCommitted
  BY <1>7, Locals DEF InspectCommitted
<1>8. CASE EndRead
  BY <1>8, Locals DEF EndRead
<1>9. CASE DecideDemand
  <2>1. tx' \in Transaction
    BY <1>9, Locals DEF DecideDemand, Bytes, Content
  <2> QED
    BY <1>9, <2>1, PromotedType, BoundAssumption DEF DecideDemand, Pin, Content
<1>10. CASE Refuse
  BY <1>10, Locals DEF Refuse
<1>11. CASE DecideWrite
  <2>1. tx' \in Transaction
    BY <1>11, Locals DEF DecideWrite
  <2> QED
    BY <1>11, <2>1, PromotedType, BoundAssumption DEF DecideWrite, Pin, Content
<1>12. CASE DecideCreate
  BY <1>12, Locals DEF DecideCreate
<1>13. CASE DecideRollback
  BY <1>13, Locals DEF DecideRollback
<1>14. CASE DecideRecovery
  <2>1. tx' \in Transaction
    <3>1. outside # None => outside.restore \in Bytes
      BY DEF Incident
    <3>2. Effective => reset.restore \in Bytes
      BY DEF Reset, Effective
    <3>3. tx' = NoCall \/ \E n \in Bytes \cup {None}, k \in BOOLEAN :
            tx' = [tx EXCEPT !.next = n, !.keepReset = k]
      BY <1>14, <3>1, <3>2 DEF DecideRecovery
    <3>4. CASE tx' = NoCall
      BY <3>4, Locals
    <3>5. CASE \E n \in Bytes \cup {None}, k \in BOOLEAN : tx' = [tx EXCEPT !.next = n, !.keepReset = k]
      <4>1. PICK n \in Bytes \cup {None}, k \in BOOLEAN : tx' = [tx EXCEPT !.next = n, !.keepReset = k]
        BY <3>5
      <4> QED
        BY <4>1, Locals
    <3> QED
      BY <3>3, <3>4, <3>5
  <2> QED
    BY <1>14, <2>1, PromotedType, BoundAssumption DEF DecideRecovery
<1>15. CASE Adopt
  <2>1. tx' \in Transaction
    BY <1>15, Locals DEF Adopt
  <2> QED
    BY <1>15, <2>1, PromotedType, BoundAssumption DEF Adopt, Pin, Bytes
<1>16. CASE Flag
  <2>1. tx.next \in Bytes /\ tx.prev \in Bytes
    BY <1>16, Locals DEF Flag, NextInv
  <2>2. clock' \in Time /\ clock + 1 \in Time
    BY <1>16 DEF Flag, Time
  <2>3. reset' \in Reset
    <3>1. PICK x \in Bytes, y \in Bytes, b \in BOOLEAN :
            reset' = [restore |-> x, observed |-> y, at |-> clock + 1, pending |-> b]
      BY <1>16, <2>1 DEF Flag
    <3> QED
      BY <2>2, <3>1, IncidentType
  <2> QED
    BY <1>16, <2>2, <2>3, Locals DEF Flag
<1>17. CASE Store
  BY <1>17 DEF Store, Pin, NextInv, Bytes
<1>18. CASE Pend
  BY <1>18, Locals DEF Pend
<1>19. CASE ReplaceLive
  BY <1>19 DEF ReplaceLive, NextInv
<1>20. CASE LinkLive
  BY <1>20 DEF LinkLive, NextInv
<1>21. CASE LinkFailed
  BY <1>21, Locals DEF LinkFailed
<1>22. CASE CommitHead
  BY <1>22 DEF CommitHead, NextInv
<1>23. CASE ClearPending
  BY <1>23, Locals DEF ClearPending
<1>24. CASE PromoteReset
  BY <1>24, Locals, PromotedType DEF PromoteReset
<1>25. CASE RecordAccepted
  <2>1. accepted' \in Acceptance
    BY <1>25 DEF RecordAccepted, NextInv, Acceptance
  <2> QED
    BY <1>25, <2>1 DEF RecordAccepted
<1>26. CASE ClearOutside
  BY <1>26, Locals DEF ClearOutside
<1>27. CASE ClearReset
  BY <1>27, Locals DEF ClearReset
<1>28. CASE ReadAgain
  <2>1. tx' \in Transaction
    BY <1>28, Locals DEF ReadAgain
  <2> QED
    BY <1>28, <2>1, PromotedType, BoundAssumption DEF ReadAgain
<1>29. CASE Crash
  BY <1>29, Locals DEF Crash
<1>30. CASE Outsider
  BY <1>30, BoundAssumption DEF Outsider
<1>31. CASE UNCHANGED vars
  BY <1>31 DEF vars
<1>32. CASE Call
  BY <1>32, <1>1, CallCases
<1> QED
  BY <1>2, <1>3, <1>4, <1>5, <1>6, <1>7,
     <1>8, <1>9, <1>10, <1>11, <1>12, <1>13, <1>14, <1>15,
     <1>16, <1>17, <1>18, <1>19, <1>20, <1>21, <1>22, <1>23, <1>24, <1>25, <1>26, <1>27,
     <1>28, <1>29, <1>30, <1>31, <1>32 DEF Next, Inspect, Decide, Write

(* What is written is a content, for every operation that writes.          *)
LEMMA NextStep ==
  ASSUME TypeOK, NextInv, [Next]_vars
  PROVE  NextInv'
<1> USE ContentAssumption DEF NextInv, Goto, Done, history, journal
<1>1. ASSUME NEW op \in Ops, NEW next \in Bytes \cup {None}, NEW base \in Bytes \cup {None},
            NEW named \in Time \cup {None}, Begin(op, next, base, named),
            op \in {"write", "create", "rollback"} => next \in Bytes
     PROVE  NextInv'
  BY <1>1 DEF Begin
<1>2. CASE InspectUnseeded
  BY <1>2 DEF InspectUnseeded
<1>3. CASE Seed
  BY <1>3 DEF Seed
<1>4. CASE InspectInterrupted
  BY <1>4 DEF InspectInterrupted
<1>5. CASE Settle
  BY <1>5 DEF Settle
<1>6. CASE InspectForeign
  BY <1>6 DEF InspectForeign
<1>7. CASE InspectCommitted
  BY <1>7 DEF InspectCommitted
<1>8. CASE EndRead
  BY <1>8 DEF EndRead
<1>9. CASE DecideDemand
  <2>1. \A n \in Full : n \in Bytes /\ [tx EXCEPT !.next = n].next = n
    BY DEF Bytes, Content, TypeOK, Transaction
  <2> QED
    BY <1>9, <2>1 DEF DecideDemand
<1>10. CASE Refuse
  BY <1>10 DEF Refuse
<1>11. CASE DecideWrite
  <2>1. tx'.next = tx.next /\ tx'.op = tx.op /\ tx'.twice = tx.twice
    BY <1>11, Locals DEF DecideWrite, TypeOK, Transaction
  <2> QED
    BY <1>11, <2>1 DEF DecideWrite
<1>12. CASE DecideCreate
  BY <1>12 DEF DecideCreate
<1>13. CASE DecideRollback
  BY <1>13 DEF DecideRollback
<1>14. CASE DecideRecovery
  <2>1. outside # None => outside.restore \in Bytes
    BY DEF TypeOK, Incident
  <2>2. Effective => reset.restore \in Bytes
    BY DEF TypeOK, Reset, Effective
  <2>3. CASE at' = "again"
    <3>1. tx'.op = tx.op /\ (tx.op = "restore" => tx'.next \in Bytes) /\ tx.op \in {"restore", "accept"}
      BY <1>14, <2>1, <2>2, <2>3, ZenonT(60) DEF DecideRecovery, TypeOK, Transaction
    <3> QED
      BY <2>3, <3>1
  <2>4. CASE at' = "idle"
    BY <2>4
  <2> QED
    BY <1>14, <2>3, <2>4 DEF DecideRecovery
<1>15. CASE Adopt
  <2>1. tx'.next \in Bytes /\ tx'.op = "accept"
    BY <1>15 DEF Adopt, TypeOK, Transaction
  <2> QED
    BY <1>15, <2>1 DEF Adopt
<1>16. CASE Flag
  BY <1>16 DEF Flag
<1>17. CASE Store
  BY <1>17 DEF Store
<1>18. CASE Pend
  BY <1>18 DEF Pend
<1>19. CASE ReplaceLive
  BY <1>19 DEF ReplaceLive
<1>20. CASE LinkLive
  BY <1>20 DEF LinkLive
<1>21. CASE LinkFailed
  BY <1>21 DEF LinkFailed
<1>22. CASE CommitHead
  BY <1>22 DEF CommitHead
<1>23. CASE ClearPending
  BY <1>23 DEF ClearPending
<1>24. CASE PromoteReset
  BY <1>24 DEF PromoteReset
<1>25. CASE RecordAccepted
  BY <1>25 DEF RecordAccepted
<1>26. CASE ClearOutside
  BY <1>26 DEF ClearOutside
<1>27. CASE ClearReset
  BY <1>27 DEF ClearReset
<1>28. CASE ReadAgain
  BY <1>28 DEF ReadAgain
<1>29. CASE Crash
  BY <1>29 DEF Crash
<1>30. CASE Outsider
  BY <1>30 DEF Outsider
<1>31. CASE UNCHANGED vars
  BY <1>31 DEF vars
<1>32. CASE Call
  BY <1>32, <1>1, CallCases
<1> QED
  BY <1>2, <1>3, <1>4, <1>5, <1>6, <1>7,
     <1>8, <1>9, <1>10, <1>11, <1>12, <1>13, <1>14, <1>15,
     <1>16, <1>17, <1>18, <1>19, <1>20, <1>21, <1>22, <1>23, <1>24, <1>25, <1>26, <1>27,
     <1>28, <1>29, <1>30, <1>31, <1>32 DEF Next, Inspect, Decide, Write

(* Without outside writes the file is always what HEAD or PENDING says.    *)
LEMMA CleanStep ==
  ASSUME TypeOK, NextInv, CleanInv, [Next]_vars
  PROVE  CleanInv'
<1> USE ContentAssumption DEF CleanInv, Goto, Done, journal, history
<1>1. ASSUME NEW op \in Ops, NEW next \in Bytes \cup {None}, NEW base \in Bytes \cup {None},
            NEW named \in Time \cup {None}, Begin(op, next, base, named),
            op \in {"write", "create", "rollback"} => next \in Bytes
     PROVE  CleanInv'
  BY <1>1 DEF Begin
<1>2. CASE InspectUnseeded
  BY <1>2 DEF InspectUnseeded
<1>3. CASE Seed
  <2>1. tx.prev \in Bytes /\ None \notin Bytes
    BY Locals DEF Bytes, Content
  <2> QED
    BY <1>3, <2>1 DEF Seed
<1>4. CASE InspectInterrupted
  BY <1>4 DEF InspectInterrupted
<1>5. CASE Settle
  BY <1>5 DEF Settle
<1>6. CASE InspectForeign
  BY <1>6 DEF InspectForeign
<1>7. CASE InspectCommitted
  BY <1>7 DEF InspectCommitted
<1>8. CASE EndRead
  BY <1>8 DEF EndRead
<1>9. CASE DecideDemand
  BY <1>9 DEF DecideDemand
<1>10. CASE Refuse
  BY <1>10 DEF Refuse
<1>11. CASE DecideWrite
  BY <1>11 DEF DecideWrite
<1>12. CASE DecideCreate
  BY <1>12 DEF DecideCreate
<1>13. CASE DecideRollback
  BY <1>13 DEF DecideRollback
<1>14. CASE DecideRecovery
  BY <1>14 DEF DecideRecovery
<1>15. CASE Adopt
  BY <1>15 DEF Adopt
<1>16. CASE Flag
  BY <1>16 DEF Flag
<1>17. CASE Store
  BY <1>17 DEF Store
<1>18. CASE Pend
  BY <1>18 DEF Pend
<1>19. CASE ReplaceLive
  BY <1>19 DEF ReplaceLive
<1>20. CASE LinkLive
  BY <1>20 DEF LinkLive
<1>21. CASE LinkFailed
  BY <1>21 DEF LinkFailed
<1>22. CASE CommitHead
  <2>1. tx.next \in Bytes /\ None \notin Bytes
    BY <1>22 DEF CommitHead, NextInv, Bytes, Content
  <2> QED
    BY <1>22, <2>1 DEF CommitHead
<1>23. CASE ClearPending
  BY <1>23 DEF ClearPending
<1>24. CASE PromoteReset
  BY <1>24 DEF PromoteReset
<1>25. CASE RecordAccepted
  BY <1>25 DEF RecordAccepted
<1>26. CASE ClearOutside
  BY <1>26 DEF ClearOutside
<1>27. CASE ClearReset
  BY <1>27 DEF ClearReset
<1>28. CASE ReadAgain
  BY <1>28 DEF ReadAgain
<1>29. CASE Crash
  BY <1>29 DEF Crash
<1>30. CASE Outsider
  BY <1>30 DEF Outsider, TypeOK
<1>31. CASE UNCHANGED vars
  BY <1>31 DEF vars
<1>32. CASE Call
  BY <1>32, <1>1, CallCases
<1> QED
  BY <1>2, <1>3, <1>4, <1>5, <1>6, <1>7,
     <1>8, <1>9, <1>10, <1>11, <1>12, <1>13, <1>14, <1>15,
     <1>16, <1>17, <1>18, <1>19, <1>20, <1>21, <1>22, <1>23, <1>24, <1>25, <1>26, <1>27,
     <1>28, <1>29, <1>30, <1>31, <1>32 DEF Next, Inspect, Decide, Write

(* A record is written only after the content it names.                    *)
LEMMA StoredStep ==
  ASSUME TypeOK, NextInv, StoredInv, [Next]_vars
  PROVE  StoredInv'
<1> USE ContentAssumption DEF StoredInv, PinsAreStored, Goto, Done, journal, history
<1>1. ASSUME NEW op \in Ops, NEW next \in Bytes \cup {None}, NEW base \in Bytes \cup {None},
            NEW named \in Time \cup {None}, Begin(op, next, base, named),
            op \in {"write", "create", "rollback"} => next \in Bytes
     PROVE  StoredInv'
  BY <1>1 DEF Begin
<1>2. CASE InspectUnseeded
  BY <1>2 DEF InspectUnseeded, Pin
<1>3. CASE Seed
  BY <1>3 DEF Seed
<1>4. CASE InspectInterrupted
  BY <1>4 DEF InspectInterrupted
<1>5. CASE Settle
  BY <1>5 DEF Settle
<1>6. CASE InspectForeign
  BY <1>6 DEF InspectForeign
<1>7. CASE InspectCommitted
  BY <1>7 DEF InspectCommitted
<1>8. CASE EndRead
  BY <1>8 DEF EndRead
<1>9. CASE DecideDemand
  <2>1. \A n \in Full : [tx EXCEPT !.next = n].next = n /\ [tx EXCEPT !.next = n].op = tx.op
    BY DEF TypeOK, Transaction
  <2>2. reset' # None => reset # None /\ reset'.restore = reset.restore
    BY <1>9 DEF DecideDemand, Promoted, Promotable, TypeOK, Reset
  <2> QED
    BY <1>9, <2>1, <2>2 DEF DecideDemand, Pin
<1>10. CASE Refuse
  BY <1>10 DEF Refuse
<1>11. CASE DecideWrite
  BY <1>11 DEF DecideWrite, Pin, Promoted, Promotable
<1>12. CASE DecideCreate
  BY <1>12 DEF DecideCreate
<1>13. CASE DecideRollback
  BY <1>13 DEF DecideRollback
<1>14. CASE DecideRecovery
  BY <1>14 DEF DecideRecovery, Promoted, Promotable
<1>15. CASE Adopt
  BY <1>15 DEF Adopt, Pin
<1>16. CASE Flag
  BY <1>16 DEF Flag
<1>17. CASE Store
  BY <1>17 DEF Store, Pin
<1>18. CASE Pend
  BY <1>18 DEF Pend
<1>19. CASE ReplaceLive
  BY <1>19 DEF ReplaceLive
<1>20. CASE LinkLive
  BY <1>20 DEF LinkLive
<1>21. CASE LinkFailed
  BY <1>21 DEF LinkFailed
<1>22. CASE CommitHead
  BY <1>22 DEF CommitHead
<1>23. CASE ClearPending
  BY <1>23 DEF ClearPending
<1>24. CASE PromoteReset
  BY <1>24 DEF PromoteReset, Promoted, Promotable
<1>25. CASE RecordAccepted
  BY <1>25 DEF RecordAccepted
<1>26. CASE ClearOutside
  BY <1>26 DEF ClearOutside
<1>27. CASE ClearReset
  BY <1>27 DEF ClearReset
<1>28. CASE ReadAgain
  BY <1>28 DEF ReadAgain
<1>29. CASE Crash
  BY <1>29 DEF Crash
<1>30. CASE Outsider
  BY <1>30 DEF Outsider
<1>31. CASE UNCHANGED vars
  BY <1>31 DEF vars
<1>32. CASE Call
  BY <1>32, <1>1, CallCases
<1> QED
  BY <1>2, <1>3, <1>4, <1>5, <1>6, <1>7,
     <1>8, <1>9, <1>10, <1>11, <1>12, <1>13, <1>14, <1>15,
     <1>16, <1>17, <1>18, <1>19, <1>20, <1>21, <1>22, <1>23, <1>24, <1>25, <1>26, <1>27,
     <1>28, <1>29, <1>30, <1>31, <1>32 DEF Next, Inspect, Decide, Write

(* The invariant holds at the start and every step keeps it.               *)
THEOREM Invariant == Spec => []IInv
<1>1. Init => IInv
  <2>1. Init => TypeOK
    <3>1. 0 \in 0 .. MaxOps /\ 0 \in 0 .. MaxOutside /\ 0 \in Time
      BY BoundAssumption DEF Time
    <3> QED
      BY <3>1, NoCallType DEF Init, TypeOK, Steps
  <2>2. Init => NextInv /\ CleanInv /\ StoredInv
    BY ContentAssumption DEF Init, NextInv, CleanInv, StoredInv, PinsAreStored
  <2> QED
    BY <2>1, <2>2 DEF IInv
<1>2. IInv /\ [Next]_vars => IInv'
  BY TypeStep, NextStep, CleanStep, StoredStep DEF IInv
<1> QED
  BY <1>1, <1>2, PTL DEF Spec

(* The file, the journal and the locals of an operation keep their types.  *)
THEOREM TypeCorrect == Spec => []TypeOK
<1>1. IInv => TypeOK
  BY DEF IInv
<1> QED
  BY Invariant, <1>1, PTL

(* However many operations are interrupted, and wherever, a home that only *)
(* HomeStore writes never shows an outside write.                          *)
THEOREM CrashesRaiseNoAlarm == Spec => []NoFalseAlarm
<1>1. IInv => NoFalseAlarm
  BY DEF IInv, CleanInv, NoFalseAlarm
<1> QED
  BY Invariant, <1>1, PTL

(* No crash leaves HEAD, PENDING or a flag pointing at bytes that are not  *)
(* in the journal, whatever outside writers do.                            *)
THEOREM PinsStay == Spec => []PinsAreStored
<1>1. IInv => PinsAreStored
  BY DEF IInv, StoredInv
<1> QED
  BY Invariant, <1>1, PTL

-----------------------------------------------------------------------------
(* What an operation knows when nobody races it, and what it commits.  The *)
(* journal agrees with what was read once the inspection is over, unless   *)
(* an incident stands.                                                     *)
Before == {"inspect", "seed", "settle", "decide", "flag", "store", "pend", "live"}
After  == {"clear", "promote", "accepted", "unflag", "unreset"}

JournalInv ==
  /\ head = None => pending = None
  /\ at = "seed" => head = None
  /\ at \notin {"idle", "inspect", "seed"} => head # None
  /\ at = "settle" => head = tx.prev
  /\ at = "decide" => outside # None \/ (pending = None /\ head = tx.prev)
  /\ at \in After => head = tx.next

(* Nobody wrote the file behind the operation's back.                      *)
RaceInv ==
  /\ raced => outsiders # 0
  /\ ~raced /\ at \in Before => live = tx.prev
  /\ ~raced /\ at \in After \cup {"head"} => live = tx.next

(* Which operations get to a step.                                         *)
RouteInv ==
  /\ at = "flag" => tx.op \in {"write", "demand"}
  /\ at \in {"store", "pend", "live"} => tx.op \in {"write", "create", "rollback", "restore"}
  /\ at = "exists" => tx.op = "create"
  /\ at \in {"head", "clear"} => tx.op \in {"write", "create", "rollback", "restore", "accept"}
  /\ at = "promote" => tx.op = "write"
  /\ at \in {"store", "pend", "live", "head"} \cup After /\ tx.op \in {"restore", "accept"} => tx.twice
  /\ at \in {"accepted", "unflag", "unreset"} => tx.op \in {"write", "rollback", "restore", "accept"}

(* An ordinary write starts from HEAD, or heals a deletion.                *)
WriteInv ==
  /\ (at \in {"flag", "store", "pend", "live"} /\ tx.op \in {"write", "create"}) =>
       \/ outside = None /\ head = tx.prev
       \/ tx.op = "write" /\ outside # None /\ tx.prev = Absent /\ tx.base = outside.restore
  /\ (at \in After \cup {"head"} /\ tx.op = "write" /\ outside # None) => tx.base = outside.restore
  /\ at = "head" /\ tx.op = "create" /\ ~raced => head = Absent

(* A restore or an acceptance is of the incident that its caller named.    *)
NamedInv ==
  (tx.op \in {"restore", "accept"} /\ (at = "again" \/ tx.twice) /\ ~raced) =>
    /\ outside # None =>
         tx.named \in {None, outside.at} /\ (tx.op = "restore" => tx.next = outside.restore)
    /\ at \in {"again", "inspect", "seed", "settle", "decide"} /\ outside = None =>
         pending = None /\ head = live /\ head # None

PurposeInv == JournalInv /\ RaceInv /\ RouteInv /\ WriteInv /\ NamedInv

(* Foreign bytes leave an incident behind. *)
LEMMA Flagged ==
  ASSUME TypeOK, InspectForeign
  PROVE  outside' # None
<1>1. head \in Bytes /\ clock + 1 \in Time
  BY DEF InspectForeign, TypeOK, Time
<1>2. tx.prev \in Bytes
  BY Locals
<1>3. CASE outside = None
  <2>1. outside' = [restore |-> head, observed |-> tx.prev, at |-> clock + 1]
    BY <1>3 DEF InspectForeign
  <2>2. outside' \in Incident
    BY <2>1, <1>1, <1>2, IncidentType
  <2> QED
    BY <2>2, RecordAssumption
<1> QED
  BY <1>3 DEF InspectForeign

(* Every step keeps what operations know and mean.                         *)
LEMMA PurposeStep ==
  ASSUME TypeOK, NextInv, PurposeInv, [Next]_vars
  PROVE  PurposeInv'
<1> USE ContentAssumption DEF PurposeInv, JournalInv, RaceInv, RouteInv, WriteInv, NamedInv, Before,
       After, Goto, Done,
       journal, history
<1>1. ASSUME NEW op \in Ops, NEW next \in Bytes \cup {None}, NEW base \in Bytes \cup {None},
            NEW named \in Time \cup {None}, Begin(op, next, base, named),
            op \in {"write", "create", "rollback"} => next \in Bytes
     PROVE  PurposeInv'
  BY <1>1 DEF Begin
<1>2. CASE InspectUnseeded
  BY <1>2 DEF InspectUnseeded
<1>3. CASE Seed
  BY <1>3 DEF Seed, TypeOK, Transaction, Bytes, Content
<1>4. CASE InspectInterrupted
  BY <1>4 DEF InspectInterrupted
<1>5. CASE Settle
  BY <1>5 DEF Settle
<1>6. CASE InspectForeign
  <2>1. /\ at = "inspect" /\ at' = "decide" /\ tx' = tx /\ head # None
        /\ outside # None => outside' = outside
        /\ outside = None => outside' = [restore |-> head, observed |-> tx.prev, at |-> clock + 1]
        /\ tx.prev # head /\ UNCHANGED <<live, head, pending, raced, outsiders>>
    BY <1>6 DEF InspectForeign
  <2>2. outside' # None
    BY <1>6, Flagged
  <2> QED
    BY <2>1, <2>2
<1>7. CASE InspectCommitted
  BY <1>7 DEF InspectCommitted
<1>8. CASE EndRead
  BY <1>8 DEF EndRead, NoCall
<1>9. CASE DecideDemand
  BY <1>9 DEF DecideDemand, NoCall, TypeOK, Transaction
<1>10. CASE Refuse
  BY <1>10 DEF Refuse, NoCall
<1>11. CASE DecideWrite
  <2>1. /\ tx'.op = tx.op /\ tx'.next = tx.next /\ tx'.prev = tx.prev /\ tx'.base = tx.base
        /\ tx'.twice = tx.twice
    BY <1>11 DEF DecideWrite, TypeOK, Transaction
  <2>2. /\ at = "decide" /\ at' \in {"flag", "store"} /\ tx.op = "write"
        /\ outside = None \/ Healing
        /\ UNCHANGED <<live, head, pending, outside, raced, outsiders>>
    BY <1>11 DEF DecideWrite
  <2> QED
    BY <2>1, <2>2 DEF Healing
<1>12. CASE DecideCreate
  BY <1>12 DEF DecideCreate
<1>13. CASE DecideRollback
  BY <1>13 DEF DecideRollback
<1>14. CASE DecideRecovery
  <2>1. CASE at' = "idle" /\ tx' = NoCall
    BY <1>14, <2>1 DEF DecideRecovery, NoCall
  <2>2. CASE at' = "again"
    <3>1. outside # None => outside.restore \in Bytes
      BY DEF TypeOK, Incident
    <3>2. Effective => reset.restore \in Bytes
      BY DEF TypeOK, Reset, Effective
    <3>3. PICK n \in Bytes \cup {None}, k \in BOOLEAN : tx' = [tx EXCEPT !.next = n, !.keepReset = k]
      BY <1>14, <2>2, <3>1, <3>2 DEF DecideRecovery
    <3>4. /\ tx'.op = tx.op /\ tx'.named = tx.named /\ tx'.twice = tx.twice
          /\ tx.op \in {"restore", "accept"} /\ ~tx.twice /\ at = "decide"
      BY <1>14, <2>2, <3>3 DEF DecideRecovery, TypeOK, Transaction
    <3>5. outside # None =>
            tx.named \in {None, outside.at} /\ (tx.op = "restore" => tx'.next = outside.restore)
      BY <1>14, <2>2 DEF DecideRecovery, Named, TypeOK, Transaction
    <3>6. UNCHANGED <<live, head, pending, outside, raced, outsiders>>
      BY <1>14 DEF DecideRecovery
    <3>7. ~raced => live = tx.prev
      BY <3>4
    <3> QED
      BY <2>2, <3>4, <3>5, <3>6, <3>7
  <2> QED
    BY <1>14, <2>1, <2>2 DEF DecideRecovery
<1>15. CASE Adopt
  BY <1>15 DEF Adopt
<1>16. CASE Flag
  BY <1>16 DEF Flag, NoCall, TypeOK, Transaction
<1>17. CASE Store
  BY <1>17 DEF Store
<1>18. CASE Pend
  BY <1>18 DEF Pend
<1>19. CASE ReplaceLive
  BY <1>19 DEF ReplaceLive
<1>20. CASE LinkLive
  BY <1>20 DEF LinkLive
<1>21. CASE LinkFailed
  BY <1>21 DEF LinkFailed, NoCall
<1>22. CASE CommitHead
  <2>1. tx.next \in Bytes /\ None \notin Bytes
    BY <1>22 DEF CommitHead, NextInv, Bytes, Content
  <2> QED
    BY <1>22, <2>1 DEF CommitHead
<1>23. CASE ClearPending
  BY <1>23 DEF ClearPending, NoCall
<1>24. CASE PromoteReset
  BY <1>24 DEF PromoteReset, NoCall
<1>25. CASE RecordAccepted
  BY <1>25 DEF RecordAccepted
<1>26. CASE ClearOutside
  BY <1>26 DEF ClearOutside
<1>27. CASE ClearReset
  BY <1>27 DEF ClearReset, NoCall
<1>28. CASE ReadAgain
  BY <1>28 DEF ReadAgain
<1>29. CASE Crash
  BY <1>29 DEF Crash, NoCall
<1>30. CASE Outsider
  BY <1>30 DEF Outsider, TypeOK, Transaction, Bytes, Content
<1>31. CASE UNCHANGED vars
  BY <1>31 DEF vars
<1>32. CASE Call
  BY <1>32, <1>1, CallCases
<1> QED
  BY <1>2, <1>3, <1>4, <1>5, <1>6, <1>7, <1>8, <1>9, <1>10, <1>11, <1>12, <1>13, <1>14, <1>15,
     <1>16, <1>17, <1>18, <1>19, <1>20, <1>21, <1>22, <1>23, <1>24, <1>25, <1>26, <1>27,
     <1>28, <1>29, <1>30, <1>31, <1>32 DEF Next, Inspect, Decide, Write

(* They are invariants, whoever else writes the file.                      *)
LEMMA PurposeInvariant == Spec => [](IInv /\ PurposeInv)
<1>1. Init => PurposeInv
  BY ContentAssumption DEF Init, PurposeInv, JournalInv, RaceInv, RouteInv, WriteInv, NamedInv, Before, After, NoCall
<1>2. IInv /\ PurposeInv /\ [Next]_vars => PurposeInv'
  BY PurposeStep DEF IInv
<1> QED
  BY <1>1, <1>2, Invariant, PTL DEF Spec

(* An ordinary write replaces the version it was decided on, which is the  *)
(* committed one, unless it heals a deletion with the pinned version.      *)
THEOREM WritesStartOnHead == Spec => []WritesStartFromHead
<1>1. PurposeInv => WritesStartFromHead
  BY DEF PurposeInv, RaceInv, WriteInv, Before, WritesStartFromHead
<1> QED
  BY <1>1, PurposeInvariant, PTL

(* A creation nobody races never takes a file that is there, for every     *)
(* content and every number of crashes and outside writes.                 *)
THEOREM CreationsHold == Spec => CreationsAreExclusive
<1>1. PurposeInv => (at = "head" /\ tx.op = "create" /\ ~raced => head = Absent)
  BY DEF PurposeInv, WriteInv
<1> QED
  BY <1>1, PurposeInvariant, PTL DEF Spec, CreationsAreExclusive

(* Only the last step of an operation that means to resolve it takes an    *)
(* incident away, and then HEAD is what that operation was asked for.      *)
THEOREM IncidentsHold == Spec => IncidentsEndOnPurpose
<1>1. ASSUME TypeOK, PurposeInv, [Next]_vars, outside # None, outside' # outside
      PROVE  outside' = None /\ Resolves
  <2> USE <1>1
  <2>1. ClearOutside
    <3>1. Crash \/ Outsider \/ ReadAgain \/ UNCHANGED vars => outside' = outside
      BY DEF Crash, Outsider, ReadAgain, vars, journal
    <3>2. Inspect => outside' = outside
      BY DEF Inspect, InspectUnseeded, Seed, InspectInterrupted, Settle, InspectForeign, InspectCommitted, journal
    <3>3. Decide => outside' = outside
      BY DEF Decide, EndRead, DecideDemand, Refuse, DecideWrite, DecideCreate, DecideRollback, DecideRecovery,
             Adopt, journal
    <3>4. Write => outside' = outside \/ ClearOutside
      BY DEF Write, Flag, Store, Pend, ReplaceLive, LinkLive, LinkFailed, CommitHead, ClearPending, PromoteReset,
             RecordAccepted, ClearReset, journal
    <3>5. Call => outside' = outside
      BY CallCases DEF Begin, journal
    <3> QED
      BY <3>1, <3>2, <3>3, <3>4, <3>5 DEF Next
  <2>2. at = "unflag" /\ outside' = None
    BY <2>1 DEF ClearOutside
  <2>3. /\ tx.op \in {"write", "rollback", "restore", "accept"} /\ head = tx.next
        /\ tx.op \in {"restore", "accept"} => tx.twice
        /\ tx.op = "write" => tx.base = outside.restore
        /\ ~raced => live = tx.next
    BY <2>2 DEF PurposeInv, JournalInv, RouteInv, WriteInv, RaceInv, After
  <2>4. tx.op \in {"restore", "accept"} /\ ~raced =>
          tx.named \in {None, outside.at} /\ (tx.op = "restore" => tx.next = outside.restore)
    BY <2>3 DEF PurposeInv, NamedInv
  <2> QED
    BY <2>2, <2>3, <2>4 DEF Resolves
<1>2. IInv /\ PurposeInv /\ [Next]_vars => (outside # None /\ outside' # outside => outside' = None /\ Resolves)
  BY <1>1 DEF IInv
<1> QED
  BY <1>2, PurposeInvariant, PTL DEF Spec, IncidentsEndOnPurpose

-----------------------------------------------------------------------------
(* With nobody else about: a reset names registries, its empty one did     *)
(* replace a full one or waits for it, and once one has there is a reset   *)
(* that counts, or will.                                                   *)
CallInv ==
  /\ Fits /\ emptied \subseteq Empty
  /\ at # "idle" /\ tx.op \in {"write", "create"} => tx.next \in Callers
  /\ at # "idle" /\ tx.op = "rollback" => tx.next # Absent
  /\ at = "flag" /\ tx.op = "demand" => tx.prev \in Empty /\ tx.next \in Full
  /\ outsiders = 0 /\ tx.op = "restore" /\ (at = "again" \/ tx.twice) => tx.next \in Full
  /\ outsiders = 0 /\ tx.op = "accept" /\ at = "head" => head = tx.next

ResetInv ==
  (outsiders = 0 /\ reset # None) =>
    /\ file = "registry" /\ reset.restore \in Full /\ reset.observed \in Empty
    /\ \/ reset.observed \in emptied
       \/ reset.pending /\ {head, live} \subseteq Full \cup emptied

FlagInv ==
  outsiders = 0 =>
    /\ at = "flag" => /\ ~Effective /\ owed = None
                      /\ \/ tx.op = "write" /\ tx.prev \in Full /\ tx.next \in Empty
                         \/ tx.op = "demand" /\ tx.prev \in Empty /\ tx.next \in Full
    /\ (at \in {"store", "pend", "live"} /\ tx.op = "write" /\ tx.prev \in Full /\ tx.next \in Empty) =>
         reset # None /\ (reset.pending => reset.observed = tx.next)
    /\ (at \in {"store", "pend", "live"} /\ tx.op = "write" /\ owed # None) => ~reset.pending
    /\ at \in {"head", "clear"} /\ tx.op \in {"rollback", "restore"} => owed = None
    /\ owed # None /\ reset.pending /\ head = reset.observed => live = head

RegistryInv == CallInv /\ ResetInv /\ FlagInv /\ EmptyingIsFlagged

(* What a step does to the history variables.                              *)
LEMMA Moves ==
  ASSUME HNext
  PROVE  /\ Next /\ file' = file /\ Contents' = Contents /\ Callers' = Callers /\ live' \in Contents \cup {Absent}
         /\ at \notin {"live", "flag", "unreset"} => emptied' = emptied /\ owed' = owed
         /\ \/ emptied' = emptied
            \/ at = "live" /\ at' = "head" /\ tx.next \in Empty /\ emptied' = emptied \cup {tx.next}
            \/ at = "flag" /\ tx.op = "demand" /\ emptied' = emptied \cup {tx.prev}
         /\ \/ owed' \in {owed, None}
            \/ at = "live" /\ at' = "head" /\ tx.op = "write" /\ owed = None
         /\ at = "idle" /\ tx'.op \in {"write", "create"} => tx'.next \in Callers
BY DEF HNext, Contents, Callers, Fits, Replaces, Empties, ReplaceLive, Flag, ClearReset, Goto

(* What an operation decides does not change what it was called with.      *)
LEMMA Kept ==
  ASSUME TypeOK, DecideDemand \/ DecideWrite \/ DecideRecovery \/ Adopt, at' # "idle"
  PROVE  /\ tx'.op = tx.op /\ tx'.prev = tx.prev /\ tx'.base = tx.base /\ tx'.named = tx.named
         /\ tx'.twice = tx.twice
<1> USE DEF TypeOK, Transaction, Done
<1>1. CASE DecideDemand
  BY <1>1 DEF DecideDemand
<1>2. CASE DecideWrite
  BY <1>2 DEF DecideWrite
<1>3. CASE DecideRecovery
  BY <1>3 DEF DecideRecovery
<1>4. CASE Adopt
  BY <1>4 DEF Adopt
<1> QED
  BY <1>1, <1>2, <1>3, <1>4

LEMMA Decided ==
  ASSUME TypeOK, at' # "idle"
  PROVE  /\ DecideDemand => tx'.next \in Full
         /\ DecideWrite => tx'.next = tx.next
         /\ DecideRecovery => tx'.next = IF tx.op # "restore" THEN None
                                        ELSE IF outside # None THEN outside.restore ELSE reset.restore
         /\ Adopt => tx'.next = live
<1> USE DEF TypeOK, Transaction, Done
<1>1. DecideDemand => tx'.next \in Full
  BY DEF DecideDemand
<1>2. DecideWrite => tx'.next = tx.next
  BY DEF DecideWrite
<1>3. DecideRecovery => tx'.next = IF tx.op # "restore" THEN None
                                  ELSE IF outside # None THEN outside.restore ELSE reset.restore
  BY DEF DecideRecovery
<1>4. Adopt => tx'.next = live
  BY DEF Adopt
<1> QED
  BY <1>1, <1>2, <1>3, <1>4

(* A pending reset counts once it is promoted, and keeps what it names.    *)
LEMMA PromotedIs ==
  ASSUME TypeOK, reset' = Promoted, head' = head
  PROVE  /\ Effective' = Effective /\ (Effective => ~reset'.pending)
         /\ reset' = None <=> reset = None
         /\ reset # None => /\ reset'.restore = reset.restore /\ reset'.observed = reset.observed
                            /\ reset'.pending => reset.pending
                            /\ reset'.pending \/ ~reset.pending \/ head = reset.observed
<1>1. CASE reset = None
  BY <1>1 DEF Promoted, Promotable, Effective
<1>2. CASE reset # None
  <2>1. reset \in Reset
    BY <1>2 DEF TypeOK
  <2>2. reset' \in Reset
    BY <1>2, <2>1, PromotedType DEF Promoted, Promotable, Reset
  <2>3. CASE Promotable
    BY <2>1, <2>2, <2>3, RecordAssumption DEF Promoted, Promotable, Effective, Reset
  <2>4. CASE ~Promotable
    BY <2>1, <2>2, <2>4, RecordAssumption DEF Promoted, Promotable, Effective, Reset
  <2> QED
    BY <2>3, <2>4
<1> QED
  BY <1>1, <1>2

(* What a write that flags leaves behind.                                  *)
LEMMA FlaggedIs ==
  ASSUME TypeOK, NextInv, Flag
  PROVE  /\ reset' # None
         /\ tx.op = "write" => reset'.restore = tx.prev /\ reset'.observed = tx.next /\ reset'.pending
         /\ tx.op = "demand" => reset'.restore = tx.next /\ reset'.observed = tx.prev /\ ~reset'.pending
<1>1. tx.next \in Bytes /\ tx.prev \in Bytes
  BY Locals DEF Flag, NextInv
<1>2. clock + 1 \in Time
  BY DEF TypeOK, Time
<1>3. CASE tx.op = "write"
  <2>1. reset' = [restore |-> tx.prev, observed |-> tx.next, at |-> clock + 1, pending |-> TRUE]
    BY <1>3 DEF Flag
  <2>2. reset' \in Reset
    BY <2>1, <1>1, <1>2, IncidentType
  <2> QED
    BY <1>3, <2>1, <2>2, RecordAssumption
<1>4. CASE tx.op = "demand"
  <2>1. reset' = [restore |-> tx.next, observed |-> tx.prev, at |-> clock + 1, pending |-> FALSE]
    BY <1>4 DEF Flag
  <2>2. reset' \in Reset
    BY <2>1, <1>1, <1>2, IncidentType
  <2> QED
    BY <1>4, <2>1, <2>2, RecordAssumption
<1> QED
  BY <1>3, <1>4 DEF Flag

(* What a replacement does to the history variables.                       *)
LEMMA Replacing ==
  ASSUME HNext, ReplaceLive
  PROVE  /\ emptied' = IF tx.next \in Empty /\ tx.prev \in Full \cup emptied THEN emptied \cup {tx.next} ELSE emptied
         /\ tx.op # "write" => owed' = None
         /\ tx.op = "write" => owed' = owed \/ (owed = None /\ tx.prev \in Full /\ tx.next \in Empty)
BY DEF HNext, Replaces, Empties, ReplaceLive, Flag, ClearReset

(* What is written belongs to the kind of file.                            *)
LEMMA CallStep ==
  ASSUME TypeOK, NextInv, PurposeInv, RegistryInv, HNext, CleanInv
  PROVE  CallInv'
<1> USE ContentAssumption DEF Goto, Done, journal, history, Contents, Callers, CallInv, Fits, RegistryInv
<1>1. ASSUME NEW op \in Ops, NEW next \in Bytes \cup {None}, NEW base \in Bytes \cup {None},
            NEW named \in Time \cup {None}, Begin(op, next, base, named), op = "rollback" => next # Absent
     PROVE  CallInv'
  BY <1>1, Moves DEF Begin
<1>2. CASE InspectUnseeded
  BY <1>2, Moves DEF InspectUnseeded
<1>3. CASE Seed
  BY <1>3, Moves DEF Seed
<1>4. CASE InspectInterrupted
  BY <1>4, Moves DEF InspectInterrupted
<1>5. CASE Settle
  BY <1>5, Moves DEF Settle
<1>6. CASE InspectForeign
  BY <1>6, Moves DEF InspectForeign
<1>7. CASE InspectCommitted
  BY <1>7, Moves DEF InspectCommitted
<1>8. CASE EndRead
  BY <1>8, Moves DEF EndRead, NoCall
<1>9. CASE DecideDemand
  <2>1. CASE at' = "idle"
    BY <1>9, <2>1, Moves DEF DecideDemand, NoCall
  <2>2. CASE at' # "idle"
    BY <1>9, <2>2, Moves, Kept, Decided DEF DecideDemand
  <2> QED
    BY <2>1, <2>2
<1>10. CASE Refuse
  BY <1>10, Moves DEF Refuse, NoCall
<1>11. CASE DecideWrite
  BY <1>11, Moves DEF DecideWrite
<1>12. CASE DecideCreate
  BY <1>12, Moves DEF DecideCreate
<1>13. CASE DecideRollback
  BY <1>13, Moves DEF DecideRollback
<1>14. CASE DecideRecovery
  <2>1. CASE at' = "idle"
    BY <1>14, <2>1, Moves DEF DecideRecovery, NoCall
  <2>2. CASE at' # "idle"
    <3>1. outsiders = 0 /\ tx.op = "restore" => tx'.next \in Full
      BY <1>14, <2>2, Decided DEF DecideRecovery, CleanInv, ResetInv, Effective
    <3> QED
      BY <1>14, <2>2, <3>1, Moves, Kept DEF DecideRecovery
  <2> QED
    BY <2>1, <2>2
<1>15. CASE Adopt
  <2>1. outsiders = 0 => live = head
    BY <1>15 DEF Adopt, CleanInv
  <2>2. at' # "idle"
    BY <1>15 DEF Adopt
  <2> QED
    BY <1>15, <2>1, <2>2, Moves, Kept, Decided DEF Adopt
<1>16. CASE Flag
  BY <1>16, Moves DEF Flag, NoCall
<1>17. CASE Store
  BY <1>17, Moves DEF Store
<1>18. CASE Pend
  BY <1>18, Moves DEF Pend
<1>19. CASE ReplaceLive
  BY <1>19, Moves DEF ReplaceLive, PurposeInv, RouteInv
<1>20. CASE LinkLive
  BY <1>20, Moves DEF LinkLive, PurposeInv, RouteInv
<1>21. CASE LinkFailed
  BY <1>21, Moves DEF LinkFailed, NoCall
<1>22. CASE CommitHead
  BY <1>22, Moves DEF CommitHead
<1>23. CASE ClearPending
  BY <1>23, Moves DEF ClearPending, NoCall
<1>24. CASE PromoteReset
  BY <1>24, Moves DEF PromoteReset, NoCall
<1>25. CASE RecordAccepted
  BY <1>25, Moves DEF RecordAccepted
<1>26. CASE ClearOutside
  BY <1>26, Moves DEF ClearOutside, NoCall
<1>27. CASE ClearReset
  BY <1>27, Moves DEF ClearReset, NoCall
<1>28. CASE ReadAgain
  BY <1>28, Moves DEF ReadAgain
<1>29. CASE Crash
  BY <1>29, Moves DEF Crash, NoCall
<1>30. CASE Outsider
  <2>1. outsiders' # 0
    BY <1>30, BoundAssumption DEF Outsider, TypeOK
  <2> QED
    BY <1>30, <2>1, Moves DEF Outsider
<1>31. CASE UNCHANGED <<vars, emptied, owed, file>>
  BY <1>31 DEF vars
<1>32. CASE Call
  BY <1>32, <1>1, CallCases
<1> QED
  BY <1>2, <1>3, <1>4, <1>5, <1>6, <1>7, <1>8, <1>9, <1>10, <1>11, <1>12, <1>13, <1>14, <1>15,
     <1>16, <1>17, <1>18, <1>19, <1>20, <1>21, <1>22, <1>23, <1>24, <1>25, <1>26, <1>27,
     <1>28, <1>29, <1>30, <1>31, <1>32, Moves DEF Next, Inspect, Decide, Write
(* Resets name registries.                                                 *)
LEMMA ResetStep ==
  ASSUME CleanInv, TypeOK, NextInv, PurposeInv, RegistryInv, HNext, outsiders = 0, outsiders' = 0
  PROVE  ResetInv'
<1> USE ContentAssumption DEF Goto, Done, journal, history, Contents, Callers, CleanInv, PurposeInv,
       RaceInv, Before, CallInv, Fits, RegistryInv, ResetInv, Effective
<1>1. ASSUME NEW op \in Ops, NEW next \in Bytes \cup {None}, NEW base \in Bytes \cup {None},
            NEW named \in Time \cup {None}, Begin(op, next, base, named), op = "rollback" => next # Absent
     PROVE  ResetInv'
  BY <1>1, Moves DEF Begin
<1>2. CASE InspectUnseeded
  BY <1>2, Moves DEF InspectUnseeded
<1>3. CASE Seed
  BY <1>3, Moves DEF Seed
<1>4. CASE InspectInterrupted
  BY <1>4, Moves DEF InspectInterrupted
<1>5. CASE Settle
  BY <1>5, Moves DEF Settle
<1>6. CASE InspectForeign
  BY <1>6, Moves DEF InspectForeign
<1>7. CASE InspectCommitted
  BY <1>7, Moves DEF InspectCommitted
<1>8. CASE EndRead
  BY <1>8, Moves DEF EndRead, NoCall
<1>9. CASE DecideDemand
  <2>1. CASE reset' = reset
    BY <1>9, <2>1, Moves DEF DecideDemand
  <2>2. CASE reset' = Promoted
    BY <1>9, <2>2, Moves, PromotedIs DEF DecideDemand
  <2> QED
    BY <1>9, <2>1, <2>2 DEF DecideDemand
<1>10. CASE Refuse
  BY <1>10, Moves DEF Refuse, NoCall
<1>11. CASE DecideWrite
  BY <1>11, Moves, PromotedIs DEF DecideWrite
<1>12. CASE DecideCreate
  BY <1>12, Moves DEF DecideCreate
<1>13. CASE DecideRollback
  BY <1>13, Moves DEF DecideRollback
<1>14. CASE DecideRecovery
  <2>1. CASE reset' = reset
    BY <1>14, <2>1, Moves DEF DecideRecovery
  <2>2. CASE reset' = Promoted
    BY <1>14, <2>2, Moves, PromotedIs DEF DecideRecovery
  <2> QED
    BY <1>14, <2>1, <2>2 DEF DecideRecovery
<1>15. CASE Adopt
  BY <1>15, Moves DEF Adopt
<1>16. CASE Flag
  <2>1. tx.prev = live /\ live = head /\ live \in Contents \cup {Absent}
    BY <1>16 DEF Flag
  <2>2. CASE tx.op = "write"
    <3>1. tx.prev \in Full /\ tx.next \in Empty /\ tx.next \in Callers
      BY <1>16, <2>2 DEF Flag, FlagInv
    <3>2. file = "registry"
      BY <3>1
    <3> QED
      BY <1>16, <2>1, <2>2, <3>1, <3>2, Moves, FlaggedIs DEF Flag
  <2>3. CASE tx.op = "demand"
    <3>1. tx.prev \in Empty /\ tx.next \in Full
      BY <1>16, <2>3 DEF Flag
    <3>2. file = "registry"
      BY <2>1, <3>1
    <3>3. emptied' = emptied \cup {tx.prev}
      BY <1>16, <2>3 DEF HNext, Replaces, ReplaceLive, Flag
    <3> QED
      BY <1>16, <2>3, <3>1, <3>2, <3>3, Moves, FlaggedIs DEF Flag
  <2> QED
    BY <1>16, <2>2, <2>3 DEF Flag
<1>17. CASE Store
  BY <1>17, Moves DEF Store
<1>18. CASE Pend
  BY <1>18, Moves DEF Pend
<1>19. CASE ReplaceLive
  <2> SUFFICES ASSUME reset # None
             PROVE  ResetInv'
    BY <1>19 DEF ReplaceLive
  <2>1. reset' = reset /\ head' = head /\ live' = tx.next /\ at = "live" /\ file' = file
    BY <1>19, Moves DEF ReplaceLive
  <2>2. file = "registry" /\ reset.restore \in Full /\ reset.observed \in Empty
    OBVIOUS
  <2>3. emptied \subseteq emptied' /\ Contents = Full \cup Empty /\ Callers = Full \cup Empty
    BY <1>19, <2>2, Replacing
  <2>4. CASE reset.observed \in emptied
    BY <2>1, <2>2, <2>3, <2>4
  <2>5. CASE reset.observed \notin emptied
    <3>1. reset.pending /\ head \in Full \cup emptied /\ tx.prev \in Full \cup emptied
      BY <2>1, <2>5
    <3>2. tx.next \in Full \cup Empty
      <4>1. tx.op \in {"write", "rollback", "restore"}
        BY <1>19 DEF ReplaceLive, RouteInv
      <4>2. CASE tx.op = "write"
        BY <2>1, <2>3, <4>2
      <4>3. CASE tx.op = "rollback"
        BY <2>1, <2>3, <4>3, Moves
      <4>4. CASE tx.op = "restore"
        <5>1. tx.twice
          BY <2>1, <4>4 DEF RouteInv
        <5> QED
          BY <2>1, <4>4, <5>1
      <4> QED
        BY <4>1, <4>2, <4>3, <4>4
    <3> QED
      BY <1>19, <2>1, <2>2, <2>3, <3>1, <3>2, Replacing
  <2> QED
    BY <2>4, <2>5
<1>20. CASE LinkLive
  BY <1>20, Moves DEF LinkLive
<1>21. CASE LinkFailed
  BY <1>21, Moves DEF LinkFailed, NoCall
<1>22. CASE CommitHead
  BY <1>22, Moves DEF CommitHead
<1>23. CASE ClearPending
  BY <1>23, Moves DEF ClearPending, NoCall
<1>24. CASE PromoteReset
  BY <1>24, Moves, PromotedIs DEF PromoteReset
<1>25. CASE RecordAccepted
  BY <1>25, Moves DEF RecordAccepted
<1>26. CASE ClearOutside
  BY <1>26, Moves DEF ClearOutside
<1>27. CASE ClearReset
  BY <1>27, Moves DEF ClearReset, NoCall
<1>28. CASE ReadAgain
  BY <1>28, Moves DEF ReadAgain
<1>29. CASE Crash
  BY <1>29, Moves DEF Crash, NoCall
<1>30. CASE Outsider
  BY <1>30, Moves DEF Outsider, TypeOK
<1>31. CASE UNCHANGED <<vars, emptied, owed, file>>
  BY <1>31 DEF vars
<1>32. CASE Call
  BY <1>32, <1>1, CallCases
<1> QED
  BY <1>2, <1>3, <1>4, <1>5, <1>6, <1>7, <1>8, <1>9, <1>10, <1>11, <1>12, <1>13, <1>14, <1>15,
     <1>16, <1>17, <1>18, <1>19, <1>20, <1>21, <1>22, <1>23, <1>24, <1>25, <1>26, <1>27,
     <1>28, <1>29, <1>30, <1>31, <1>32, Moves DEF Next, Inspect, Decide, Write
(* Writes know the resets.                                                 *)
LEMMA FlagStep ==
  ASSUME CleanInv, TypeOK, NextInv, PurposeInv, RegistryInv, HNext, outsiders = 0, outsiders' = 0
  PROVE  FlagInv'
<1> USE ContentAssumption DEF Goto, Done, journal, history, Contents, Callers, CleanInv, PurposeInv,
       RaceInv, Before, CallInv, Fits, RegistryInv, ResetInv, FlagInv, EmptyingIsFlagged, Effective
<1>1. ASSUME NEW op \in Ops, NEW next \in Bytes \cup {None}, NEW base \in Bytes \cup {None},
            NEW named \in Time \cup {None}, Begin(op, next, base, named), op = "rollback" => next # Absent
     PROVE  FlagInv'
  BY <1>1, Moves DEF Begin
<1>2. CASE InspectUnseeded
  BY <1>2, Moves DEF InspectUnseeded
<1>3. CASE Seed
  BY <1>3, Moves DEF Seed
<1>4. CASE InspectInterrupted
  BY <1>4, Moves DEF InspectInterrupted
<1>5. CASE Settle
  BY <1>5, Moves DEF Settle
<1>6. CASE InspectForeign
  BY <1>6, Moves DEF InspectForeign
<1>7. CASE InspectCommitted
  BY <1>7, Moves DEF InspectCommitted
<1>8. CASE EndRead
  BY <1>8, Moves DEF EndRead, NoCall
<1>9. CASE DecideDemand
  <2>1. ~Effective => owed = None
    BY <1>9 DEF DecideDemand
  <2>2. CASE at' = "idle"
    BY <1>9, <2>2, Moves DEF DecideDemand
  <2>3. CASE at' # "idle"
    <3>1. ~Effective /\ reset' = reset /\ tx.prev \in Empty /\ at' = "flag"
      BY <1>9, <2>3 DEF DecideDemand
    <3> QED
      BY <1>9, <2>1, <2>3, <3>1, Moves, Kept, Decided DEF DecideDemand
  <2> QED
    BY <2>2, <2>3
<1>10. CASE Refuse
  BY <1>10, Moves DEF Refuse, NoCall
<1>11. CASE DecideWrite
  <2>1. ~Effective => owed = None
    BY <1>11 DEF DecideWrite
  <2>2. /\ at' = IF tx.prev \in Full /\ tx.next \in Empty /\ ~Effective THEN "flag" ELSE "store"
        /\ tx'.op = "write" /\ tx'.prev = tx.prev /\ tx'.next = tx.next
        /\ UNCHANGED <<live, head, pending, owed>> /\ live = head
    BY <1>11, Moves, Kept, Decided DEF DecideWrite
  <2>3. /\ Effective' = Effective /\ (Effective => reset' # None /\ ~reset'.pending)
    BY <1>11, PromotedIs DEF DecideWrite
  <2> QED
    BY <2>1, <2>2, <2>3
<1>12. CASE DecideCreate
  BY <1>12, Moves DEF DecideCreate
<1>13. CASE DecideRollback
  BY <1>13, Moves DEF DecideRollback
<1>14. CASE DecideRecovery
  BY <1>14, Moves DEF DecideRecovery
<1>15. CASE Adopt
  BY <1>15, Moves DEF Adopt
<1>16. CASE Flag
  <2>1. at = "flag" /\ tx' \in {tx, NoCall} /\ at' \in {"store", "idle"} /\ owed = None /\ owed' = None
    BY <1>16, Moves DEF Flag
  <2>2. reset' # None /\ (tx.op = "write" => reset'.observed = tx.next)
    BY <1>16, FlaggedIs
  <2>3. at' = "store" => tx' = tx /\ tx.op = "write"
    BY <1>16 DEF Flag
  <2> QED
    BY <2>1, <2>2, <2>3
<1>17. CASE Store
  BY <1>17, Moves DEF Store
<1>18. CASE Pend
  BY <1>18, Moves DEF Pend
<1>19. CASE ReplaceLive
  <2>1. /\ at = "live" /\ at' = "head" /\ tx' = tx /\ tx.op # "create" /\ live' = tx.next
        /\ UNCHANGED <<head, pending, reset>>
    BY <1>19 DEF ReplaceLive
  <2>2. owed' # None => tx.op = "write" /\ (owed' = owed \/ (owed = None /\ tx.prev \in Full /\ tx.next \in Empty))
    BY <1>19, Replacing
  <2>3. live = head /\ live = tx.prev
    BY <2>1
  <2>4. ASSUME owed' # None, reset.pending, head = reset.observed
        PROVE  FALSE
    BY <2>1, <2>2, <2>3, <2>4
  <2> QED
    BY <2>1, <2>2, <2>4
<1>20. CASE LinkLive
  <2>1. /\ at = "live" /\ at' \in {"head", "exists"} /\ tx' = tx /\ tx.op = "create"
        /\ live = Absent \/ live' = live
        /\ UNCHANGED <<head, pending, reset>>
    BY <1>20 DEF LinkLive
  <2>2. owed' \in {owed, None} /\ live = head
    BY <2>1, Moves
  <2>3. owed' # None /\ reset.pending /\ head = reset.observed => live # Absent
    BY <2>2
  <2> QED
    BY <2>1, <2>2, <2>3
<1>21. CASE LinkFailed
  BY <1>21, Moves DEF LinkFailed, NoCall
<1>22. CASE CommitHead
  BY <1>22, Moves DEF CommitHead
<1>23. CASE ClearPending
  BY <1>23, Moves DEF ClearPending, NoCall
<1>24. CASE PromoteReset
  BY <1>24, Moves DEF PromoteReset, NoCall
<1>25. CASE RecordAccepted
  BY <1>25, Moves DEF RecordAccepted
<1>26. CASE ClearOutside
  BY <1>26, Moves DEF ClearOutside
<1>27. CASE ClearReset
  BY <1>27, Moves DEF ClearReset, NoCall
<1>28. CASE ReadAgain
  BY <1>28, Moves DEF ReadAgain
<1>29. CASE Crash
  BY <1>29, Moves DEF Crash, NoCall
<1>30. CASE Outsider
  BY <1>30, Moves DEF Outsider, TypeOK
<1>31. CASE UNCHANGED <<vars, emptied, owed, file>>
  BY <1>31 DEF vars
<1>32. CASE Call
  BY <1>32, <1>1, CallCases
<1> QED
  BY <1>2, <1>3, <1>4, <1>5, <1>6, <1>7, <1>8, <1>9, <1>10, <1>11, <1>12, <1>13, <1>14, <1>15,
     <1>16, <1>17, <1>18, <1>19, <1>20, <1>21, <1>22, <1>23, <1>24, <1>25, <1>26, <1>27,
     <1>28, <1>29, <1>30, <1>31, <1>32, Moves DEF Next, Inspect, Decide, Write
(* What was emptied stays flagged.                                         *)
LEMMA EmptyingStep ==
  ASSUME CleanInv, TypeOK, NextInv, PurposeInv, RegistryInv, HNext, outsiders = 0, outsiders' = 0
  PROVE  EmptyingIsFlagged'
<1> USE ContentAssumption DEF Goto, Done, journal, history, Contents, Callers, CleanInv, PurposeInv,
       RaceInv, Before, CallInv, Fits, RegistryInv, ResetInv, FlagInv, EmptyingIsFlagged, Effective
<1>1. ASSUME NEW op \in Ops, NEW next \in Bytes \cup {None}, NEW base \in Bytes \cup {None},
            NEW named \in Time \cup {None}, Begin(op, next, base, named), op = "rollback" => next # Absent
     PROVE  EmptyingIsFlagged'
  BY <1>1, Moves DEF Begin
<1>2. CASE InspectUnseeded
  BY <1>2, Moves DEF InspectUnseeded
<1>3. CASE Seed
  BY <1>3, Moves DEF Seed
<1>4. CASE InspectInterrupted
  BY <1>4, Moves DEF InspectInterrupted
<1>5. CASE Settle
  BY <1>5, Moves DEF Settle
<1>6. CASE InspectForeign
  BY <1>6, Moves DEF InspectForeign
<1>7. CASE InspectCommitted
  BY <1>7, Moves DEF InspectCommitted
<1>8. CASE EndRead
  BY <1>8, Moves DEF EndRead, NoCall
<1>9. CASE DecideDemand
  <2>1. CASE reset' = reset
    BY <1>9, <2>1, Moves DEF DecideDemand
  <2>2. CASE reset' = Promoted
    BY <1>9, <2>2, Moves, PromotedIs DEF DecideDemand
  <2> QED
    BY <1>9, <2>1, <2>2 DEF DecideDemand
<1>10. CASE Refuse
  BY <1>10, Moves DEF Refuse, NoCall
<1>11. CASE DecideWrite
  BY <1>11, Moves, PromotedIs DEF DecideWrite
<1>12. CASE DecideCreate
  BY <1>12, Moves DEF DecideCreate
<1>13. CASE DecideRollback
  BY <1>13, Moves DEF DecideRollback
<1>14. CASE DecideRecovery
  <2>1. CASE reset' = reset
    BY <1>14, <2>1, Moves DEF DecideRecovery
  <2>2. CASE reset' = Promoted
    BY <1>14, <2>2, Moves, PromotedIs DEF DecideRecovery
  <2> QED
    BY <1>14, <2>1, <2>2 DEF DecideRecovery
<1>15. CASE Adopt
  BY <1>15, Moves DEF Adopt
<1>16. CASE Flag
  BY <1>16, Moves DEF Flag, NoCall
<1>17. CASE Store
  BY <1>17, Moves DEF Store
<1>18. CASE Pend
  BY <1>18, Moves DEF Pend
<1>19. CASE ReplaceLive
  <2>1. /\ at = "live" /\ tx.op # "create" /\ live' = tx.next
        /\ UNCHANGED <<head, pending, reset>>
    BY <1>19 DEF ReplaceLive
  <2>2. owed' # None => tx.op = "write" /\ (owed' = owed \/ (owed = None /\ tx.prev \in Full /\ tx.next \in Empty))
    BY <1>19, Replacing
  <2>3. CASE owed' # None /\ owed # None
    BY <2>1, <2>2, <2>3
  <2>4. CASE owed' # None /\ owed = None
    <3>1. tx.op = "write" /\ tx.prev \in Full /\ tx.next \in Empty /\ pending = tx.next
      BY <2>1, <2>2, <2>4
    <3> QED
      BY <2>1, <3>1
  <2> QED
    BY <2>3, <2>4
<1>20. CASE LinkLive
  BY <1>20, Moves DEF LinkLive
<1>21. CASE LinkFailed
  BY <1>21, Moves DEF LinkFailed, NoCall
<1>22. CASE CommitHead
  BY <1>22, Moves DEF CommitHead
<1>23. CASE ClearPending
  BY <1>23, Moves DEF ClearPending, NoCall
<1>24. CASE PromoteReset
  BY <1>24, Moves, PromotedIs DEF PromoteReset
<1>25. CASE RecordAccepted
  BY <1>25, Moves DEF RecordAccepted
<1>26. CASE ClearOutside
  BY <1>26, Moves DEF ClearOutside
<1>27. CASE ClearReset
  <2>1. owed' = None
    BY <1>27 DEF HNext, Empties, Replaces, ReplaceLive, ClearReset
  <2> QED
    BY <2>1
<1>28. CASE ReadAgain
  BY <1>28, Moves DEF ReadAgain
<1>29. CASE Crash
  BY <1>29, Moves DEF Crash, NoCall
<1>30. CASE Outsider
  BY <1>30, Moves DEF Outsider, TypeOK
<1>31. CASE UNCHANGED <<vars, emptied, owed, file>>
  BY <1>31 DEF vars
<1>32. CASE Call
  BY <1>32, <1>1, CallCases
<1> QED
  BY <1>2, <1>3, <1>4, <1>5, <1>6, <1>7, <1>8, <1>9, <1>10, <1>11, <1>12, <1>13, <1>14, <1>15,
     <1>16, <1>17, <1>18, <1>19, <1>20, <1>21, <1>22, <1>23, <1>24, <1>25, <1>26, <1>27,
     <1>28, <1>29, <1>30, <1>31, <1>32, Moves DEF Next, Inspect, Decide, Write
(* RegistryInv holds as long as nobody but HomeStore writes; what it says  *)
(* of calls holds in any case.                                             *)
LEMMA RegistryStep ==
  ASSUME TypeOK, NextInv, CleanInv, PurposeInv, RegistryInv, HNext
  PROVE  RegistryInv'
<1>1. outsiders' = 0 => outsiders = 0
  <2>1. CASE Outsider
    BY <2>1 DEF TypeOK, Outsider
  <2>2. CASE ~Outsider
    BY <2>2 DEF HNext, Next, Inspect, Decide, Write, InspectUnseeded, Seed, InspectInterrupted, Settle, InspectForeign,
                InspectCommitted, EndRead, DecideDemand, Refuse, DecideWrite, DecideCreate, DecideRollback,
                DecideRecovery, Adopt, Flag, Store, Pend, ReplaceLive, LinkLive, LinkFailed, CommitHead, ClearPending,
                PromoteReset, RecordAccepted, ClearOutside, ClearReset, ReadAgain, Crash, Call, Begin, history
  <2> QED
    BY <2>1, <2>2
<1>2. CASE outsiders' = 0
  BY <1>1, <1>2, CallStep, ResetStep, FlagStep, EmptyingStep DEF RegistryInv
<1>3. CASE outsiders' # 0
  BY <1>3, CallStep DEF RegistryInv, ResetInv, FlagInv, EmptyingIsFlagged
<1> QED
  BY <1>2, <1>3

(* A step of HSpec is a step of Spec, so what holds of Spec holds here.    *)
LEMMA RegistryInvariant == HSpec => [](IInv /\ PurposeInv /\ RegistryInv)
<1>1. HInit => Init
  BY DEF HInit
<1>2. [HNext]_<<vars, emptied, owed, file>> => [Next]_vars
  BY DEF HNext, vars
<1>3. HSpec => Spec
  BY <1>1, <1>2, PTL DEF HSpec, Spec
<1>4. HInit => RegistryInv
  BY ContentAssumption DEF HInit, Init, RegistryInv, CallInv, ResetInv, FlagInv, EmptyingIsFlagged, NoCall
<1>5. IInv /\ PurposeInv /\ RegistryInv /\ [HNext]_<<vars, emptied, owed, file>> => RegistryInv'
  <2>1. CASE HNext
    BY <2>1, RegistryStep DEF IInv
  <2>2. ASSUME RegistryInv, UNCHANGED <<vars, emptied, owed, file>>
        PROVE  RegistryInv'
    BY <2>2 DEF vars, journal, history, RegistryInv, CallInv, ResetInv, FlagInv, EmptyingIsFlagged, Fits, Contents, Callers,
                Effective
  <2> QED
    BY <2>1, <2>2
<1> QED
  BY <1>3, <1>4, <1>5, PurposeInvariant, PTL DEF HSpec

(* No crash turns an unchanged registry into a reset, and no sequence of   *)
(* writes, rollbacks and recoveries makes a reset of an empty registry     *)
(* count that did not come in place of a full one.                         *)
THEOREM ResetsHold == HSpec => []ResetsAreReal
<1>1. TypeOK /\ RegistryInv => ResetsAreReal
  <2> SUFFICES ASSUME TypeOK, RegistryInv, outsiders = 0, Effective
             PROVE  reset.observed \in emptied
    BY DEF ResetsAreReal
  <2> QED
    BY ContentAssumption DEF RegistryInv, ResetInv, Effective
<1> QED
  BY <1>1, RegistryInvariant, PTL DEF IInv

(* Whatever crashes in between, a write that empties a registry leaves a   *)
(* reset behind that counts, or that the next inspection makes count.      *)
THEOREM EmptyingStaysFlagged == HSpec => []EmptyingIsFlagged
<1>1. RegistryInv => EmptyingIsFlagged
  BY DEF RegistryInv
<1> QED
  BY <1>1, RegistryInvariant, PTL
=============================================================================
