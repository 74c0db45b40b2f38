----------------------------- MODULE MCRunLine ------------------------------
(* Small workspaces for RunLine.                                           *)
EXTENDS RunLine

OneProject == [r \in Run |-> 1]
FirstAlone == [r \in Run |-> IF r = 1 THEN 1 ELSE 2]
LastAlone  == [r \in Run |-> IF r = 3 THEN 2 ELSE 1]
OneAccount == [r \in Run |-> "a"]
AccountOfProject == [r \in Run |-> IF Home[r] = 1 THEN "a" ELSE "b"]
CapTwo   == [p \in Project |-> 2]
CapFirst == [p \in Project |-> p]
NoWaits == [r \in Run |-> 0]
OuterWaits == [r \in Run |-> IF r = 2 THEN 0 ELSE 1]
FirstWaits == [r \in Run |-> IF r = 1 THEN 1 ELSE 0]
=============================================================================
