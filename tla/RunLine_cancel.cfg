CONSTANTS
  Project = {1, 2}
  Run = {1, 2}
  None = None
  Home <- FirstAlone
  Account <- OneAccount
  Worker = {}
  MaxParallel = 1
  ProjectMax <- CapTwo
  MaxPool = 1
  MaxResumes = 1
  Chatty = {}
  Limited = {1}
  Stopped = {}
  Waits <- NoWaits
  MaxRecoveries = 0
SPECIFICATION Spec
INVARIANT NoIdleCapacity
CHECK_DEADLOCK FALSE
