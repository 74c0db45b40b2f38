CONSTANTS
  Project = {1}
  Run = {1, 2}
  None = None
  Home <- OneProject
  Account <- OneAccount
  Worker = {}
  MaxParallel = 2
  ProjectMax <- CapTwo
  MaxPool = 0
  MaxResumes = 1
  Chatty = {1}
  Limited = {}
  Stopped = {}
  Waits <- FirstWaits
  MaxRecoveries = 0
SPECIFICATION Spec
INVARIANT NoIdleCapacity
CHECK_DEADLOCK FALSE
