CONSTANTS
  Project = {1, 2}
  Run = {1, 2, 3}
  None = None
  Home <- LastAlone
  Account <- AccountOfProject
  Worker = {2}
  MaxParallel = 2
  ProjectMax <- CapFirst
  MaxPool = 1
  MaxResumes = 1
  Chatty = {3}
  Limited = {}
  Stopped = {}
  Waits <- OuterWaits
  MaxRecoveries = 0
SPECIFICATION Spec
INVARIANTS NothingIsLost CapRespected NoIdleCapacity
CHECK_DEADLOCK FALSE
