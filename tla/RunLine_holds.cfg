CONSTANTS
  Project = {1, 2}
  Run = {1, 2, 3}
  None = None
  Home <- LastAlone
  Account <- AccountOfProject
  Worker = {}
  MaxParallel = 2
  ProjectMax <- CapTwo
  MaxPool = 1
  MaxResumes = 1
  Chatty = {1}
  Limited = {1}
  Stopped = {2}
  Waits <- NoWaits
  MaxRecoveries = 0
SPECIFICATION Spec
INVARIANTS NothingIsLost NoIdleCapacity
CHECK_DEADLOCK FALSE
