CONSTANTS
  Project = {1, 2}
  Run = {1, 2}
  None = None
  Home <- FirstAlone
  Account <- OneAccount
  Worker = {}
  MaxParallel = 1
  ProjectMax <- CapTwo
  MaxPool = 1
  MaxResumes = 1
  Chatty = {}
  Limited = {}
  Stopped = {}
  Waits <- FirstWaits
  MaxRecoveries = 1
SPECIFICATION FairSpec
PROPERTIES QueuedRunsStart WakesAreServed
CHECK_DEADLOCK FALSE
