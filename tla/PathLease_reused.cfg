\* Two live processes and one that has died and may have left a lock and a guard
SPECIFICATION Spec
CONSTANTS
  Proc = {c0, c1, c2}
  Gone = {c0}
  NoProc = NoProc
  NoFile = NoFile
  MaxCrashes = 0
INVARIANT OneReclaimer
CHECK_DEADLOCK FALSE
