\* One of eight components runs, see MCServices; the process c0 has died before
\* and may have left a lock and a guard
SPECIFICATION SSpec
CONSTANTS
  Run = {r1, r2, r3}
  MaxAsks = 3
  p1 = p1
  p2 = p2
  NoClaim = NoClaim
  Cockpit = {c1, c2}
  MaxTalk = 1
  MaxFaults = 1
  MaxCrashes = 1
  Worker = {w1, w2}
  Capacity = 1
  MaxGen = 3
  MaxDestroys = 2
  MaxStrays = 1
  Proc = {c0, c1, c2}
  Gone = {c0}
  NoProc = NoProc
  NoFile = NoFile
  Call = {u1, u2}
  NoDir = NoDir
  MaxBeats = 2
  Hook = {h1, h2}
  MaxAttempts = 2
  MaxChanges = 3
  MaxSettings = 2
  Watch = {x1, x2, x3, x4}
  Limit = 2
INVARIANTS
  OneTask TriedOnce NobodyLosesAWorktree EvidenceOutlivesTheWorktree
  CapacityBoundsResources OneHolder OneUpdateWins NoSlotIsLost
PROPERTIES InOrder ImplementsMutex DeliveriesInOrder EverythingEnds
\* Every component's bounded work may be done
CHECK_DEADLOCK FALSE
