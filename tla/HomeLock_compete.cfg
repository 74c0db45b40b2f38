\* Three processes, one call each, every start token readable
SPECIFICATION HSpec
CONSTANTS
  p1 = p1
  p2 = p2
  p3 = p3
  NoClaim = NoClaim
  Call <- ThreeCalls
  Proc = {p1, p2, p3}
  Owner <- OneEach
  Unconfirmed = {}
INVARIANTS FirstComeFirstServed
PROPERTIES ClaimsAreNotStolen ImplementsMutex
\* Every call may have ended
CHECK_DEADLOCK FALSE
