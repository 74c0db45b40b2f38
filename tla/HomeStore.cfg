\* A registry (two full contents, one empty) or a lock file (two contents);
\* crashes and two outside writes
SPECIFICATION HSpec
CONSTANTS
  Absent = Absent
  None = None
  Full = {A, B}
  Empty = {E}
  Opaque = {C, D}
  Writable = {A, B, E, C, Absent}
  MaxOps = 3
  MaxOutside = 2
INVARIANTS NoFalseAlarm ResetsAreReal EmptyingIsFlagged PinsAreStored
PROPERTIES IncidentsEndOnPurpose CreationsAreExclusive
\* The bounded number of operations may be used up
CHECK_DEADLOCK FALSE
