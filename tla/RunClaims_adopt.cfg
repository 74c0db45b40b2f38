\* A quarantined run, its worker and an adoption
SPECIFICATION Spec
CONSTANTS
  Stores = {s1, s2}
  None = None
  Runs = {root, worker}
  Families = {family}
  FamilyOf <- OneFamily
  KeepLive = {s1}
  MaxWrites <- Budget
  MaxBusy = 1
SYMMETRY Alike
PROPERTIES QuarantineLasts
\* Every process may have ended
CHECK_DEADLOCK FALSE
