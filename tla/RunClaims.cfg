\* Two processes, a root and its worker; one transaction finds the database busy
SPECIFICATION Spec
CONSTANTS
  Stores = {s1, s2}
  None = None
  Runs = {root, worker}
  Families = {family}
  FamilyOf <- OneFamily
  KeepLive = {s1}
  MaxWrites <- Budget
  MaxBusy = 1
SYMMETRY Alike
INVARIANTS ClaimedMeansOwned ReadUnderClaimIsCurrent NothingVanishes
PROPERTIES NoLostUpdate NoQuietInheritance
\* Every process may have ended
CHECK_DEADLOCK FALSE
