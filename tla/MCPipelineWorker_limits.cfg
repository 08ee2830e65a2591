CONSTANTS
  t1 = t1 t2 = t2 s1 = s1
  NoOne = NoOne NoTask = NoTask LockFree = LockFree
  Workers = {w1}
  Tasks = {t1, t2}
  Submitted = {t1, t2}
  Scopes = {s1}
  ScopeOf <- OneScope
  Follow <- NoFollow
  MaxRetries = 0
  MaxMsgs = 2
  Loops = {l1}
  Permits = 2
  MaxParked = 2
  RetryConcurrency = 1
  MaxCrashes = 0
  MaxStops = 1
  Stalls = TRUE
  Faults = FALSE
SPECIFICATION Spec
SYMMETRY TaskSymmetry
INVARIANTS ParkedBounded CapacityExact PermitsReturned StopLetsGo
PROPERTIES StopGivesClaimsUp
CHECK_DEADLOCK FALSE
