CONSTANTS
  t1 = t1 t2 = t2 s1 = s1
  NoOne = NoOne NoTask = NoTask LockFree = LockFree
  Workers = {w1, w2}
  Tasks = {t1, t2}
  Submitted = {t1}
  Scopes = {s1}
  ScopeOf <- OneLockFree
  Follow <- Chain
  MaxRetries = 1
  MaxMsgs = 3
  Loops = {l1}
  Permits = 1
  MaxParked = 1
  RetryConcurrency = 1
  MaxCrashes = 1
  MaxStops = 0
  Stalls = FALSE
  Faults = TRUE
SPECIFICATION Spec
SYMMETRY WorkerSymmetry
INVARIANTS NoTaskLost  OneWorkerPerMessage  FollowUpNeverLost
PROPERTIES SettledStaysSettled
CHECK_DEADLOCK FALSE
