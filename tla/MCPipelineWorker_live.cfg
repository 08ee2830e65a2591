CONSTANTS
  t1 = t1 t2 = t2 s1 = s1
  NoOne = NoOne NoTask = NoTask LockFree = LockFree
  Workers = {w1, w2}
  Tasks = {t1}
  Submitted = {t1}
  Scopes = {s1}
  ScopeOf <- OneTask
  Follow <- OneNoFollow
  MaxRetries = 1
  MaxMsgs = 2
  Loops = {l1}
  Permits = 1
  MaxParked = 2
  RetryConcurrency = 1
  MaxCrashes = 1
  MaxStops = 0
  Stalls = FALSE
  Faults = FALSE
SPECIFICATION FairSpec
PROPERTIES EveryTaskSettled
CHECK_DEADLOCK FALSE
