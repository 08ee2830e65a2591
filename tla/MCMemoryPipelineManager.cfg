CONSTANTS
  s1 = s1 s2 = s2 p1 = p1
  Sessions = {s1}
  Profiles = {p1}
  ProfileOf <- OneAgent
  EveryN = 2
  Warmup = TRUE
  Batch = 1
  MaxRetries = 1
  MaxRows = 2
  MaxRestarts = 1
  MaxAge = 2
  Failures = TRUE
SPECIFICATION Spec
INVARIANTS TypeOK QueuedOnce FailedRunRetried PendingL2Armed L3SeesEveryL2
CHECK_DEADLOCK FALSE
