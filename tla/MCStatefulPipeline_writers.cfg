CONSTANTS
  s1 = s1 n1 = n1 p1 = p1
  Deployments = {"shared"}
  Sessions = {s1}
  Notifiers = {n1}
  Scanners = {p1}
  EveryN = 2
  Warmup = TRUE
  Batch = 1
  MaxRounds = 1
  MaxRows = 4
  MaxEvents = 0
SPECIFICATION Spec
INVARIANT OneSceneWriter
CHECK_DEADLOCK FALSE
