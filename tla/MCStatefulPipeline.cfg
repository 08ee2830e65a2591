CONSTANTS
  s1 = s1 n1 = n1 p1 = p1
  Deployments = {"local", "shared"}
  Sessions = {s1}
  Notifiers = {n1}
  Scanners = {p1}
  EveryN = 2
  Warmup = TRUE
  Batch = 1
  MaxRounds = 1
  MaxRows = 2
  MaxEvents = 1
SPECIFICATION Spec
INVARIANTS  MemoriesHaveL2 ScenesHaveL3
CHECK_DEADLOCK FALSE
