CONSTANTS
  c1 = c1 c2 = c2 c3 = c3 s1 = s1 s2 = s2 p1 = p1 p2 = p2
  NoCall = NoCall
  Deployments = {"standalone", "service"}
  Processes = {p1, p2}
  Calls = {c1, c2}
  Sessions = {s1}
  ReadErrors = FALSE
  Stalls = TRUE
  MaxRows = 2
  MaxMemories = 2
  MaxFaults = 2
SPECIFICATION FairSpec
 
PROPERTIES AtomicUpdates CursorNeverBack EveryCallEnds
CHECK_DEADLOCK FALSE
