CONSTANTS
  s1 = s1 s2 = s2 n1 = n1 n2 = n2 a1 = a1
  None = None
  Modes = {"downgrade"}
  Nodes = {n1, n2}
  Fronts = {n1}
  Agents = {a1}
  Sessions = {s1}
  AgentOf <- OneAgent
  Poison = {2}
  Threshold = 2
  MaxRetries = 2
  Unhealed = FALSE
  MaxMessages = 2
  MaxArchives = 2
  MaxFaults = 1
SPECIFICATION FairSpec
PROPERTIES EveryPoppedTaskEnds
CHECK_DEADLOCK FALSE
