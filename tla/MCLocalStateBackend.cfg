CONSTANTS
  t1 = t1 t2 = t2 i1 = i1 i2 = i2
  NoOne = NoOne NoTask = NoTask
  Workers = {w1, w2}
  Tasks = {t1, t2}
  MaxRetries = 1
  MaxMsgs = 2
  Priority <- TwoPriorities
  Instances = {i1, i2}
  InstanceOf <- TwoInstances
  Scopes = {s1}
  MinIdle = 2
  Block = 1
  TTL = 2
  MaxWaiters = 1
  MaxTime = 2
SPECIFICATION Spec
SYMMETRY WorkerSymmetry
INVARIANTS NoWaiterWhileQueued DeliveryOrder
PROPERTIES ImplementsTaskQueue 
CHECK_DEADLOCK FALSE
