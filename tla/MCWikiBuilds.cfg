CONSTANTS
  f1 = f1 f2 = f2
  Mine = Mine Dropped = Dropped
  Files = {f1, f2}
  Readable = {f1}
  MaxVersion = 2
  MaxRemovals = 1
  MaxIngests = 2
  MaxEdits = 5
  MaxDeaths = 1
SPECIFICATION FairSpec
INVARIANTS BusyHasBuild DeletedLeavesNothing 
PROPERTIES  EveryBuildEnds
CHECK_DEADLOCK FALSE
