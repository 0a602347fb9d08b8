SPECIFICATION SSpec
CONSTANTS
  Refs = {"r1", "r2", "r3"}
  Paths = {"p1", "p2", "p3"}
  Scopes = {"sA", "sB"}
  PathOf <- OwnPaths
  ScopeOf <- TwoInA
  Releasers = {"d1"}
  SubTasks = {"t1", "t2"}
  MaxIterations = 1
  InboundSize = 1
  MaxUsers = 2
  JobIds = {1, 2}
  Schedule <- OnceThenEvery
  Kept = {}
  Initial = {}
  MaxTime = 2
  MaxFaults = 1
CHECK_DEADLOCK FALSE
INVARIANTS FilesAccounted JobsKept AnnouncedInOrder
PROPERTIES EverythingExpires ReturnsOnlyFromStore DueJobRuns SpawnReturns ConnectionsEnd
