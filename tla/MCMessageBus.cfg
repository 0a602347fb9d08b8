SPECIFICATION FairSpec
CONSTANTS
  p1 = p1
  p2 = p2
  c1 = c1
  Publishers <- MCPublishers
  Consumers <- MCConsumers
  Capacity = 1
  MaxCalls = 2
CHECK_DEADLOCK FALSE
INVARIANTS Conservation StrandedAtMostOne
PROPERTIES CloseReleases Contracted
