SPECIFICATION Spec
CONSTANTS
  p1 = p1
  p2 = p2
  c1 = c1
  Publishers <- MCPublishers
  Consumers <- MCConsumers
  Capacity = 1
  MaxCalls = 1
CHECK_DEADLOCK FALSE
INVARIANT NothingLeftBehind
