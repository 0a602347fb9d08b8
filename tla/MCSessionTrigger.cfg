SPECIFICATION Spec
CONSTANTS
  loop = loop
  cron = cron
  s1 = s1
  s2 = s2
  Rounds = {loop}
  Chatting = {loop}
  Summarizers = {}
  MaxMessages = 8
  MaxCalls = 2
  Keep = 2
  Threshold = 3
  MultiPart = 9
  CompressMin = 4
  MaxRetries = 2
  Persistent = FALSE
  MayCrash = FALSE
CHECK_DEADLOCK FALSE
INVARIANT TriggerKept
