SPECIFICATION FairSpec
CONSTANTS
  loop = loop
  cron = cron
  s1 = s1
  s2 = s2
  Rounds = {loop}
  Chatting = {loop}
  Summarizers = {s1, s2}
  MaxMessages = 6
  MaxCalls = 1
  Keep = 2
  Threshold = 3
  MultiPart = 9
  CompressMin = 3
  MaxRetries = 1
  Persistent = TRUE
  MayCrash = TRUE
CHECK_DEADLOCK FALSE
INVARIANTS FileForgetsAtMostLate
PROPERTIES SummaryGrows GuardReleased
