SPECIFICATION FairSpec
CONSTANTS
  c1 = c1
  c2 = c2
  k1 = k1
  Channels <- OneChannel
  BusMessages <- TextAndMedia
  Callers = {k1}
  CallerMessage <- CallerText
  Removable = {c1}
  MayStop = TRUE
  NoMediaSender = {c1}
  QueueSize = 1
  MaxRetries = 1
CHECK_DEADLOCK FALSE
INVARIANT ClosedQueuesAreDone
PROPERTIES QueuesMove
