SPECIFICATION Spec
CONSTANTS
  c1 = c1
  c2 = c2
  k1 = k1
  Channels <- TwoChannels
  BusMessages <- Crowd
  Callers = {}
  CallerMessage <- NoCalls
  Removable = {}
  MayStop = FALSE
  NoMediaSender = {}
  QueueSize = 1
  MaxRetries = 1
CHECK_DEADLOCK FALSE
INVARIANTS DeliveredInOrder
