SPECIFICATION Spec
CONSTANTS
  c1 = c1
  c2 = c2
  k1 = k1
  Channels <- OneChannel
  BusMessages <- TwoTexts
  Callers = {}
  CallerMessage <- NoCalls
  Removable = {}
  MayStop = TRUE
  NoMediaSender = {}
  QueueSize = 1
  MaxRetries = 1
CHECK_DEADLOCK FALSE
INVARIANT StopDrains
