SPECIFICATION SSpec
CONSTANTS
  Tasks = {"t1", "t2"}
  ChatOf <- OneChat
  HasURL = {"t1"}
  MaxReplies = 3
  MaxDials = 2
  Messages = {"m1", "m2", "m3", "m0"}
  NoIds = {"m0"}
  RingSize = 2
  MaxEvents = 3
  Requests = {"q1", "s1"}
  Sends = {"s1"}
  Reconnecting = TRUE
  Modes = {"bridge", "native"}
  MaxFailures = 3
  MaxBreaks = 3
CHECK_DEADLOCK FALSE
INVARIANTS BotSound OneBotSound WhatsAppSound
PROPERTIES SendReturns Reconnects
