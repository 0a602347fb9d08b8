SPECIFICATION FairSpec
CONSTANTS
  chat1 = chat1
  Inbound = {1, 2}
  ChatOf <- OneChat
  Capable = {"typing"}
  MaxReplies = 1
CHECK_DEADLOCK FALSE
PROPERTY EveryIndicatorEnds
