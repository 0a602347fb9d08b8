SPECIFICATION FairSpec
CONSTANTS
  chat1 = chat1
  Inbound = {1, 2}
  ChatOf <- OneChat
  Capable = {"typing", "placeholder"}
  MaxReplies = 2
CHECK_DEADLOCK FALSE
INVARIANTS IndicatorsAccounted
PROPERTY ReachableIndicatorEnds
