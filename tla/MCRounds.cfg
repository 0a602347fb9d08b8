SPECIFICATION FairSpec
CONSTANTS
  main = main
  helper = helper
  chat1 = chat1
  chat2 = chat2
  internal = internal
  Agents = {main, helper}
  DefaultAgent = main
  Chats = {chat1, chat2}
  Internal = internal
  Named = {}
  Inbound <- ChatAndReport
  Direct <- BeatOfMain
  MayCompress = TRUE
  MaxIterations <- Once
CHECK_DEADLOCK FALSE
INVARIANTS VerdictsSound UndisturbedTargets
PROPERTY EveryRoundEnds
