SPECIFICATION Spec
CONSTANTS
  main = main
  helper = helper
  chat1 = chat1
  chat2 = chat2
  internal = internal
  Agents = {main, helper}
  DefaultAgent = main
  Chats = {chat1, chat2}
  Internal = internal
  Named = {chat2}
  Inbound <- OneChat
  Direct <- CronOfMain
  MayCompress = FALSE
  MaxIterations <- Once
CHECK_DEADLOCK FALSE
INVARIANT DefaultTargetIsOwnChat
