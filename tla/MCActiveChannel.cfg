SPECIFICATION AcSpec
CONSTANTS
  Chats = {"a", "b"}
  NoChat = "none"
  LegacyChat = "a"
  MaxRounds = 3
  MaxCrashes = 2
CHECK_DEADLOCK FALSE
PROPERTIES BeatForLastUser
