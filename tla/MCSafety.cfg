SPECIFICATION SSpec
CONSTANTS
  loop = loop
  cron = cron
  s1 = s1
  s2 = s2
  Rounds = {loop, cron}
  Chatting = {loop}
  Summarizers = {s1}
  MaxMessages = 5
  MaxCalls = 1
  Keep = 2
  Threshold = 3
  MultiPart = 2
  CompressMin = 2
  MaxRetries = 1
  Persistent = FALSE
  MayCrash = FALSE
  LLMCalls = {"r1", "r2"}
  Providers = {"p1", "p2"}
  Chain <- TwoThenOne
  Cancellable = {"r1"}
  Window = 1440
  LLMRetries = 1
  MaxFailures = 2
  MaxNow = 1442
  Servers = {"s1", "s2"}
  ToolCalls = {"k1", "k2"}
  Chats = {"a", "b"}
  NoChat = "none"
  LegacyChat = "a"
  MaxRounds = 3
  MaxCrashes = 2
  Ops = {1, 2}
  Installers = {"one", "other"}
  AtOnce = 2
  Extras = {"script"}
  FrontOf <- SameAndOther
  Elsewhere = TRUE
  MaxTries = 2
  Tracked = {"a"}
  Skills = {"s"}
  Notes = {}
  Callers = {"c1", "c2"}
  MaxWrites = 2
  MaxClock = 2
  AuthProviders = {"openai", "google"}
  Rotating = {"openai"}
  Projects = {"google"}
  Stored <- BothStored
  AuthProcs = {"q1", "q2"}
  States = {"st"}
  MaxOps = 2
  MaxIssued = 3
  ServerKinds = {"pico", "maixcam"}
  Clients = {"c1", "c2"}
  Listeners = {"c1", "c2"}
  Leaving = {"c2"}
  Limit = 1
  SendRetries = 1
  InboundAdapters = {"telegram", "discord", "slack", "slackCommand", "line", "wecom", "wecomApp", "qq", "qqGroup", "dingtalk", "feishu", "maixcam", "whatsapp", "whatsappNative", "pico"}
  MaxDeliveries = 2
  OutboundAdapters = {"telegram", "discord", "slack", "line", "wecom", "wecomApp", "onebot", "qq"}
  MaxParts = 2
  WorkerRetries = 1
  MaxSent = 2
CHECK_DEADLOCK FALSE
INVARIANTS HistoryKept RequestsPaired PromptIsCurrent CloseIsClean RestartRemembers CredentialsSound InboundSound OutboundSound ServersSound SearchSound SkillsSound
PROPERTIES CooldownHolds
