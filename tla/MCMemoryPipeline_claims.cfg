CONSTANTS
  w = w
  u = u
  v = v
  main1 = main1
  vt = vt
  t1 = t1
  general = general
  Admins = {main1}
  Agent = {w, u, v}
  Task = {main1, vt, t1}
  ChannelName = {general}
  NoAgent = NoAgent
  NoChannel = NoChannel
  NoMessage = NoMessage
  Sender <- MCSender
  Peers <- Broadcasts
  Loop <- Free
  Shard <- OneShard
  Kinds = {"channel"}
  QueueCap = 1
  MaxHistory = 1
  FeedCap = 1
  MaxMsgs = 5
  MaxChurn = 7
  General = general
  Writer = w
  User = u
  Main = main1
  VerifierTask = vt
  UserTasks = {t1}
  Texts = {"fail", "skip"}
  HumanJudges = TRUE
  WriterIsPatient = TRUE
  PollLimit = 1
  MaxSays = 2
  MaxHasty = 0
  MaxErrors = 1
  MaxCrashes = 0
SPECIFICATION FairPSpec
INVARIANTS
  MemoryTypeOK
  VerdictsFit
PROPERTIES
  ClaimsGetJudged
  QueuedClaimsAreStored
CHECK_DEADLOCK FALSE
