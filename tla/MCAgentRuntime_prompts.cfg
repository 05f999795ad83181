CONSTANTS
  a1 = a1
  a2 = a2
  u = u
  h1 = h1
  h2 = h2
  q1 = q1
  q2 = q2
  general = general
  UserLevel = "Full"
  Agent = {a1, a2, u}
  Task = {h1, h2, q1}
  ChannelName = {general}
  NoAgent = NoAgent
  NoChannel = NoChannel
  NoMessage = NoMessage
  Sender <- OneSender
  Peers <- OnePeers
  Loop <- MCLoop
  Admins = {}
  Shard <- MCShard
  Kinds = {"channel"}
  QueueCap = 1
  MaxHistory = 1
  FeedCap = 1
  MaxMsgs = 6
  MaxChurn = 1
  Loaded = {a1, a2}
  Handler <- MCHandler
  Home <- MCHome
  UserTasks = {q1}
  Usage = {1}
  MaxChunks = 1
  MaxPrompts = 2
  MaxOpen = 1
SPECIFICATION RuntimeSpec
INVARIANTS
  RuntimeTypeOK
  OnlyAddresseeAnswers
  PromptsTakenOnce
PROPERTIES
  IdleMeansAnswered
  EveryPromptAnswered
  ThinkingEnds
CHECK_DEADLOCK FALSE
