CONSTANTS
  a1 = a1
  a2 = a2
  a3 = a3
  t1 = t1
  t2 = t2
  general = general
  lobby = lobby
  Admins = {t1}
  Agent = {a1, a2}
  Task = {t1, t2}
  ChannelName = {general}
  NoAgent = NoAgent
  NoChannel = NoChannel
  NoMessage = NoMessage
  Sender <- TwoSenders
  Peers <- EachOther
  Loop <- FreeReceivers
  Shard <- MCShard
  Kinds = {"publish", "dm", "channel", "request"}
  QueueCap = 1
  MaxHistory = 1
  FeedCap = 1
  MaxMsgs = 2
  MaxChurn = 1
SPECIFICATION FairSpec
PROPERTIES
  CallsReturn
  ShutdownCompletes
CHECK_DEADLOCK FALSE
