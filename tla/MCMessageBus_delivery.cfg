CONSTANTS
  a1 = a1
  a2 = a2
  a3 = a3
  t1 = t1
  t2 = t2
  general = general
  lobby = lobby
  Admins = {t1, t2}
  Agent = {a1, a2, a3}
  Task = {t1, t2}
  ChannelName = {general, lobby}
  NoAgent = NoAgent
  NoChannel = NoChannel
  NoMessage = NoMessage
  Sender <- OneSender
  Peers <- Everybody
  Loop <- FreeReceivers
  Shard <- MCShard
  Kinds = {"channel"}
  QueueCap = 1
  MaxHistory = 1
  FeedCap = 1
  MaxMsgs = 2
  MaxChurn = 2
SYMMETRY SameTasks
SPECIFICATION DeliverySpec
INVARIANTS
  TypeOK
  QueuedWasAnnounced
  HistoryMatchesChannels
  SteadyMembersServedOnce
  StrangersHearNothing
PROPERTIES
  PinnedChannelStays
  WaitersKeepTheirQueue
CHECK_DEADLOCK FALSE
