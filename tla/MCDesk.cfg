SPECIFICATION Spec
CONSTANTS
  u1 = u1
  u2 = u2
  NoRow = NoRow
  Loop = {1, 2}
  Client = {c}
  CmdCap = 2
  MaxCommands = 4
  Flows <- MCFlows
  RegId = {1, 2, 3}
  RegName = {4, 5}
  StepName = {1, 2, 3}
  Files <- MCFiles
  WStep = {s1}
  WUser = {u1, u2}
  MaxIssued = 2
  MaxRefreshes = 2
  MaxDbErrors = 1
  OldRows <- MCOldRows
  NAgents = 2
  Command = {"/clear", "/all", "/handoff", "/usage", "/evidence", "/workflow"}
  MaxKeys = 5
  MaxChunks = 2
  MessageId = {1, 2}
  EvidenceId = {1, 2, 3}
  TaskId = {"t"}
  MaxSeconds = 1
  TailCounts = {1, 2}
  Counts = {2}
INVARIANTS
  DeskTypeOK
  DependenciesFirst
  OutcomeRight
  StoppedMeansNotRunning
  IndexedAgentsExist
  PlacedInOrder
  StepsSettle
  SpeakersApart
  ListingsInOrder
PROPERTIES
  PanelCatchesUp
CHECK_DEADLOCK FALSE
