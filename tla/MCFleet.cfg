SPECIFICATION Spec
CONSTANTS
  Prompts <- MCPrompts
  Caller = {a, b, c}
  MaxProc = 3
  MaxTrouble = 1
  Host = {2, 3}
  FileOf <- MCFileOf
  Reader = {a, b}
  MaxEdits = 1
  MaxFailures = 1
  PluginDirs <- MCDirs
  MaxDirs = 3
  MaxStops = 1
  Port = {8080, 11434}
  ByHand <- MCHand
  ModelId <- MCModels
  Asker = {"a"}
  MaxCalls = 2
  Local <- MCLocal
  Remote <- MCRemote
  KnownAgents <- MCKnown
  MaxPresses = 2
  MaxRemotes = 2
INVARIANTS
  FleetTypeOK
  PromptArrivesWhole
  AnswerIsOwn
  InvalidatedIsGone
  OneProbePerHost
  NamesLeadToOneAgent
  ShownIsRoutable
  WritesWhatWasPicked
PROPERTIES
  ChatsReturn
CHECK_DEADLOCK FALSE
