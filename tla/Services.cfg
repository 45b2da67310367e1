\* Two evolution runs; two plugins, a server and a draft; an upload of up to five files;
\* two MCP calls and two reloads; two commands; two messages of a chat.
SPECIFICATION Spec
CONSTANTS
  SkillFile = {"extra"}
  Interval = 1
  Overlap = 1
  MaxRuns = 2
  MaxRequests = 2
  MaxEdits = 2
  MaxTurns = 1
  Earlier = {1}
  MaxUserWrites = 1
  MaxRollbacks = 1
  Plugin = {1, 2}
  Drafted = {1}
  Server = {"s"}
  Skill = {"k"}
  MaxChanges = 4
  MaxUploadFiles = 4
  McpCall = {1, 2}
  MaxReloads = 2
  MaxProcesses = 3
  MaxNoise = 1
  Call = {1, 2}
  Terminal = {1}
  CommandFile = {"named", "made"}
  Output = {"made"}
  MaxRetries = 1
  MaxWrites = 1
  Message = {1, 2}
  ChatOf <- OneChat
  Written <- TwoPlugins
  Uploadable <- MeetingFiles
  Clean <- CleanedNames
  MaxEvents = 2
  MaxTransports = 2
  MaxFaults = 1
INVARIANTS
  RunsAreAccounted
  
  NothingLost
  
  CommandsAreSettled
  ChatsAreServed
PROPERTIES
  RollbackRestores
  NothingForgotten
  InstalledDisabled
CHECK_DEADLOCK FALSE
