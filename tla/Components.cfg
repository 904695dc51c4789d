SPECIFICATION MCSpec
INVARIANTS OutputsAreWritable NothingSpansAPause WonAsDeclared ScenariosCanAdvance HistoryHasNoHoles LogTellsTheHistory AnswersTheirRequests AnswersAreGenuine RemembersOnlyWhatRan PortsHaveOneUser PanelsFollowScripts EditsAreSettled OutcomesAreTruthful
PROPERTIES LoopsMoveSmoothly StaleRunsTouchNothing
CHECK_DEADLOCK FALSE
CONSTANTS
  NotFinite = 99
  Huge = 60
  IntegerMax = 30
  ScaleOfMinutes = 60
  Identifiers = {"rig", "aux", "main", "power", "state", "stop", "heat", "missing"}
  LoopDefinitions <- MCLoopDefinitions
  LoopConfigurations <- MCLoopConfigurations
  LoopRetunings <- MCLoopRetunings
  LoopSources <- MCLoopSources
  InputSignals = {"s"}
  Measurements = {0, 4, 50}
  MaxTime = 3
  MaxLoops = 1
  RecordedCommands <- MCRecordedCommands
  ReportedSeries = {2}
  MaxLogEntries = 2
  MaxActions = 1
  MaxRecords = 1
  ParameterKeys = {"power", "on"}
  LongTexts = {"long"}
  MaxPayload = 200
  ModelScripts <- MCModelScripts
  EmulatorSetups <- MCEmulatorSetups
  EmulatorRequests <- MCEmulatorRequests
  MaxStarts = 2
  MaxExchanges = 3
  Ports = {"COM1"}
  Channels <- MCChannels
  Wiring <- MCWiring
  Reported <- MCReported
  SerialOperations <- MCSerialOperations
  Attempts = 3
  MaxSerialCalls = 2
  MaxUnderway = 2
  Lower <- MCLower
  Alphabet <- MCAlphabet
  Padded = {" "}
  Paths = {"startup.lua", "other.lua"}
  Startup = "startup.lua"
  ProfileFiles <- MCProfileFiles
  CommandLines <- MCCommandLines
  MaxFileEdits = 1
  MaxLaunches = 2
  MaxLoads = 1
  PanelScripts <- MCPanelScripts
  Assigned <- MCAssigned
  ScenarioCallbacks = {"heat"}
  Globals = {}
  Capacity = 1
  MaxPanelCalls = 2
  MaxPanelEdits = 2
  MaxReloads = 1
  RequestCalls <- MCRequestCalls
  Described <- MCDescribed
  StoredSeries = {"s"}
  StoredLoops <- MCStoredLoops
  KeptHandles <- MCKeptHandles
  Colors = {}
  Connections <- MCConnections
  Spaced = {}
  MaxWindow = 5
  MaxRequests = 2
  MaxRuns = 2
