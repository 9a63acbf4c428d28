SPECIFICATION ToolsSpec
CONSTANTS
  r1 = r1
  r2 = r2
  Recordings <- MCRecordings
  HostOf <- MCHostOf
  Hosts = 2
  MaxSize = 2
  Nothing = Nothing
  Ports <- MCPorts
  Nodes <- MCNodes
  Home <- MCHome
  Sessions <- MCSession
  AckTimeout = 2
  MaxCommands = 3
  MaxNumber = 2
  MaxSwitches = 0
  MaxQueue = 2
  MaxSeq = 2
  SeqSpan = 2
  MaxRetries = 1
  Fits = TRUE
  MaxSends = 3
  MaxLosses = 1
  MaxDown = 3
  Dsts <- MCNodes
  Period = 2
  Ignition = 4
  Burnout = 6
  Thrust = 2
  Duration = 16
  MaxClock = 17
INVARIANTS FinishedSurvive GroundTasksAgree SamplesRight FakeVerdictsRight
PROPERTIES ToolsServed
CHECK_DEADLOCK FALSE
