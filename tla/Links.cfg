SPECIFICATION LinksSpec
CONSTANTS
  Refused <- MCOneRefused
  MaxQueue = 2
  MaxFrames = 4
  MaxHeard = 3
  MaxFaults = 2
  Conns <- MCConns
  Unknown = FALSE
  TcpRefused <- MCNoneRefused
  Refuses = FALSE
  Stops = TRUE
  TcpQueue = 2
  TcpFrames = 2
  TcpFaults = 2
  FrameBytes = 2
  Cap = 4
  Idle = 2
  Hardware = 3
  SpokeFrames = 2
  SpokeTexts = 3
  SpokeStalls = 1
INVARIANTS WrittenAccounted HeardInOrder SpokeRight
PROPERTIES UartReopens ArriveInOrder TcpSettles
CHECK_DEADLOCK FALSE
