SPECIFICATION TcpSpec
CONSTANTS
  Conns <- TwoConns
  Unknown = FALSE
  Refused <- None
  Refuses = TRUE
  Stops = FALSE
  MaxQueue = 1
  MaxFrames = 1
  MaxFaults = 0
CHECK_DEADLOCK FALSE
INVARIANTS ConnectionOwned
