SPECIFICATION FairSpec
CONSTANTS
  u1 = u1
  u2 = u2
  Units = {u1, u2}
  Listed = {u1}
  None = None
  Timeout = 2
  MaxTries = 1
  MaxQueue = 2
  MaxFaults = 1
PROPERTIES Identified
