SPECIFICATION Spec
CONSTANTS
  r1 = r1
  r2 = r2
  r3 = r3
  Recordings <- MCRecordings
  HostOf <- MCHostOf
  Hosts = 2
  MaxSize = 2
INVARIANTS EveryHostTried
