SPECIFICATION VideoSpec
CONSTANTS
  s1 = s1
  Senders = {s1}
  Configured = {s1}
  Empty = Empty
  Local = Local
  Warm = FALSE
  Selector = TRUE
  FirstSources <- DefaultFirst
  MaxTries = 1
  MaxSeq = 2
  MaxSkip = 0
  MaxFaults = 1
  Faults = {"sender"}
  BootStream = TRUE
INVARIANTS HiddenIsStopped
