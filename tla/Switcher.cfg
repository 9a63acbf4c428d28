SPECIFICATION Spec
CONSTANTS
  s1 = s1
  s2 = s2
  s3 = s3
  Senders = {s1, s2, s3}
  Configured = {s1}
  Empty = Empty
  Local = Local
  Warm = FALSE
  Selector = TRUE
  FirstSources <- DefaultFirst
SYMMETRY Symmetry
INVARIANTS TypeOK LastCommandAgrees StreamsFollowSlots CommandsReachKnown ReportMatchesStreams
PROPERTIES NoRedundantCommand TickSettles
