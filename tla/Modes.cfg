SPECIFICATION ModesSpec
CONSTANTS
  s1 = s1
  s2 = s2
  Senders = {s1, s2}
  Configured = {s1}
  Empty = Empty
  Local = Local
  Warm = FALSE
  Selector = TRUE
  FirstSources <- DefaultFirst
  Lists <- ThreeSources
  MaxCommands = 2
INVARIANTS PictureFollows
PROPERTIES RotationKeepsVisible BenchShowsAll VideoResolves ModesSettle
