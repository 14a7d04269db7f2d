SPECIFICATION FairSpec
CONSTANTS
  a = a
  b = b
  c = c
  d = d
  NoDelay = NoDelay
  Env = {a, b, c, d}
  Topologies <- MCTopologies
  FirstEvents <- SomeEvents
  KeepsRunning = {a}
  ShutdownReactions = {b, d}
  StartTime = 2
  Delay = {0}
  MaxTime = 3
  MaxMicro = 1
  MaxMicrostep = 3
CHECK_DEADLOCK FALSE
INVARIANTS
  TypeOK
  EventsAccepted
PROPERTIES
  TagsAreGranted
