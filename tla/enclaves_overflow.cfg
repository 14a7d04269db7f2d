SPECIFICATION Spec
CONSTANTS
  a = a
  b = b
  c = c
  d = d
  NoDelay = NoDelay
  Env = {a, b, c, d}
  Topologies <- DelayedOnly
  FirstEvents <- OneEvent
  KeepsRunning = {a}
  ShutdownReactions = {b}
  StartTime = 2
  Delay = {0}
  MaxTime = 3
  MaxMicro = 1
  MaxMicrostep = 100
CHECK_DEADLOCK FALSE
INVARIANTS
  NoOverflow
