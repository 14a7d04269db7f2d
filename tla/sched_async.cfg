SPECIFICATION FairSpec
CONSTANTS
  top = top
  logical = logical
  physical = physical
  timer = timer
  shutdown = shutdown
  NoAction = NoAction
  Forever = Forever
  Env = {top}
  LogicalAction = {logical}
  PhysicalAction = {physical}
  Timer = {}
  ShutdownTrigger = {shutdown}
  environment <- MCEnvironment
  offset <- LateOffset
  period <- EveryOther
  timeout = Forever
  fast_fwd_execution = TRUE
  Delay = {0, 1}
  AsyncDelay = {0, 1}
  GivenTag <- TwoTags
  StartTime = 1
  Latency = TRUE
  EarlyShutdown = FALSE
  MaxTime = 4
  MaxMicro = 1
  MaxCalls = 2
  MaxMicrostep = 3
CHECK_DEADLOCK FALSE
INVARIANTS
  NoLostWakeUp
  NothingFails
PROPERTIES
  Stops
  EventsProcessed
