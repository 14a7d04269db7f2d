SPECIFICATION FairSpec
CONSTANTS
  top = top
  logical = logical
  physical = physical
  timer = timer
  shutdown = shutdown
  NoAction = NoAction
  Forever = Forever
  Env = {top}
  LogicalAction = {logical}
  PhysicalAction = {physical}
  Timer = {timer}
  ShutdownTrigger = {shutdown}
  environment <- MCEnvironment
  offset <- LateOffset
  period <- EveryOther
  timeout = 3
  fast_fwd_execution = FALSE
  Delay = {0, 1}
  AsyncDelay = {0, 1}
  GivenTag <- NoTags
  StartTime = 1
  Latency = TRUE
  EarlyShutdown = FALSE
  MaxTime = 5
  MaxMicro = 1
  MaxCalls = 2
  MaxMicrostep = 3
CHECK_DEADLOCK FALSE
INVARIANTS
  NeverEarly
  TimersExact
  LastRound
  StopsAtTimeout
PROPERTIES
  StopIsPrompt
  ImplementsEvents
