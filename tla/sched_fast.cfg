SPECIFICATION Spec
CONSTANTS
  top = top
  logical = logical
  physical = physical
  timer = timer
  shutdown = shutdown
  NoAction = NoAction
  Forever = Forever
  Env = {top}
  LogicalAction = {logical}
  PhysicalAction = {}
  Timer = {timer}
  ShutdownTrigger = {shutdown}
  environment <- MCEnvironment
  offset <- LateOffset
  period <- Once
  timeout = Forever
  fast_fwd_execution = TRUE
  Delay = {0, 1}
  AsyncDelay = {0, 1}
  GivenTag <- AnyTags
  StartTime = 1
  Latency = TRUE
  EarlyShutdown = TRUE
  MaxTime = 4
  MaxMicro = 1
  MaxCalls = 2
  MaxMicrostep = 3
CHECK_DEADLOCK FALSE
INVARIANTS
  TypeOK
  EventsInFuture
  ShutdownReactionsRun
  ReleasedIsOver
