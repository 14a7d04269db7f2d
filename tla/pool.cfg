SPECIFICATION FairSpec
CONSTANTS
  w1 = w1
  w2 = w2
  w3 = w3
  w4 = w4
  Worker <- ThreeWorkers
  Root = w1
  Reaction <- TwoReactions
  Null = Null
CHECK_DEADLOCK FALSE
INVARIANTS
  TypeOK
  ExclusiveReactions
  CounterExact
  WaitersAccounted
  NoHangWithoutOverlap
PROPERTIES
  Terminates
  ImplementsLevels
