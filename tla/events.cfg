SPECIFICATION FairSpec
CONSTANTS
  w1 = w1
  w2 = w2
  t1 = t1
  t2 = t2
  logical1 = logical1
  logical2 = logical2
  physical = physical
  NoAction = NoAction
  NoOne = NoOne
  Worker = {w1, w2}
  Other = {t1, t2}
  logical_action <- MCLogicalAction
  PhysicalAction = {physical}
  action_list_pool_increment = 1
  size_increment = 1
  start_tag = 2
  MaxTag = 3
  MaxCalls = 4
  EarlyActions = FALSE
CHECK_DEADLOCK FALSE
INVARIANTS
  TypeOK
  ListsOwnedOnce
  ListsHoldScheduled
  ValuesAtTheirTag
PROPERTIES
  NobodyBlocks
