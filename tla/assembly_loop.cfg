SPECIFICATION RunSpec
CONSTANTS
  topenv = topenv
  enclave = enclave
  main = main
  a = a
  b = b
  c = c
  e = e
  ai = ai
  ao = ao
  bi1 = bi1
  bi2 = bi2
  bo = bo
  ci = ci
  ei = ei
  eo = eo
  ta = ta
  tm = tm
  a1 = a1
  a2 = a2
  b1 = b1
  c1 = c1
  m = m
  e1 = e1
  None = None
  Env = {topenv, enclave}
  top = topenv
  containing_environment <- Containing
  Reactor = {main, a, b, c, e}
  container <- Tree
  environment <- EnvironmentOf
  Port = {ai, ao, bi1, bi2, bo, ci, ei, eo}
  Input = {ai, bi1, bi2, ci, ei}
  Action = {ta, tm}
  owner <- Owner
  Reaction = {a1, a2, b1, c1, m, e1}
  home <- Home
  Priorities <- MCPriorities
  Programs <- MCPrograms
  MaxDepth = 2
  Here = topenv
  Multiports = {{bi1, bi2}}
  MaxTags = 2
  MaxSets = 1
CHECK_DEADLOCK FALSE
INVARIANTS
  LoopIsReported
