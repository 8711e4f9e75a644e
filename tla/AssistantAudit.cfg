SPECIFICATION Spec
CONSTANTS
  h1 = h1
  h2 = h2
  s1 = s1
  eve = eve
  Handlers = {h1, h2}
  Users <- MCUsers
  AskedRoles = {"operator", "viewer"}
  Sessions = {s1}
  CallLists <- MCRecorded
  MaxIterations = 2
  MaxChats = 1
  MaxOthers = 1
INVARIANT EveryInvocationAudited
CHECK_DEADLOCK FALSE
