SPECIFICATION Spec
CONSTANTS
  h1 = h1
  h2 = h2
  s1 = s1
  eve = eve
  Handlers = {h1, h2}
  Users <- MCUsers
  AskedRoles = {"operator", "viewer"}
  Sessions = {s1}
  CallLists <- MCCallLists
  MaxIterations = 2
  MaxChats = 2
  MaxOthers = 1
INVARIANTS ResultsFollowCalls AuditTellsActs RegisteredUseCurrent
PROPERTY EveryChatAnswered
CHECK_DEADLOCK FALSE
