SPECIFICATION ControlSpec
CONSTANTS
  h1 = h1
  h2 = h2
  Handlers = {h1, h2}
  Requests = {"start", "stop", "reset", "pause", "resume"}
  QueueSize = 2
  MaxRequests = 3
INVARIANTS GlobalsTellTheTruth NoneOutOfReach NoGapInEngineEvents
PROPERTIES StoppedEnginesEnd RequestsAnswered
CHECK_DEADLOCK FALSE
