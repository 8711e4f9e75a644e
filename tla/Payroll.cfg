SPECIFICATION Spec
CONSTANTS
  Malformed = Malformed
  Files <- MCFiles
  Days = {13, 14, 0}
  Callers <- MCCallers
  MaxRuns = 3
  MaxFaults = 2
  MaxEdits = 3
INVARIANTS StubsAndEntriesPair PaidAsReported TableFollowsFile
CHECK_DEADLOCK FALSE
