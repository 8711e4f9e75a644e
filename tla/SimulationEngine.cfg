SPECIFICATION Spec
CONSTANTS
  NumBanks = 2
  EventDay <- MCEvents
  StartDates <- MCStarts
  MonthLength = 8
  Days = 12
  MaxTx = 1
  MaxErrors = 2
  MaxCommands = 2
INVARIANTS MonthlyBatchesRight EventsOnce
PROPERTY StopEnds
CHECK_DEADLOCK FALSE
