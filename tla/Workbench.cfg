\* Five programs, twelve requests, three edits before the analysis, three
\* active PERFORMs.
CONSTANTS
    LowerCase = {"x"}
    MaxDepth = 3
    MaxEdits = 3
    Sources <- MCSources
    Requests <- MCRequests
SPECIFICATION WorkbenchSpec
INVARIANT ClassificationHolds
PROPERTY NoEditBreaksAReference
PROPERTY LaterEditsChangeOnlyTheirSubject
CHECK_DEADLOCK FALSE
