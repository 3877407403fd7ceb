CONSTANTS
    Requests <- MCRequests
    Records = {r1, r2}
    MaxVersion = 2
    MaxTimeouts = 1
    MaxFailures = 1
    MaxCrashes = 1
    Visitors = {q1, q2, q3}
    SlotLimit = 2
SPECIFICATION BackgroundSpec
INVARIANTS
    StageTypeOK
    StoreTypeOK
    WaitsAreBounded
    NoOperationLeftRunning
    SavedAndReadable
PROPERTIES
    NeverBackwards
    ChangesLand
    EveryStageEnds
    BulkheadIsSound
CHECK_DEADLOCK FALSE
