CONSTANTS
    Jobs = {j1, j2, j3}
    Targets = {t1, t2, t3}
    Limit = 2
    NoJob = NoJob
    NoTarget = NoTarget
    MaxChanges = 2
    MaxStray = 1
SPECIFICATION Spec
INVARIANTS
    LeaseTypeOK
    NoLeakedLease
PROPERTIES
    QueuedIsServed
    ImplementsSingleFlight
CHECK_DEADLOCK FALSE
