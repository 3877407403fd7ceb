CONSTANTS
    p1 = p1
    p2 = p2
    c1 = c1
    c2 = c2
    b2 = b2
    t1 = t1
    Jobs = {j1, j2}
    Targets = {t1}
    Limit = 1
    NoJob = NoJob
    Plans = {p2}
    Diagnosis = Diagnosis
    Changes = {c2, b2}
    NoChange = NoChange
    ChangesOf <- MCOneChange
    TargetOf <- MCOneTarget
    RollbackOf <- MCOneRollback
    Priors <- MCNoPriors
    StoreLimit = 1
    ApprovalTimeout = FALSE
    MaxApprovals = 1
    MaxCrashes = 0
SPECIFICATION FairSpec
PROPERTIES
    ImplementsSingleFlight
    ConfirmedIsSubmitted
CHECK_DEADLOCK FALSE
