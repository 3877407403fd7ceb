CONSTANTS
    p1 = p1
    p2 = p2
    c1 = c1
    c2 = c2
    b2 = b2
    t1 = t1
    Jobs = {j1}
    Targets = {t1}
    Limit = 1
    NoJob = NoJob
    Plans = {p1, p2}
    Diagnosis = Diagnosis
    Changes = {c1, c2, b2}
    NoChange = NoChange
    ChangesOf <- MCChangesOf
    TargetOf <- MCTargetOf
    RollbackOf <- MCRollbackOf
    Priors <- MCPriors
    StoreLimit = 1
    ApprovalTimeout = TRUE
    MaxApprovals = 3
    MaxCrashes = 0
SPECIFICATION Spec
PROPERTY UnknownOutcomeStopsPlan
CHECK_DEADLOCK FALSE
