CONSTANTS
    Records = {r1, r2}
    MaxVersion = 2
    MaxTimeouts = 1
    MaxFailures = 1
    MaxCrashes = 1
SPECIFICATION StoreSpec
INVARIANT AtomicFile
CHECK_DEADLOCK FALSE
