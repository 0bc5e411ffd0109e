SPECIFICATION Spec
CONSTANTS
    MaxJobs = 2
    Kept = {1}
    Piped = TRUE
    MaxFaults = 1
    MaxRequests = 0
CHECK_DEADLOCK FALSE
INVARIANT SuccessIsWhole
