SPECIFICATION GuardSpec
CONSTANTS
    Apps = {a1, a2}
    Threshold = 2
    Base = 1
    MaxCooldown = 3
    MaxUser = 1
    MaxRestarts = 1
    PromptJobs = TRUE
INVARIANTS
    GuardTypeOK
    
PROPERTIES
    GuardPaces
    
CHECK_DEADLOCK FALSE
