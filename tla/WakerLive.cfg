SPECIFICATION FairSpec
CONSTANTS
    Requests = {r1}
    Sweeps = {s1}
    IdleTicks = 2
    CheckTicks = 1
    MaxWrites = 1
    MaxRestarts = 1
    MaxFaults = 1
    MaxOutside = 0
PROPERTIES
    
    FailuresStartTheApp
    KnownIdleSleeps
