SPECIFICATION FairSpec
CONSTANTS
    Requests = {r1}
    Sweeps = {s1}
    IdleTicks = 2
    CheckTicks = 1
    MaxWrites = 1
    MaxRestarts = 0
    MaxFaults = 0
    MaxOutside = 0
PROPERTY IdleSleeps
