SPECIFICATION Spec
CONSTANTS
    Requests = {r1, r2}
    Sweeps = {s1, s2}
    IdleTicks = 2
    CheckTicks = 1
    MaxWrites = 0
    MaxRestarts = 1
    MaxFaults = 1
    MaxOutside = 1
SYMMETRY RequestSymmetry
INVARIANTS
    TypeOK
    InflightExact
PROPERTY
    StopsOnlyIdle
