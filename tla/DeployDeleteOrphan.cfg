SPECIFICATION Spec
CONSTANTS
    Commits = {c1, c2}
    None = None
    MaxDeployments = 2
    HasPreDeploy = TRUE
    HasHealth = TRUE
    HasPostDeploy = FALSE
    Keep = 1
    MaxStalls = 1
    MaxCrashes = 0
    MaxDrops = 0
    MaxDbFaults = 0
    MaxLostAdds = 0
SYMMETRY CommitSymmetry
INVARIANTS
    DeletedLeavesNoContainer
CHECK_DEADLOCK FALSE
