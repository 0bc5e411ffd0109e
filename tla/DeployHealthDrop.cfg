SPECIFICATION Spec
CONSTANTS
    Commits = {c1, c2}
    None = None
    MaxDeployments = 2
    HasPreDeploy = TRUE
    HasHealth = TRUE
    HasPostDeploy = FALSE
    Keep = 0
    MaxStalls = 1
    MaxCrashes = 0
    MaxDrops = 1
    MaxDbFaults = 0
    MaxLostAdds = 0
SYMMETRY CommitSymmetry
INVARIANTS
    SuccessMeansHealthy
CHECK_DEADLOCK FALSE
