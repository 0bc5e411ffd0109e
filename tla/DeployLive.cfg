SPECIFICATION FairSpec
CONSTANTS
    Commits = {c1, c2}
    None = None
    MaxDeployments = 2
    HasPreDeploy = TRUE
    HasHealth = TRUE
    HasPostDeploy = FALSE
    Keep = 1
    MaxStalls = 1
    MaxCrashes = 1
    MaxDrops = 1
    MaxDbFaults = 0
    MaxLostAdds = 0
PROPERTIES
    EveryDeploymentEnds
    AppLeavesDeploying
    LogRefined
CHECK_DEADLOCK FALSE
