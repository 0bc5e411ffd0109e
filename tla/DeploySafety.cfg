SPECIFICATION Spec
CONSTANTS
    Commits = {c1, c2}
    None = None
    MaxDeployments = 3
    HasPreDeploy = TRUE
    HasHealth = TRUE
    HasPostDeploy = TRUE
    Keep = 1
    MaxStalls = 1
    MaxCrashes = 2
    MaxDrops = 1
    MaxDbFaults = 1
    MaxLostAdds = 1
SYMMETRY CommitSymmetry
CONSTRAINT SmallEnough
INVARIANTS
    TypeOK
    PreDeployGate
    RollbackImageKept
    RunningIsOwned
    DeployingIsOwned
    AppRunningIsServing
    CommitIsWhatRuns
    
    HealthGate
PROPERTIES
    SwitchOnlyWhenReady
    CommitNeverReplaced
CHECK_DEADLOCK FALSE
