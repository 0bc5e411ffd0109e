SPECIFICATION ResourcesSpec
CONSTANTS
    MaxJobs = 2
    Kept = {1}
    Piped = TRUE
    MaxFaults = 2
    MaxRequests = 2
    Servers = {v1, v2}
    Wildcard = {v2}
    Fields = {"env", "limits", "advanced", "volumes"}
    MaxAppRequests = 3
    MaxDeploys = 1
    MaxAppFaults = 1
    MaxOps = 4
    MaxServerFaults = 1
    Dbs = {d1, d2}
    FileDbs = {d2}
    Ports = {1}
    MaxDbRequests = 3
    MaxDbFaults = 1
    Svcs = {s1, s2}
    Stacks = {s1}
    Hosts = {h1}
    MaxSvcRequests = 3
    MaxSvcFaults = 1
CONSTRAINTS OneAtATime FewDisturbances
CHECK_DEADLOCK FALSE
INVARIANTS
    TypeOK
    SuccessHasFile
    NewestKept
    RestoredMeansLoaded
    ResourcesTypeOK
    
    
    
PROPERTY
    ResetOnlyWithDump
