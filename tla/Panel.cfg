SPECIFICATION AllSpec
CONSTANTS
    ta = ta
    tb = tb
    u1 = u1
    u2 = u2
    Teams <- TwoTeams
    Users <- TwoUsers
    Members <- SomeMembers
    Nobody = none
    Apps = {a1, a2}
    MaxTenantRequests = 3
    Accounts = {"e1", "e2"}
    Codes = {"c1", "c2"}
    Attempts = {"l1", "l2"}
    Sessions = {1, 2}
    MaxAuthSteps = 3
    Sockets = {"w1", "w2"}
    Logins = {"s1", "s2"}
    Resources = {"r1", "r2"}
    TeamOf <- TeamsOf
    Terminals = {"t1", "t2"}
    MaxTerminals = 1
    MaxEvents = 1
    MaxDrops = 1
    Containers = {"c1"}
    Foreign = {}
    ConfirmPolls = 2
    HoldTicks = 3
    AlertTicks = 2
    MaxRestartCount = 3
    MaxWatchTicks = 5
    Prs = {1}
    Previews = {1, 2}
    Handlers = {"h1", "h2"}
    Sinks = {"mail", "chat", "loki"}
    Drains = {"loki"}
    MaxPrEvents = 3
    MaxDeliveryOps = 1
    VbRows = 3
    KeepArchives = 1
    MaxVbDrops = 1
    MaxVbFaults = 1
    WithS3 = TRUE
    UpdateRows = 2
    MaxLaunches = 2
    MaxUpdateFaults = 2
    MaxUpdateDeaths = 1
    Askers = {"r1", "r2"}
    KeepExecutions = 1
    MaxTaskRequests = 3
    MaxTaskRuns = 2
    MaxTaskFaults = 1
    BackupHour = 3
    MinGap = 20
    Retention = 1
    MaxHours = 60
    MaxPanelRuns = 5
    MaxPanelRequests = 1
    MaxPanelFaults = 1
    FileRequests = {"q1", "q2"}
    MaxFileFaults = 1
    Secrets = {"x", "y"}
    MaxKeys = 3
    MaxSaves = 3
    MaxSecretFaults = 2
CHECK_DEADLOCK FALSE
INVARIANTS
    PanelTypesOK
    TeamsStayApart
    AccessHolds
    
    
    
    StoredDataHolds
