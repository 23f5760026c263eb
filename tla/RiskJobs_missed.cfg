\* Deadlock is allowed: the service may have nothing left to do.
SPECIFICATION FairSpec
CONSTANTS
    None = None
    Tools = {t1, t2}
    Providers = {p1}
    AutoAssess = {p1}
    Callers = {c1, c2}
    Runners = {r1, r2}
    BatchSize = 1
    Workers = 1
    Scopes = {"needs_review"}
    Admin = {}
    MaxSyncs = 2
    MaxRequests = 1
    MaxAdmin = 0
    MaxCrashes = 0
    MaxFaults = 0
PROPERTY ToolsAreAssessed
CHECK_DEADLOCK FALSE
