\* Deadlock is allowed: the service may have nothing left to do.
SPECIFICATION FairSpec
CONSTANTS
    None = None
    Tools = {t1}
    Providers = {p1, p2}
    AutoAssess = {p1, p2}
    Callers = {c1, c2}
    Runners = {r1, r2}
    BatchSize = 1
    Workers = 1
    Scopes = {"pending", "needs_review"}
    Admin = {"cancel", "activate", "disable"}
    MaxSyncs = 1
    MaxRequests = 1
    MaxAdmin = 1
    MaxCrashes = 1
    MaxFaults = 1
INVARIANTS OneRunnerPerProvider QueuedJobHasStarter
PROPERTY JobsEnd
CHECK_DEADLOCK FALSE
