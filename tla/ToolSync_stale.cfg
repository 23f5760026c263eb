SPECIFICATION Spec
CONSTANTS
    Workers = {w1}
    Cron = cron
    Ops = {"get"}
    MaxChanges = 1
    MaxCrashes = 0
    RedisFails = FALSE
    Warm = FALSE
    None = None
INVARIANT NoStaleHotData
