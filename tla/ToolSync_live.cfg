SPECIFICATION FairSpec
CONSTANTS
    Workers = {w1}
    Cron = cron
    Ops = {"get", "ensure", "refresh", "delete"}
    MaxChanges = 1
    MaxCrashes = 1
    RedisFails = TRUE
    Warm = FALSE
    None = None
PROPERTY Converges
