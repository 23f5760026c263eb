\* Deadlock is allowed: every call may have been made and counted.
SPECIFICATION FairSpec
CONSTANTS
    Records = {r1, r2}
    QueueSize = 1
    BatchSize = 2
    MaxRecent = 1
    MaxDeletions = 1
    MaxFaults = 1
    MaxExits = 1
INVARIANTS ClearedRecordsStayGone StopsDrained
PROPERTY EveryRecordDecided
CHECK_DEADLOCK FALSE
