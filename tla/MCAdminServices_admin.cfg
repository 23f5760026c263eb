SPECIFICATION MCSpec
CONSTANTS
    Services = {"risk", "batch", "guard", "audit", "config", "xiaozhi", "backup", "scripts", "session"}
    Absent = Absent
    Never = Never
    Nobody = Nobody
    \* risk
    Tools = {"t"}
    Syncs <- Both
    Descriptions <- Ratings
    Answers = {1, 3}
    MaxOps = 4
    \* batch
    Items <- MCItems
    BatchSize = 2
    Workers <- Both
    Replies <- MCReplies
    \* guard
    Requests <- Both
    Failures <- MCFailures
    Subjects = {"ip", "key"}
    Exempt = {}
    Threshold = 1
    Window = 1
    FirstBlock = 1
    MaxBlock = 2
    Escalation = 2
    MaxTime = 1
    MaxBlocks = 2
    MaxFaults = 1
    \* audit
    NEvents = 3
    AuditQueue = 2
    AuditBatch = 2
    MaxAuditFaults = 1
    \* config
    Handlers <- Both
    Passwords = {"p1"}
    Requested <- Settings
    Foreign <- MCForeign
    MaxConfigOps = 3
    MaxConfigFaults = 2
    \* xiaozhi
    Updates <- Both
    Endpoints = {"e1"}
    Modes = {"full", "smart"}
    MaxRuns = 3
    MaxUpdates = 2
    MaxAttempts = 1
    \* backup
    UpstreamNames = {"a", "b"}
    Rules = {"r"}
    Keys = {"k"}
    Providers = {"p"}
    MaxIds = 3
    MaxImports = 1
    MaxWrites = 3
    \* scripts
    ScriptIds = {"s1"}
    Upstreams = {"u"}
    Admins <- Both
    Contents = {"c1", "c2"}
    Critical = {"c2"}
    MaxScripts = 1
    MaxVersions = 3
    MaxOutside = 1
    \* session
    Dials = {"d1", "d2", "d3"}
    Closers <- Both
    Stdio = TRUE
\* The rest of the state never changes.
VIEW View
\* Every request may have been made and every bound used up.
CHECK_DEADLOCK FALSE
INVARIANTS
    ListedIffCallable  JobAccountsForTools RefusalsAreListed AuditIsComplete
    ConnectorFollowsSettings ReferencesHold NothingLeaks
PROPERTIES AdminKeepsAccess ImportRestores
