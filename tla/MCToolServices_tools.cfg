SPECIFICATION MCSpec
CONSTANTS
    Services = {"access", "openapi", "rules", "endpoints", "launch", "stats", "catalog", "deps", "log",
                "browse"}
    All = All
    Nobody = Nobody
    NoSession = NoSession
    Nothing = Nothing
    Admins <- Both
    \* access
    Calls <- Both
    Sources = {"s1", "s2"}
    Period <- MCPeriod
    LimitChoices <- MCLimitChoices
    Expires = 2
    MaxFilters = 1
    MaxTime = 2
    MaxOps = 2
    \* openapi
    Documents <- MCDocuments
    Values <- MCValues
    \* rules
    UpstreamOrder <- MCUpstreamOrder
    UpstreamTools <- MCUpstreamTools
    AliasChoices <- MCAliasChoices
    FilterChoices <- MCFilterChoices
    PolicyChoices <- MCPolicyChoices
    DefaultStrategy = "priority_fill"
    Turns = 2
    MaxRuleOps = 2
    \* endpoints
    Sessions = {"s1"}
    ToolLists <- MCToolLists
    Matching <- MCMatching
    Folded <- MCFolded
    Queries <- MCQueries
    Containing <- MCContaining
    NameRank <- MCNameRank
    Requested = {0, 1, 3}
    Settings = {1, 2, 3}
    MaxDiscoveryLimit = 2
    DefaultDiscoveryLimit = 1
    \* launch
    Policies <- MCPolicies
    LaunchProfiles <- MCLaunchProfiles
    Commands <- MCCommands
    Hosts <- MCHosts
    ParentEnv <- MCParentEnv
    HasRuntimeDir = TRUE
    Sensitive = {"SECRET"}
    Dangerous = {"./x"}
    \* stats
    Batches <- MCBatches
    DayLength = 2
    TTL = 3
    MaxRecent = 3
    RecentPage = 2
    TopLimit = 1
    Retention = 1
    MaxStatsTime = 4
    MaxFlushes = 2
    \* catalog
    Requests <- Forms
    Files <- ImportFiles
    NameBefore <- Before
    MaxName = 3
    MaxTags = 2
    MaxItems = 3
    MaxRows = 3
    MaxEdits = 1
    MaxCatalogFaults = 1
    \* deps
    Probers = {"p1", "p2"}
    Pollers = {"w1"}
    Image = {"uv", "python3"}
    Packages <- MCPackages
    Placed <- MCPlaced
    Preflights <- MCPreflights
    PrefixTTL = 1
    PreflightTTL = 2
    MaxLogs = 1
    MaxDepTime = 1
    MaxLines = 1
    MaxWork = 4
    \* log
    Views = {"v1"}
    Levels = {"info", "error"}
    Capacity = 2
    PageLimit = 1
    MaxLocalLogs = 3
    MaxEntries = 3
    MaxSwitches = 1
    MaxRestarts = 1
    MaxAsked = 2
    \* browse
    Disks <- MCDisks
    RootPolicies <- MCRootPolicies
    Typed <- MCTyped
    Contexts <- MCContexts
    EntryBefore <- FirstName
    Limits = {1, 3}
    MaxContext = 3
    ScanCap = 2
    MaxLinks = 2
\* The rest of the state never changes.
VIEW View
\* Every request may have been made and every bound used up.
CHECK_DEADLOCK FALSE
INVARIANTS
    WindowsCountAdmitted ToolsReachTheirOperation RulesDecideVisibility
    PagesShowEveryTool ProcessesObeyPolicy QueriesCountEveryCall CreationOrderIsKept
    ServersRoundTrip PagesHaveNoHoles BrowserOffersWhatItOpens
PROPERTIES PollsContinueThePage RuntimeIsAsAnswered
