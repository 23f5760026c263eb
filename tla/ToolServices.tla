---------------------------- MODULE ToolServices ----------------------------
(***************************************************************************)
(* Ten components on the way of a tool from its upstream to a client,      *)
(* which share no state with each other, in one specification: an          *)
(* execution picks one of Services and follows it, while the others stay   *)
(* as they start.  The state space is the sum of theirs.                   *)
(***************************************************************************)
EXTENDS Integers, FiniteSets, Sequences

CONSTANTS
    Services,   \* the components that may be followed
    All, Nobody, NoSession, Nothing,    \* values of no set
    Admins      \* administrative requests

VARIABLES service

CONSTANTS Calls, Sources, LimitChoices, Period, Expires, MaxFilters, MaxTime, MaxOps
VARIABLES key, acl, filters, counters, expiry, clock, call, admin, admitted, applied, lengths,
          adminOps
Access == INSTANCE ApiAccess
accessVars == <<key, acl, filters, counters, expiry, clock, call, admin, admitted, applied,
                lengths, adminOps>>

CONSTANTS Documents, Values
VARIABLES document, tools, operations, source, asked
Open == INSTANCE OpenAPI WITH request <- asked
openapiVars == <<document, tools, operations, source, asked>>

CONSTANTS UpstreamOrder, UpstreamTools, AliasChoices, FilterChoices, PolicyChoices,
          DefaultStrategy, Turns, MaxRuleOps
VARIABLES aliases, mcpFilters, keyFilters, policies, build, standing, met, served, hidden,
          roundRobin, called, ruleOps
Visibility == INSTANCE ToolRules WITH Listed <- UpstreamTools
rulesVars == <<aliases, mcpFilters, keyFilters, policies, build, standing, met, served,
               hidden, roundRobin, called, ruleOps>>

CONSTANTS Sessions, ToolLists, Matching, Folded, Queries, Containing, NameRank, Requested,
          Settings, MaxDiscoveryLimit, DefaultDiscoveryLimit
VARIABLES visible, discoveryLimit, session, browse, used
Endpoints == INSTANCE McpEndpoints WITH called <- used
endpointVars == <<visible, discoveryLimit, session, browse, used>>

CONSTANTS Policies, LaunchProfiles, Commands, Hosts, ParentEnv, HasRuntimeDir, Sensitive,
          Dangerous
VARIABLES policy, host, seen, declared, launch, child
Starts == INSTANCE LaunchPolicy WITH
    Profiles <- LaunchProfiles, saved <- declared, process <- child
launchVars == <<policy, host, seen, declared, launch, child>>

CONSTANTS Batches, DayLength, TTL, MaxRecent, RecentPage, TopLimit, Retention,
          MaxStatsTime, MaxFlushes
VARIABLES time, daily, recent, views, seq, cursor, answer, flushes, counted, shown
Stats == INSTANCE CallStats WITH
    PageLimit <- RecentPage, MaxTime <- MaxStatsTime, now <- time
statsVars == <<time, daily, recent, views, seq, cursor, answer, flushes, counted, shown>>

CONSTANTS Requests, Files, NameBefore(_, _), MaxName, MaxTags, MaxItems, MaxRows,
          MaxEdits, MaxCatalogFaults
VARIABLES rows, created, refMu, edit, moved, edits, faults
Catalog == INSTANCE UpstreamCatalog WITH scriptRefMu <- refMu, job <- edit
catalogVars == <<rows, created, refMu, edit, moved, edits, faults>>

CONSTANTS Probers, Pollers, Packages, Placed, Image, Preflights, PrefixTTL, PreflightTTL,
          MaxLogs, MaxDepTime, MaxLines, MaxWork
VARIABLES installed, dirs, modified, depOpMu, op, tree, progress, lastError, logs, latest,
          depOps, prefixes, preflights, probe, found, absent, present, depTime, probes,
          looks, disturbed, doubtful
Deps == INSTANCE RuntimeDeps WITH
    MaxTime <- MaxDepTime, ops <- depOps, answer <- found, now <- depTime
depVars == <<installed, dirs, modified, depOpMu, op, tree, progress, lastError, logs,
             latest, depOps, prefixes, preflights, probe, found, absent, present, depTime,
             probes, looks, disturbed, doubtful>>

CONSTANTS Views, Levels, Capacity, PageLimit, MaxLocalLogs, MaxEntries, MaxSwitches,
          MaxRestarts, MaxAsked
VARIABLES entries, nextID, view, switches, restarts
Log == INSTANCE SystemLog
logVars == <<entries, nextID, view, switches, restarts>>

CONSTANTS Disks, RootPolicies, Typed, Contexts, EntryBefore(_, _), Limits, MaxContext,
          ScanCap, MaxLinks
VARIABLES disk, settings, page, form
Picker == INSTANCE FileBrowser WITH Policies <- RootPolicies, NameBefore <- EntryBefore
browseVars == <<disk, settings, page, form>>

-----------------------------------------------------------------------------
(* The limits an administrator sets are a number per window, and windows and *)
(* periods have a length; "rate" is no quota.                                *)
ASSUME LimitsAreNumbers ==
    /\ LimitChoices \subseteq [limits : [Access!Windows -> Nat], rateWindowS : Nat \ {0}]
    /\ Period \in [DOMAIN Period -> Nat \ {0}] /\ "rate" \notin DOMAIN Period
    /\ MaxTime \in Nat
(* Every upstream a form or an imported file describes is a configuration,   *)
(* of order 0 when it names none, and an imported file describes a list of   *)
(* them.  The outer blanks of a name are one word, its first.                *)
IsList(s) == s \in Seq({s[i] : i \in DOMAIN s})
IsConfig(c) ==
    /\ c = [name |-> c.name, transport |-> c.transport, params |-> c.params,
            credential |-> c.credential, tags |-> c.tags, limits |-> c.limits,
            enabled |-> c.enabled, order |-> c.order]
    /\ c.enabled \in BOOLEAN /\ c.order \in Int /\ IsList(c.tags)
    /\ IsList(Catalog!Without(c.name))
    /\ Catalog!Without(c.name) # <<>> => Catalog!Without(c.name)[1] # " "
ASSUME RequestsAreConfigs == \A cfg \in Requests : IsConfig(cfg)
ASSUME ItemsAreLists ==
    \A file \in Files :
        /\ Catalog!Items(file) \in Seq(Catalog!Range(Catalog!Items(file)))
        /\ \A i \in DOMAIN Catalog!Items(file) : IsConfig(Catalog!Items(file)[i])
ASSUME NobodyIsNoAdmin == Nobody \notin Admins
(* How many lines of the logs are kept is a number. *)
ASSUME LogLimitIsNumber == MaxLogs \in Nat
(* Arguments are a list, and what an environment gives a key is one. *)
ASSUME LaunchLists ==
    /\ \A k \in DOMAIN ParentEnv : IsList(ParentEnv[k])
    /\ \A c \in Commands :
          /\ \A k \in DOMAIN c.env : IsList(c.env[k])
          /\ c.mode # "directory" => IsList(c.args)
(* The variables the gateway sets are none it keeps from its children. *)
ASSUME ManagedIsNotSensitive == {"PATH", "REGISTRY", "NODE_PATH", "PYTHONPATH"} \cap Sensitive = {}
(* "elsewhere" is where none of the built-in tools is found. *)
ASSUME ToolsAreSomewhere ==
    \A h \in Hosts : \A t \in Starts!Tools \cap DOMAIN h.path : h.path[t].root # "elsewhere"

(* A filter is a row; the upstreams are a list, and so are the tools of each. *)
ASSUME FiltersAreRows ==
    FilterChoices \subseteq
        [all : BOOLEAN, ups : {f.ups : f \in FilterChoices},
         pattern : {f.pattern : f \in FilterChoices}, enabled : BOOLEAN]
ASSUME UpstreamsAreListed ==
    /\ IsList(UpstreamOrder)
    /\ \A i \in DOMAIN UpstreamOrder :
          /\ UpstreamOrder[i] \in DOMAIN UpstreamTools
          /\ IsList(UpstreamTools[UpstreamOrder[i]])
ASSUME TurnsIsNumber == Turns \in Nat \ {0}
(* A document has a list of operations, and each a name that is one. *)
ASSUME DocumentsAreLists ==
    \A doc \in Documents : IsList(doc.ops) /\ \A i \in DOMAIN doc.ops : IsList(doc.ops[i].base)
(* The visible tools are a list, and no upstream is without a name. *)
ASSUME VisibleAreListed ==
    \A list \in ToolLists : IsList(list) /\ \A i \in DOMAIN list : "" \notin list[i].ups
(* A page has room for a tool, whatever a client asks for. *)
ASSUME DiscoveryLimits ==
    /\ MaxDiscoveryLimit \in Nat \ {0} /\ DefaultDiscoveryLimit \in Nat \ {0}
    /\ Requested \subseteq Nat
(* An answer of the system log and what a page keeps have limits. *)
ASSUME LogLimitsAreNumbers == PageLimit \in Nat /\ MaxLocalLogs \in Nat

-----------------------------------------------------------------------------
allVars == <<service, accessVars, openapiVars, rulesVars, endpointVars, launchVars,
             statsVars, catalogVars, depVars, logVars, browseVars>>

(* TLC's view: the rest of a state stays as it started *)
Followed ==
    CASE service = "access" -> accessVars
      [] service = "openapi" -> openapiVars
      [] service = "rules" -> rulesVars
      [] service = "endpoints" -> endpointVars
      [] service = "launch" -> launchVars
      [] service = "stats" -> statsVars
      [] service = "catalog" -> catalogVars
      [] service = "deps" -> depVars
      [] service = "log" -> logVars
      [] service = "browse" -> browseVars
View == <<service, Followed>>

Init ==
    /\ service \in Services
    /\ Access!Init /\ Open!Init /\ Visibility!Init /\ Endpoints!Init /\ Starts!Init
    /\ Stats!Init /\ Catalog!Init /\ Deps!Init /\ Log!Init /\ Picker!Init

Next ==
    /\ UNCHANGED service
    /\ IF service = "access" THEN Access!Next ELSE UNCHANGED accessVars
    /\ IF service = "openapi" THEN Open!Next ELSE UNCHANGED openapiVars
    /\ IF service = "rules" THEN Visibility!Next ELSE UNCHANGED rulesVars
    /\ IF service = "endpoints" THEN Endpoints!Next ELSE UNCHANGED endpointVars
    /\ IF service = "launch" THEN Starts!Next ELSE UNCHANGED launchVars
    /\ IF service = "stats" THEN Stats!Next ELSE UNCHANGED statsVars
    /\ IF service = "catalog" THEN Catalog!Next ELSE UNCHANGED catalogVars
    /\ IF service = "deps" THEN Deps!Next ELSE UNCHANGED depVars
    /\ IF service = "log" THEN Log!Next ELSE UNCHANGED logVars
    /\ IF service = "browse" THEN Picker!Next ELSE UNCHANGED browseVars

Spec == Init /\ [][Next]_allVars

-----------------------------------------------------------------------------
(* The properties of the modules, of the component that is followed *)

(* No window admits more calls than its limit. *)
WindowsCountAdmitted == service = "access" => Access!WindowsCountAdmitted
(* A tool calls the operation it was made of. *)
ToolsReachTheirOperation == service = "openapi" => Open!ToolsReachTheirOperation
(* What is served is what the rules of one moment allow. *)
RulesDecideVisibility == service = "rules" => Visibility!RulesDecideVisibility
(* Following the cursors shows every tool once. *)
PagesShowEveryTool == service = "endpoints" => Endpoints!PagesShowEveryTool
(* A child runs only as the policy in force allowed. *)
ProcessesObeyPolicy == service = "launch" => Starts!ProcessesObeyPolicy
(* Queries of the statistics count each recorded call. *)
QueriesCountEveryCall == service = "stats" => Stats!QueriesCountEveryCall
(* A poll brings what is new and nothing twice. *)
PollsContinueThePage == [][service = "stats" => Stats!ContinuesThePage]_statsVars
(* Upstreams created concurrently keep their order. *)
CreationOrderIsKept == service = "catalog" => Catalog!CreationOrderIsKept
(* An exported server file describes the same upstreams. *)
ServersRoundTrip == service = "catalog" => Catalog!ServersRoundTrip
(* One package operation at a time; preflights answer what was just true. *)
RuntimeIsAsAnswered ==
    [](service = "deps" => Deps!OneOperationAtATime)
    /\ [][service = "deps" => Deps!AnswersRecently]_depVars
(* The path picker offers exactly what it then opens. *)
BrowserOffersWhatItOpens == service = "browse" => Picker!BrowserOffersWhatItOpens
(* A page of the system log misses no entry between two it shows. *)
PagesHaveNoHoles == service = "log" => Log!PagesHaveNoHoles
=============================================================================
