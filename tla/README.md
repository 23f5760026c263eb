# Verification of mcp-proxy-gateway

TLA+ models of mcp-proxy-gateway (a Go gateway that aggregates the tools of many
upstream MCP servers behind one endpoint), from its concurrent core to the
services around it, the TLC runs that check them on small instances, and the TLAPS proofs that carry the
main invariants over to every instance. `PROJECT.json` maps every definition to
the lines it models and lists runs, mutations, theorems, hazards and findings.

## How to run

    tlc -workers 2 -config ConnLifecycle_serial.cfg ConnLifecycle.tla
    tlc -workers 2 -config InvokeRouting_calls.cfg  MCInvokeRouting.tla
    tlc -workers 2 -config MCAdminServices_admin.cfg MCAdminServices.tla
    tlc -workers 2 -config MCToolServices_tools.cfg  MCToolServices.tla
    tlapm ToolSetCache_proofs.tla

A run's module and configuration are in the table below. A definition `X_Y`
beside a definition `X` is a plausible bug in the code `X` models: with `X`
replaced by it, the property named in `PROJECT.json` fails.

## The system

One Go process, PostgreSQL (truth), Redis (hot copies, counters, recent records), a data
volume (configuration, scripts, packages), upstream MCP servers (stdio, HTTP, SSE,
WebSocket, OpenAPI) and MCP clients with API keys.

| Component (`src/internal/`) | State it keeps | Operations | Talks to |
|---|---|---|---|
| `manager`, `httpapi/upstream*.go` | rows of upstreams; `conns`: a `Connection` per upstream, each with one background loop | create, import, update, delete, enable, disable, reorder, reconnect, retry, restore, shutdown; `WaitForAvailable` | store; `app`'s dialer; callers waiting for recovery |
| `transport`, `app/adapters.go` | sessions, the registry of current sessions, child processes | dial, call, list tools, notice loss, close | MCP SDK, manager, call routing, launch policy |
| `sync`, `cache` | in-flight upstreams, cron entry; Redis and PostgreSQL copies of tool lists | cron sync, cache-miss sync, refresh, read, replace, delete | sessions, observers (`risk`), aggregation's invalidation |
| `aggregation` (caches) | tool sets per API key with version, projections, search indexes; routing configurations; results | build, list, search, invalidate, expire | cache, rules, API key filters |
| `aggregation` (pipeline), `domain` | tables of aliases, filters, policies; round robin counters | edit rules, build, choose a source | store, caches |
| `aggregation` (routing) | consecutive failures and suspensions of sources | select, reserve quota, authorise, dispatch, fall back, record | Redis script, sessions, `WaitForAvailable` |
| `risk` (jobs) | rows of jobs; a slot per provider; a debounce timer; workers of a job | trigger, queue, launch, run, cancel, recover | store, AI provider, sync's observer |
| `risk` (records) | a rated row per tool | reconcile, apply a rating, override, review, clear | jobs, sync, authorisation |
| `security` | failure counters, blocks in Redis and PostgreSQL | record a failure, block, refuse, release, restore | Redis, store |
| `stats`, `audit` | bounded queues, a Redis buffer, recent records, daily rows | record, flush, drain, query, poll, clear, expire, stop | Redis, store |
| `apikey` | keys, rate windows, address lists, filters | authenticate, limit, edit, delete | Redis script, store |
| `mcpapi`, `toolsearch` | MCP sessions with a snapshot of tools | list, search, call | aggregation |
| `config`, `auth` | `config.yaml`, its copy in memory, a reset marker | load, save, register, change password or settings, reset offline | everything that reads settings |
| `backup` | nothing of its own | export, validate, import | store, config |
| `xiaozhi` | one loop with an outgoing WebSocket | start, stop, reconfigure | settings, mcpapi |
| `scripts` | scripts and versions on disk | publish, activate, delete, launch | references in upstreams |
| `runtime` | policy, caches of probes, shared packages, a process tree | validate, resolve, start, install, remove, preflight | host, settings |
| `syslog`, `web` | a ring buffer; a page that follows it | add, list, poll, clear | |
| `httpapi`, `template`, `health`, `static` | none | one service call per request | all of the above |

What is hard about it: nothing serialises two administrative operations on one upstream;
loops, waiters and operations meet at a handful of fields under short critical sections;
every cache is filled by requests that race with the writes that invalidate it; two stores
are updated one after the other; rows are read, changed and written back while others
change them; jobs survive restarts while the slots that guard them do not; calls hold
sessions that may be replaced at any step; what was validated when it was saved is used
later on a host that has changed; and clients page through lists that move.

## Modules

| Module | Models | Run | Proofs |
|---|---|---|---|
| `ConnLifecycle` | `manager/{manager,lifecycle}.go`, start-up and shutdown of `app/run.go` | `conn_*` | `ConnLifecycle_proofs` |
| `ToolSetCache` | caches of `aggregation/aggregation.go` | `toolset_cache` | `ToolSetCache_proofs` |
| `ToolSync` | `sync/*`, `cache/toolcache.go`, `store/repo_toolcache.go` | `sync_*` | |
| `RiskJobs` | `risk/service.go`, `store/repo_risk_job.go` | `jobs`, `jobs_missed` | `RiskJobs_proofs` |
| `InvokeRouting` | `InvokeTool` and `selectCandidate`, `upstream_invoker.go`, `quota.go`, `dialedConn` | `routing` | `InvokeRouting_proofs` |
| `CallLog`, `Recording` | what the statistics promise, and `stats/{recorder,redisbuffer,writer,cleaner}.go` which implements it | `recording` | `Recording_proofs` |
| `RiskAssessment` | `store/repo_tool_risk.go`, `risk/{level,deterministic,fingerprint,authorizer}.go` | `services_admin` | `AdminTools_proofs` |
| `BatchRating` | one job inside `risk/service.go`, `openai_client.go`, `prompt.go` | `services_admin` | `AdminTools_proofs` |
| `SecurityGuard` | `security/*`, `store/repo_security.go` | `services_admin` | `AdminServices_proofs` |
| `AuditLog` | `audit/*`, `store/repo_audit.go` | `services_admin` | `AdminServices_proofs` |
| `ConfigFile` | `config/*`, `auth/*`, `httpapi/settings.go` | `services_admin` | `AdminServices_proofs` |
| `XiaoZhi` | `xiaozhi/*` and its callers in `app/run.go` | `services_admin` | `AdminTools_proofs` |
| `Backup` | `backup/*` and the tables it reads and replaces | `services_admin` | `AdminServices_proofs` |
| `Scripts` | `scripts/store.go`, `transport/{script_ref,verified_script_unix}.go` | `services_admin` | `AdminTools_proofs` |
| `Session` | `transport/{session,sdk_client,session_stdio}.go` | `services_admin` | `AdminServices_proofs` |
| `ApiAccess` | `apikey/*`, `httpapi/apikey.go` | `services_tools` | `ToolServices_proofs` |
| `OpenAPI` | `transport/session_openapi.go` | `services_tools` | `ToolServices_proofs` |
| `ToolRules` | `aggregation/pipeline.go`, `domain/rule_*.go`, `httpapi/rules.go` and their tables | `services_tools` | `ToolServices_proofs` |
| `McpEndpoints` | `mcpapi/*`, the order of `toolsearch/index.go` | `services_tools` | `ToolServices_proofs` |
| `LaunchPolicy` | `runtime/{policy,security_profile,command,launcher_args,path_lookup,env}.go`, `session_stdio.go` | `services_tools` | `ToolServices_proofs` |
| `CallStats` | `store/repo_callstat.go`, `stats/{recent,query}.go` | `services_tools` | |
| `UpstreamCatalog` | `httpapi/upstream*.go`, `transport/validate.go`, `manager/reorder.go`, `store/repo_upstream.go` | `services_tools` | `ToolServices_proofs` |
| `RuntimeDeps` | `runtime/{deps,run_shared,doctor,requirements,layout}.go` | `services_tools` | `ToolServices_proofs` |
| `FileBrowser` | `runtime/fsbrowse.go`, `httpapi/fsbrowse.go`, directory inspection of `httpapi/runtime_env.go` | `services_tools` | |
| `SystemLog` | `syslog/*`, the page of the web console that follows it | `services_tools` | `ToolServices_proofs` |
| `AdminServices` | the nine components of `services_admin` side by side | `services_admin` | `AdminServices_proofs`, `AdminTools_proofs` |
| `ToolServices` | the ten components of `services_tools` side by side | `services_tools` | `ToolServices_proofs` |

`MC*` modules add symmetry, a view, and values of constants. The models meet at their
edges, where one has its neighbour as an environment that may do anything the neighbour's
code can do: `InvokeRouting` lets sessions come and go as `ConnLifecycle` produces them
(registered before "available", unregistered before "unavailable"), and `ConnLifecycle`
dials what `Session` connects; `ToolSetCache` takes the tool lists of `ToolSync` and the
rules of `ToolRules` as generations that change; `McpEndpoints` takes what is visible from
it; `RiskJobs` takes the syncs of `ToolSync` as `Reconcile`, which `RiskAssessment` has in
full, and starts the job that `BatchRating` has from the inside; `Recording` moves the
batches that `CallStats` folds; `UpstreamCatalog` has the rows of all upstreams,
`ConnLifecycle` the connection of one of them, and `Scripts` and `LaunchPolicy` what a
stdio upstream may start; `ConfigFile` saves the settings `XiaoZhi`, `SecurityGuard` and
`LaunchPolicy` read.

`AdminServices` and `ToolServices` instantiate the nineteen smaller components. These share
no variable, so interleaving them would multiply states without adding a behaviour: the
variable `service` says which one is followed, the others stay as they started, and the
states of a run are the sum of the components'. The `VIEW` is the part that is followed;
nothing else ever changes. Each property of a component is stated in its module and
repeated in the composition for when it is followed, and the theorems are about the
composition's `Spec`, whose assumptions on constants TLC evaluates in the run.

### ConnLifecycle

One upstream. `obj` holds the fields of `*Connection` objects, `conns` the
manager's registry entry, `loop` the goroutines of `startLoop` with the session
each holds, `admin` the operations in HTTP handlers, `waiter` the calls in
`WaitForAvailable`. Every critical section of `c.mu` or `connsMu`, every
repository call and every channel wait is one action. `StopLoop` is the section
that takes `cancel` and `done`, `CancelLoop` the call of `cancel` after it, `JoinLoop` the
receive from `done`; `StartLoop`,
`LoopExit` and the rest follow `startLoop` and `runLoop` statement by statement.
Time is a timer that may fire whenever armed. Failures saturate at the
threshold, the only number they are compared with. A failing repository call
ends an operation before it changed anything.

### ToolSetCache

Data is a generation per kind, in the order a build reads it. A cached set is
what its build had read. `Insert` compares the version the build began with;
`ClearToolSets` and `ClearResults` are the two critical sections of
`InvalidateToolSetCache`, some step after the write they belong to. Expiry may
come at any step, also between two looks at the clock. What is checked of a request is the
tool set it lists, routes by or projects; `PutDiscoveries` and `CallReturns` may leave a
projection or a result of older data in the cache, which later requests are answered with.

### ToolSync

Lists are generations of the upstream's list. A goroutine is a reader, a cache-miss sync
(`EnsureCached`), a cron sync, a manual refresh (which does not take the in-flight claim)
or a deletion. `Replace` is its PostgreSQL write, its Redis write and, if that fails, the
deletion of the stale key. Redis survives a crash, the claims do not.

### RiskJobs, BatchRating

`RiskJobs`: `jobs` is the table in order of creation, `running` the slots, `runner` the
goroutines of `launchJob`, `caller` those in `queueAssessment` (under `queueMu`). Each
database call is an action and up to `MaxFaults` of them fail. An assessment by the
provider may end in anything.

`BatchRating` opens one runner: workers take batches from a channel, a request ends in any
of `Replies` (a full answer, one with other tools, a retryable error, a final one), is
tried three times, is halved once; each tool's rating is stored or its failure marked; the
loop of `runJob` adds outcomes up and looks whether the row was cancelled. The process may
stop at any time. `fate` is what was stored of each tool.

### InvokeRouting

One exposed tool with several sources. A caller walks through selection, reservation,
authorisation, dispatch and result. `link` is a source's session and manager state; `lost`
is the moment when the session is unregistered and the manager still says available. A
caller keeps the session it looked up (`open`, then perhaps `broken` by `markBroken` or
`closed` by `Close`); `locked` is `callMu`, which only recovered calls hold across
reservation and dispatch, and which `Close` and `markBroken` must take. The order of
candidates is any order; all quota windows of a source are one; the failure counter
saturates at the threshold. `paid`, `waived` and `sent` are history.

### CallLog, Recording, CallStats

`CallLog` is the promise: a call is offered, then settled, counted at most once or lost,
perhaps forgotten later, and none stays undecided. `Recording` is the recorder: the queue
with its select, the Redis buffer, the batch popped from it, the write to recent records
and daily counts, `dropBefore` of a deletion, the two contexts of shutdown. Its stage of a
record maps to `CallLog`'s, and `EveryRecordDecided` says that `CallLog`'s specification
with its fairness holds under that map.

`CallStats` begins where a batch is flushed: folding into the daily rows, the recent
records with their expiry, the queries of the console, and a page that polls. `counted`
and `shown` are history, the reference the queries are compared with.

### RiskAssessment

The rows of an upstream's tools. `Reconcile` reads all and commits all, without a lock, in
the observer's goroutine; a rating is read, asked for and written; overrides and reviews
lock. Levels are ranks, descriptions the classes of words and phrases the deterministic
rules look for. `decided` is the history that the property needs: which descriptions
decisions were about. `overtaken` are the descriptions that were stored while the provider
was asked about an earlier one: `ApplyAIResult` does not compare fingerprints, so that an
answer to the old question is stored on the new description, and the property excepts it.

### SecurityGuard, ApiAccess, Session

`SecurityGuard`: a failing request counts for up to three subjects (address, fingerprint,
key at address), and for each it increments, compares, counts the earlier rows
(`CountBlocks`) for an escalated duration, sets the Redis key (`SetBlock`) and inserts the
row, with time passing in between. The TTL of the key and the end the row will have are
taken on adjacent lines and at one time here.

`ApiAccess`: a call reads the key, the address list and then the windows in one Redis
script; administrators' requests read and write between those steps, the limits and the
length of the rate window among them. A counter is named by the window and its start and
keeps the TTL of its first call (`Slot`, `expiry`), as in the script. `applied` remembers
the largest limit in force in a window, `lengths` the lengths its counter was asked under.

`Session`: `Connect` with its timeout, the handshake in a goroutine that may end late,
the cleanup goroutine it leaves, `Close` and the loss of the connection; `open` and
`snapshots` are what the operating system holds for the session.

### AuditLog, ConfigFile, XiaoZhi, Backup

`AuditLog` is the recorder without a buffer: queue, pending, flush, shutdown, retention. Of
the table it keeps how many rows each event has, since the list sorts what it reads: the
k-th row of it is the one with k newer ones, page and size deciding which k are shown.

`ConfigFile`: every handler takes a snapshot, changes it and saves the whole (temporary
file, rename, memory); start-up normalises, applies an offline reset and generates the
secret. Writes fail and the process dies between any two steps.

`XiaoZhi`: `Start`, `Stop` and `Reconfigure` with the lock they hold and the wait outside
it; the loop reads its settings, dials, serves, backs off and resets what it shares. A new
connector has no mode (`Unset`), whatever mode is saved, until the first `ApplySettings`,
and without one it serves in the smart mode (`ServedMode`).

`Backup`: identifiers are numbers given in order, names are unique. Deletion cascades as
the foreign keys of `store.go` say. The export lists one table a step and then reads the
relations of each of its rows (`ReadRelations`), between which rows may go: a key that was
deleted after it was listed makes the export fail, the upstreams of a rule come as they are
then. The import maps names to new identifiers.

### Scripts, LaunchPolicy, RuntimeDeps, FileBrowser

`Scripts`: a content is its own hash. Publication writes directories, files, metadata in
steps; `scriptRefMu` is held where the handlers hold it; a launch checks, copies and
executes, and files may be edited from outside at any step. The import of a backup replaces
all upstreams with their references and validates none (`ImportUpstreams`); those it leaves
dangling are `unchecked` until they are saved again, and the property excepts them.

`LaunchPolicy`: `saved` is what passed the validation of the day; a launch reads policy,
probes and host again and starts, and settings, links and executables may have changed.
`HasRuntimeDir` says whether the gateway has a runtime volume, whose modules are then put
on the search paths of a child.

`RuntimeDeps`: an operation holds `depOpMu` and runs a tree of processes of which a deadline
kills the first; preflights read directories through two caches. The first of them, the
prefixes, is also read and filled, in two steps, by the operations when they look up their
managers (`Look`, `StoreLook`, `Find`) and by `Pollers`: the polled summary, launches and
`RunCommand`. A preflight uses it twice, for the key and for the lookup; `doubtful` are the
keys of results between whose two lookups another request has filled it.

`FileBrowser`: a path is a sequence of names, a disk maps paths to directories, files and
links. `Resolve`, `Classify`, `Listing` and `Stat` answer the picker's requests; the disk
and the policy change between requests, not within one.

### OpenAPI, ToolRules, McpEndpoints, UpstreamCatalog, SystemLog

`OpenAPI`: a document is a sequence of operations with declared parameters; connecting
makes names unique and calling builds a request. A tool is told by the place of its
operation in the document; the merged parameters of an operation are a set, as neither a
request nor a refusal depends on their order.

`ToolRules`: the build reads lists and each table in a step of its own while rules are
edited; a pattern is the set of names it matches. What a filter leaves of a list is the
function of its remaining positions, and the k-th candidate of a name the one with k before
it. `standing` and `met` are the filters in effect during all and some of the build.

`McpEndpoints`: a session in full mode keeps the tools it opened with, one in smart mode
asks anew; a client follows cursors with page sizes of its choice. Upstreams are found by
their names without regard to case (`Folded`) and counted in the overview with it. A list that is asked for
is a set of places in the list of all tools and an order on them.

`UpstreamCatalog`: forms and files are validated as `validate.go` does, with values reduced
to what the validation tells apart (the empty string is the word `unset`); orders are read
and written in two statements. What the code sorts (the list, the names of a file, the
tags it keeps) is the function from a rank to the member that has so many before it
(`InOrder`).

`SystemLog`: the store's entries and the page's list, which merges loads and polls; both
always lie in the order of their identifiers and are modelled as sets.

## Runs

| Run | States | What it shows |
|---|---|---|
| `conn_serial` | 579 000 | One operation at a time, one loop, one waiter, two parameter versions, threshold 2: row, published state and loop agree (`ViewsAgree`), no waiter misses a recovery (`NoMissedAvailable`); under fairness a failed upstream is always dialled again (`KeepsProbing`) |
| `conn_concurrent` | 804 000 | Two overlapping operations, restore may fail, shutdown at any step: `LoopOwnership`, `JoinsCancelledLoop`, `ShutdownReleasesAll` |
| `conn_zombie` | violation | A deleted upstream may be served after Update overlaps Delete (`DeletedStaysStopped`) |
| `toolset_cache` | 666 000 | Two requests (search, call), one write and its invalidation, expiry: `ToolSetsSeeEarlierWrites`, `IndexMatchesDiscoveries` |
| `sync_live` | 27 000 | Cron, a reader, cache miss, refresh or deletion, failing stores, a crash: the copies converge (`Converges`) |
| `sync_stale` | violation | A reader's write-back undoes a Replace in Redis (`NoStaleHotData`) |
| `jobs` | 262 000 | Two providers, both scopes, a sync, a manual job, a cancellation or change of provider, a crash, one failing call: `OneRunnerPerProvider`, `QueuedJobHasStarter`, and every job ends if no call failed (`JobsEnd`) |
| `jobs_missed` | violation | A queued `needs_review` job makes the trigger drop a new tool (`ToolsAreAssessed`) |
| `routing` | 1 097 000 | Two calls, two sources, one with a quota of one: `SentOnce`, `PaidOnce`, `QuotaHeld` |
| `recording` | 63 000 | Two calls, one deletion, one failing call, one shutdown or crash: the recorder implements `CallLog` (`EveryRecordDecided`), `ClearedRecordsStayGone`, `StopsDrained` |
| `services_admin` | 1 111 000 | What administrators change while something reads it, component after component: see below |
| `services_tools` | 853 000 | The way of a tool from its upstream to a client, component after component: see below |

The components of the last two runs, with the hazard their property is about and the bounds:

| Component | Property | Bounds |
|---|---|---|
| `RiskAssessment` | `ListedIffCallable`: a tool is in a key's lists exactly if a call of it is allowed. `UsedAfterDecision`: a rating or override is used only for a description it was decided on, or, the one exception, for one that replaced it while the provider was asked | one tool, two descriptions, two reconciliations at once, a rating, an administrator, four operations |
| `BatchRating` | `JobAccountsForTools`: a job that ended by itself counts every tool it listed once, as what was stored of it | three tools, batches of two, two workers, every reply, a cancellation, a stop |
| `SecurityGuard` | `RefusalsAreListed`: whoever is refused has a block an administrator can release | two requests, two subjects, two blocks, one fault or restart |
| `AuditLog` | `AuditIsComplete`: what the queue took before the stop is written once; the pages show every row | three events, a queue of two, one failing insert |
| `ConfigFile` | `AdminKeepsAccess`: the file stays loadable, administrator and secret stay | two handlers, three operations, two failing writes or crashes |
| `XiaoZhi` | `ConnectorFollowsSettings`: no loop escapes `Stop`; without overlap the connection is what the settings say, its mode once settings were saved in this process | two requests, two modes, start and end of the application |
| `Backup` | `ImportRestores`: after an import every rule, key and rating reaches, by name, what it reached in the file | two upstreams, a rule, a key, a provider, three writes (also between two queries of an export), one import |
| `Scripts` | `ReferencesHold`: a reference that was validated names a published version with its bytes, and only these are executed, also for references an import brought | two administrators, two contents, three versions, one edit from outside, crash or import |
| `Session` | `NothingLeaks`: no process, stream or snapshot without an owner, none after `Close` | three dials, two closers |
| `ApiAccess` | `WindowsCountAdmitted`: no quota, and no rate window whose length stays the same, admits more than the largest limit applied in it; a counter counts admitted calls only | two calls, two addresses, two windows, two lengths, two administrators' operations |
| `OpenAPI` | `ToolsReachTheirOperation`: one tool per operation, and its request carries what the operation requires | documents whose names collide, before and after suffixes |
| `ToolRules` | `RulesDecideVisibility`: what a filter hid during all of a build is hidden, what none hid is there | two upstreams, a change of rules between any two reads |
| `McpEndpoints` | `PagesShowEveryTool`: the cursors of an unchanged list show every tool once, of an upstream at least what the overview announced | a list of three, names that differ in case, pages of one and two, one session in either mode |
| `LaunchPolicy` | `ProcessesObeyPolicy`: a process runs only what the policy its launch read allows | two policies, three profiles, four commands, two hosts |
| `CallStats` | `QueriesCountEveryCall`: the daily rows answer as the calls would. `PollsContinueThePage`: a poll brings what is new, nothing twice | three batches, two flushes, four instants, a page of two, three recent records |
| `UpstreamCatalog` | `CreationOrderIsKept`: the list follows the creations. `ServersRoundTrip`: an exported server is read back as the upstream it describes, with the parameters the file carries, or refused | two administrators, two forms, two files, three rows, one failing query |
| `RuntimeDeps` | `RuntimeIsAsAnswered`: what is polled is about the last operation, of which there is one at a time (`OneOperationAtATime`), and an answer of a preflight is true of the last instants, unless another request stored prefixes between the two lookups behind it (`PreflightIsRecent`) | two administrators, two probers, one poller, and four units of work, of which an operation takes two, as does a file placed by hand, and a preflight one (`Work`) |
| `FileBrowser` | `BrowserOffersWhatItOpens`: what the picker offers it opens, and nothing it shows lies outside of the roots; what was inspected can be launched | two disks, three policies, seven typed paths, pages of one and three, a scan of two names |
| `SystemLog` | `PagesHaveNoHoles`: between two entries of a page none is missing that the store still has | a ring of two, three entries, a change of level, a restart |

The invariants of types that the proofs use are conjuncts of their inductive
invariants; no run repeats them.

Why the bounds suffice. The races of this code are between two actors and one object: two
operations on a Connection, a build and an invalidation, a reader and a Replace, a runner
and a canceller, two calls on one session, two snapshots of one file, a poll and a flush.
Two of each actor, with the environment unbounded (`ConnLifecycle`, `InvokeRouting`) or
bounded at one to three changes, produce every pairing; a third actor meets states a second
one met. Queues, pages and rings are smaller than what is put into them, so that overflow,
eviction and the full page happen. `Conns` and `Loops` slots are reused once nothing refers
to them, and two are enough because `StartLoop` waits for a free slot only when two loops
wind down, which one more operation cannot make worse. The threshold 2 distinguishes a
first failure from the one that suspends; in `conn_concurrent` it is 1 and nobody waits, so
that the view of that run may leave out failures, timers and pending wake-ups. One crash is enough where the state after it is
the same for every further one. What is proved below does not depend on bounds at all.

`CHECK_DEADLOCK FALSE` appears where the system may have nothing left to do: a gateway that
has shut down, a job service whose requests are used up, a bound that is reached.

Fairness. `ConnLifecycle`: loops and operations go on (goroutines are scheduled), timers
fire, dials return (they have a timeout); nothing is assumed about administrators or about
dials succeeding. `ToolSync`: the cron job comes again, goroutines go on, and the stores
and the upstream do not fail for ever (strong fairness of a successful pull and of each
successful write), for no program converges on a store that never answers. `RiskJobs`:
callers, runners, the trigger's timer and `Resume` go on; nothing about providers' answers.
`Recording`: callers and the worker go on, Go's `select` does not starve a ready case for
ever (strong fairness of taking from the queue and of seeing the cancellation), and a
process that was asked to stop ends.

## Proofs

Eight modules, checked by `tlapm` from nothing, for every value of the constants allowed by
the named assumptions. These are `ASSUME`s of the models, which TLC evaluates in the runs;
where a theorem needs more it is a hypothesis of the theorem and named below. Theorems about
a component of `services_*` are about the `Spec` of `AdminServices` or `ToolServices`: a step
of the composition is a step of the component or leaves its variables alone, and the
component's invariant is kept by either.

* `ConnLifecycle_proofs`: `TypeCorrect`, `Ownership`, `JoinsCancelled`, `ShutdownQuiesces`,
  `NoMissed`, `Agreement`.
  `LoopOwnership` is not inductive. `OwnInv` adds its converse (`PointsToOwnLoop`: the loop
  a Connection points to is alive, its own and not cancelled) and what operations hold
  between their critical sections (`Held`: a Connection to work on, and, from the section that
  detached it until the receive from `done`, a loop that no Connection points to any more and
  this operation alone cancels). `ShutdownInv` adds
  where a session may be open, and that after Shutdown a loop is at most started and on its
  way out. `NoMissed` is inductive beside `OwnInv`: a step that makes a Connection available
  notifies its waiters in the same critical section, and a waiter takes channel and state in
  one (`MissStep`); every other step leaves both alone or makes no state "available"
  (`MissFrame`). `Agreement` (row, registered Connection and goroutine agree between
  operations, `ViewsAgree`) assumes `Serial`: one administrative operation at a time and a
  start-up that could read the list. Without it `ViewsAgree` is false of the code, as
  `conn_zombie` shows. It needs no bound on Connections, loops, waiters or versions.
  `SerialInv` says how far the operation under way has come (`Progress`: until it stops the
  loop the old views agree, between stop and start nothing runs, the row is written before
  the Connection), that a cancelled loop is being waited for, that only the registered
  Connection runs one, and that a loop has dialled what its Connection is configured with.
* `ToolSetCache_proofs`: `TypeCorrect`, `CacheIsFresh`, `ToolSetsAreCurrent`,
  `IndexFitsDiscoveries`. The invariant relates three moments: what a build has read so far
  is at least `cleared` as long as the version it remembers is still current, whatever a
  build has not yet read will be, and an entry is at least `cleared`. `CacheIsFresh`
  (`EntriesAreFresh`, the state of the cache between requests) is proved and no longer
  repeated by a run, which checks the tool sets requests work with. Nothing is proved of cached
  projections and call results, which the code does let go stale (see the deviations).
* `RiskJobs_proofs`: `TypeCorrect`, `OneRunner`, `EndedStays`, `QueuedHasStarter`.
  `SlotInv` says that a runner at work owns its provider's slot and that the slot names its
  job; `RowInv` adds what a runner knows about its row between reading and writing it; the
  last theorem adds who is responsible for each queued job. `EndedStays` (a job that ended
  is never revived, `EndIsFinal`) and `QueuedHasStarter` assume `MaxFaults = 0`: with a
  failing call both are false of the code.
* `InvokeRouting_proofs`: `TypeCorrect`, `CallsAreSentOnce`, `CallsPayOnce`, `QuotasHold`,
  `LeasesHold`. `CallerOK` says what a call owes at each place: a deferred call has paid
  nobody until it holds `callMu`, any other one has settled with its source before it is
  authorised, and only behind `Lock` is a lock held. `OneLease` (one call at a time has the
  `callMu` of a registered session) is what `FindLost` needs to break no lease but its own.
  Every step is one of: one caller changes (`OneCaller`), a session goes (`SessionGoes`),
  the sources' records change (`Recorded`).
* `Recording_proofs`: `TypeCorrect`, `ClearedStayGone`, `StoppedIsDrained`,
  `ImplementsCallLog`. `InOnePlace` (a record is in one stage of its way at a time) is what
  makes every step a step of `CallLog`; `CutOff` orders the times of a deletion and says that
  a batch whose writer holds the lock has nothing older than the cut-off it looked at; `Drains`
  that what was queued before the worker was told to stop, and taken, never comes back. `ImplementsCallLog` is `Spec => Log!Spec`: initial states map to initial
  states (`InitSimulation`) and every step to a step or a stutter (`StepSimulation`).
* `AdminServices_proofs`
  * `SessionIsTyped`, `SessionLeaksNothing`. `NothingLeaks` speaks of quiet states only, so
    the invariant says who is responsible in the others: a connection that is open is the
    session's own, is being closed by `Close`, or its dial has a receiver that has not ended
    (`Owned`); a dial has at most one (`OneReceiver`); and the session's connection is one
    whose dial has succeeded and that nobody has cancelled, and none once it is closed
    (`OneConnection`).
  * `RefusalsListed`, with the hypothesis that powers of two are numbers, which is arithmetic
    the provers do not know. `RefusalsAreListed` is not inductive: a request about to write a
    row is only worth something if its block lasts as long as the key, which another request
    may have written (`Coming`). It holds because each request appends the row of its own
    key, so that the longest of them is always listed or coming; `RestartStep` needs that
    `RestoreActiveBlocks` writes back the end of a row that is listed.
  * `ConfigHolds` (`AdminKeepsAccess`, an invariant and an action property). `ConfigInv` says
    what start-up has in memory before the process is up, and that whatever a handler is about
    to save, or would restore if that fails, has an administrator and a secret (`Handling`):
    a rollback writes an old document over a newer one, and keeps both only because no
    document a handler ever held lacks them.
  * `ImportsRestore` (`ImportRestores`, an action property). `ExchangeInv` gives the shapes of
    the live tables and of those an export has read so far, the relations of some rows still
    missing (`Exported`): identifiers are finite many, 0 is nobody's, and a scope or access
    "all" names no upstream, even if it became so between two queries. The rest is about one step:
    the identifiers of an import are new and different (`FreshIs`), so that renaming the
    rows with them loses no name (`NamesKept`) and each rule, key and rating reaches by name
    what it reached in the file (`ScopesKept`, `AccessKept`, `RatingsKept`).
  * `AuditWrittenOnce` (`WrittenOnce`, what `AuditIsComplete` says of the table). `AuditInv`:
    an event is in one place at a time, on its way to the queue, in it, with the worker or in
    the table (`OnePlace`); what was accepted is in one of them, failed or expired
    (`Traced`); and a worker that drains has left nothing in the queue that counts as
    accepted (`Drained`): what is submitted after the stop may be lost, and is not promised.
  * `AuditShowsAll` (`AuditIsComplete`): beside that, the pages of the list, of one row or of
    two, show every row once and the newest first. `NewestFirst` counts: of n rows every one
    has fewer than n newer ones, no two have the same number, so each number below n is
    somebody's; `PlacesOfPages` maps page and line to that number and back.
* `AdminTools_proofs`
  * `RatingsUsedAfterDecision`, `ListsAgreeWithCalls`. `RiskInv` says that a row, and each
    copy a reconciliation or a rater still holds of one, is used only with a description a
    decision was made about or one that overtook the question to the provider (`Backed`,
    `HasRead`, `RatedTool`), and that no row disappears under them. That the second case is
    the only exception is what has to be proved of the two writers that hold no lock.
    The lists and the authorisation read the level of the row, so that they agree in every
    state with levels (`ReadersAgree`); the proof is that the deterministic level and the
    effective level are levels.
  * `ReferencesStand`. `LibraryInv`: whoever holds `scriptRefMu` still finds what it checked
    (`Checked`: a reference about to be bound is published, a script about to be deleted is
    bound by nobody), an upstream is bound to what is published unless an import left it
    otherwise (`Bound`), a published version has its file and its hash (`Directories`), and what
    has run is what the reference said (`Allowed`).
  * `ConnectorFollows`. `ConnectorInv`: a loop leaves only after its cancellation, and one
    that lives on is cancelled by the next `Stop` or the one under way (`Leaving`,
    `Stoppable`), whatever overlaps; and, as long as no two requests have overlapped, what
    connector and loop are at each place of the one caller (`UpdateAt`, `AppAt`), the mode
    being no mode until the first update.
  * `JobsAccount` (`JobAccountsForTools`). The counters of a row, and those a worker still
    carries, are numbers; what they count is in a ledger the model does not have: who took a
    listed tool, what came of it, and whether the row counts it yet. `JobInv` says that as
    long as a job goes on such a ledger exists with which the books balance (`Books`): what a
    worker holds of its parts is what it took and has not settled (`LeftWith`, `Todo`), its
    outcome is the size of what it has settled and not delivered, the row's counters are the
    size of the rest (`Tallies`), and what the ledger calls good is stored. A batch that is
    halved holds the same tools (`PartIsHalved`), an answer that is accepted the tools of its
    request (`AnswerTaken`), and a job whose workers have all left has nothing open
    (`BooksClosed`). The assumptions are that a job lists a tool once and that batches and the
    pool are not empty.
* `ToolServices_proofs`
  * `WindowsHold` (`WindowsCountAdmitted`). The invariant types counters and the limits a call
    has read, and counts (`CounterOK`): a slot's counter is at most the number admitted, and, asked
    for under one length only, is that number and lives to the window's end, because its first
    call gives it the time to (`InItsWindow`). `ReserveCounts`
    is the script: it adds to every window of a key or to none, and only below the limit it
    was given. Of a slot asked under two lengths only the first part is true (`Mixed`).
  * `OrderIsKept`. `CatalogInv` says that only the holder of `scriptRefMu` creates, and that
    the order it has read lies behind every row nobody has moved (`Reading`). That the next
    order is behind all of them needs the largest member of a finite set (`LargestOf`), whose
    proof goes over a counting of the set.
  * `ServersReadBack` (`ServersRoundTrip`). `RoundTripInv` adds that a row has passed
    `validateConfig` and that its tags are normalised (`RowOK`), which every write has to keep:
    between the check of an item and its insertion the request holds only the item
    (`FirstIsValid`). Then the export is undone: the listing is made of rows (`ListedAreRows`),
    a name with its suffix is trimmed (`ExportNamesAreTrimmed`), the transport is inferred
    again (`TransportIsInferred`), normalising tags twice is normalising them once
    (`TagsAreKept`), and of the checks the same fail as those of the parameters a file carries
    (`ReadBackIsChecked`). It assumes that a form or a file describes a configuration with
    all its fields, which decoding gives it.
  * `PackagesOneAtATime` (`OneOperationAtATime`, what `RuntimeIsAsAnswered` says of the package
    directories). `DepInv`: whoever is past `Lock` has the mutex and the number given last, a
    first process runs only for the holder that waits for it, no second one is started, and
    progress is shown only while that operation is at work, its summary being the latest.
  * `LaunchesObeyPolicy` (`ProcessesObeyPolicy`). `LaunchOK` is what `Connect` has settled of a
    child before it starts it, by the policy it has read itself: no shell, and in strict mode a
    file below a trusted root, an allowed name, a listed package among the arguments
    (`TargetIsAnArgument`, along the scans of `launcher_args.go`). The environment is the rest
    (`EnvironmentIsSafe`): whatever an upstream declares, no secret comes through and what the
    gateway prepends stays on each search path, the modules of the runtime volume where there
    is one (`HasRuntimeDir`, which the run has TRUE and the theorem leaves open).
  * `VisibilityIsDecided` (`RulesDecideVisibility`). `RulesInv` follows one build: what it has
    read of an upstream's filters has every one in effect all the time and none that never was
    (`BundleOK`), whichever query read it. Then a tool hidden all along is filtered from its
    bundle, one that nothing hides stays at its position (`ThroughIs`, `PipelineIs`), and the
    source a call takes is a compatible candidate, because among finitely many places there is
    a k-th one (`NthIsAPlace`, from `RanksAreTaken` for any strict total order).
  * `PagesAreWhole` (`PagesHaveNoHoles`). `LogInv` says of a page and of the one request it
    may have under way what they miss (`Follows`: nothing of the level that the store still has
    between the entry the request named and the last one of the answer), and that numbers
    tell entries of the running process (`Known`), which a restart ends together with
    `undisturbed`. The limits cut at the right end: the newest entries of a load, the oldest of
    a poll (`NewestIs`, `OldestIs`), so that the merged list has no gap (`MergeFollows`).
  * `PagesAreComplete` (`PagesShowEveryTool`). `Progress`: while the list stands still, what a
    client has seen is the listing up to its cursor, and a next page continues it
    (`PageContinues`), the limit being positive whatever the client and the administrator
    ask for. That the listing of an upstream is no shorter than the overview announced, and as
    long if no other upstream is called the same but for case (`Unlike`), is a count of places.
  * `OperationsAreReached` (`ToolsReachTheirOperation`). The names are a function defined along
    the places of the operations: `NamesAreGiven` shows that it exists, as there would be a
    smallest place it cannot reach, and `NamesDiffer` that no two are equal, as a number that is
    not taken is always found (`UniqueIsFree`). `NamesLead` takes a name back to its operation,
    `CallStep` a declared parameter through the merge into the request.

What is stated over lists and trees is proved without an induction theorem: of a counterexample
there is a smallest one, since natural numbers are well-founded, and it is refuted.

Only model-checked, and why:

* liveness (`KeepsProbing`, `Converges`, `JobsEnd`, and the half of `EveryRecordDecided` that
  is fairness) is out of the prover's reach;
* `ToolSync`: its safety property is the violated `NoStaleHotData`, its other one liveness;
* `QueriesCountEveryCall`, `PollsContinueThePage`: sums, filtered and sorted lists and
  flattened batches (`SelectSeq`, `SetToSortSeq`, folds), whose laws need induction over data;
* `BrowserOffersWhatItOpens`: about the resolution of links, a recursion, more than about
  steps;
* `PreflightIsRecent`, the second half of `RuntimeIsAsAnswered`: it is about
  times of two caches and needs that no tool comes from packages of two kinds, which is a fact
  of the run and not of the code (see the deviations).

## Known deviations

Runs with expected violations, see `findings`: `conn_zombie`, `sync_stale`, `jobs_missed`.
Others the models show or leave out deliberately, and no run states:

Connections and tools

* Two overlapping operations start a second loop: `stopLoop` (`manager/lifecycle.go:409`)
  returns at once if another operation has already cleared `running` and still waits for
  the loop. `Reconnect` after a failed restore serves a disabled upstream
  (`manager/manager.go:411`).
* `BuildToolDiscoveries` (`aggregation/aggregation.go:491-501`) attaches a projection to an
  entry newer than the data it was computed from, so that lists and searches of the smart mode
  may miss a write until the entry expires; `InvokeTool` (`:746`) stores a result after the
  results were cleared, which the comment at `:382-386` wants cleared for good; `:1340` may
  publish older configurations after newer ones. `ToolSetsSeeEarlierWrites` therefore speaks
  of tool sets only.
* `McpEndpoints`: `list_tools` finds an upstream by `strings.EqualFold`
  (`mcpapi/smartmode.go:562`), the overview counts by exact name (`:537-549`): of upstreams
  called "Hub" and "hub" each announces its own tools and shows those of both.
* A `Replace` under way during `Delete` leaves a Redis key without TTL
  (`cache/toolcache.go:130`).
* `callUpstream` (`aggregation/upstream_invoker.go:158`) fails at once in the moment
  between the loss of a session and the manager's notice of it; a session closed before
  `callMu` is taken is not `broken`, so such a call reserves quota and is refused by the
  session.
* `Session`: `TerminateProcessTree` of a timeout that comes before the process has started
  does nothing, and grandchildren of a killed child may survive.
* `OpenAPI`: parameters of one name in two locations share one argument; a placeholder of
  the path without declared parameter makes a tool that can never be called.
* `UpstreamCatalog`: an update writes the form's sort order, which may be stale, so that
  orders repeat; the exported server file loses an upstream when a real name equals a
  generated "-n" name, and drops limits, order, security profile, references to scripts and
  directories and an OpenAPI service's parameters. `template.BuildUpstream` has no caller.

Ratings and jobs

* If `ListQueued` fails when a slot is released, the follow-up waits for a restart
  (`risk/service.go:305`); if `SetRunning` fails, a runner with a stale list may overwrite a
  job another one has finished (`:329`).
* The stored `effective_level` can lose a concurrent override (the comment at
  `store/repo_tool_risk.go:180-181` is about this); the status `Reconcile` writes loses a
  concurrent override or rating; `ApplyAIResult` (`:168-199`) does not
  compare the fingerprint it rated with that of the row, so that the answer about an old
  description is stored on the new one, as "rated", and decides on its calls, although a
  change is to make the record stale (`docs/ai-tool-risk-governance.md:39`); clearing
  the override of a stale row gives "rated" with the old level; an unforced override stays
  below a floor that rose later.
* `ApplyAIResult` may store a rating and then be counted as failed, when its last read
  fails; a failed read of the job's row ends the loop with the row "running" until a
  restart; outcomes of batches that end after a cancellation are not counted.
  `AssessPending` has no caller.

Records

* `Recording`: `app.Run` cancels the workers' context before it stops the HTTP server
  (`app/run.go:66-67`), so workers stop before requests in flight have ended; a flush in
  progress then uses the cancelled context and its records are lost, of statistics and
  audit alike. `dropBefore` is not stored. A popped batch is lost if its insert fails.
* `CallStats`: the time of a call is its start (`aggregation/aggregation.go:1110`), so a
  record flushed later than a newer one is never shown by polling, and a burst larger than a
  page leaves a gap; the last error of the health board is the oldest of its window
  (`stats/query.go:267-286`); `last_error` can be older than `last_failed_at`; queries count
  whole UTC days where comments say a closed interval; list filters look at the newest
  5 000 only.
* `SystemLog`: pages whose load and polls overlapped, whose change of level failed, or that
  outlive a restart may have holes; an answer to a poll of the old level is merged into the
  new list.

Access and configuration

* `SecurityGuard`: if `EXPIRE` fails after `INCR` (`security/redis.go:19`) the counter's key
  stays, and as its name holds the window it is only garbage; a release leaves the failure
  counter; releasing an old row deletes the key of a later block, which stays listed and is
  not enforced; concurrent failures both block and escalate; `RestoreActiveBlocks` writes
  newest first, so that the oldest end wins; a block whose row could not be written cannot
  be released.
* `ApiAccess`: the name of a rate counter holds the start of the window and not its length
  (`apikey/ratelimit.go:124`), and the TTL is set by its first call (`:66-70`): when an
  administrator changes the length (`httpapi/apikey.go:523-526`) and two windows begin
  together, the new one finds the count of the old, or its counter vanishes before it ends and
  it admits the limit again. The update of the limits (`httpapi/apikey.go:509`) reads the row and writes
  every column back: a disable, or a change of profile or access mode, served in between is
  undone (`requirements.md:224` promises that a disabled key is refused). Concurrent
  creations exceed the limit of filters by one each. A Redis failure lets calls pass, and such
  calls count nowhere. An
  address mapped into IPv6 never matches the list, and deleting its last entry opens the key
  to all.
* `ConfigFile`: two saves at once can leave file and memory different; a change of settings
  and one of the password can lose each other; two first registrations both succeed
  (`requirements.md:54`); a crash between the saved reset and the removal of its marker
  resets again; sessions survive a change of password.
* `XiaoZhi`: start-up gives the connector endpoint and switch but not the mode
  (`app/build.go:235-244`, `xiaozhi/connector.go:201-208`), and without a mode
  `mcpapi/service.go:93-101` serves the smart one: a saved mode "full" takes effect only with
  the first `ApplySettings` after each start. With overlapping `ApplySettings` the old loop's `markStopped` stops the new
  one and `Stop` may wait for the new loop; the loop reads endpoint and mode without the
  lock; an `ApplySettings` in flight after shutdown's `Stop` can leave a loop.
* `Backup`: the tables are read one by one, and a torn export may be refused by the import;
  a rule whose upstreams have all been deleted (the cascade of `store/store.go:245`) makes
  every later export one that the import refuses (`backup/validate_business.go:156`;
  `requirements.md:384`). The model excludes such files from what it imports as the
  validation does.

Launches

* `Scripts`: the import of a backup writes upstreams without validating what they refer to
  (`backup/store_adapter.go:176`): after export, deletion of upstream and script, and import a
  reference names a version that is gone, and its launches fail. A deletion interrupted between status and move leaves a directory that counts
  against the limit and cannot be deleted again; a version left by a crash is skipped and
  never activated by itself; a launch that has resolved its reference may run after it was
  re-pointed.
* `LaunchPolicy`: strict mode resolves `npx` and `python3` through links, and
  `session_stdio.go:113-117` validates the resolved base name against the allow list, so
  strict launches of them are refused where these are links, although `docs/runtime.md:92`
  says that strict mode allows npx and uvx. If the global and the strict list share no
  command, their empty intersection (`security_profile.go:448-467`) means no list at all
  (`command.go:77`) and only the shells stay refused, which is why the property asks for an
  allowed name only where there is one. A link changed between the check and the start
  is outside the property. A running process keeps the policy it started with.
* `RuntimeDeps`: after a deadline SIGTERM goes to the group and SIGKILL to the leader only,
  so that orphans may run beside the next operation, although the comment speaks of the
  whole tree; prefixes read before an installation may be cached after its invalidation, for
  at most five seconds (`runtime/layout.go:133`). A preflight reads the prefixes twice, for the
  key (`runtime/requirements.go:542`) and for the lookup (`:401`): if another preflight, the
  polled summary (`runtime/doctor.go:296`), a launch or a package operation stores older ones in
  between, their answer goes under the key of the newer directories and is served for the
  fifteen seconds of `preflightCacheTTL`. `PreflightIsRecent` excepts those keys (`doubtful`).
* `FileBrowser`: an entry that links from one root into another is shown as one that can be
  entered, and refused when it is (`classifyBrowseEntry` asks for any root,
  `ResolveExistingPathWithinRoots` for the same one). Below a root that is itself a link no
  entry and no shortcut can be opened, and a project directory chosen there cannot be
  inspected again; nothing below a root "/" can be entered; a root that is a file gives a
  shortcut outside of the roots. None of them shows more than the roots hold.

## Not modelled

`PROJECT.json` gives what is left out of each component. Left out for good: pure I/O and
formatting (the remaining HTTP handlers, prompts, templates, static files), the wrapping of
commands in operating-system sandboxes, cryptography (tokens, hashes), the scores of the
search, SQL itself and migrations. Abstracted inside the models: matching of wildcards and
addresses, resolution of JSON schema references, limits on sizes and counts that only
refuse a request, filters of lists, names that decorate records. `ToolRules` takes the
cached tool lists as fixed (their changes are `ToolSync`'s and `ToolSetCache`'s); `Backup`
leaves out tool policies and the keys' filters; `McpEndpoints` leaves out `get_tool`; `UpstreamCatalog` and `RiskAssessment` leave
out the rows an import of a backup writes, the one another writer of the order; `CallStats` has
days of one zone and no limit on the records health looks at; `FileBrowser` does not trim what is typed nor limit the number of roots.

## Plan

1. `ToolSync`: what remains true of Redis and PostgreSQL between failures, as an invariant
   to be proved.
2. Composition of `ToolSync`'s observers with `RiskAssessment`, and of `Session` with
   `InvokeRouting`, whose `link` it should implement.
3. Liveness of the components that wait: `Session` (every `Connect` returns), `RuntimeDeps`
   (the next operation gets the mutex), `XiaoZhi` (`Stop` returns).
