------------------------------ MODULE ToolSync ------------------------------
(***************************************************************************)
(* How the tool list of one upstream gets from the upstream to those who    *)
(* read it: the sync service (internal/sync) pulls it on a cron tick, on a  *)
(* cache miss or when an administrator asks, and replaces the tool cache    *)
(* (internal/cache): the PostgreSQL copy first, then the Redis copy, then   *)
(* the aggregate built from it is invalidated.  Readers take the Redis copy *)
(* and, on a miss, the PostgreSQL copy, which they write back to Redis.     *)
(*                                                                          *)
(* Tool lists are told apart by their generation at the upstream.  Every    *)
(* call to Redis, PostgreSQL or the upstream is a step, may fail, and may   *)
(* be the last step before the process crashes.                             *)
(*                                                                          *)
(* Definitions X_Y next to X are mutations of X that a check substitutes    *)
(* to see a property fail; nothing else uses them.                          *)
(***************************************************************************)
EXTENDS Naturals, FiniteSets

CONSTANTS
    Workers,      \* goroutines: HTTP handlers and tool set builds
    Cron,         \* the goroutine of the cron job
    Ops,          \* what workers do
    MaxChanges,   \* bound: changes of the upstream's list
    MaxCrashes,   \* bound: crashes
    RedisFails,   \* commands to Redis may fail
    Warm,         \* there is a copy already
    None

ASSUME SyncAssumption ==
    /\ Cron \notin Workers
    /\ Ops \subseteq {"get", "ensure", "refresh", "delete"}
    /\ MaxChanges \in Nat /\ MaxCrashes \in Nat /\ RedisFails \in BOOLEAN
    /\ Warm \in BOOLEAN
    /\ None \notin Nat

Goroutines == Workers \cup {Cron}

VARIABLES
    catalog,    \* the generation of the upstream's list
    row,        \* the upstream is in upstream_mcp
    pg,         \* tool_cache
    redis,      \* mpg:tools:{upstreamID}
    inFlight,   \* PeriodicSyncer.inFlight has the upstream
    aggregate,  \* what the cached tool set was built from
    g,          \* what each goroutine is doing
    crashes     \* history

vars == <<catalog, row, pg, redis, inFlight, aggregate, g, crashes>>

(* A goroutine that does nothing.  list: what it holds.  current:           *)
(* toolSetCacheVersion is still the one it had when it began.               *)
idle == [pc |-> "idle", op |-> "none", list |-> None, current |-> TRUE]

Init ==
    /\ catalog = 1 /\ row = TRUE
    /\ pg = (IF Warm THEN 1 ELSE None) /\ redis = pg /\ aggregate = None
    /\ inFlight = FALSE
    /\ g = [w \in Goroutines |-> idle]
    /\ crashes = 0

At(w, pc) == g[w].pc = pc
Goto(w, pc) == g' = [g EXCEPT ![w].pc = pc]
Return(w) == g' = [g EXCEPT ![w] = idle]

(* What a write of a value to Redis, or its deletion, leaves there.         *)
Outcomes(value) == {value} \cup (IF RedisFails THEN {redis} ELSE {})
Outside == <<catalog, row, crashes>>

----------------------------------------------------------------------------
(* Operations begin.  A get is a build of the tool set, under the version   *)
(* it read first; the administrator's list page ensures a copy is there.    *)

First(op) == CASE op \in {"get", "ensure"} -> "getRedis"
               [] op = "refresh" -> "pull"
               [] op = "sync" -> "acquire"
               [] op = "delete" -> "delRow"

Begin(w, op) ==
    /\ At(w, "idle")
    /\ op \in {"get", "delete"} => row
    /\ g' = [g EXCEPT ![w] = [idle EXCEPT !.pc = First(op), !.op = op]]
    /\ UNCHANGED <<Outside, pg, redis, inFlight, aggregate>>

(* SyncEnabledAutoSync lists the enabled upstreams first.                   *)
Tick == row /\ Begin(Cron, "sync")

----------------------------------------------------------------------------
(* ToolCache.Get                                                            *)

(* A miss, a corrupt value and an error all lead to PostgreSQL.             *)
GetRedis(w) ==
    /\ At(w, "getRedis")
    /\ \/ /\ redis # None
          /\ g' = [g EXCEPT ![w].pc = "gotten", ![w].list = redis]
       \/ (redis = None \/ RedisFails) /\ Goto(w, "getPG")
    /\ UNCHANGED <<Outside, pg, redis, inFlight, aggregate>>

(* No copy, or an error: not found.                                         *)
GetPG(w) ==
    /\ At(w, "getPG")
    /\ \/ /\ pg # None
          /\ g' = [g EXCEPT ![w].pc = "backfill", ![w].list = pg]
       \/ g' = [g EXCEPT ![w].pc = "gotten", ![w].list = None]
    /\ UNCHANGED <<Outside, pg, redis, inFlight, aggregate>>

Backfill(w) ==
    /\ At(w, "backfill")
    /\ redis' \in Outcomes(g[w].list)
    /\ Goto(w, "gotten")
    /\ UNCHANGED <<Outside, pg, inFlight, aggregate>>

(* A build caches its tool set unless the version moved on, ...             *)
InsertAggregate(w) ==
    /\ At(w, "gotten") /\ g[w].op = "get"
    /\ aggregate' = IF g[w].current THEN g[w].list ELSE aggregate
    /\ Return(w)
    /\ UNCHANGED <<Outside, pg, redis, inFlight>>

(* ... EnsureCached syncs when nothing was found.                           *)
EnsureCached(w) ==
    /\ At(w, "gotten") /\ g[w].op = "ensure"
    /\ IF g[w].list = None THEN Goto(w, "acquire") ELSE Return(w)
    /\ UNCHANGED <<Outside, pg, redis, inFlight, aggregate>>

----------------------------------------------------------------------------
(* SyncOne and Refresh                                                      *)

Holds(w) == g[w].op \in {"sync", "ensure"}
(* The end of a pull: SyncOne still has to release the upstream.            *)
EndPull(w) == IF Holds(w) THEN Goto(w, "release") ELSE Return(w)

(* LoadOrStore: the second one skips.                                       *)
Acquire(w) ==
    /\ At(w, "acquire")
    /\ IF inFlight THEN Return(w) ELSE Goto(w, "pull")
    /\ inFlight' = TRUE
    /\ UNCHANGED <<Outside, pg, redis, aggregate>>

(* FetchTools answers or fails, at the latest when its context times out.   *)
PullSucceeds(w) ==
    /\ At(w, "pull")
    /\ g' = [g EXCEPT ![w].pc = "replacePG", ![w].list = catalog]
    /\ UNCHANGED <<Outside, pg, redis, inFlight, aggregate>>

(* Mutation: a failed pull returns without releasing the upstream.          *)
PullFails_KeepsFlight(w) ==
    /\ At(w, "pull")
    /\ Return(w)
    /\ UNCHANGED <<Outside, pg, redis, inFlight, aggregate>>

PullFails(w) ==
    /\ At(w, "pull")
    /\ EndPull(w)
    /\ UNCHANGED <<Outside, pg, redis, inFlight, aggregate>>

(* ToolCache.Replace.  The foreign key refuses a deleted upstream.          *)
ReplacePG(w) ==
    /\ At(w, "replacePG")
    /\ \/ /\ row
          /\ pg' = g[w].list
          /\ Goto(w, "setRedis")
       \/ EndPull(w) /\ UNCHANGED pg
    /\ UNCHANGED <<Outside, redis, inFlight, aggregate>>

SetRedis(w) ==
    /\ At(w, "setRedis")
    /\ \/ /\ redis' = g[w].list
          /\ Goto(w, "invalidate")
       \/ RedisFails /\ Goto(w, "delStale") /\ UNCHANGED redis
    /\ UNCHANGED <<Outside, pg, inFlight, aggregate>>

(* The old value goes, if Redis lets it.                                    *)
DelStale(w) ==
    /\ At(w, "delStale")
    /\ redis' \in Outcomes(None)
    /\ Goto(w, "invalidate")
    /\ UNCHANGED <<Outside, pg, inFlight, aggregate>>

(* Where a goroutine goes when its Replace or Delete is through.            *)
AfterInvalidate(w) == IF Holds(w) THEN [g[w] EXCEPT !.pc = "release"] ELSE idle

(* invalidatingCache, after a Replace or a Delete that succeeded: every     *)
(* build under way is now one of an older version.                          *)
Invalidate(w) ==
    /\ At(w, "invalidate")
    /\ aggregate' = None
    /\ g' = [v \in Goroutines |->
               IF v = w THEN AfterInvalidate(w) ELSE [g[v] EXCEPT !.current = FALSE]]
    /\ UNCHANGED <<Outside, pg, redis, inFlight>>

Release(w) ==
    /\ At(w, "release")
    /\ inFlight' = FALSE
    /\ Return(w)
    /\ UNCHANGED <<Outside, pg, redis, aggregate>>

----------------------------------------------------------------------------
(* Manager.Delete: the row, with its copy by cascade; then the cache.       *)

DeleteRow(w) ==
    /\ At(w, "delRow")
    /\ IF row THEN /\ row' = FALSE /\ pg' = None
                   /\ Goto(w, "delRedis")
              ELSE Return(w) /\ UNCHANGED <<row, pg>>
    /\ UNCHANGED <<catalog, crashes, redis, inFlight, aggregate>>

DeleteRedis(w) ==
    /\ At(w, "delRedis")
    /\ redis' \in Outcomes(None)
    /\ Goto(w, "delPG")
    /\ UNCHANGED <<Outside, pg, inFlight, aggregate>>

(* Manager.Delete invalidates the aggregate even when this fails.           *)
DeletePG(w) ==
    /\ At(w, "delPG")
    /\ pg' \in {None, pg}
    /\ Goto(w, "invalidate")
    /\ UNCHANGED <<Outside, redis, inFlight, aggregate>>

----------------------------------------------------------------------------
(* The environment                                                          *)

Change ==
    /\ catalog <= MaxChanges
    /\ catalog' = catalog + 1
    /\ UNCHANGED <<row, crashes, pg, redis, inFlight, aggregate, g>>

Crash ==
    /\ crashes < MaxCrashes
    /\ crashes' = crashes + 1
    /\ inFlight' = FALSE /\ aggregate' = None
    /\ g' = [w \in Goroutines |-> idle]
    /\ UNCHANGED <<catalog, row, pg, redis>>

Step(w) ==
    \/ GetRedis(w) \/ GetPG(w) \/ Backfill(w) \/ InsertAggregate(w)
    \/ EnsureCached(w) \/ Acquire(w) \/ PullSucceeds(w) \/ PullFails(w)
    \/ ReplacePG(w) \/ SetRedis(w) \/ DelStale(w) \/ Invalidate(w) \/ Release(w)
    \/ DeleteRow(w) \/ DeleteRedis(w) \/ DeletePG(w)

Next ==
    \/ Tick
    \/ \E w \in Workers, op \in Ops : Begin(w, op)
    \/ \E w \in Goroutines : Step(w)
    \/ Change \/ Crash

Spec == Init /\ [][Next]_vars

(* The cron job runs again and again (robfig/cron), goroutines go on, and   *)
(* neither the upstream nor a store fails every time.                       *)
Fairness ==
    /\ WF_vars(Tick)
    /\ \A w \in Goroutines :
         /\ WF_vars(Step(w))
         /\ SF_vars(PullSucceeds(w))
         /\ SF_vars(ReplacePG(w) /\ At(w, "setRedis")')
         /\ SF_vars(SetRedis(w) /\ At(w, "invalidate")')

FairSpec == Spec /\ Fairness

----------------------------------------------------------------------------
(* Properties                                                               *)

Quiet == \A w \in Goroutines : At(w, "idle")

(* Whatever races, failures and crashes did, once the upstream's list stops *)
(* changing both copies end up with it and stay so (unless it is deleted).  *)
Converges == <>[](row => pg = catalog /\ redis \in {None, catalog})

(* Replace never leaves stale hot data behind, as the comment of            *)
(* ToolCache.Replace has it: at rest Redis has PostgreSQL's list or none.   *)
NoStaleHotData == Quiet => redis \in {None, pg}

============================================================================
