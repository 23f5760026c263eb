---------------------------- MODULE ToolSetCache ----------------------------
(***************************************************************************)
(* The caches of the aggregation service (internal/aggregation): the tool   *)
(* set each API key sees, with its lazily added discovery projection and    *)
(* search index; the upstream configurations routing reads; and the results *)
(* of calls.                                                                *)
(*                                                                          *)
(* What the caches are computed from is stored elsewhere and told apart     *)
(* here only by a generation per kind of data, in the order a build reads   *)
(* them: the upstream list; tool caches, aliases and MCP filters; the API   *)
(* key's filters.  An administrative write bumps a generation and then, in  *)
(* a later step, calls InvalidateToolSetCache.                              *)
(*                                                                          *)
(* Requests run concurrently: every critical section of toolSetCacheMu,     *)
(* upstreamConfigsMu or resultCacheMu and every repository read is a step.  *)
(* Time: an entry's lifetime may end at any step; two readings of the clock *)
(* differ.  One tool and one argument per key stand for each.               *)
(*                                                                          *)
(* Definitions X_Y next to X are mutations of X that a check substitutes    *)
(* to see a property fail; nothing else uses them.                          *)
(***************************************************************************)
EXTENDS Naturals, FiniteSets

CONSTANTS
    Requests,     \* goroutines that serve MCP requests
    Writers,      \* goroutines that run administrative writes
    Keys,         \* API keys (the scopes of the cache)
    Ops,          \* the operations requests ask for
    MaxEntries,   \* maxToolSetCacheEntries
    MaxWrites,    \* bound: writes in a behaviour
    None

ASSUME CacheAssumption ==
    /\ MaxEntries \in Nat \ {0}
    /\ MaxWrites \in Nat
    /\ Ops \subseteq {"set", "discoveries", "search", "invoke"}

Kinds == {"upstreams", "rules", "keyFilters"}
Generation == Nat
(* What a build has read: the generation of each kind of data.              *)
Reads == [Kinds -> Generation]
nothingRead == [k \in Kinds |-> 0]
AtLeast(s, t) == \A k \in Kinds : t[k] <= s[k]

VARIABLES
    db,       \* the generation of each kind of data now stored
    entries,  \* toolSetCache: the scopes that have an entry, and the entries
    version,  \* toolSetCacheVersion
    configs,  \* the generation of upstreamConfigs
    results,  \* resultCache: what the cached result was routed by, per key
    req,      \* the request each goroutine serves
    writer,   \* where each administrative write is
    cleared,  \* history: what was stored when the tool sets were last cleared
    purged    \* history: what was stored when the results were last cleared

vars == <<db, entries, version, configs, results, req, writer, cleared, purged>>

(* A discovery projection: the tool set and the configurations (tags) it    *)
(* was computed from.  Equal exactly when computed from the same data.      *)
Discoveries == [set : Reads, tags : Generation]

(* cachedToolSet.  valid: toolSetCacheEntryValid now.                       *)
Entry == [set : Reads, valid : BOOLEAN,
          disc : Discoveries \cup {None}, index : Discoveries \cup {None}]

PC == {"idle", "look", "purge", "list", "rules", "publish", "keyFilters",
       "insert", "built", "disc", "discAgain", "compute", "discPut",
       "search", "searchAgain", "indexPut", "result", "select", "call",
       "done"}

(* valid: toolSetCacheEntryValid(toolSetCache[key], now) for the time now   *)
(* that the request took last.  floor: cleared when the request began.      *)
Request ==
    [pc : PC, op : Ops \cup {"none"}, key : Keys \cup {None}, ver : Nat, set : Reads,
     disc : Discoveries \cup {None}, index : Discoveries \cup {None},
     valid : BOOLEAN, floor : Reads]
idle ==
    [pc |-> "idle", op |-> "none", key |-> None, ver |-> 0,
     set |-> nothingRead, disc |-> None, index |-> None, valid |-> FALSE,
     floor |-> nothingRead]

TypeOK ==
    /\ db \in Reads
    /\ entries \in [Keys -> Entry \cup {None}]
    /\ version \in Nat
    /\ configs \in Generation
    /\ results \in [Keys -> Reads \cup {None}]
    /\ req \in [Requests -> Request]
    /\ writer \in [Writers -> {"idle", "written", "cleared"}]
    /\ cleared \in Reads
    /\ purged \in Reads

Init ==
    /\ db = nothingRead
    /\ entries = [k \in Keys |-> None]
    /\ version = 0
    /\ configs = 0
    /\ results = [k \in Keys |-> None]
    /\ req = [r \in Requests |-> idle]
    /\ writer = [w \in Writers |-> "idle"]
    /\ cleared = nothingRead
    /\ purged = nothingRead

Has(k) == entries[k] # None
Valid(k) == Has(k) /\ entries[k].valid
(* An entry with a discovery projection, and with a search index as well.   *)
Ready(k) == Valid(k) /\ entries[k].disc # None
Indexed(k) == Ready(k) /\ entries[k].index # None
Present == {k \in Keys : Has(k)}

At(r, pc) == req[r].pc = pc
Goto(r, pc) == req' = [req EXCEPT ![r].pc = pc]
Return(r) == req' = [req EXCEPT ![r] = idle]
InCache == <<entries, version>>
Rest == <<db, writer, cleared, purged>>

----------------------------------------------------------------------------
(* Requests                                                                 *)

(* The first step of an operation.                                          *)
First(op) == CASE op = "search" -> "search"
               [] op = "discoveries" -> "disc"
               [] OTHER -> "look"

Begin(r) ==
    /\ At(r, "idle")
    /\ \E k \in Keys, op \in Ops :
         req' = [req EXCEPT ![r] =
                   [idle EXCEPT !.op = op, !.key = k, !.floor = cleared,
                                !.pc = First(op)]]
    /\ UNCHANGED <<InCache, configs, results, Rest>>

(* buildToolSetWithReverseMap: the entry and the version under one lock.    *)
Look(r) ==
    LET k == req[r].key IN
    /\ At(r, "look")
    /\ \/ /\ Valid(k)
          /\ req' = [req EXCEPT ![r].pc = "built", ![r].set = entries[k].set,
                                ![r].ver = version]
       \/ /\ ~Valid(k)
          /\ req' = [req EXCEPT ![r].pc = IF Has(k) THEN "purge" ELSE "list",
                                ![r].ver = version, ![r].valid = FALSE]
    /\ UNCHANGED <<InCache, configs, results, Rest>>

(* A miss on an expired entry removes it, and takes the version again.      *)
PurgeExpired(r) ==
    LET k == req[r].key IN
    /\ At(r, "purge")
    /\ entries' = IF Has(k) /\ ~req[r].valid
                  THEN [entries EXCEPT ![k] = None] ELSE entries
    /\ req' = [req EXCEPT ![r].pc = "list", ![r].ver = version]
    /\ UNCHANGED <<version, configs, results, Rest>>

(* buildToolSetWithReverseMapFresh.                                         *)
Read(r, k, next) ==
    req' = [req EXCEPT ![r].set[k] = db[k], ![r].pc = next]

ListUpstreams(r) ==
    /\ At(r, "list")
    /\ Read(r, "upstreams", "rules")
    /\ UNCHANGED <<InCache, configs, results, Rest>>

ReadRules(r) ==
    /\ At(r, "rules")
    /\ Read(r, "rules", "publish")
    /\ UNCHANGED <<InCache, configs, results, Rest>>

PublishConfigs(r) ==
    /\ At(r, "publish")
    /\ configs' = req[r].set["upstreams"]
    /\ Goto(r, "keyFilters")
    /\ UNCHANGED <<InCache, results, Rest>>

ReadKeyFilters(r) ==
    /\ At(r, "keyFilters")
    /\ Read(r, "keyFilters", "insert")
    /\ UNCHANGED <<InCache, configs, results, Rest>>

(* Any repository read may fail; the request fails with it.                 *)
ReadFails(r) ==
    /\ req[r].pc \in {"list", "rules", "keyFilters"}
    /\ Return(r)
    /\ UNCHANGED <<InCache, configs, results, Rest>>

(* pruneToolSetCacheLocked: what is left of the cache before an entry for   *)
(* key k goes in.  Which entry is the oldest is left open.                  *)
Pruned(k) ==
    LET valid == {j \in Keys : Valid(j)} IN
    IF k \in valid \/ Cardinality(valid) < MaxEntries THEN {valid}
    ELSE {s \in SUBSET valid : Cardinality(s) = MaxEntries - 1}

(* An entry goes in only if the version is still the one the build started  *)
(* from.  It is newer than the time any other request has taken.            *)
Insert(r) ==
    LET k == req[r].key IN
    /\ At(r, "insert")
    /\ \/ /\ version = req[r].ver
          /\ \E kept \in Pruned(k) :
               entries' = [j \in Keys |->
                   IF j = k
                   THEN [set |-> req[r].set, valid |-> TRUE,
                         disc |-> None, index |-> None]
                   ELSE IF j \in kept THEN entries[j] ELSE None]
          /\ req' = [q \in Requests |->
                       CASE q = r -> [req[q] EXCEPT !.pc = "built"]
                         [] q # r /\ req[q].key = k ->
                              [req[q] EXCEPT !.valid = FALSE]
                         [] OTHER -> req[q]]
       \/ /\ version # req[r].ver
          /\ Goto(r, "built")
          /\ UNCHANGED entries
    /\ UNCHANGED <<version, configs, results, Rest>>

(* What the operation does with the tool set.                               *)
AfterBuild(op) == CASE op = "set" -> "done"
                    [] op = "invoke" -> "result"
                    [] OTHER -> "discAgain"

Built(r) ==
    /\ At(r, "built")
    /\ Goto(r, AfterBuild(req[r].op))
    /\ UNCHANGED <<InCache, configs, results, Rest>>

(* BuildToolDiscoveries: the cached projection, before and after the build. *)
NextAfterDiscoveries(r) ==
    IF req[r].op = "search" THEN "searchAgain" ELSE "done"

CachedDiscoveries(r) ==
    LET k == req[r].key IN
    /\ req[r].pc \in {"disc", "discAgain"}
    /\ \/ /\ Ready(k)
          /\ req' = [req EXCEPT ![r].pc = NextAfterDiscoveries(r),
                                ![r].disc = entries[k].disc]
       \/ /\ ~Ready(k)
          /\ req' = [req EXCEPT
                       ![r].pc = IF @ = "disc" THEN "look" ELSE "compute",
                       ![r].valid = Valid(k)]
    /\ UNCHANGED <<InCache, configs, results, Rest>>

(* buildToolDiscoveries reads the tags from upstreamConfigs.                *)
ComputeDiscoveries(r) ==
    /\ At(r, "compute")
    /\ req' = [req EXCEPT ![r].pc = "discPut",
                          ![r].disc = [set |-> req[r].set, tags |-> configs]]
    /\ UNCHANGED <<InCache, configs, results, Rest>>

(* The projection goes into whatever entry the key has by now.              *)
PutDiscoveries(r) ==
    LET k == req[r].key IN
    /\ At(r, "discPut")
    /\ IF Has(k) /\ req[r].valid
       THEN IF entries[k].disc # None
            THEN /\ req' = [req EXCEPT ![r].pc = NextAfterDiscoveries(r),
                                       ![r].disc = entries[k].disc]
                 /\ UNCHANGED entries
            ELSE /\ entries' = [entries EXCEPT ![k].disc = req[r].disc,
                                               ![k].index = None]
                 /\ Goto(r, NextAfterDiscoveries(r))
       ELSE Goto(r, NextAfterDiscoveries(r)) /\ UNCHANGED entries
    /\ UNCHANGED <<version, configs, results, Rest>>

(* BuildToolSearchSet.                                                      *)
CachedSearch(r) ==
    LET k == req[r].key IN
    /\ req[r].pc \in {"search", "searchAgain"}
    /\ \/ /\ Indexed(k)
          /\ req' = [req EXCEPT ![r].pc = "done", ![r].disc = entries[k].disc,
                                ![r].index = entries[k].index]
       \/ /\ ~Indexed(k)
          /\ req' = [req EXCEPT
                       ![r].pc = IF @ = "search" THEN "disc" ELSE "indexPut",
                       ![r].index = req[r].disc, ![r].valid = Valid(k)]
    /\ UNCHANGED <<InCache, configs, results, Rest>>

(* Mutation: the index is attached to whatever projection is cached.        *)
PutIndex_Unmatched(r) ==
    LET k == req[r].key
        usable == Has(k) /\ req[r].valid /\ entries[k].disc # None
    IN
    /\ At(r, "indexPut")
    /\ entries' = IF usable /\ entries[k].index = None
                  THEN [entries EXCEPT ![k].index = req[r].index] ELSE entries
    /\ Goto(r, "done")
    /\ UNCHANGED <<version, configs, results, Rest>>

(* The index just built from the request's own projection is attached only  *)
(* to that very projection (sameToolSearchDiscoveries).                     *)
PutIndex(r) ==
    LET k == req[r].key
        usable == Has(k) /\ req[r].valid /\ entries[k].disc # None
    IN
    /\ At(r, "indexPut")
    /\ IF usable /\ entries[k].index # None
       THEN /\ req' = [req EXCEPT ![r].pc = "done", ![r].disc = entries[k].disc,
                                  ![r].index = entries[k].index]
            /\ UNCHANGED entries
       ELSE /\ entries' = IF usable /\ entries[k].disc = req[r].disc
                          THEN [entries EXCEPT ![k].index = req[r].index]
                          ELSE entries
            /\ Goto(r, "done")
    /\ UNCHANGED <<version, configs, results, Rest>>

(* InvokeTool.  Whether the tool's policy caches results is left open: it   *)
(* is read anew by every call.                                              *)
CachedResult(r) ==
    /\ At(r, "result")
    /\ \/ /\ results[req[r].key] # None
          /\ Goto(r, "done")
       \/ Goto(r, "select")
    /\ UNCHANGED <<InCache, configs, results, Rest>>

(* The candidate is chosen with the configuration (rate limits) of now;     *)
(* live authorisation may refuse it.                                        *)
SelectCandidate(r) ==
    /\ At(r, "select")
    /\ Goto(r, "call") \/ Return(r)
    /\ UNCHANGED <<InCache, configs, results, Rest>>

(* The call returns; a good result may go into the result cache.            *)
CallReturns(r) ==
    /\ At(r, "call")
    /\ \/ results' = [results EXCEPT ![req[r].key] = req[r].set]
       \/ UNCHANGED results
    /\ Goto(r, "done")
    /\ UNCHANGED <<InCache, configs, Rest>>

Done(r) ==
    /\ At(r, "done")
    /\ Return(r)
    /\ UNCHANGED <<InCache, configs, results, Rest>>

----------------------------------------------------------------------------
(* Time                                                                     *)

(* An entry's lifetime ends.  A request that took the time earlier still    *)
(* finds it valid.                                                          *)
Expire(k) ==
    /\ Valid(k)
    /\ entries' = [entries EXCEPT ![k].valid = FALSE]
    /\ UNCHANGED <<version, configs, results, req, Rest>>

(* A result expires, is evicted, or is removed by ClearToolResultCache with *)
(* a filter.                                                                *)
DropResult(k) ==
    /\ results[k] # None
    /\ results' = [results EXCEPT ![k] = None]
    /\ UNCHANGED <<InCache, configs, req, Rest>>

----------------------------------------------------------------------------
(* Administrative writes                                                    *)

Written == db["upstreams"] + db["rules"] + db["keyFilters"]

Write(w) ==
    /\ writer[w] = "idle"
    /\ Written < MaxWrites
    /\ \E k \in Kinds : db' = [db EXCEPT ![k] = @ + 1]
    /\ writer' = [writer EXCEPT ![w] = "written"]
    /\ UNCHANGED <<InCache, configs, results, req, cleared, purged>>

(* Mutation: the version is forgotten.                                      *)
ClearToolSets_SameVersion(w) ==
    /\ writer[w] = "written"
    /\ entries' = [k \in Keys |-> None]
    /\ cleared' = db
    /\ writer' = [writer EXCEPT ![w] = "cleared"]
    /\ UNCHANGED <<db, version, configs, results, req, purged>>

(* InvalidateToolSetCache: the tool sets under toolSetCacheMu, ...          *)
ClearToolSets(w) ==
    /\ writer[w] = "written"
    /\ entries' = [k \in Keys |-> None]
    /\ version' = version + 1
    /\ cleared' = db
    /\ writer' = [writer EXCEPT ![w] = "cleared"]
    /\ UNCHANGED <<db, configs, results, req, purged>>

(* ... then the results under resultCacheMu; the write returns.             *)
ClearResults(w) ==
    /\ writer[w] = "cleared"
    /\ results' = [k \in Keys |-> None]
    /\ purged' = db
    /\ writer' = [writer EXCEPT ![w] = "idle"]
    /\ UNCHANGED <<db, InCache, configs, req, cleared>>

----------------------------------------------------------------------------

RequestStep(r) ==
    \/ Begin(r) \/ Look(r) \/ PurgeExpired(r) \/ ListUpstreams(r)
    \/ ReadRules(r) \/ PublishConfigs(r) \/ ReadKeyFilters(r) \/ ReadFails(r)
    \/ Insert(r) \/ Built(r) \/ CachedDiscoveries(r) \/ ComputeDiscoveries(r)
    \/ PutDiscoveries(r) \/ CachedSearch(r) \/ PutIndex(r) \/ CachedResult(r)
    \/ SelectCandidate(r) \/ CallReturns(r) \/ Done(r)

Next ==
    \/ \E r \in Requests : RequestStep(r)
    \/ \E k \in Keys : Expire(k) \/ DropResult(k)
    \/ \E w \in Writers : Write(w) \/ ClearToolSets(w) \/ ClearResults(w)

Spec == Init /\ [][Next]_vars

----------------------------------------------------------------------------
(* Properties                                                               *)

(* A cached tool set was computed from data read after the last             *)
(* invalidation: a build that overlapped a write never puts back what the   *)
(* write made obsolete (comment in buildToolSetWithReverseMap).             *)
EntriesAreFresh ==
    \A k \in Keys : Has(k) => AtLeast(entries[k].set, cleared)

(* Where a request holds a tool set, cached or built: it lists the tools of  *)
(* it, routes a call by it and computes its own projection from it.         *)
HoldsToolSet == {"built", "discAgain", "compute", "discPut", "result", "select", "call"}

(* The tool set a request lists, routes its call by or projects takes every *)
(* write into account that was invalidated before the request began,        *)
(* whether the cache gave it or a build did.  This is not claimed of what   *)
(* the caches add to it: a projection put late (PutDiscoveries) and a       *)
(* result stored late (CallReturns) may be older.                           *)
ToolSetsSeeEarlierWrites ==
    \A r \in Requests :
        /\ req[r].pc \in HoldsToolSet => AtLeast(req[r].set, req[r].floor)
        /\ At(r, "discPut") => req[r].disc.set = req[r].set

(* The search index, in the cache and in every answer, was built from the   *)
(* projection it comes with: a hit never points to another generation's     *)
(* documents (comment in BuildToolSearchSet).                               *)
IndexMatchesDiscoveries ==
    /\ \A k \in Keys :
         Has(k) /\ entries[k].index # None => entries[k].index = entries[k].disc
    /\ \A r \in Requests :
         At(r, "done") /\ req[r].op = "search" => req[r].index = req[r].disc

============================================================================
