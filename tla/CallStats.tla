------------------------------ MODULE CallStats ------------------------------
(***************************************************************************)
(* The statistics of tool calls.  A flushed batch is folded into the daily *)
(* rows of PostgreSQL (internal/store/repo_callstat.go) and appended to    *)
(* the recent records of Redis (internal/stats/recent.go); the queries of  *)
(* the console (internal/stats/query.go, internal/httpapi/stats.go) read   *)
(* one or the other, and an open page polls the records newer than its     *)
(* cursor.  How a batch reaches this point, and what a failure loses, is   *)
(* the subject of Recording.  Names of tools, upstreams and keys are       *)
(* numbers, 0 the empty name: a ranking breaks its ties by their order.    *)
(***************************************************************************)
EXTENDS Integers, FiniteSets, SequencesExt

CONSTANTS
  Batches,      \* batches a flush may carry: calls as reported, with their age
  DayLength,    \* instants in a UTC day
  TTL,          \* instants a recent record is kept
  MaxRecent,    \* recent records kept
  PageLimit,    \* records a poll returns
  TopLimit,     \* tools in a ranking
  Retention,    \* days of daily rows kept
  MaxTime,      \* bound: last instant
  MaxFlushes    \* bound: batches flushed

VARIABLES
  now,      \* the clock
  daily,    \* call_stat_daily: key -> aggregated row
  recent,   \* the sorted set of Redis: [id, at]
  views,    \* the values of Redis: id -> the call and the instant it expires
  seq,      \* last id given out
  cursor,   \* [at, id] of the newest record on the open page
  answer,   \* records the last poll returned, newest first
  flushes,
  counted,  \* history: the calls inserted and not deleted by the cleaner
  shown     \* history: the ids returned to the open page

vars == <<now, daily, recent, views, seq, cursor, answer, flushes, counted, shown>>

Day(t) == t \div DayLength
Statuses == {"success", "upstream_error", "failed"}
Failed(c) == c.status # "success"
NoTime == -1        \* a NULL time: instants are natural numbers
Start == [at |-> NoTime, id |-> 0]

Init ==
  /\ now = 0 /\ seq = 0 /\ flushes = 0
  /\ daily = <<>> /\ recent = {} /\ views = <<>>
  /\ cursor = Start /\ answer = <<>> /\ counted = <<>> /\ shown = {}

(***************************************************************************)
(* Daily rows                                                              *)
(***************************************************************************)
\* An unknown status follows the success flag, an unknown mode or source is
\* the default one, a negative latency is none.
Normalized(c, t) ==
  [at |-> t, upstream |-> c.upstream, key |-> c.key, tool |-> c.tool,
   message |-> c.message, latency |-> Max({c.latency, 0}),
   mode |-> IF c.mode \in {"full", "smart"} THEN c.mode ELSE "full",
   source |-> IF c.source \in {"api", "xiaozhi"} THEN c.source ELSE "api",
   status |-> IF c.status \in Statuses THEN c.status
              ELSE IF c.success THEN "success" ELSE "failed"]

KeyOf(c) == [day |-> Day(c.at), source |-> c.source, mode |-> c.mode,
             upstream |-> c.upstream, key |-> c.key, tool |-> c.tool]

Bounds == <<50, 100, 200, 500, 1000, 3000>>
Bucket(latency) == 1 + Cardinality({i \in DOMAIN Bounds : Bounds[i] <= latency})

EmptyRow == [total |-> 0, success |-> 0, upstreamError |-> 0, failed |-> 0, sum |-> 0,
             max |-> 0, failSum |-> 0, buckets |-> [i \in 1..7 |-> 0],
             lastCalled |-> NoTime, lastFailed |-> NoTime, lastError |-> ""]

One(b) == IF b THEN 1 ELSE 0
Later(new, old) == old = NoTime \/ new > old

Accumulate(row, c) ==
  LET newest == Failed(c) /\ Later(c.at, row.lastFailed)
  IN [total         |-> row.total + 1,
      success       |-> row.success + One(~Failed(c)),
      upstreamError |-> row.upstreamError + One(c.status = "upstream_error"),
      failed        |-> row.failed + One(c.status = "failed"),
      sum           |-> row.sum + c.latency,
      max           |-> Max({row.max, c.latency}),
      failSum       |-> row.failSum + One(Failed(c)) * c.latency,
      buckets       |-> [row.buckets EXCEPT ![Bucket(c.latency)] = @ + 1],
      lastCalled    |-> IF Later(c.at, row.lastCalled) THEN c.at ELSE row.lastCalled,
      lastFailed    |-> IF newest THEN c.at ELSE row.lastFailed,
      lastError     |-> IF newest THEN c.message ELSE row.lastError]

Aggregate(batch) ==
  [k \in {KeyOf(c) : c \in ToSet(batch)} |->
     FoldLeft(Accumulate, EmptyRow, SelectSeq(batch, LAMBDA c : KeyOf(c) = k))]

\* The ON CONFLICT clause: the row of a batch merged into the stored one.
Upsert_LastWins(old, new) ==
  [f \in DOMAIN old |->
     CASE f \in {"total", "success", "upstreamError", "failed", "sum", "failSum"} -> old[f] + new[f]
       [] f = "max" -> Max({old.max, new.max})
       [] f = "buckets" -> [i \in 1..7 |-> old.buckets[i] + new.buckets[i]]
       [] f = "lastError" -> IF new.lastError = "" THEN old.lastError ELSE new.lastError
       [] f \in {"lastCalled", "lastFailed"} -> IF new[f] = NoTime THEN old[f] ELSE new[f]]

Upsert(old, new) ==
  [f \in DOMAIN old |->
     CASE f \in {"total", "success", "upstreamError", "failed", "sum", "failSum"} -> old[f] + new[f]
       [] f = "max" -> Max({old.max, new.max})
       [] f = "buckets" -> [i \in 1..7 |-> old.buckets[i] + new.buckets[i]]
       [] f \in {"lastCalled", "lastFailed"} -> Max({old[f], new[f]})
       [] f = "lastError" ->
            IF new.lastError # "" /\ new.lastFailed >= old.lastFailed
            THEN new.lastError ELSE old.lastError]

Insert(rows, batch) ==
  LET new == Aggregate(batch)
  IN [k \in DOMAIN rows \cup DOMAIN new |->
        IF k \notin DOMAIN new THEN rows[k]
        ELSE IF k \notin DOMAIN rows THEN new[k] ELSE Upsert(rows[k], new[k])]

(***************************************************************************)
(* Recent records                                                          *)
(***************************************************************************)
Above(r, s) == r.at > s.at \/ (r.at = s.at /\ r.id > s.id)
NewestFirst(S) == SetToSortSeq(S, Above)
Firsts(s, n) == SubSeq(s, 1, Min({n, Len(s)}))
Readable(id) == id \in DOMAIN views /\ now < views[id].expires
Only(S) == [id \in DOMAIN views \cap {r.id : r \in S} |-> views[id]]

\* What trim keeps: neither too old nor beyond the newest MaxRecent.
Trimmed(S) ==
  LET young == {r \in S : r.at > now - TTL}
  IN ToSet(Firsts(NewestFirst(young), MaxRecent))

Flush(batch) ==
  /\ flushes < MaxFlushes /\ flushes' = flushes + 1
  /\ daily' = Insert(daily, batch)
  /\ seq' = seq + Len(batch)
  /\ LET added == [i \in 1..Len(batch) |-> [id |-> seq + i, at |-> batch[i].at]]
         ids == {seq + i : i \in 1..Len(batch)}
     IN /\ recent' = Trimmed(recent \cup ToSet(added))
        /\ views' = [id \in {r.id : r \in recent'} \cap (ids \cup DOMAIN views) |->
                       IF id \in ids THEN [call |-> batch[id - seq], expires |-> now + TTL]
                       ELSE views[id]]
  /\ counted' = counted \o batch
  /\ UNCHANGED <<now, cursor, answer, shown>>

\* recentCandidates: the newest entries above the cursor's time; if the page
\* is not full, then those of the cursor's own time with a larger id.
Candidates_FromTime(after, limit) ==
  Firsts(NewestFirst({r \in recent : r.at >= after.at}), limit)

SameInstant(after) == NewestFirst({r \in recent : r.at = after.at /\ r.id > after.id})
Candidates(after, limit) ==
  LET above == NewestFirst({r \in recent : r.at > after.at})
  IN IF Len(above) >= limit THEN Firsts(above, limit)
     ELSE above \o Firsts(SameInstant(after), limit - Len(above))

\* loadViews drops the entries whose value expired, also from the index.
Loaded(zs) == SelectSeq(zs, LAMBDA r : Readable(r.id))
Stale(zs) == {r \in ToSet(zs) : ~Readable(r.id)}

Forget(S) == recent' = recent \ S /\ views' = Only(recent')

\* A page loads once without a cursor, then polls above its newest record.
Poll ==
  LET zs == Candidates(cursor, PageLimit)
  IN /\ answer' = Loaded(zs)
     /\ Forget(Stale(zs))
     /\ shown' = shown \cup {answer'[i].id : i \in DOMAIN answer'}
     /\ cursor' = IF answer' = <<>> THEN cursor ELSE answer'[1]
     /\ UNCHANGED <<now, daily, seq, flushes, counted>>

Reload ==
  /\ cursor # Start
  /\ cursor' = Start /\ answer' = <<>> /\ shown' = {}
  /\ UNCHANGED <<now, daily, recent, views, seq, flushes, counted>>

ClearRecords ==
  /\ recent # {} /\ Forget(recent)
  /\ UNCHANGED <<now, daily, seq, cursor, answer, flushes, counted, shown>>

\* The cleaner deletes the rows of the days before now - Retention days.
DeleteOlderThan ==
  LET kept == {k \in DOMAIN daily : k.day >= Day(now) - Retention}
  IN /\ kept # DOMAIN daily
     /\ daily' = [k \in kept |-> daily[k]]
     /\ counted' = SelectSeq(counted, LAMBDA c : KeyOf(c) \in kept)
     /\ UNCHANGED <<now, recent, views, seq, cursor, answer, flushes, shown>>

Tick ==
  /\ now < MaxTime /\ now' = now + 1
  /\ UNCHANGED <<daily, recent, views, seq, cursor, answer, flushes, counted, shown>>

\* CalledAt is the start of the call: a batch carries earlier instants, in
\* no order.
Reported(batch) == [i \in DOMAIN batch |-> Normalized(batch[i], Max({now - batch[i].age, 0}))]

Next ==
  \/ \E batch \in Batches : Flush(Reported(batch))
  \/ Poll \/ Reload \/ ClearRecords \/ DeleteOlderThan \/ Tick

Spec == Init /\ [][Next]_vars

(***************************************************************************)
(* Queries over the rows of the days from..to                              *)
(***************************************************************************)
Rows(from, to) == {k \in DOMAIN daily : k.day \in from..to}
Sum(field, S) == MapThenSumSet(LAMBDA k : daily[k][field], S)
Failures(S) == Sum("upstreamError", S) + Sum("failed", S)
ToolOf(k) == <<k.upstream, k.tool>>
Latest(field, S) == Max({NoTime} \cup {daily[k][field] : k \in S})

\* Percentile 95 of the buckets: the upper bound of the one that holds it.
P95(S) ==
  LET n == Sum("total", S)
      target == Max({(95 * n + 99) \div 100, 1})
      upTo[i \in 0..7] == IF i = 0 THEN 0
        ELSE upTo[i - 1] + MapThenSumSet(LAMBDA k : daily[k].buckets[i], S)
      at == Min({i \in 1..7 : upTo[i] >= target})
  IN IF n = 0 THEN 0
     ELSE IF at = 7 THEN Max({Latest("max", S), 3000}) ELSE Bounds[at]

CountByUpstream(from, to) ==
  LET S == Rows(from, to)
  IN [u \in {k.upstream : k \in S} |-> Sum("total", {k \in S : k.upstream = u})]

\* The calls without a key are told apart by their source.
CountByAPIKey(from, to) ==
  LET S == Rows(from, to)
      Group(k) == <<k.key, IF k.key = 0 THEN k.source ELSE "">>
  IN [g \in {Group(k) : k \in S} |-> Sum("total", {k \in S : Group(k) = g})]

TopTools(S, limit) ==
  LET Count(t) == Sum("total", {k \in S : ToolOf(k) = t})
      Before(s, t) == Count(s) > Count(t) \/ (Count(s) = Count(t) /\ s[2] < t[2])
                      \/ (Count(s) = Count(t) /\ s[2] = t[2] /\ s[1] < t[1])
  IN [i \in 1..Min({limit, Cardinality({ToolOf(k) : k \in S})}) |->
        LET t == SetToSortSeq({ToolOf(k) : k \in S}, Before)[i]
        IN [tool |-> t, count |-> Count(t)]]

Summary(from, to) ==
  LET S == Rows(from, to)
  IN [total |-> Sum("total", S), success |-> Sum("success", S), failure |-> Failures(S),
      upstreams |-> Cardinality({k.upstream : k \in S} \ {0}),
      keys |-> Cardinality({k.key : k \in S} \ {0}),
      tools |-> Cardinality({ToolOf(k) : k \in S}),
      latency |-> Sum("sum", S), p95 |-> P95(S)]

Daily(from, to) ==
  LET S == Rows(from, to)
      On(d) == {k \in S : k.day = d}
  IN [d \in {k.day : k \in S} |->
        [total |-> Sum("total", On(d)), success |-> Sum("success", On(d)),
         failure |-> Failures(On(d)), latency |-> Sum("sum", On(d))]]

\* Without its limit: the tools with a failure.
TopToolErrors(from, to) ==
  LET Of(t) == {k \in Rows(from, to) : ToolOf(k) = t}
  IN [t \in {u \in {ToolOf(k) : k \in Rows(from, to)} : Failures(Of(u)) > 0} |->
        [total |-> Sum("total", Of(t)), failure |-> Failures(Of(t)),
         lastFailed |-> Latest("lastFailed", Of(t)), latency |-> Sum("failSum", Of(t))]]

APIKeyUsageProfile(key, from, to) ==
  LET S == {k \in Rows(from, to) : k.key = key}
  IN [total |-> Sum("total", S), success |-> Sum("success", S), failure |-> Failures(S),
      tools |-> Cardinality({ToolOf(k) : k \in S}), latency |-> Sum("sum", S), p95 |-> P95(S),
      lastCalled |-> Latest("lastCalled", S), lastFailed |-> Latest("lastFailed", S),
      top |-> TopTools(S, TopLimit)]

(***************************************************************************)
(* The health board over the recent records of since..now                  *)
(***************************************************************************)
Percentile(calls, p) ==
  LET sorted == SortSeq([i \in DOMAIN calls |-> calls[i].latency], <)
  IN IF calls = <<>> THEN 0 ELSE sorted[1 + ((Len(calls) - 1) * p + 50) \div 100]

HealthRecords(since) ==
  LET zs == Loaded(NewestFirst({r \in recent : r.at \in since..now}))
  IN [i \in DOMAIN zs |-> views[zs[i].id].call]

HealthOf(calls) == [count |-> Len(calls), failure |-> Len(SelectSeq(calls, Failed)),
                    p95 |-> Percentile(calls, 95)]

Health(since) ==
  LET calls == HealthRecords(since)
      Of(t) == SelectSeq(calls, LAMBDA c : <<c.upstream, c.tool>> = t)
  IN [total |-> Len(calls), failure |-> Len(SelectSeq(calls, Failed)),
      p50 |-> Percentile(calls, 50), p95 |-> Percentile(calls, 95),
      tools |-> [t \in {<<c.upstream, c.tool>> : c \in ToSet(calls)} |-> HealthOf(Of(t))]]

(***************************************************************************)
(* Properties                                                              *)
(***************************************************************************)
\* What the queries answer, recomputed from the calls themselves.
Called(from, to, P(_)) == {i \in DOMAIN counted : Day(counted[i].at) \in from..to /\ P(counted[i])}
Each(c) == TRUE
Latencies(I) == MapThenSumSet(LAMBDA i : counted[i].latency, I)
LastAt(I) == Max({NoTime} \cup {counted[i].at : i \in I})
\* The bucket bound of the call with at most 5 % of the calls above it.
TrueP95(I) ==
  LET top == Max({0} \cup {counted[i].latency : i \in I})
      Up(i) == {j \in I : Bucket(counted[j].latency) <= Bucket(counted[i].latency)}
      b == Min({Bucket(counted[i].latency) : i \in {j \in I : 100 * Cardinality(Up(j)) >= 95 * Cardinality(I)}})
  IN IF I = {} THEN 0 ELSE IF b = 7 THEN Max({top, 3000}) ELSE Bounds[b]

\* The health board agrees with the daily rows as long as no record was
\* cleared, trimmed or expired.
HealthAgreesWithSummary ==
  LET h == Health(0)
      s == Summary(0, Day(now))
  IN (Cardinality({r \in recent : Readable(r.id)}) = Len(counted) /\ Len(counted) = seq) =>
       /\ h.total = s.total /\ h.failure = s.failure
       /\ h.p95 <= s.p95
       /\ Cardinality(DOMAIN h.tools) = s.tools
       /\ \A t \in DOMAIN h.tools : h.tools[t].failure > 0 =>
            t \in DOMAIN TopToolErrors(0, Day(now))

(* Whatever the batches and their order, the daily rows answer every query  *)
(* as the calls themselves would: totals, distinct tools, percentiles, the  *)
(* time and the message of the last failure of each row; and the health     *)
(* board agrees with them (aggregateDailyModels, Insert, the queries of     *)
(* repo_callstat.go, buildCallHealth).                                      *)
QueriesCountEveryCall ==
  /\ HealthAgreesWithSummary
  /\ \A from \in 0..Day(now) : \A to \in from..Day(now) :
    LET I == Called(from, to, Each)
        N(P(_)) == Cardinality(Called(from, to, P))
        S == Summary(from, to)
    IN /\ \A u \in DOMAIN CountByUpstream(from, to) :
            CountByUpstream(from, to)[u] = N(LAMBDA c : c.upstream = u)
       /\ \A g \in DOMAIN CountByAPIKey(from, to) :
            CountByAPIKey(from, to)[g] = N(LAMBDA c : c.key = g[1] /\ g[2] \in {"", c.source})
       /\ S.total = Cardinality(I) /\ S.failure = N(Failed) /\ S.success = S.total - S.failure
       /\ S.latency = Latencies(I) /\ S.p95 = TrueP95(I)
       /\ S.tools = Cardinality({<<counted[i].upstream, counted[i].tool>> : i \in I})
       /\ \A d \in DOMAIN Daily(from, to) :
            LET on == Called(d, d, Each)
            IN Daily(from, to)[d] = [total |-> Cardinality(on), latency |-> Latencies(on),
                 failure |-> Cardinality(Called(d, d, Failed)),
                 success |-> Cardinality(on) - Cardinality(Called(d, d, Failed))]
       /\ \A t \in {<<counted[i].upstream, counted[i].tool>> : i \in Called(from, to, Failed)} :
            LET J == Called(from, to, LAMBDA c : Failed(c) /\ <<c.upstream, c.tool>> = t)
                r == TopToolErrors(from, to)[t]
            IN r.failure = Cardinality(J) /\ r.latency = Latencies(J) /\ r.lastFailed = LastAt(J)
       /\ \A key \in {counted[i].key : i \in I} :
            LET J == Called(from, to, LAMBDA c : c.key = key)
                r == APIKeyUsageProfile(key, from, to)
                Count(t) == Cardinality({i \in J : <<counted[i].upstream, counted[i].tool>> = t})
            IN /\ r.total = Cardinality(J) /\ r.p95 = TrueP95(J)
               /\ r.lastCalled = LastAt(J)
               /\ r.lastFailed = LastAt({i \in J : Failed(counted[i])})
               /\ \A i \in J : LET t == <<counted[i].upstream, counted[i].tool>>
                    IN \/ \E n \in DOMAIN r.top : r.top[n] = [tool |-> t, count |-> Count(t)]
                       \/ \A n \in DOMAIN r.top : r.top[n].count >= Count(t)
       /\ \A k \in Rows(from, to) : daily[k].lastError # "" =>
            \E i \in I : KeyOf(counted[i]) = k /\ Failed(counted[i])
              /\ counted[i].message = daily[k].lastError
              /\ \A j \in I : (KeyOf(counted[j]) = k /\ Failed(counted[j]) /\ counted[j].message # "")
                   => counted[j].at <= counted[i].at

(* A poll never returns a record the page has had, returns its records      *)
(* newest first, and unless it is full or met an expired record nothing     *)
(* above the page's cursor is left out (ListRecords, recentCandidates).     *)
ContinuesThePage ==
    Poll => /\ {answer'[i].id : i \in DOMAIN answer'} \cap shown = {}
            /\ \A i, j \in DOMAIN answer' : i < j => Above(answer'[i], answer'[j])
            /\ (Len(answer') < PageLimit /\ recent' = recent) =>
                 \A r \in recent : (Readable(r.id) /\ Above(r, cursor)) => r \in ToSet(answer')
PollsContinueThePage == [][ContinuesThePage]_vars
=============================================================================
