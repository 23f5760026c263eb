----------------------------- MODULE Recording -----------------------------
(***************************************************************************)
(* The statistics of calls: RecordAsync, the worker that moves records from *)
(* its queue through a Redis list to the recent records (Redis) and the     *)
(* daily counts (PostgreSQL), the deletion of recent records, the retention *)
(* of counts, shutdown and crashes (stats/*, store/repo_callstat.go).       *)
(*                                                                          *)
(* Time is the number of deletions begun: a record called at n is called    *)
(* after the n-th one and before the next.  Queue and buffer are sets; the  *)
(* order in which records leave them is any.                                *)
(***************************************************************************)
EXTENDS Naturals, FiniteSets

CONSTANTS
    Records,
    QueueSize,   \* capacity of the queue
    BatchSize,
    MaxRecent,   \* records the recent list keeps
    MaxDeletions,\* bound: deletions of the recent records
    MaxFaults,   \* bound: calls to Redis or PostgreSQL that fail
    MaxExits     \* bound: crashes and shutdowns

ASSUME RecordingAssumption ==
    MaxDeletions \in Nat /\ MaxFaults \in Nat /\ MaxExits \in Nat

VARIABLES
    call,       \* the caller of RecordAsync, by record
    at,         \* CalledAt
    queue, pending, buffer, batch,
    worker,     \* what the worker does
    cancelled,  \* its context
    final,      \* it is in shutdown
    more,       \* the batch it popped was full
    dropBefore,
    recent, daily,
    deletion,   \* ClearRecords
    clock,
    cleared,    \* history: cutoff of the last deletion that succeeded
    early,      \* history: records that were queued before the cancellation
    spent       \* history: how much of each bound is used

process == <<call, queue, pending, batch, worker, cancelled, final, more,
             dropBefore, deletion>>
vars == <<call, at, queue, pending, buffer, batch, worker, cancelled, final,
          more, dropBefore, recent, daily, deletion, clock, cleared, early, spent>>

TypeOK ==
    /\ call \in [Records -> {"none", "made", "checked", "over"}]
    /\ at \in [Records -> 1..MaxDeletions + 1]
    /\ queue \subseteq Records /\ pending \subseteq Records
    /\ buffer \subseteq Records /\ batch \subseteq Records
    /\ worker \in {"select", "push", "pop", "insert", "recent", "trim", "daily",
                   "stopped"}
    /\ cancelled \in BOOLEAN /\ final \in BOOLEAN /\ more \in BOOLEAN
    /\ dropBefore \in 0..MaxDeletions /\ cleared \in 0..MaxDeletions
    /\ recent \subseteq Records /\ daily \in [Records -> Nat]
    /\ deletion \in [pc : {"idle", "drop", "delete"}, cutoff : 0..MaxDeletions]
    /\ clock \in 1..MaxDeletions + 1
    /\ early \subseteq Records
    /\ spent \in [faults : 0..MaxFaults, exits : 0..MaxExits]

Init ==
    /\ call = [r \in Records |-> "none"] /\ at = [r \in Records |-> 1]
    /\ queue = {} /\ pending = {} /\ buffer = {} /\ batch = {}
    /\ worker = "select" /\ cancelled = FALSE /\ final = FALSE /\ more = FALSE
    /\ dropBefore = 0 /\ cleared = 0
    /\ recent = {} /\ daily = [r \in Records |-> 0]
    /\ deletion = [pc |-> "idle", cutoff |-> 0] /\ clock = 1
    /\ early = {} /\ spent = [faults |-> 0, exits |-> 0]

Fails ==
    /\ spent.faults < MaxFaults
    /\ spent' = [spent EXCEPT !.faults = @ + 1]

(* A call of the worker may also fail because its context was cancelled;     *)
(* shutdown has a context of its own.                                        *)
WorkerFails == (cancelled /\ ~final /\ spent' = spent) \/ Fails

----------------------------------------------------------------------------
(* A call begins; when it is over, RecordAsync looks at the time of the last *)
(* deletion and then tries to queue its record.  It never waits.             *)
Call(r) ==
    /\ call[r] = "none"
    /\ call' = [call EXCEPT ![r] = "made"]
    /\ at' = [at EXCEPT ![r] = clock]
    /\ UNCHANGED <<queue, pending, buffer, batch, worker, cancelled, final, more,
                   dropBefore, recent, daily, deletion, clock, cleared, early, spent>>

ShouldDrop(r) == at[r] <= dropBefore

RecordAsync(r) ==
    /\ call[r] = "made"
    /\ call' = [call EXCEPT ![r] = IF ShouldDrop(r) THEN "over" ELSE "checked"]
    /\ UNCHANGED <<at, queue, pending, buffer, batch, worker, cancelled, final,
                   more, dropBefore, recent, daily, deletion, clock, cleared,
                   early, spent>>

Enqueue(r) ==
    /\ call[r] = "checked"
    /\ call' = [call EXCEPT ![r] = "over"]
    /\ IF Cardinality(queue) < QueueSize
       THEN /\ queue' = queue \cup {r}
            /\ early' = IF cancelled THEN early ELSE early \cup {r}
       ELSE UNCHANGED <<queue, early>>
    /\ UNCHANGED <<at, pending, buffer, batch, worker, cancelled, final, more,
                   dropBefore, recent, daily, deletion, clock, cleared, spent>>

----------------------------------------------------------------------------
(* run's select, and shutdown's emptying of the queue.                       *)
Take ==
    /\ worker = "select"
    /\ \E r \in queue :
         /\ queue' = queue \ {r}
         /\ pending' = pending \cup {r}
         /\ worker' = IF Cardinality(pending') >= BatchSize THEN "push" ELSE "select"
    /\ UNCHANGED <<call, at, buffer, batch, cancelled, final, more, dropBefore,
                   recent, daily, deletion, clock, cleared, early, spent>>

(* A tick flushes, and looks into the list even without records of its own.  *)
Tick ==
    /\ worker = "select"
    /\ worker' = IF pending # {} THEN "push" ELSE "pop"
    /\ UNCHANGED <<call, at, queue, pending, buffer, batch, cancelled, final, more,
                   dropBefore, recent, daily, deletion, clock, cleared, early, spent>>

(* Mutation: what is queued is not taken any more.                           *)
Shutdown_PendingOnly ==
    /\ worker = "select" /\ cancelled
    /\ final' = TRUE /\ worker' = "push"
    /\ UNCHANGED <<call, at, queue, pending, buffer, batch, cancelled, more,
                   dropBefore, recent, daily, deletion, clock, cleared, early, spent>>
Shutdown ==
    /\ worker = "select" /\ cancelled
    /\ pending' = pending \cup queue /\ queue' = {}
    /\ final' = TRUE /\ worker' = "push"
    /\ UNCHANGED <<call, at, buffer, batch, cancelled, more, dropBefore, recent,
                   daily, deletion, clock, cleared, early, spent>>

Flushed == IF final THEN "stopped" ELSE "select"

(* pushToBuffer: one LPUSH; if it fails the records are lost.                *)
PushToBuffer ==
    /\ worker = "push" /\ worker' = "pop"
    /\ pending' = {}
    /\ \/ buffer' = buffer \cup pending /\ spent' = spent
       \/ buffer' = buffer /\ pending # {} /\ WorkerFails
    /\ UNCHANGED <<call, at, queue, batch, cancelled, final, more, dropBefore,
                   recent, daily, deletion, clock, cleared, early>>

(* Mutation: the batch is read and left in the list.                         *)
PopBatch_Peek ==
    /\ worker = "pop"
    /\ \E B \in SUBSET buffer :
         /\ Cardinality(B) = BatchSize \/ (B = buffer /\ Cardinality(B) < BatchSize)
         /\ batch' = B
         /\ more' = (Cardinality(B) = BatchSize)
         /\ worker' = IF B = {} THEN Flushed ELSE "insert"
    /\ UNCHANGED <<call, at, queue, pending, buffer, cancelled, final, dropBefore,
                   recent, daily, deletion, clock, cleared, early, spent>>
(* drainBuffer: one RPOP of up to a batch; it goes on after a full one.      *)
PopBatch ==
    /\ worker = "pop"
    /\ \E B \in SUBSET buffer :
         /\ Cardinality(B) = BatchSize \/ (B = buffer /\ Cardinality(B) < BatchSize)
         /\ batch' = B /\ buffer' = buffer \ B
         /\ more' = (Cardinality(B) = BatchSize)
         /\ worker' = IF B = {} THEN Flushed ELSE "insert"
    /\ UNCHANGED <<call, at, queue, pending, cancelled, final, dropBefore, recent,
                   daily, deletion, clock, cleared, early, spent>>

PopFails ==
    /\ worker = "pop" /\ worker' = Flushed /\ WorkerFails
    /\ UNCHANGED <<call, at, queue, pending, buffer, batch, cancelled, final, more,
                   dropBefore, recent, daily, deletion, clock, cleared, early>>

(* Mutation: the batch is written as it was popped.                          *)
Insert_Unfiltered ==
    /\ worker = "insert" /\ worker' = "recent"
    /\ UNCHANGED <<call, at, queue, pending, buffer, batch, cancelled, final, more,
                   dropBefore, recent, daily, deletion, clock, cleared, early, spent>>
(* insert takes dropMu for reading until the writes are done and leaves out  *)
(* what a deletion has dropped meanwhile.                                    *)
Insert ==
    /\ worker = "insert"
    /\ batch' = {r \in batch : ~ShouldDrop(r)}
    /\ worker' = IF batch' # {} THEN "recent" ELSE IF more THEN "pop" ELSE Flushed
    /\ UNCHANGED <<call, at, queue, pending, buffer, cancelled, final, more,
                   dropBefore, recent, daily, deletion, clock, cleared, early, spent>>

(* CompositeWriter.Insert: AppendRecords first; its failure does not keep    *)
(* the records from the counts.                                              *)
AppendRecords ==
    /\ worker = "recent"
    /\ \/ recent' = recent \cup batch /\ worker' = "trim" /\ spent' = spent
       \/ recent' = recent /\ worker' = "daily" /\ WorkerFails
    /\ UNCHANGED <<call, at, queue, pending, buffer, batch, cancelled, final, more,
                   dropBefore, daily, deletion, clock, cleared, early>>

(* trim: the oldest records beyond the limit go; those past their TTL are    *)
(* the oldest ones as well.                                                  *)
Trim ==
    /\ worker = "trim" /\ worker' = "daily"
    /\ \E old \in SUBSET recent :
         /\ \A r \in old, q \in recent \ old : at[r] <= at[q]
         /\ Cardinality(recent \ old) <= MaxRecent
         /\ recent' = recent \ old
    /\ UNCHANGED <<call, at, queue, pending, buffer, batch, cancelled, final, more,
                   dropBefore, daily, deletion, clock, cleared, early, spent>>

TrimFails ==
    /\ worker = "trim" /\ worker' = "daily" /\ WorkerFails
    /\ UNCHANGED <<call, at, queue, pending, buffer, batch, cancelled, final, more,
                   dropBefore, recent, daily, deletion, clock, cleared, early>>

(* CallStatRepo.Insert adds the batch to the rows of its days.               *)
InsertDaily ==
    /\ worker = "daily"
    /\ \/ /\ daily' = [r \in Records |-> daily[r] + IF r \in batch THEN 1 ELSE 0]
          /\ spent' = spent
       \/ daily' = daily /\ WorkerFails
    /\ batch' = {}
    /\ worker' = IF more THEN "pop" ELSE Flushed
    /\ UNCHANGED <<call, at, queue, pending, buffer, cancelled, final, more,
                   dropBefore, recent, deletion, clock, cleared, early>>

Locked == worker \in {"recent", "trim", "daily"}

----------------------------------------------------------------------------
(* ClearRecords: it drops what is under way and deletes what is stored.      *)
ClearRecords ==
    /\ deletion.pc = "idle" /\ clock <= MaxDeletions
    /\ deletion' = [pc |-> "drop", cutoff |-> clock]
    /\ clock' = clock + 1
    /\ UNCHANGED <<call, at, queue, pending, buffer, batch, worker, cancelled,
                   final, more, dropBefore, recent, daily, cleared, early, spent>>

DropBefore ==
    /\ deletion.pc = "drop" /\ ~Locked
    /\ deletion' = [deletion EXCEPT !.pc = "delete"]
    /\ dropBefore' = deletion.cutoff
    /\ UNCHANGED <<call, at, queue, pending, buffer, batch, worker, cancelled,
                   final, more, recent, daily, clock, cleared, early, spent>>

ClearRecordsBefore ==
    /\ deletion.pc = "delete"
    /\ deletion' = [deletion EXCEPT !.pc = "idle"]
    /\ \/ recent' = {} /\ cleared' = deletion.cutoff /\ spent' = spent
       \/ UNCHANGED <<recent, cleared>> /\ Fails
    /\ UNCHANGED <<call, at, queue, pending, buffer, batch, worker, cancelled,
                   final, more, dropBefore, daily, clock, early>>

(* Cleaner: the rows of days before the retention's are deleted.             *)
Cleanup ==
    /\ \E day \in 1..clock : daily' = [r \in Records |->
           IF at[r] < day THEN 0 ELSE daily[r]]
    /\ UNCHANGED <<process, at, buffer, recent, clock, cleared, early, spent>>

----------------------------------------------------------------------------
(* cancelRun: the worker's context ends before the servers are shut down.    *)
Cancel ==
    /\ ~cancelled /\ spent.exits < MaxExits
    /\ cancelled' = TRUE
    /\ UNCHANGED <<call, at, queue, pending, buffer, batch, worker, final, more,
                   dropBefore, recent, daily, deletion, clock, cleared, early, spent>>

(* The process ends, at any step, and another one starts.                    *)
Exit ==
    /\ spent.exits < MaxExits
    /\ spent' = [spent EXCEPT !.exits = @ + 1]
    /\ call' = [r \in Records |-> IF call[r] = "none" THEN "none" ELSE "over"]
    /\ queue' = {} /\ pending' = {} /\ batch' = {}
    /\ worker' = "select" /\ cancelled' = FALSE /\ final' = FALSE /\ more' = FALSE
    /\ dropBefore' = 0 /\ cleared' = 0 /\ early' = {}
    /\ deletion' = [pc |-> "idle", cutoff |-> 0]
    /\ UNCHANGED <<at, buffer, recent, daily, clock>>

Work ==
    \/ Take \/ Tick \/ Shutdown \/ PushToBuffer \/ PopBatch \/ PopFails \/ Insert
    \/ AppendRecords \/ Trim \/ TrimFails \/ InsertDaily

Next ==
    \/ \E r \in Records : Call(r) \/ RecordAsync(r) \/ Enqueue(r)
    \/ Work
    \/ ClearRecords \/ DropBefore \/ ClearRecordsBefore \/ Cleanup
    \/ Cancel \/ Exit

Spec == Init /\ [][Next]_vars

(* Callers and the worker go on, also with a full queue, and a process that  *)
(* was asked to stop ends.  select does not starve a ready case for ever.    *)
Fairness ==
    /\ \A r \in Records : WF_vars(RecordAsync(r)) /\ WF_vars(Enqueue(r))
    /\ WF_vars(Work) /\ SF_vars(Take) /\ SF_vars(Shutdown)
    /\ WF_vars(cancelled /\ worker = "stopped" /\ Exit)

FairSpec == Spec /\ Fairness

----------------------------------------------------------------------------
(* Whatever a record passes through, ...                                     *)
InFlight(r) ==
    \/ call[r] \in {"made", "checked"}
    \/ r \in queue \cup pending \cup buffer \cup batch
Stage == [r \in Records |-> IF call[r] = "none" THEN "new"
                            ELSE IF InFlight(r) THEN "offered" ELSE "settled"]
Log == INSTANCE CallLog WITH stage <- Stage, counts <- daily

(* ... it is counted at most once, through crashes, failing calls, retention *)
(* and shutdown alike (insert pops before it writes), and at last it is      *)
(* counted or given up: none stays in a queue.                               *)
EveryRecordDecided == Log!LiveSpec

(* After a deletion no record of an earlier call turns up again, wherever it *)
(* was when the deletion came (as long as the process lives: dropBefore is   *)
(* not stored, and the buffer outlives a crash).                             *)
ClearedRecordsStayGone == \A r \in recent : at[r] > cleared

(* A worker that has stopped leaves nothing behind of what was queued when   *)
(* it was told to: it is in the counts unless a call failed, a deletion has  *)
(* dropped it or the retention has removed it.                               *)
StopsDrained == worker = "stopped" => early \cap (queue \cup pending \cup batch) = {}
============================================================================
