------------------------------ MODULE AuditLog ------------------------------
(***************************************************************************)
(* The audit log: handlers submit events to a bounded queue and never wait; *)
(* one worker writes them one by one; the retention deletes old rows        *)
(* (audit/recorder.go, audit/service.go, store/repo_audit.go).              *)
(*                                                                          *)
(* Events stand for their order of occurrence: event e occurred at e.       *)
(***************************************************************************)
EXTENDS Integers, Sequences, FiniteSets

CONSTANTS
    NEvents,       \* bound: events that occur
    AuditQueue,    \* capacity of the queue
    AuditBatch,    \* pending events that make the worker write
    MaxAuditFaults \* bound: inserts that fail

VARIABLES
    occurred,   \* the last event that occurred
    submitting, \* events that occurred and are not submitted yet
    auditQueue, auditPending,
    auditor,    \* the worker: select, flush or stopped
    auditStop,  \* its context is cancelled
    draining,   \* it is in shutdown, with a context of its own
    auditLog,   \* the table: how many rows each event has
    accepted,   \* history: what the queue took while the worker's context lived
    auditLost,  \* history: events whose insert failed
    expired,    \* history: cutoff of the last cleanup
    auditFaults \* history: how much of MaxAuditFaults is used

auditVars == <<occurred, submitting, auditQueue, auditPending, auditor, auditStop,
               draining, auditLog, accepted, auditLost, expired, auditFaults>>

Init ==
    /\ occurred = 0 /\ submitting = {}
    /\ auditQueue = <<>> /\ auditPending = <<>> /\ auditor = "select"
    /\ auditStop = FALSE /\ draining = FALSE
    /\ auditLog = [e \in 1..NEvents |-> 0] /\ accepted = {} /\ auditLost = {} /\ expired = 0
    /\ auditFaults = 0

(* RecordLogin, RecordCreate, RecordUpdate, RecordDelete, RecordAccessDenied *)
(* stamp an event ...                                                        *)
Record ==
    /\ occurred < NEvents
    /\ occurred' = occurred + 1 /\ submitting' = submitting \cup {occurred + 1}
    /\ UNCHANGED <<auditQueue, auditPending, auditor, auditStop, draining, auditLog,
                   accepted, auditLost, expired, auditFaults>>

(* ... and submit it: dropped if the queue is full.                          *)
Submit(e) ==
    /\ e \in submitting /\ submitting' = submitting \ {e}
    /\ IF Len(auditQueue) < AuditQueue
       THEN /\ auditQueue' = Append(auditQueue, e)
            /\ accepted' = IF auditStop THEN accepted ELSE accepted \cup {e}
       ELSE UNCHANGED <<auditQueue, accepted>>
    /\ UNCHANGED <<occurred, auditPending, auditor, auditStop, draining, auditLog,
                   auditLost, expired, auditFaults>>

(* run: a full batch is written, ...                                         *)
Take ==
    /\ auditor = "select" /\ auditQueue # <<>>
    /\ auditQueue' = Tail(auditQueue)
    /\ auditPending' = Append(auditPending, Head(auditQueue))
    /\ auditor' = IF Len(auditPending') >= AuditBatch THEN "flush" ELSE "select"
    /\ UNCHANGED <<occurred, submitting, auditStop, draining, auditLog, accepted,
                   auditLost, expired, auditFaults>>

(* ... what is pending at a tick, ...                                        *)
Tick ==
    /\ auditor = "select" /\ auditPending # <<>> /\ auditor' = "flush"
    /\ UNCHANGED <<occurred, submitting, auditQueue, auditPending, auditStop,
                   draining, auditLog, accepted, auditLost, expired, auditFaults>>

(* Mutation: the pending events are written, the queue is left.              *)
Shutdown_PendingOnly ==
    /\ auditor = "select" /\ auditStop
    /\ draining' = TRUE /\ auditor' = "flush"
    /\ UNCHANGED <<occurred, submitting, auditQueue, auditPending, auditStop,
                   auditLog, accepted, auditLost, expired, auditFaults>>
(* ... and, when its context is cancelled, everything that is queued.        *)
Shutdown ==
    /\ auditor = "select" /\ auditStop
    /\ auditPending' = auditPending \o auditQueue /\ auditQueue' = <<>>
    /\ draining' = TRUE /\ auditor' = "flush"
    /\ UNCHANGED <<occurred, submitting, auditStop, auditLog, accepted, auditLost,
                   expired, auditFaults>>

(* flush: the next event, or the end.  An insert fails, and its event is     *)
(* lost, also when the context was cancelled meanwhile.                      *)
Flush ==
    /\ auditor = "flush"
    /\ IF auditPending = <<>>
       THEN /\ auditor' = IF draining THEN "stopped" ELSE "select"
            /\ UNCHANGED <<auditPending, auditLog, auditLost, auditFaults>>
       ELSE /\ auditor' = auditor /\ auditPending' = Tail(auditPending)
            /\ \/ /\ auditLog' = [auditLog EXCEPT ![Head(auditPending)] = @ + 1]
                  /\ UNCHANGED <<auditLost, auditFaults>>
               \/ /\ auditLog' = auditLog
                  /\ auditLost' = auditLost \cup {Head(auditPending)}
                  /\ \/ auditStop /\ ~draining /\ auditFaults' = auditFaults
                     \/ /\ auditFaults < MaxAuditFaults
                        /\ auditFaults' = auditFaults + 1
    /\ UNCHANGED <<occurred, submitting, auditQueue, auditStop, draining, accepted,
                   expired>>

(* Cleanup: DeleteOlderThan a cutoff the number of retained days gives.      *)
Cleanup ==
    /\ \E cutoff \in expired + 1..occurred :
         /\ auditLog' = [e \in 1..NEvents |-> IF e < cutoff THEN 0 ELSE auditLog[e]]
         /\ expired' = cutoff
    /\ UNCHANGED <<occurred, submitting, auditQueue, auditPending, auditor,
                   auditStop, draining, accepted, auditLost, auditFaults>>

(* Stop, and before it the end of the application's context.                 *)
Stop ==
    /\ ~auditStop /\ auditStop' = TRUE
    /\ UNCHANGED <<occurred, submitting, auditQueue, auditPending, auditor,
                   draining, auditLog, accepted, auditLost, expired, auditFaults>>

Next ==
    \/ Record \/ (\E e \in submitting : Submit(e))
    \/ Take \/ Tick \/ Shutdown \/ Flush \/ Cleanup \/ Stop

Spec == Init /\ [][Next]_auditVars

Logged == {e \in 1..NEvents : auditLog[e] > 0}

(* applyAuditQuery, List: newest first, page p of n rows; a row is told by   *)
(* how many are newer.                                                       *)
Newer(e) == Cardinality({x \in Logged : x > e})
Row(k) == CHOOSE e \in Logged : Newer(e) = k
List(p, n) ==
    LET size == IF n <= 0 THEN 1 ELSE n
        offset == ((IF p <= 0 THEN 1 ELSE p) - 1) * size
    IN [i \in {j \in 1..size : offset + j <= Cardinality(Logged)} |-> Row(offset + i - 1)]

(* A worker that has stopped has written, once, every event the queue took   *)
(* before it was told to stop, whatever was pending, queued or being written *)
(* then; only failed inserts and expired rows are missing.                   *)
WrittenOnce ==
    /\ \A e \in 1..NEvents : auditLog[e] <= 1
    /\ auditor = "stopped" =>
           \A e \in accepted \ auditLost : e \in Logged \/ e < expired

(* The log is complete (WrittenOnce), and the pages of its list show every   *)
(* row once, newest first.                                                   *)
Shown(n) == {x \in (1..NEvents) \X (1..n) : x[2] \in DOMAIN List(x[1], n)}
At(x, n) == List(x[1], n)[x[2]]
AuditIsComplete ==
    /\ WrittenOnce
    /\ \A n \in 1..2 :
          /\ {At(x, n) : x \in Shown(n)} = Logged
          /\ \A x, y \in Shown(n) :
                x[1] < y[1] \/ (x[1] = y[1] /\ x[2] < y[2]) => At(x, n) > At(y, n)
=============================================================================
