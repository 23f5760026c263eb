----------------------------- MODULE BatchRating -----------------------------
(***************************************************************************)
(* One running job of module RiskJobs from the inside (GovernanceService.   *)
(* runJob): workers that take batches of the listed tools, ask the provider *)
(* with retries, halve a batch the provider cannot answer, store a result   *)
(* for every tool, and the loop that adds up what they did. The provider    *)
(* answers anything (risk/openai_client.go, risk/prompt.go).                *)
(***************************************************************************)
EXTENDS Naturals, Sequences, FiniteSets, SequencesExt, FiniteSetsExt

CONSTANTS
    Items,     \* the tools listed for the job, in this order
    BatchSize, \* tools in one request
    Workers,   \* min(max(MaxConcurrency, 1), 3) of them
    Replies    \* what a request to the provider may end in

VARIABLES
    next,      \* the first of Items that no worker has taken
    worker,
    jobCtx,    \* live; cancelled by runJob; or stopped, with the whole process
    reader,    \* runJob: receives outcomes, saw a cancellation, or has returned
    job,       \* the row's status
    counts,    \* the row's counters; those of retries, halvings and reviews left out
    fate       \* history: what was stored of each tool

vars == <<next, worker, jobCtx, reader, job, counts, fate>>

Categories == {"http", "network", "response_validation", "storage"}
Counters == {"processed", "success", "failure"} \cup Categories
NoOutcome == [c \in Counters |-> 0]
Add(o, more) == [c \in Counters |-> o[c] + (IF c \in DOMAIN more THEN more[c] ELSE 0)]

(* parts: the batch, or the halves of it that are left; whole: it may be     *)
(* halved; results: what is still to be stored of the first part.            *)
Idle == [at |-> "idle", parts |-> <<>>, whole |-> TRUE, attempt |-> 0, results |-> <<>>,
         out |-> NoOutcome]

Init ==
    /\ next = 1
    /\ worker = [w \in Workers |-> Idle]
    /\ jobCtx = "live" /\ reader = "receives" /\ job = "running"
    /\ counts = NoOutcome
    /\ fate = [t \in ToSet(Items) |-> "listed"]

----------------------------------------------------------------------------
(* The feeder may still hand out a batch when the context is cancelled.      *)
Take(w) ==
    /\ worker[w].at = "idle" /\ next <= Len(Items)
    /\ LET end == Min({next + BatchSize - 1, Len(Items)}) IN
       /\ worker' = [worker EXCEPT ![w].at = "ask", ![w].parts = <<SubSeq(Items, next, end)>>]
       /\ next' = end + 1
    /\ UNCHANGED <<jobCtx, reader, job, counts, fate>>

(* Answers that leave a tool out accepted.                                   *)
ParseAssessmentResponse_Partial(said, expected) ==
    IsInjective(said) /\ ToSet(said) \subseteq expected

(* Exactly one result for every tool of the request.                         *)
ParseAssessmentResponse(said, expected) ==
    IsInjective(said) /\ ToSet(said) = expected

(* OpenAIClient.do: 429, 5xx, a timeout and a failed connection are worth    *)
(* another try; a body that is too large or cannot be read is not.           *)
IsRetryable(reply) ==
    CASE reply.kind = "http" -> reply.status = 429 \/ reply.status >= 500
      [] reply.kind \in {"timeout", "unreachable"} -> TRUE
      [] OTHER -> FALSE

AssessmentErrorCategory(reply) ==
    CASE reply.kind = "http" -> "http"
      [] reply.kind \in {"timeout", "unreachable"} -> "network"
      [] OTHER -> "response_validation"

(* The first part has its outcome.                                           *)
PartDone(me, out) ==
    LET left == Tail(me.parts) IN
    [me EXCEPT !.at = IF left = <<>> THEN "deliver" ELSE "ask", !.parts = left,
               !.attempt = 0, !.results = <<>>, !.out = out]

(* One attempt of assessWithRetry, and after the last one what processBatch  *)
(* does with the error. MarkAIError's own failures are ignored.              *)
Ask(w) ==
    /\ worker[w].at = "ask" /\ jobCtx = "live"
    /\ LET me == worker[w]
           part == Head(me.parts)
       IN \E reply \in Replies :
            LET said == reply.kind = "text" /\ ParseAssessmentResponse(reply.says, ToSet(part))
                again == IsRetryable(reply) /\ me.attempt < 2
                halves == IsRetryable(reply) /\ me.whole /\ Len(part) > 1
                middle == Len(part) \div 2
            IN  IF said
                THEN /\ worker' = [worker EXCEPT ![w].at = "store", ![w].results = reply.says]
                     /\ UNCHANGED fate
                ELSE IF again
                THEN /\ worker' = [worker EXCEPT ![w].attempt = @ + 1]
                     /\ UNCHANGED fate
                ELSE IF halves
                THEN /\ worker' = [worker EXCEPT
                             ![w].parts = <<SubSeq(part, 1, middle),
                                            SubSeq(part, middle + 1, Len(part))>>,
                             ![w].whole = FALSE, ![w].attempt = 0]
                     /\ UNCHANGED fate
                ELSE /\ worker' = [worker EXCEPT ![w] = PartDone(me,
                             Add(Add(me.out, [processed |-> Len(part), failure |-> Len(part)]),
                                 [c \in {AssessmentErrorCategory(reply)} |-> Len(part)]))]
                     /\ \E marked \in {{}, ToSet(part)} :
                            fate' = [t \in DOMAIN fate |-> IF t \in marked THEN "error" ELSE fate[t]]
    /\ UNCHANGED <<next, jobCtx, reader, job, counts>>

(* A request or a wait that the context ends: an empty outcome.              *)
AskCancelled(w) ==
    /\ worker[w].at = "ask" /\ jobCtx # "live"
    /\ worker' = [worker EXCEPT ![w] = PartDone(@, @.out)]
    /\ UNCHANGED <<next, jobCtx, reader, job, counts, fate>>

(* ApplyAIResult for the next result. It fails if the row is gone, the       *)
(* database fails or the context is cancelled, and also if only the last of  *)
(* its three statements fails, which reads back what it has stored.          *)
Store(w) ==
    /\ worker[w].at = "store"
    /\ LET me == worker[w] IN
       IF me.results = <<>>
       THEN worker' = [worker EXCEPT ![w] = PartDone(me, me.out)] /\ UNCHANGED fate
       ELSE \/ /\ jobCtx = "live"
               /\ worker' = [worker EXCEPT ![w].results = Tail(@),
                                ![w].out = Add(@, [processed |-> 1, success |-> 1])]
               /\ fate' = [fate EXCEPT ![Head(me.results)] = "rated"]
            \/ /\ worker' = [worker EXCEPT ![w].results = Tail(@),
                                ![w].out = Add(@, [processed |-> 1, failure |-> 1, storage |-> 1])]
               /\ \/ UNCHANGED fate
                  \/ jobCtx = "live" /\ fate' = [fate EXCEPT ![Head(me.results)] = "rated"]
    /\ UNCHANGED <<next, jobCtx, reader, job, counts>>

(* The loop receives an outcome and looks at the row first: a cancelled job  *)
(* takes no more, and a row that cannot be read ends the loop. Progress that *)
(* cannot be written is written with the next one.                           *)
Receive(w) ==
    /\ worker[w].at = "deliver" /\ reader # "returned"
    /\ worker' = [worker EXCEPT ![w] = Idle]
    /\ \/ /\ reader = "cancelled"
          /\ UNCHANGED <<jobCtx, reader, counts>>
       \/ /\ reader = "receives" \* Get fails
          /\ reader' = "returned" /\ jobCtx' = (IF jobCtx = "live" THEN "cancelled" ELSE jobCtx)
          /\ UNCHANGED counts
       \/ /\ reader = "receives" /\ jobCtx # "stopped"
          /\ IF job = "cancelled"
             THEN reader' = "cancelled" /\ jobCtx' = "cancelled" /\ UNCHANGED counts
             ELSE counts' = Add(counts, worker[w].out) /\ UNCHANGED <<reader, jobCtx>>
    /\ UNCHANGED <<next, job, fate>>

(* A worker returns: no more batches, or the context ended while it waited.  *)
Leave(w) ==
    /\ \/ worker[w].at = "idle" /\ (next > Len(Items) \/ jobCtx # "live")
       \/ worker[w].at = "deliver" /\ jobCtx # "live"
    /\ worker' = [worker EXCEPT ![w] = [Idle EXCEPT !.at = "gone"]]
    /\ UNCHANGED <<next, jobCtx, reader, job, counts, fate>>

FinalStatus ==
    IF counts.failure = 0 THEN "completed"
    ELSE IF counts.success > 0 THEN "partial" ELSE "failed"

(* All workers have returned. UpdateProgress leaves a cancelled row alone,   *)
(* and fails when the process stops.                                         *)
Finish ==
    /\ reader # "returned" /\ \A w \in Workers : worker[w].at = "gone"
    /\ reader' = "returned"
    /\ \/ UNCHANGED job \* cancelled, or the row cannot be written
       \/ /\ reader = "receives" /\ jobCtx # "stopped" /\ job = "running"
          /\ job' = FinalStatus
    /\ UNCHANGED <<next, worker, jobCtx, counts, fate>>

(* RiskJobRepo.Cancel, and the end of the process's context.                 *)
Cancel ==
    /\ job = "running" /\ job' = "cancelled"
    /\ UNCHANGED <<next, worker, jobCtx, reader, counts, fate>>
Shutdown ==
    /\ jobCtx # "stopped" /\ jobCtx' = "stopped"
    /\ UNCHANGED <<next, worker, reader, job, counts, fate>>

Next ==
    \/ \E w \in Workers : Take(w) \/ Ask(w) \/ AskCancelled(w) \/ Store(w) \/ Receive(w) \/ Leave(w)
    \/ Finish \/ Cancel \/ Shutdown

Spec == Init /\ [][Next]_vars

----------------------------------------------------------------------------
(* A job that ended by itself has an account of every tool it listed, each   *)
(* counted once: as a success only if its rating was stored, as a failure    *)
(* under one category otherwise. Neither retries, halved batches, answers    *)
(* with other tools than those asked about nor a restart's cancellation make *)
(* it say "completed" of a tool that was not rated (processBatch,            *)
(* assessWithRetry, ParseAssessmentResponse, the loop of runJob).            *)
JobAccountsForTools ==
    job \in {"completed", "partial", "failed"} =>
        /\ counts.processed = Len(Items)
        /\ counts.success <= Cardinality({t \in DOMAIN fate : fate[t] = "rated"})
        /\ counts.failure = counts.processed - counts.success
        /\ counts.failure = counts.http + counts.network + counts.response_validation
                            + counts.storage
        /\ job = "completed" => \A t \in DOMAIN fate : fate[t] = "rated"

=============================================================================
