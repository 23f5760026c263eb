------------------------------ MODULE RiskJobs ------------------------------
(***************************************************************************)
(* The jobs that have an AI provider rate the tools (internal/risk).        *)
(*                                                                          *)
(* A job is a row of risk_assessment_job.  It is created under queueMu by   *)
(* an administrator's request or by the automatic trigger that follows      *)
(* every sync of a tool list, and is run by a goroutine that holds its      *)
(* provider's slot in GovernanceService.running; the goroutine that gives   *)
(* up the slot starts the provider's next queued job.  A restart puts the   *)
(* jobs that were running back into the queue.                              *)
(*                                                                          *)
(* Every database call is a step of its own.  Up to MaxFaults of them fail. *)
(* What the provider answers is any answer; retries inside one batch are    *)
(* not told apart from the answer they end in.                              *)
(*                                                                          *)
(* Definitions X_Y next to X are mutations of X that a check substitutes    *)
(* to see a property fail; nothing else uses them.                          *)
(***************************************************************************)
EXTENDS Naturals, Sequences, FiniteSets

CONSTANTS
    Tools,        \* rows of tool_risk_assessment
    Providers,    \* rows of ai_provider
    AutoAssess,   \* those with auto_assess
    Callers,      \* goroutines that may be inside queueAssessment
    Runners,      \* goroutines of launchJob
    BatchSize,    \* tools in one request to the provider
    Workers,      \* min(max(MaxConcurrency, 1), 3)
    Scopes,       \* what administrators ask for
    Admin,        \* what else administrators do
    MaxSyncs,     \* bound: syncs that find a new or changed tool
    MaxRequests,  \* bound: jobs administrators ask for
    MaxAdmin,     \* bound: cancellations and changes of the provider
    MaxCrashes,   \* bound: crashes
    MaxFaults,    \* bound: database calls that fail
    None

ASSUME RiskJobsAssumption ==
    /\ IsFiniteSet(Tools) /\ AutoAssess \subseteq Providers
    /\ BatchSize \in Nat \ {0} /\ Workers \in 1..3
    /\ Scopes \subseteq {"pending", "needs_review"}
    /\ Admin \subseteq {"cancel", "activate", "disable"}
    /\ MaxSyncs \in Nat /\ MaxRequests \in Nat /\ MaxAdmin \in Nat
    /\ MaxCrashes \in Nat /\ MaxFaults \in Nat
    /\ None \notin Callers \cup Providers

VARIABLES
    rating,     \* status of each tool
    jobs,       \* risk_assessment_job, by created_at
    active,     \* the active provider
    enabled,    \* the enabled ones
    running,    \* GovernanceService.running: provider -> job
    queueMu,    \* who holds it
    caller,     \* queueAssessment, by goroutine
    runner,     \* launchJob's goroutines
    observers,  \* ToolsReplaced calls between Reconcile and the trigger
    autoTrigger,\* the debounce timer is set
    boot,       \* where Resume is
    resume,     \* what it has left to launch
    spent       \* history: how much of each bound is used

store == <<rating, jobs, active, enabled>>
memory == <<running, queueMu, caller, runner, observers, autoTrigger>>
vars == <<store, memory, boot, resume, spent>>

Statuses == {"queued", "running", "completed", "partial", "failed", "cancelled"}
Ended == {"completed", "partial", "failed", "cancelled"}
Job == [provider : Providers, scope : {"pending", "needs_review"},
        status : Statuses]
JobIds == 1..Len(jobs)
Outcome == [good : BOOLEAN, bad : BOOLEAN]

(* good, bad: SuccessCount and FailureCount are not zero.  out: the batches  *)
(* whose outcome the consumer has not received.                              *)
Runner == [pc : {"idle", "claim", "provider", "load", "work", "save", "write",
                 "release", "next", "launch"},
           job : Nat, items : SUBSET Tools, out : Seq(Outcome),
           good : BOOLEAN, bad : BOOLEAN, final : Ended]
idleRunner == [pc |-> "idle", job |-> 0, items |-> {}, out |-> <<>>,
               good |-> FALSE, bad |-> FALSE, final |-> "completed"]
Caller == [pc : {"idle", "lock", "check", "create", "launch"},
           scope : {"pending", "needs_review"}, auto : BOOLEAN,
           provider : Providers \cup {None}, job : Nat]
idleCaller == [pc |-> "idle", scope |-> "pending", auto |-> FALSE,
               provider |-> None, job |-> 0]
Bounded == [syncs : 0..MaxSyncs, requests : 0..MaxRequests,
            admin : 0..MaxAdmin, crashes : 0..MaxCrashes, faults : 0..MaxFaults]

TypeOK ==
    /\ rating \in [Tools -> {"absent", "pending", "rated", "needs_review", "error"}]
    /\ jobs \in Seq(Job)
    /\ active \in Providers \cup {None} /\ enabled \subseteq Providers
    /\ running \in [Providers -> 0..Len(jobs)]
    /\ queueMu \in Callers \cup {None}
    /\ caller \in [Callers -> Caller]
    /\ runner \in [Runners -> Runner]
    /\ observers \in Nat /\ autoTrigger \in BOOLEAN
    /\ boot \in {"recover", "list", "launch", "up"}
    /\ resume \subseteq JobIds
    /\ spent \in Bounded

Init ==
    /\ rating = [t \in Tools |-> "absent"]
    /\ jobs = <<>>
    /\ active \in Providers /\ enabled = Providers
    /\ running = [p \in Providers |-> 0]
    /\ queueMu = None
    /\ caller = [c \in Callers |-> idleCaller]
    /\ runner = [r \in Runners |-> idleRunner]
    /\ observers = 0 /\ autoTrigger = FALSE
    /\ boot = "up" /\ resume = {}
    /\ spent = [syncs |-> 0, requests |-> 0, admin |-> 0, crashes |-> 0,
                faults |-> 0]

Spend(bound, max) ==
    /\ spent[bound] < max
    /\ spent' = [spent EXCEPT ![bound] = @ + 1]
DBFails == Spend("faults", MaxFaults)
DBAnswers == spent' = spent

(* RiskJobRepo.                                                              *)
HasStatus(p, status) ==
    \E j \in JobIds : jobs[j].provider = p /\ jobs[j].status = status
Queued == {j \in JobIds : jobs[j].status = "queued"}
Oldest(S) == CHOOSE j \in S : \A k \in S : j <= k
SetStatus(j, status) == jobs' = [jobs EXCEPT ![j].status = status]
(* A job that was cancelled meanwhile stays so.                              *)
UpdateProgress(j, status) ==
    IF jobs[j].status = "cancelled" THEN jobs' = jobs ELSE SetStatus(j, status)

(* ToolRiskRepo: ListAssessable and ListNeedsReview.                         *)
Listed(scope) ==
    {t \in Tools : rating[t] \in (IF scope = "needs_review" THEN {"needs_review"}
                                  ELSE {"pending", "error"})}

(* Mutation: Store instead of LoadOrStore.                                   *)
Launch_Store(j, pool, rest) ==
    /\ running' = [running EXCEPT ![jobs[j].provider] = j]
    /\ \E r \in pool : runner' =
           [rest EXCEPT ![r] = [idleRunner EXCEPT !.pc = "claim", !.job = j]]
(***************************************************************************)
(* launchJob: pool is who may become its goroutine, rest what the runners   *)
(* are apart from that.                                                     *)
(***************************************************************************)
Launch(j, pool, rest) ==
    LET p == jobs[j].provider IN
    IF running[p] # 0
    THEN running' = running /\ runner' = rest
    ELSE /\ running' = [running EXCEPT ![p] = j]
         /\ \E r \in pool : runner' =
                [rest EXCEPT ![r] = [idleRunner EXCEPT !.pc = "claim", !.job = j]]
IdleRunners == {r \in Runners : runner[r].pc = "idle"}

(***************************************************************************)
(* A sync: Reconcile marks what is new or changed, then the automatic       *)
(* trigger is set, or joined when it is set already.                        *)
(***************************************************************************)
Reconcile(t) ==
    /\ boot = "up"
    /\ Spend("syncs", MaxSyncs)
    /\ rating' = [rating EXCEPT ![t] = "pending"]
    /\ observers' = observers + 1
    /\ UNCHANGED <<jobs, active, enabled, running, queueMu, caller, runner,
                   autoTrigger, boot, resume>>

TriggerAutoAssessment ==
    /\ observers > 0
    /\ observers' = observers - 1
    /\ autoTrigger' = TRUE
    /\ UNCHANGED <<store, running, queueMu, caller, runner, boot, resume, spent>>

Enter(c, scope, auto) ==
    /\ caller[c].pc = "idle"
    /\ caller' = [caller EXCEPT ![c] = [idleCaller EXCEPT !.pc = "lock",
                                        !.scope = scope, !.auto = auto]]
    /\ UNCHANGED <<store, running, queueMu, runner, observers, boot, resume>>

(* The timer fires: what is synced from now on sets a new one.               *)
Fire(c) ==
    /\ autoTrigger
    /\ autoTrigger' = FALSE
    /\ Enter(c, "pending", TRUE)
    /\ UNCHANGED spent
Request(c, scope) ==
    /\ boot = "up"
    /\ Spend("requests", MaxRequests)
    /\ Enter(c, scope, FALSE)
    /\ UNCHANGED autoTrigger

(***************************************************************************)
(* queueAssessment.                                                         *)
(***************************************************************************)
Lock(c) ==
    /\ caller[c].pc = "lock" /\ queueMu = None
    /\ queueMu' = c
    /\ caller' = [caller EXCEPT ![c].pc = "check"]
    /\ UNCHANGED <<store, running, runner, observers, autoTrigger, boot, resume,
                   spent>>

Leave(c) ==
    /\ queueMu' = None
    /\ caller' = [caller EXCEPT ![c] = idleCaller]
    /\ UNCHANGED <<store, running, runner, observers, autoTrigger, boot, resume>>

(* What lets a job in: none is queued; and none is running, unless this is   *)
(* the follow-up of the automatic trigger.                                   *)
Admits(c, p) ==
    /\ ~HasStatus(p, "queued")
    /\ HasStatus(p, "running") => caller[c].auto /\ caller[c].scope = "pending"

MayQueue(c) ==
    /\ active # None
    /\ caller[c].auto => active \in AutoAssess
    /\ Admits(c, active)

Check(c) ==
    /\ caller[c].pc = "check"
    /\ \/ /\ MayQueue(c) /\ DBAnswers
          /\ caller' = [caller EXCEPT ![c].pc = "create",
                                      ![c].provider = active]
          /\ UNCHANGED <<store, running, queueMu, runner, observers,
                         autoTrigger, boot, resume>>
       \/ ~MayQueue(c) /\ DBAnswers /\ Leave(c)
       \/ DBFails /\ Leave(c)

(* Nothing to rate, no job.                                                  *)
Create(c) ==
    /\ caller[c].pc = "create"
    /\ \/ /\ Listed(caller[c].scope) # {} /\ DBAnswers
          /\ jobs' = Append(jobs, [provider |-> caller[c].provider,
                                   scope |-> caller[c].scope,
                                   status |-> "queued"])
          /\ caller' = [caller EXCEPT ![c].pc = "launch",
                                      ![c].job = Len(jobs) + 1]
          /\ UNCHANGED <<rating, active, enabled, running, queueMu, runner,
                         observers, autoTrigger, boot, resume>>
       \/ Listed(caller[c].scope) = {} /\ DBAnswers /\ Leave(c)
       \/ DBFails /\ Leave(c)

LaunchCreated(c) ==
    /\ caller[c].pc = "launch"
    /\ Launch(caller[c].job, IdleRunners, runner)
    /\ queueMu' = None
    /\ caller' = [caller EXCEPT ![c] = idleCaller]
    /\ UNCHANGED <<store, observers, autoTrigger, boot, resume, spent>>

(***************************************************************************)
(* runJob.                                                                  *)
(***************************************************************************)
Step(r, from, new) ==
    /\ runner[r].pc = from
    /\ runner' = [runner EXCEPT ![r] = new]
    /\ UNCHANGED <<active, enabled, running, queueMu, caller, observers,
                   autoTrigger, boot, resume>>
To(r, pc) == [runner[r] EXCEPT !.pc = pc]
(* The status UpdateProgress writes before the goroutine gives up its slot.  *)
End(r, status) == [runner[r] EXCEPT !.pc = "write", !.final = status]
JobOf(r) == jobs[runner[r].job]

(* SetRunning: a job that is not queued any more is somebody else's.         *)
SetRunning(r) ==
    \/ /\ Step(r, "claim", To(r, "provider")) /\ DBAnswers
       /\ JobOf(r).status = "queued"
       /\ SetStatus(runner[r].job, "running")
       /\ UNCHANGED rating
    \/ /\ Step(r, "claim", To(r, "release")) /\ DBAnswers
       /\ JobOf(r).status # "queued"
       /\ UNCHANGED <<rating, jobs>>
    \/ Step(r, "claim", End(r, "failed")) /\ DBFails /\ UNCHANGED <<rating, jobs>>
GetProvider(r) ==
    /\ UNCHANGED <<rating, jobs>>
    /\ \/ /\ Step(r, "provider", To(r, "load")) /\ DBAnswers
          /\ JobOf(r).provider \in enabled
       \/ /\ Step(r, "provider", End(r, "cancelled")) /\ DBAnswers
          /\ JobOf(r).provider \notin enabled
       \/ Step(r, "provider", End(r, "failed")) /\ DBFails

Load(r) ==
    /\ UNCHANGED <<rating, jobs>>
    /\ \/ Step(r, "load", [To(r, "work") EXCEPT !.items = Listed(JobOf(r).scope)])
          /\ DBAnswers
       \/ Step(r, "load", End(r, "failed")) /\ DBFails

(* What a batch leaves: a tool whose result could not be stored keeps its    *)
(* rating.                                                                   *)
Rate(r, batch, result, lost) ==
    /\ rating' = [t \in Tools |-> IF t \in batch \ lost THEN result[t]
                                  ELSE rating[t]]
    /\ LET bad == {t \in batch : result[t] = "error" \/ t \in lost}
           outcome == [good |-> bad # batch, bad |-> bad # {}]
       IN Step(r, runner[r].pc, [runner[r] EXCEPT !.items = @ \ batch,
                                                  !.out = Append(@, outcome)])

(* A worker has a batch rated while the consumer works or saves.             *)
Assess(r) ==
    /\ runner[r].pc \in {"work", "save"} /\ runner[r].items # {}
    /\ Len(runner[r].out) < Workers
    /\ \E batch \in SUBSET runner[r].items :
         /\ Cardinality(batch) <= BatchSize
         /\ Cardinality(batch) = BatchSize \/ batch = runner[r].items
         /\ \E result \in [batch -> {"rated", "needs_review", "error"}] :
            \E lost \in SUBSET batch :
              /\ IF lost = {} THEN DBAnswers ELSE DBFails
              /\ Rate(r, batch, result, lost)
    /\ UNCHANGED jobs

(* The consumer takes an outcome and reads its job: a cancelled one, or one  *)
(* it cannot read, is left as it is.                                         *)
Receive(r) ==
    /\ runner[r].out # <<>>
    /\ UNCHANGED <<rating, jobs>>
    /\ LET outcome == Head(runner[r].out) IN
       \/ /\ JobOf(r).status # "cancelled" /\ DBAnswers
          /\ Step(r, "work", [runner[r] EXCEPT !.pc = "save", !.out = Tail(@),
                                               !.good = @ \/ outcome.good,
                                               !.bad = @ \/ outcome.bad])
       \/ /\ JobOf(r).status = "cancelled" /\ DBAnswers
          /\ Step(r, "work", [idleRunner EXCEPT !.pc = "release",
                                                !.job = runner[r].job])
       \/ /\ DBFails
          /\ Step(r, "work", [idleRunner EXCEPT !.pc = "release",
                                                !.job = runner[r].job])

SaveProgress(r) ==
    /\ Step(r, "save", To(r, "work"))
    /\ \/ UpdateProgress(runner[r].job, "running") /\ DBAnswers
       \/ DBFails /\ UNCHANGED jobs
    /\ UNCHANGED rating

Finish(r) ==
    /\ runner[r].items = {} /\ runner[r].out = <<>>
    /\ Step(r, "work", End(r, IF ~runner[r].bad THEN "completed"
                              ELSE IF runner[r].good THEN "partial"
                              ELSE "failed"))
    /\ UNCHANGED <<rating, jobs, spent>>

Write(r) ==
    /\ Step(r, "write", To(r, "release"))
    /\ \/ UpdateProgress(runner[r].job, runner[r].final) /\ DBAnswers
       \/ DBFails /\ UNCHANGED jobs
    /\ UNCHANGED rating

(* Mutation: nobody looks for the next job.                                  *)
Release_Only(r) ==
    /\ runner[r].pc = "release"
    /\ running' = [running EXCEPT ![JobOf(r).provider] = 0]
    /\ runner' = [runner EXCEPT ![r] = idleRunner]
    /\ UNCHANGED <<store, queueMu, caller, observers, autoTrigger, boot, resume,
                   spent>>
(***************************************************************************)
(* The deferred function: the slot first, then the provider's next job.     *)
(***************************************************************************)
Release(r) ==
    /\ runner[r].pc = "release"
    /\ running' = [running EXCEPT ![JobOf(r).provider] = 0]
    /\ runner' = [runner EXCEPT ![r] = [idleRunner EXCEPT
                                             !.pc = "next", !.job = runner[r].job]]
    /\ UNCHANGED <<store, queueMu, caller, observers, autoTrigger, boot, resume,
                   spent>>

ListNext(r) ==
    /\ runner[r].pc = "next"
    /\ UNCHANGED <<rating, jobs>>
    /\ LET mine == {j \in Queued : jobs[j].provider = JobOf(r).provider} IN
       \/ /\ mine # {} /\ DBAnswers
          /\ Step(r, "next", [To(r, "launch") EXCEPT !.job = Oldest(mine)])
       \/ mine = {} /\ DBAnswers /\ Step(r, "next", idleRunner)
       \/ DBFails /\ Step(r, "next", idleRunner)

LaunchNext(r) ==
    /\ runner[r].pc = "launch"
    /\ Launch(runner[r].job, {r}, [runner EXCEPT ![r] = idleRunner])
    /\ UNCHANGED <<store, queueMu, caller, observers, autoTrigger, boot, resume,
                   spent>>

(***************************************************************************)
(* Administrators.                                                          *)
(***************************************************************************)
AdminDoes(what) ==
    /\ what \in Admin /\ boot = "up"
    /\ Spend("admin", MaxAdmin)
    /\ UNCHANGED <<rating, memory, boot, resume>>
Cancel(j) ==
    /\ AdminDoes("cancel")
    /\ jobs[j].status \in {"queued", "running"}
    /\ SetStatus(j, "cancelled")
    /\ UNCHANGED <<active, enabled>>
Activate(p) ==
    /\ AdminDoes("activate")
    /\ p \in enabled /\ p # active
    /\ active' = p
    /\ UNCHANGED <<jobs, enabled>>
Disable(p) ==
    /\ AdminDoes("disable")
    /\ p \in enabled
    /\ enabled' = enabled \ {p}
    /\ active' = (IF active = p THEN None ELSE active)
    /\ UNCHANGED jobs

(***************************************************************************)
(* A crash, and Resume before the next start serves anything.  A start that *)
(* fails is tried again.                                                    *)
(***************************************************************************)
Crash ==
    /\ Spend("crashes", MaxCrashes)
    /\ boot' = "recover" /\ resume' = {}
    /\ running' = [p \in Providers |-> 0]
    /\ queueMu' = None
    /\ caller' = [c \in Callers |-> idleCaller]
    /\ runner' = [r \in Runners |-> idleRunner]
    /\ observers' = 0 /\ autoTrigger' = FALSE
    /\ UNCHANGED store

(* Mutation: the jobs that were running are left so.                         *)
RecoverRunning_Skip ==
    /\ boot = "recover" /\ boot' = "list"
    /\ UNCHANGED <<store, memory, resume, spent>>
RecoverRunning ==
    /\ boot = "recover"
    /\ \/ /\ DBAnswers /\ boot' = "list"
          /\ jobs' = [j \in JobIds |-> IF jobs[j].status = "running"
                                       THEN [jobs[j] EXCEPT !.status = "queued"]
                                       ELSE jobs[j]]
       \/ DBFails /\ UNCHANGED <<boot, jobs>>
    /\ UNCHANGED <<rating, active, enabled, memory, resume>>

ListQueued ==
    /\ boot = "list"
    /\ \/ DBAnswers /\ boot' = "launch" /\ resume' = Queued
       \/ DBFails /\ boot' = "recover" /\ resume' = {}
    /\ UNCHANGED <<store, memory>>

LaunchResumed ==
    /\ boot = "launch"
    /\ IF resume = {}
       THEN boot' = "up" /\ UNCHANGED <<running, runner, resume>>
       ELSE /\ Launch(Oldest(resume), IdleRunners, runner)
            /\ resume' = resume \ {Oldest(resume)}
            /\ UNCHANGED boot
    /\ UNCHANGED <<store, queueMu, caller, observers, autoTrigger, spent>>

CallerStep(c) == Lock(c) \/ Check(c) \/ Create(c) \/ LaunchCreated(c)
RunnerStep(r) ==
    \/ SetRunning(r) \/ GetProvider(r) \/ Load(r)
    \/ Assess(r) \/ Receive(r) \/ SaveProgress(r) \/ Finish(r) \/ Write(r)
    \/ Release(r) \/ ListNext(r) \/ LaunchNext(r)
Resume == RecoverRunning \/ ListQueued \/ LaunchResumed
Trigger == TriggerAutoAssessment \/ \E c \in Callers : Fire(c)

Next ==
    \/ \E t \in Tools : Reconcile(t)
    \/ Trigger
    \/ \E c \in Callers : CallerStep(c) \/ \E s \in Scopes : Request(c, s)
    \/ \E r \in Runners : RunnerStep(r)
    \/ \E j \in JobIds : Cancel(j)
    \/ \E p \in Providers : Activate(p) \/ Disable(p)
    \/ Crash
    \/ Resume

(* Goroutines are scheduled, the timer fires, a start that failed is tried   *)
(* again; nobody has to ask for, cancel or change anything.                  *)
Fairness ==
    /\ WF_vars(Trigger)
    /\ WF_vars(Resume)
    /\ \A c \in Callers : WF_vars(CallerStep(c))
    /\ \A r \in Runners : WF_vars(RunnerStep(r))

Spec == Init /\ [][Next]_vars
FairSpec == Spec /\ Fairness

(***************************************************************************)
(* Properties.                                                              *)
(***************************************************************************)
(* The rows a runner works on, between SetRunning and its last write, are    *)
(* its own: no two runners are in the middle of jobs of the same provider.   *)
(* launchJob takes the slot before it starts a goroutine.                    *)
Working(r) == runner[r].pc \in {"claim", "provider", "load", "work", "save", "write"}
OneRunnerPerProvider ==
    \A r, q \in Runners :
        Working(r) /\ Working(q) /\ r # q => JobOf(r).provider # JobOf(q).provider

(* While the process lives, a job that waits has somebody who will start it: *)
(* the goroutine that created it, the holder of its provider's slot, one     *)
(* that looks for the next job, or Resume.  (Unless a database call failed:   *)
(* whoever could not list the queue leaves it to the next restart.)          *)
QueuedJobHasStarter ==
    \A j \in JobIds : jobs[j].status = "queued" /\ spent.faults = 0 =>
        \/ boot # "up"
        \/ \E c \in Callers : caller[c].pc = "launch" /\ caller[c].job = j
        \/ running[jobs[j].provider] # 0
        \/ \E r \in Runners : /\ runner[r].pc \in {"next", "launch"}
                              /\ JobOf(r).provider = jobs[j].provider

(* A job that ended stays as it ended: runJob and UpdateProgress overwrite   *)
(* neither a cancellation nor what another goroutine finished.  (Unless a     *)
(* database call failed: a runner whose SetRunning failed goes on.)          *)
EndIsFinal ==
    [][spent.faults = 0 =>
        \A j \in JobIds : jobs[j].status \in Ended => jobs'[j] = jobs[j]]_vars

(* A job ends: as long as no call to the database fails it is not left       *)
(* queued or running for ever, whatever is cancelled, disabled or restarted. *)
JobsEnd ==
    [](spent.faults = 0) =>
        \A j \in 1..(MaxSyncs + MaxRequests) :
            (j \in JobIds) ~> (j \in JobIds /\ jobs[j].status \in Ended)

(* A tool a sync found is put to the provider: the trigger that comes while  *)
(* a job runs leaves a follow-up, 「确保任务执行期间新同步进来的工具不会被漏掉」. *)
ToolsAreAssessed ==
    \A t \in Tools : rating[t] = "pending" ~> rating[t] # "pending"
=============================================================================
