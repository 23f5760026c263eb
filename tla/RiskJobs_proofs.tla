--------------------------- MODULE RiskJobs_proofs ---------------------------
(***************************************************************************)
(* Proofs about RiskJobs for every number of tools, providers, goroutines   *)
(* and events: one runner per provider whatever fails and whenever the      *)
(* process crashes; and, when the database answers, jobs that end for good  *)
(* and a starter for every job that waits.                                  *)
(***************************************************************************)
EXTENDS RiskJobs, WellFoundedInduction, TLAPS

SlotPC == {"claim", "provider", "load", "work", "save", "write", "release"}
BegunPC == {"provider", "load", "work", "save", "write"}

(* What goroutines point to exists.                                         *)
Refs ==
    /\ \A c \in Callers : /\ caller[c].pc = "create" => caller[c].provider \in Providers
                          /\ caller[c].pc = "launch" => caller[c].job \in JobIds
    /\ \A r \in Runners : runner[r].pc # "idle" => runner[r].job \in JobIds

(* A runner up to its Release holds the slot of its provider, alone.        *)
SlotHeld ==
    \A r \in Runners : runner[r].pc \in SlotPC => running[JobOf(r).provider] # 0
OneHolder ==
    \A r, q \in Runners :
        /\ runner[r].pc \in SlotPC /\ runner[q].pc \in SlotPC
        /\ JobOf(r).provider = JobOf(q).provider
        => r = q
(* Nothing else happens while Resume looks at the jobs.                     *)
Booting == boot \in {"recover", "list"}
QuietBoot ==
    Booting => /\ \A r \in Runners : runner[r].pc = "idle"
               /\ \A c \in Callers : caller[c].pc = "idle"
               /\ observers = 0 /\ ~autoTrigger

SlotInv == TypeOK /\ Refs /\ SlotHeld /\ OneHolder /\ QuietBoot

(* When the database answers: the row of a job a runner has begun is        *)
(* running, unless it was cancelled.                                        *)
BegunRow ==
    \A r \in Runners : runner[r].pc \in BegunPC =>
        JobOf(r).status \in {"running", "cancelled"}

(* Who will start job j.                                                    *)
Starter(j) ==
    \/ \E c \in Callers : caller[c].pc = "launch" /\ caller[c].job = j
    \/ running[jobs[j].provider] # 0
    \/ \E r \in Runners : /\ runner[r].pc \in {"next", "launch"}
                          /\ JobOf(r).provider = jobs[j].provider
(* QueuedJobHasStarter, with the jobs Resume has launched already.          *)
Started ==
    \A j \in JobIds : jobs[j].status = "queued" =>
        \/ boot \in {"recover", "list"}
        \/ boot = "launch" /\ j \in resume
        \/ Starter(j)

----------------------------------------------------------------------------

LEMMA IdleRecords ==
    /\ idleRunner \in Runner
    /\ idleCaller \in Caller
BY DEF idleRunner, idleCaller, Runner, Caller, Ended, Outcome

(* Each bound is spent within its limit.                                    *)
LEMMA Spending ==
    ASSUME spent \in Bounded
    PROVE  /\ DBAnswers => spent' \in Bounded
           /\ DBFails => spent' \in Bounded
           /\ Spend("syncs", MaxSyncs) => spent' \in Bounded
           /\ Spend("requests", MaxRequests) => spent' \in Bounded
           /\ Spend("admin", MaxAdmin) => spent' \in Bounded
           /\ Spend("crashes", MaxCrashes) => spent' \in Bounded
BY RiskJobsAssumption DEF DBAnswers, DBFails, Spend, Bounded

LEMMA JobRow ==
    ASSUME jobs \in Seq(Job), NEW j \in JobIds
    PROVE  /\ jobs[j] \in Job /\ jobs[j].provider \in Providers
           /\ jobs[j].status \in Statuses
           /\ j \in Nat /\ j # 0 /\ j \in 0..Len(jobs)
<1>1. jobs[j] \in Job /\ j \in Nat /\ j # 0 /\ j \in 0..Len(jobs)
  BY DEF JobIds
<1> QED
  BY <1>1 DEF Job

(* Writing a status changes nothing else of the table.                      *)
LEMMA StatusWritten ==
    ASSUME jobs \in Seq(Job), NEW j \in JobIds, NEW s \in Statuses,
           SetStatus(j, s)
    PROVE  /\ jobs' \in Seq(Job) /\ Len(jobs') = Len(jobs)
           /\ \A k \in JobIds : /\ jobs'[k].provider = jobs[k].provider
                                /\ k # j => jobs'[k] = jobs[k]
           /\ jobs'[j].status = s
<1>1. jobs[j] \in Job
  BY DEF JobIds
<1>2. [jobs[j] EXCEPT !.status = s] \in Job
  BY <1>1 DEF Job
<1>3. jobs' = [jobs EXCEPT ![j] = [jobs[j] EXCEPT !.status = s]]
  BY DEF SetStatus
<1>4. [jobs[j] EXCEPT !.status = s].provider = jobs[j].provider
      /\ [jobs[j] EXCEPT !.status = s].status = s
  BY <1>1 DEF Job
<1> DEFINE fresh == [jobs[j] EXCEPT !.status = s]
<1> HIDE DEF fresh
<1> QED
  BY <1>1, <1>2, <1>3, <1>4 DEF JobIds, fresh

LEMMA ProgressWritten ==
    ASSUME jobs \in Seq(Job), NEW j \in JobIds, NEW s \in Statuses,
           UpdateProgress(j, s)
    PROVE  /\ jobs' \in Seq(Job) /\ Len(jobs') = Len(jobs)
           /\ \A k \in JobIds : /\ jobs'[k].provider = jobs[k].provider
                                /\ k # j => jobs'[k] = jobs[k]
           /\ \/ jobs' = jobs /\ jobs[j].status = "cancelled"
              \/ jobs'[j].status = s /\ jobs[j].status # "cancelled"
<1>1. CASE jobs[j].status = "cancelled"
  BY <1>1 DEF UpdateProgress
<1>2. CASE jobs[j].status # "cancelled"
  <2>1. SetStatus(j, s)
    BY <1>2 DEF UpdateProgress
  <2> QED
    BY <1>2, <2>1, StatusWritten
<1> QED
  BY <1>1, <1>2

----------------------------------------------------------------------------
(* The table of jobs keeps its rows, their order and their providers.       *)
SameTable ==
    /\ jobs' \in Seq(Job) /\ Len(jobs') = Len(jobs)
    /\ \A k \in JobIds : jobs'[k].provider = jobs[k].provider

LEMMA NoJobs == jobs \in Seq(Job) /\ UNCHANGED jobs => SameTable
BY DEF SameTable, JobIds

(* One runner takes a step, without taking or giving up a slot.             *)
LEMMA RunnerMoves ==
    ASSUME SlotInv, NEW r \in Runners, NEW fresh \in Runner,
           runner[r].pc # "idle",
           runner' = [runner EXCEPT ![r] = fresh],
           SameTable, spent' \in Bounded,
           rating' \in [Tools -> {"absent", "pending", "rated", "needs_review", "error"}],
           UNCHANGED <<active, enabled, running, queueMu, caller, observers,
                       autoTrigger, boot, resume>>,
           fresh.pc # "idle" => fresh.job \in JobIds,
           fresh.pc \in SlotPC => runner[r].pc \in SlotPC /\ fresh.job = runner[r].job
    PROVE  SlotInv'
<1>1. TypeOK'
  BY DEF SlotInv, TypeOK, SameTable, JobIds
<1>2. \A q \in Runners : runner'[q] = IF q = r THEN fresh ELSE runner[q]
  BY DEF SlotInv, TypeOK
<1>3. JobIds' = JobIds
  BY DEF SameTable, JobIds
<1>4. Refs'
  BY <1>2, <1>3 DEF SlotInv, Refs
<1>5. \A q \in Runners : runner'[q].pc \in SlotPC =>
        runner[q].pc \in SlotPC /\ JobOf(q)'.provider = JobOf(q).provider
  BY <1>2 DEF SlotInv, Refs, SameTable, JobOf, SlotPC
<1>6. SlotHeld' /\ OneHolder'
  BY <1>5 DEF SlotInv, SlotHeld, OneHolder
<1>7. QuietBoot'
  BY DEF SlotInv, QuietBoot, Booting
<1> QED
  BY <1>1, <1>4, <1>6, <1>7 DEF SlotInv

(* launchJob, when the goroutines that do not hold a slot are as in rest.   *)
LEMMA Launches ==
    ASSUME SlotInv, NEW j \in JobIds, NEW pool \in SUBSET Runners,
           NEW rest \in [Runners -> Runner],
           \A q \in Runners : \/ rest[q] = runner[q]
                              \/ rest[q] = idleRunner /\ runner[q].pc \notin SlotPC,
           \A q \in pool : runner[q].pc \notin SlotPC,
           Launch(j, pool, rest),
           UNCHANGED jobs
    PROVE  /\ runner' \in [Runners -> Runner]
           /\ running' \in [Providers -> 0..Len(jobs)]
           /\ \A q \in Runners : runner'[q].pc # "idle" => runner'[q].job \in JobIds
           /\ SlotHeld' /\ OneHolder'
           /\ \A p \in Providers : running[p] # 0 => running'[p] # 0
           /\ running'[jobs[j].provider] # 0
           /\ \A q \in Runners :
                 \/ runner'[q] = rest[q]
                 \/ q \in pool /\ runner'[q].pc = "claim"
<1> DEFINE p == jobs[j].provider
           claim == [idleRunner EXCEPT !.pc = "claim", !.job = j]
<1>1. p \in Providers /\ jobs[j] \in Job
  BY JobRow DEF SlotInv, TypeOK
<1>2. j \in Nat /\ j # 0 /\ j \in 0..Len(jobs)
  BY JobRow DEF SlotInv, TypeOK
<1>3. claim \in Runner /\ claim.pc = "claim" /\ claim.job = j
  BY <1>2, IdleRecords DEF Runner, idleRunner
<1>4. idleRunner.pc = "idle"
  BY DEF idleRunner
<1>5. running \in [Providers -> 0..Len(jobs)] /\ runner \in [Runners -> Runner]
  BY DEF SlotInv, TypeOK
<1>6. \A q \in Runners : /\ rest[q].pc # "idle" => rest[q].job \in JobIds
                         /\ rest[q].pc \in SlotPC => rest[q] = runner[q]
  BY <1>4 DEF SlotInv, Refs, SlotPC
<1> HIDE DEF claim, p
<1>7. CASE running[p] # 0
  <2>1. running' = running /\ runner' = rest
    BY <1>7 DEF Launch, p
  <2>2. \A q \in Runners : runner'[q].pc \in SlotPC =>
          runner[q].pc \in SlotPC /\ JobOf(q)' = JobOf(q)
    BY <2>1, <1>6 DEF JobOf
  <2>3. SlotHeld' /\ OneHolder'
    BY <2>1, <2>2 DEF SlotInv, SlotHeld, OneHolder
  <2> QED
    BY <2>1, <2>3, <1>5, <1>6, <1>7 DEF p
<1>8. CASE running[p] = 0
  <2>1. /\ running' = [running EXCEPT ![p] = j]
        /\ \E r \in pool : runner' = [rest EXCEPT ![r] = claim]
    BY <1>8 DEF Launch, p, claim
  <2>2. PICK r \in pool : runner' = [rest EXCEPT ![r] = claim]
    BY <2>1
  <2>3. \A q \in Runners : runner'[q] = IF q = r THEN claim ELSE rest[q]
    BY <2>2
  <2>4. running' \in [Providers -> 0..Len(jobs)] /\ running'[p] = j
        /\ \A o \in Providers : o # p => running'[o] = running[o]
    BY <2>1, <1>1, <1>2, <1>5
  <2>5. \A q \in Runners : runner'[q].pc \in SlotPC =>
          \/ q = r /\ JobOf(q)'.provider = p
          \/ q # r /\ runner[q].pc \in SlotPC /\ JobOf(q)' = JobOf(q)
             /\ JobOf(q).provider # p
    <3>1. \A q \in Runners : runner[q].pc \in SlotPC => JobOf(q).provider # p
      BY <1>8 DEF SlotInv, SlotHeld
    <3> QED
      BY <3>1, <2>3, <1>3, <1>6 DEF JobOf, p
  <2>6. \A q \in Runners : runner[q].pc \in SlotPC => JobOf(q).provider \in Providers
    BY JobRow DEF SlotInv, Refs, TypeOK, JobOf, SlotPC
  <2>7. SlotHeld'
    BY <2>4, <2>5, <2>6, <1>2 DEF SlotInv, SlotHeld
  <2>8. OneHolder'
    BY <2>5 DEF SlotInv, OneHolder
  <2>9. runner' \in [Runners -> Runner]
    BY <2>2, <1>3
  <2> QED
    BY <2>3, <2>4, <2>7, <2>8, <2>9, <1>1, <1>2, <1>3, <1>6 DEF p
<1> QED
  BY <1>7, <1>8

----------------------------------------------------------------------------
(* Nothing a slot depends on changes.                                       *)
LEMMA SlotsStay ==
    ASSUME SlotInv, TypeOK', Refs', SameTable, UNCHANGED <<running, runner>>,
           QuietBoot'
    PROVE  SlotInv'
<1>1. \A r \in Runners : runner[r].pc \in SlotPC =>
        JobOf(r)'.provider = JobOf(r).provider
  BY DEF SlotInv, Refs, SameTable, JobOf, SlotPC
<1>2. SlotHeld' /\ OneHolder'
  BY <1>1 DEF SlotInv, SlotHeld, OneHolder
<1> QED
  BY <1>2 DEF SlotInv

LEMMA CallerSteps ==
    ASSUME SlotInv, ~Booting, NEW c \in Callers, NEW fresh \in Caller,
           caller' = [caller EXCEPT ![c] = fresh],
           UNCHANGED <<jobs, rating, active, enabled, running, runner, boot, resume>>,
           fresh.pc = "create" => fresh.provider \in Providers,
           fresh.pc # "launch",
           queueMu' \in Callers \cup {None}, observers' \in Nat,
           autoTrigger' \in BOOLEAN, spent' \in Bounded
    PROVE  SlotInv'
<1>1. TypeOK'
  BY DEF SlotInv, TypeOK, JobIds
<1>2. Refs'
  BY DEF SlotInv, TypeOK, Refs, JobIds
<1>3. QuietBoot'
  BY DEF QuietBoot, Booting
<1> QED
  BY <1>1, <1>2, <1>3, SlotsStay, NoJobs DEF SlotInv, TypeOK

(* A caller inside queueAssessment: Resume is past its reading.             *)
LEMMA CallerInside ==
    ASSUME SlotInv, NEW c \in Callers, caller[c].pc # "idle"
    PROVE  ~Booting
BY DEF SlotInv, QuietBoot

LEMMA EnterSlots ==
    ASSUME SlotInv, ~Booting, NEW c \in Callers,
           NEW s \in {"pending", "needs_review"}, NEW auto \in BOOLEAN,
           Enter(c, s, auto), autoTrigger' \in BOOLEAN, spent' \in Bounded
    PROVE  SlotInv'
<1> DEFINE fresh == [idleCaller EXCEPT !.pc = "lock", !.scope = s, !.auto = auto]
<1>1. fresh \in Caller /\ fresh.pc = "lock"
  BY DEF idleCaller, Caller
<1>2. caller' = [caller EXCEPT ![c] = fresh]
  BY DEF Enter
<1> HIDE DEF fresh
<1> QED
  BY <1>1, <1>2, CallerSteps DEF Enter, store, SlotInv, TypeOK

LEMMA LeaveSlots ==
    ASSUME SlotInv, ~Booting, NEW c \in Callers, Leave(c), spent' \in Bounded
    PROVE  SlotInv'
<1>1. idleCaller.pc = "idle"
  BY DEF idleCaller
<1> QED
  BY <1>1, IdleRecords, CallerSteps DEF Leave, store, SlotInv, TypeOK

LEMMA LockSlots ==
    ASSUME SlotInv, NEW c \in Callers, Lock(c)
    PROVE  SlotInv'
<1> DEFINE fresh == [caller[c] EXCEPT !.pc = "check"]
<1>1. fresh \in Caller /\ fresh.pc = "check"
  BY DEF SlotInv, TypeOK, Caller
<1>2. caller' = [caller EXCEPT ![c] = fresh]
  BY DEF Lock
<1> HIDE DEF fresh
<1> QED
  BY <1>1, <1>2, CallerSteps, CallerInside DEF Lock, store, SlotInv, TypeOK

LEMMA CheckSlots ==
    ASSUME SlotInv, NEW c \in Callers, Check(c)
    PROVE  SlotInv'
<1>1. spent' \in Bounded
  BY Spending DEF SlotInv, TypeOK, Check
<1>2. CASE Leave(c)
  BY <1>1, <1>2, LeaveSlots, CallerInside DEF Check, Create
<1>3. CASE ~Leave(c)
  <2> DEFINE fresh == [caller[c] EXCEPT !.pc = "create", !.provider = active]
  <2>1. active \in Providers /\ caller' = [caller EXCEPT ![c] = fresh]
        /\ UNCHANGED <<store, running, queueMu, runner, observers, autoTrigger,
                       boot, resume>>
    BY <1>3 DEF Check, MayQueue, SlotInv, TypeOK
  <2>2. fresh \in Caller /\ fresh.pc = "create" /\ fresh.provider = active
    BY <2>1 DEF SlotInv, TypeOK, Caller
  <2> HIDE DEF fresh
  <2> QED
    BY <1>1, <2>1, <2>2, CallerSteps, CallerInside DEF Check, store, SlotInv, TypeOK
<1> QED
  BY <1>2, <1>3

(* A fresh row changes none that is there.                                    *)
LEMMA Appended ==
    ASSUME SlotInv, NEW row \in Job, jobs' = Append(jobs, row)
    PROVE  /\ jobs' \in Seq(Job) /\ Len(jobs') = Len(jobs) + 1
           /\ jobs'[Len(jobs) + 1] = row
           /\ \A k \in JobIds : jobs'[k] = jobs[k] /\ k \in JobIds'
           /\ Len(jobs) + 1 \in JobIds' /\ Len(jobs) + 1 \in Nat
           /\ \A k \in JobIds' : k \in JobIds \/ k = Len(jobs) + 1
BY DEF SlotInv, TypeOK, JobIds

LEMMA CreateSlots ==
    ASSUME SlotInv, NEW c \in Callers, Create(c)
    PROVE  SlotInv'
<1>1. spent' \in Bounded
  BY Spending DEF SlotInv, TypeOK, Create
<1>2. CASE Leave(c)
  BY <1>1, <1>2, LeaveSlots, CallerInside DEF Check, Create
<1>3. CASE ~Leave(c)
  <2> DEFINE row == [provider |-> caller[c].provider, scope |-> caller[c].scope,
                     status |-> "queued"]
             fresh == [caller[c] EXCEPT !.pc = "launch", !.job = Len(jobs) + 1]
  <2>1. /\ caller[c].pc = "create" /\ jobs' = Append(jobs, row)
        /\ caller' = [caller EXCEPT ![c] = fresh]
        /\ UNCHANGED <<rating, active, enabled, running, queueMu, runner,
                       observers, autoTrigger, boot, resume>>
    BY <1>3 DEF Create
  <2>2. row \in Job
    BY <2>1 DEF SlotInv, TypeOK, Refs, Caller, Job, Statuses
  <2>3. fresh \in Caller /\ fresh.pc = "launch" /\ fresh.job = Len(jobs) + 1
    <3>1. caller[c] \in Caller /\ Len(jobs) + 1 \in Nat
      BY DEF SlotInv, TypeOK
    <3> QED
      BY <3>1 DEF Caller
  <2> HIDE DEF row, fresh
  <2>4. TypeOK'
    BY <1>1, <2>1, <2>2, <2>3, Appended DEF SlotInv, TypeOK, JobIds
  <2>5. Refs'
    BY <2>1, <2>2, <2>3, Appended DEF SlotInv, TypeOK, Refs
  <2>6. \A r \in Runners : runner[r].pc \in SlotPC => JobOf(r)' = JobOf(r)
    BY <2>1, <2>2, Appended DEF SlotInv, Refs, JobOf, SlotPC
  <2>7. SlotHeld' /\ OneHolder' /\ QuietBoot'
    BY <2>1, <2>6, CallerInside DEF SlotInv, SlotHeld, OneHolder, QuietBoot, Booting
  <2> QED
    BY <2>4, <2>5, <2>7 DEF SlotInv
<1> QED
  BY <1>2, <1>3

----------------------------------------------------------------------------
LEMMA OldestIsOne ==
    ASSUME NEW S \in SUBSET Nat, S # {}
    PROVE  Oldest(S) \in S
<1>1. PICK x \in S : \A y \in S : ~ (<<y, x>> \in OpToRel(<, Nat))
  BY WFMin, NatLessThanWellFounded, Zenon
<1>2. \A y \in S : ~ (y < x)
  BY <1>1, Zenon DEF OpToRel
<1>3. \A y \in S : x <= y
  BY <1>2
<1> QED
  BY <1>3 DEF Oldest

LEMMA JobIdsAreNat == jobs \in Seq(Job) => JobIds \subseteq Nat
BY DEF JobIds

LEMMA LaunchCreatedSlots ==
    ASSUME SlotInv, NEW c \in Callers, LaunchCreated(c)
    PROVE  SlotInv'
<1> DEFINE j == caller[c].job
<1>1. /\ j \in JobIds /\ ~Booting
      /\ Launch(j, IdleRunners, runner)
      /\ caller' = [caller EXCEPT ![c] = idleCaller]
      /\ queueMu' = None /\ spent' = spent
      /\ UNCHANGED <<store, observers, autoTrigger, boot, resume>>
  BY CallerInside DEF LaunchCreated, SlotInv, Refs
<1>2. idleCaller \in Caller /\ idleCaller.pc = "idle"
  BY IdleRecords DEF idleCaller
<1>3. \A q \in IdleRunners : q \in Runners /\ runner[q].pc \notin SlotPC
  BY DEF IdleRunners, SlotPC
<1> HIDE DEF j
<1>4. /\ runner' \in [Runners -> Runner]
      /\ running' \in [Providers -> 0..Len(jobs)]
      /\ \A q \in Runners : runner'[q].pc # "idle" => runner'[q].job \in JobIds
      /\ SlotHeld' /\ OneHolder'
  BY <1>1, <1>3, Launches DEF SlotInv, TypeOK, store
<1>5. TypeOK'
  BY <1>1, <1>2, <1>4 DEF SlotInv, TypeOK, store, JobIds
<1>6. Refs' /\ QuietBoot'
  BY <1>1, <1>2, <1>4 DEF SlotInv, TypeOK, Refs, QuietBoot, Booting, store, JobIds
<1> QED
  BY <1>4, <1>5, <1>6 DEF SlotInv

LEMMA LaunchNextSlots ==
    ASSUME SlotInv, NEW r \in Runners, LaunchNext(r)
    PROVE  SlotInv'
<1> DEFINE j == runner[r].job
           rest == [runner EXCEPT ![r] = idleRunner]
<1>1. /\ j \in JobIds /\ ~Booting /\ runner[r].pc = "launch"
      /\ Launch(j, {r}, rest)
      /\ UNCHANGED <<store, queueMu, caller, observers, autoTrigger, boot, resume,
                     spent>>
  BY DEF LaunchNext, SlotInv, Refs, QuietBoot
<1>2. rest \in [Runners -> Runner]
      /\ \A q \in Runners : \/ rest[q] = runner[q]
                            \/ rest[q] = idleRunner /\ runner[q].pc \notin SlotPC
  BY <1>1, IdleRecords DEF SlotInv, TypeOK, SlotPC
<1>3. runner[r].pc \notin SlotPC
  BY <1>1 DEF SlotPC
<1> HIDE DEF j, rest
<1>4. /\ runner' \in [Runners -> Runner]
      /\ running' \in [Providers -> 0..Len(jobs)]
      /\ \A q \in Runners : runner'[q].pc # "idle" => runner'[q].job \in JobIds
      /\ SlotHeld' /\ OneHolder'
  <2>1. {r} \in SUBSET Runners /\ (\A q \in {r} : runner[q].pc \notin SlotPC)
        /\ UNCHANGED jobs
    BY <1>1, <1>3 DEF store
  <2> QED
    BY <1>1, <1>2, <2>1, Launches
<1>5. TypeOK'
  BY <1>1, <1>4 DEF SlotInv, TypeOK, store, JobIds
<1>6. Refs' /\ QuietBoot'
  BY <1>1, <1>4 DEF SlotInv, TypeOK, Refs, QuietBoot, Booting, store, JobIds
<1> QED
  BY <1>4, <1>5, <1>6 DEF SlotInv

LEMMA LaunchResumedSlots ==
    ASSUME SlotInv, LaunchResumed
    PROVE  SlotInv'
<1>1. /\ boot = "launch"
      /\ UNCHANGED <<store, queueMu, caller, observers, autoTrigger, spent>>
  BY DEF LaunchResumed
<1>2. CASE resume = {}
  <2>1. boot' = "up" /\ UNCHANGED <<running, runner, resume>>
    BY <1>2 DEF LaunchResumed
  <2>2. TypeOK' /\ Refs' /\ QuietBoot'
    BY <1>1, <2>1 DEF SlotInv, TypeOK, Refs, QuietBoot, Booting, store, JobIds
  <2> QED
    BY <1>1, <2>1, <2>2, SlotsStay, NoJobs DEF SlotInv, TypeOK, store
<1>3. CASE resume # {}
  <2> DEFINE j == Oldest(resume)
  <2>1. /\ Launch(j, IdleRunners, runner)
        /\ resume' = resume \ {j} /\ boot' = boot
    BY <1>3 DEF LaunchResumed
  <2>2. j \in JobIds
    BY <1>3, OldestIsOne, JobIdsAreNat DEF SlotInv, TypeOK
  <2>3. \A q \in IdleRunners : q \in Runners /\ runner[q].pc \notin SlotPC
    BY DEF IdleRunners, SlotPC
  <2> HIDE DEF j
  <2>4. /\ runner' \in [Runners -> Runner]
        /\ running' \in [Providers -> 0..Len(jobs)]
        /\ \A q \in Runners : runner'[q].pc # "idle" => runner'[q].job \in JobIds
        /\ SlotHeld' /\ OneHolder'
    BY <1>1, <2>1, <2>2, <2>3, Launches DEF SlotInv, TypeOK, store
  <2>5. TypeOK'
    BY <1>1, <2>1, <2>4 DEF SlotInv, TypeOK, store, JobIds
  <2>6. Refs' /\ QuietBoot'
    BY <1>1, <2>1, <2>4 DEF SlotInv, TypeOK, Refs, QuietBoot, Booting, store, JobIds
  <2> QED
    BY <2>4, <2>5, <2>6 DEF SlotInv
<1> QED
  BY <1>2, <1>3

----------------------------------------------------------------------------
(* The steps of a runner.                                                   *)
LEMMA RunnerFields ==
    ASSUME NEW rec \in Runner, NEW pc \in {"idle", "claim", "provider", "load",
               "work", "save", "write", "release", "next", "launch"}
    PROVE  /\ [rec EXCEPT !.pc = pc] \in Runner
           /\ [rec EXCEPT !.pc = pc].pc = pc
           /\ [rec EXCEPT !.pc = pc].job = rec.job
BY DEF Runner

LEMMA EndFields ==
    ASSUME NEW r \in Runners, runner[r] \in Runner, NEW status \in Ended
    PROVE  /\ End(r, status) \in Runner
           /\ End(r, status).pc = "write" /\ End(r, status).job = runner[r].job
BY DEF Runner, End

LEMMA Ratings ==
    ASSUME SlotInv, UNCHANGED rating
    PROVE  rating' \in [Tools -> {"absent", "pending", "rated", "needs_review", "error"}]
BY DEF SlotInv, TypeOK

(* A step from inside a slot that keeps the job.                            *)
LEMMA SlotStep ==
    ASSUME SlotInv, NEW r \in Runners, NEW from \in SlotPC, NEW fresh,
           Step(r, from, fresh), fresh \in Runner, fresh.job = runner[r].job,
           SameTable, spent' \in Bounded,
           rating' \in [Tools -> {"absent", "pending", "rated", "needs_review", "error"}]
    PROVE  SlotInv'
<1>1. /\ runner[r].pc \in SlotPC /\ runner[r].pc # "idle"
      /\ runner' = [runner EXCEPT ![r] = fresh]
      /\ UNCHANGED <<active, enabled, running, queueMu, caller, observers,
                     autoTrigger, boot, resume>>
  BY DEF Step, SlotPC
<1>2. runner[r].job \in JobIds
  BY <1>1 DEF SlotInv, Refs
<1> QED
  BY <1>1, <1>2, RunnerMoves

(* The runner goes on with its job.                                         *)
GoesOn(r, from) ==
    \E fresh \in Runner : Step(r, from, fresh) /\ fresh.job = runner[r].job

LEMMA SetRunningSlots ==
    ASSUME SlotInv, NEW r \in Runners, SetRunning(r)
    PROVE  SlotInv' /\ SameTable
<1> DEFINE j == runner[r].job
<1>1. /\ runner[r].pc = "claim" /\ runner[r] \in Runner /\ j \in JobIds
      /\ jobs \in Seq(Job)
  BY DEF SetRunning, Step, SlotInv, Refs, TypeOK
<1>2. spent' \in Bounded /\ UNCHANGED rating
  BY Spending DEF SetRunning, SlotInv, TypeOK
<1>3. SameTable
  <2>1. CASE SetStatus(j, "running")
    BY <1>1, <2>1, StatusWritten DEF SameTable, Statuses
  <2>2. CASE UNCHANGED jobs
    BY <1>1, <2>2, NoJobs
  <2> QED
    BY <2>1, <2>2 DEF SetRunning
<1>4. \E fresh \in Runner : Step(r, "claim", fresh) /\ fresh.job = j
  <2>1. \/ Step(r, "claim", To(r, "provider")) \/ Step(r, "claim", To(r, "release"))
        \/ Step(r, "claim", End(r, "failed"))
    BY DEF SetRunning
  <2>2. /\ To(r, "provider") \in Runner /\ To(r, "provider").job = j
        /\ To(r, "release") \in Runner /\ To(r, "release").job = j
        /\ End(r, "failed") \in Runner /\ End(r, "failed").job = j
    BY <1>1, RunnerFields, EndFields DEF To, Ended
  <2> QED
    BY <2>1, <2>2
<1>5. "claim" \in SlotPC
  BY DEF SlotPC
<1> QED
  BY <1>2, <1>3, <1>4, <1>5, SlotStep, Ratings

LEMMA GetProviderSlots ==
    ASSUME SlotInv, NEW r \in Runners, GetProvider(r)
    PROVE  SlotInv' /\ SameTable /\ GoesOn(r, "provider")
<1>1. /\ runner[r].pc = "provider" /\ runner[r] \in Runner
      /\ jobs \in Seq(Job)
  BY DEF GetProvider, Step, SlotInv, TypeOK
<1>2. spent' \in Bounded /\ UNCHANGED rating
  BY Spending DEF GetProvider, SlotInv, TypeOK
<1>3. SameTable
  BY <1>1, NoJobs DEF GetProvider
<1>4. \E fresh \in Runner : Step(r, "provider", fresh) /\ fresh.job = runner[r].job
  <2>1. \/ Step(r, "provider", To(r, "load"))
        \/ Step(r, "provider", End(r, "cancelled"))
        \/ Step(r, "provider", End(r, "failed"))
    BY DEF GetProvider
  <2>2. /\ To(r, "load") \in Runner /\ To(r, "load").job = runner[r].job
        /\ \A status \in Ended : End(r, status) \in Runner
                                  /\ End(r, status).job = runner[r].job
    BY <1>1, RunnerFields, EndFields DEF To
  <2> QED
    BY <2>1, <2>2 DEF Ended
<1>5. "provider" \in SlotPC
  BY DEF SlotPC
<1> QED
  BY <1>2, <1>3, <1>4, <1>5, SlotStep, Ratings DEF GoesOn

LEMMA LoadSlots ==
    ASSUME SlotInv, NEW r \in Runners, Load(r)
    PROVE  SlotInv' /\ SameTable /\ GoesOn(r, "load")
<1>1. /\ runner[r].pc = "load" /\ runner[r] \in Runner
      /\ jobs \in Seq(Job)
  BY DEF Load, Step, SlotInv, TypeOK
<1>2. spent' \in Bounded /\ UNCHANGED rating
  BY Spending DEF Load, SlotInv, TypeOK
<1>3. SameTable
  BY <1>1, NoJobs DEF Load
<1>4. \E fresh \in Runner : Step(r, "load", fresh) /\ fresh.job = runner[r].job
  <2> DEFINE fresh == [To(r, "work") EXCEPT !.items = Listed(JobOf(r).scope)]
  <2>1. Listed(JobOf(r).scope) \in SUBSET Tools
    BY DEF Listed
  <2>2. To(r, "work") \in Runner /\ To(r, "work").job = runner[r].job
    BY <1>1, RunnerFields DEF To
  <2>3. fresh \in Runner /\ fresh.job = runner[r].job
    BY <2>1, <2>2 DEF Runner
  <2>4. Step(r, "load", fresh) \/ Step(r, "load", End(r, "failed"))
    BY DEF Load
  <2> QED
    BY <1>1, <2>3, <2>4, EndFields DEF Ended
<1>5. "load" \in SlotPC
  BY DEF SlotPC
<1> QED
  BY <1>2, <1>3, <1>4, <1>5, SlotStep, Ratings DEF GoesOn

LEMMA AssessSlots ==
    ASSUME SlotInv, NEW r \in Runners, Assess(r)
    PROVE  SlotInv' /\ SameTable /\ GoesOn(r, runner[r].pc)
<1>1. /\ runner[r].pc \in {"work", "save"} /\ runner[r] \in Runner
      /\ jobs \in Seq(Job)
  BY DEF Assess, SlotInv, TypeOK
<1>2. spent' \in Bounded
  BY Spending DEF Assess, SlotInv, TypeOK
<1>3. SameTable
  BY <1>1, NoJobs DEF Assess
<1>4. \E batch \in SUBSET runner[r].items :
      \E result \in [batch -> {"rated", "needs_review", "error"}] :
      \E lost \in SUBSET batch : Rate(r, batch, result, lost)
  BY DEF Assess
<1>8. PICK batch \in SUBSET runner[r].items :
        \E result \in [batch -> {"rated", "needs_review", "error"}] :
        \E lost \in SUBSET batch : Rate(r, batch, result, lost)
  BY <1>4, Zenon
<1>9. PICK result \in [batch -> {"rated", "needs_review", "error"}] :
        \E lost \in SUBSET batch : Rate(r, batch, result, lost)
  BY <1>8, Zenon
<1>10. PICK lost \in SUBSET batch : Rate(r, batch, result, lost)
  BY <1>9, Zenon
<1>5. rating' \in [Tools -> {"absent", "pending", "rated", "needs_review", "error"}]
  BY <1>10 DEF SlotInv, TypeOK, Rate
<1>6. \E fresh \in Runner : Step(r, runner[r].pc, fresh) /\ fresh.job = runner[r].job
  <2> DEFINE bad == {t \in batch : result[t] = "error" \/ t \in lost}
             outcome == [good |-> bad # batch, bad |-> bad # {}]
             fresh == [runner[r] EXCEPT !.items = @ \ batch,
                                      !.out = Append(@, outcome)]
  <2>1. Step(r, runner[r].pc, fresh)
    BY <1>10, Zenon DEF Rate
  <2>2. outcome \in Outcome
    BY DEF Outcome
  <2> HIDE DEF outcome
  <2>3. (runner[r].items \ batch) \in SUBSET Tools
        /\ Append(runner[r].out, outcome) \in Seq(Outcome)
    BY <1>1, <2>2 DEF Runner
  <2>4. fresh \in Runner /\ fresh.job = runner[r].job
    BY <1>1, <2>3 DEF Runner
  <2> QED
    BY <2>1, <2>4
<1>7. "work" \in SlotPC /\ "save" \in SlotPC
  BY DEF SlotPC
<1> QED
  BY <1>1, <1>2, <1>3, <1>5, <1>6, <1>7, SlotStep DEF GoesOn

LEMMA ReceiveSlots ==
    ASSUME SlotInv, NEW r \in Runners, Receive(r)
    PROVE  SlotInv' /\ SameTable /\ GoesOn(r, "work")
<1>1. /\ runner[r].pc = "work" /\ runner[r] \in Runner /\ jobs \in Seq(Job)
      /\ runner[r].out # <<>>
  BY DEF Receive, Step, SlotInv, TypeOK
<1>2. spent' \in Bounded /\ UNCHANGED rating
  BY Spending DEF Receive, SlotInv, TypeOK
<1>3. SameTable
  BY <1>1, NoJobs DEF Receive
<1>4. \E fresh \in Runner : Step(r, "work", fresh) /\ fresh.job = runner[r].job
  <2> DEFINE outcome == Head(runner[r].out)
             took == [runner[r] EXCEPT !.pc = "save", !.out = Tail(@),
                                       !.good = @ \/ outcome.good,
                                       !.bad = @ \/ outcome.bad]
             left == [idleRunner EXCEPT !.pc = "release", !.job = runner[r].job]
  <2>1. Step(r, "work", took) \/ Step(r, "work", left)
    BY DEF Receive
  <2>2. runner[r].out \in Seq(Outcome) /\ runner[r].good \in BOOLEAN
        /\ runner[r].bad \in BOOLEAN /\ runner[r].job \in Nat
    BY <1>1 DEF Runner
  <2>3. outcome \in Outcome /\ Tail(runner[r].out) \in Seq(Outcome)
    BY <1>1, <2>2
  <2>4. outcome.good \in BOOLEAN /\ outcome.bad \in BOOLEAN
    BY <2>3 DEF Outcome
  <2>5. left \in Runner /\ left.job = runner[r].job
    BY <2>2, IdleRecords DEF Runner, idleRunner
  <2> HIDE DEF outcome
  <2>6. (runner[r].good \/ outcome.good) \in BOOLEAN
        /\ (runner[r].bad \/ outcome.bad) \in BOOLEAN
    BY Zenon
  <2>7. took \in Runner /\ took.job = runner[r].job
    BY <1>1, <2>3, <2>6 DEF Runner, outcome
  <2> QED
    BY <2>1, <2>5, <2>7
<1>5. "work" \in SlotPC
  BY DEF SlotPC
<1> QED
  BY <1>2, <1>3, <1>4, <1>5, SlotStep, Ratings DEF GoesOn

LEMMA SaveProgressSlots ==
    ASSUME SlotInv, NEW r \in Runners, SaveProgress(r)
    PROVE  SlotInv' /\ SameTable
<1>1. /\ runner[r].pc = "save" /\ runner[r] \in Runner /\ runner[r].job \in JobIds
      /\ jobs \in Seq(Job) /\ Step(r, "save", To(r, "work"))
  BY DEF SaveProgress, Step, SlotInv, Refs, TypeOK
<1>2. spent' \in Bounded /\ UNCHANGED rating
  BY Spending DEF SaveProgress, SlotInv, TypeOK
<1>3. SameTable
  <2>1. CASE UpdateProgress(runner[r].job, "running")
    BY <1>1, <2>1, ProgressWritten DEF SameTable, Statuses
  <2> QED
    BY <1>1, <2>1, NoJobs DEF SaveProgress
<1>4. To(r, "work") \in Runner /\ To(r, "work").job = runner[r].job
  BY <1>1, RunnerFields DEF To
<1>5. "save" \in SlotPC
  BY DEF SlotPC
<1> QED
  BY <1>1, <1>2, <1>3, <1>4, <1>5, SlotStep, Ratings

LEMMA FinishSlots ==
    ASSUME SlotInv, NEW r \in Runners, Finish(r)
    PROVE  SlotInv' /\ SameTable /\ GoesOn(r, "work")
<1> DEFINE status == IF ~runner[r].bad THEN "completed"
                     ELSE IF runner[r].good THEN "partial" ELSE "failed"
<1>1. /\ runner[r].pc = "work" /\ runner[r] \in Runner /\ jobs \in Seq(Job)
      /\ Step(r, "work", End(r, status))
      /\ UNCHANGED <<rating, jobs, spent>>
  BY DEF Finish, Step, SlotInv, TypeOK
<1>2. status \in Ended
  BY DEF Ended
<1> HIDE DEF status
<1>3. End(r, status) \in Runner /\ End(r, status).job = runner[r].job
  BY <1>1, <1>2, EndFields
<1>4. "work" \in SlotPC /\ spent \in Bounded
  BY DEF SlotPC, SlotInv, TypeOK
<1> QED
  BY <1>1, <1>3, <1>4, SlotStep, Ratings, NoJobs DEF GoesOn

LEMMA WriteSlots ==
    ASSUME SlotInv, NEW r \in Runners, Write(r)
    PROVE  SlotInv' /\ SameTable
<1>1. /\ runner[r].pc = "write" /\ runner[r] \in Runner /\ runner[r].job \in JobIds
      /\ jobs \in Seq(Job) /\ Step(r, "write", To(r, "release"))
      /\ runner[r].final \in Statuses
  BY DEF Write, Step, SlotInv, Refs, TypeOK, Runner, Ended, Statuses
<1>2. spent' \in Bounded /\ UNCHANGED rating
  BY Spending DEF Write, SlotInv, TypeOK
<1>3. SameTable
  <2>1. CASE UpdateProgress(runner[r].job, runner[r].final)
    BY <1>1, <2>1, ProgressWritten DEF SameTable
  <2> QED
    BY <1>1, <2>1, NoJobs DEF Write
<1>4. To(r, "release") \in Runner /\ To(r, "release").job = runner[r].job
  BY <1>1, RunnerFields DEF To
<1>5. "write" \in SlotPC
  BY DEF SlotPC
<1> QED
  BY <1>1, <1>2, <1>3, <1>4, <1>5, SlotStep, Ratings

LEMMA ReleaseSlots ==
    ASSUME SlotInv, NEW r \in Runners, Release(r)
    PROVE  SlotInv' /\ SameTable
<1> DEFINE p == JobOf(r).provider
           fresh == [idleRunner EXCEPT !.pc = "next", !.job = runner[r].job]
<1>1. /\ runner[r].pc = "release" /\ runner[r].job \in JobIds
      /\ running' = [running EXCEPT ![p] = 0]
      /\ runner' = [runner EXCEPT ![r] = fresh]
      /\ UNCHANGED <<store, queueMu, caller, observers, autoTrigger, boot, resume,
                     spent>>
  BY DEF Release, SlotInv, Refs
<1>2. fresh \in Runner /\ fresh.pc = "next" /\ fresh.job = runner[r].job
  BY <1>1, IdleRecords, JobRow DEF Runner, idleRunner, SlotInv, TypeOK
<1>3. p \in Providers /\ runner[r].pc \in SlotPC
  BY <1>1, JobRow DEF SlotInv, TypeOK, JobOf, SlotPC
<1>4. SameTable
  BY <1>1, NoJobs DEF SlotInv, TypeOK, store
<1> HIDE DEF fresh
<1>5. TypeOK'
  <2>1. running' \in [Providers -> 0..Len(jobs)]
    BY <1>1, <1>3 DEF SlotInv, TypeOK
  <2> QED
    BY <1>1, <1>2, <2>1 DEF SlotInv, TypeOK, store, JobIds
<1>6. Refs' /\ QuietBoot'
  BY <1>1, <1>2 DEF SlotInv, TypeOK, Refs, QuietBoot, Booting, store, JobIds
<1>7. \A q \in Runners : runner'[q].pc \in SlotPC =>
        q # r /\ runner[q].pc \in SlotPC /\ JobOf(q)' = JobOf(q)
  BY <1>1, <1>2 DEF SlotInv, TypeOK, SlotPC, JobOf, store
<1>8. \A q \in Runners : q # r /\ runner[q].pc \in SlotPC => JobOf(q).provider # p
  BY <1>3 DEF SlotInv, OneHolder
<1> HIDE DEF p
<1>9. \A q \in Runners : runner'[q].pc \in SlotPC =>
        JobOf(q)'.provider # p /\ running[JobOf(q)'.provider] # 0
  BY <1>7, <1>8 DEF SlotInv, SlotHeld
<1>10. \A q \in Runners : runner[q].pc \in SlotPC => JobOf(q).provider \in Providers
  BY JobRow DEF SlotInv, Refs, TypeOK, JobOf, SlotPC
<1>11. SlotHeld'
  BY <1>1, <1>3, <1>7, <1>9, <1>10 DEF SlotInv, TypeOK, SlotHeld
<1>12. OneHolder'
  BY <1>7 DEF SlotInv, OneHolder
<1> QED
  BY <1>4, <1>5, <1>6, <1>11, <1>12 DEF SlotInv

LEMMA ListNextSlots ==
    ASSUME SlotInv, NEW r \in Runners, ListNext(r)
    PROVE  SlotInv' /\ SameTable
<1> DEFINE mine == {j \in Queued : jobs[j].provider = JobOf(r).provider}
           next == [To(r, "launch") EXCEPT !.job = Oldest(mine)]
<1>1. /\ runner[r].pc = "next" /\ runner[r] \in Runner /\ jobs \in Seq(Job)
      /\ UNCHANGED <<rating, jobs>>
  BY DEF ListNext, SlotInv, TypeOK
<1>2. spent' \in Bounded
  BY Spending DEF ListNext, SlotInv, TypeOK
<1>3. SameTable
  BY <1>1, NoJobs
<1>4. \/ mine # {} /\ Step(r, "next", next)
      \/ Step(r, "next", idleRunner)
  BY DEF ListNext
<1>5. mine # {} => next \in Runner /\ next.pc = "launch" /\ next.job \in JobIds
  <2> SUFFICES ASSUME mine # {}
               PROVE  next \in Runner /\ next.pc = "launch" /\ next.job \in JobIds
    OBVIOUS
  <2>1. mine \subseteq JobIds /\ mine \in SUBSET Nat
    BY <1>1, JobIdsAreNat DEF Queued
  <2>2. Oldest(mine) \in JobIds /\ Oldest(mine) \in Nat
    BY <2>1, OldestIsOne
  <2>3. To(r, "launch") \in Runner /\ To(r, "launch").pc = "launch"
    BY <1>1, RunnerFields DEF To
  <2> HIDE DEF mine
  <2> QED
    BY <2>2, <2>3 DEF Runner
<1>6. idleRunner \in Runner /\ idleRunner.pc = "idle"
  BY IdleRecords DEF idleRunner
<1> HIDE DEF mine, next
<1>7. PICK fresh \in Runner : /\ Step(r, "next", fresh)
                              /\ fresh.pc # "idle" => fresh.job \in JobIds
                              /\ fresh.pc \notin SlotPC
  BY <1>4, <1>5, <1>6 DEF SlotPC
<1> QED
  BY <1>1, <1>2, <1>3, <1>7, RunnerMoves, Ratings DEF Step

----------------------------------------------------------------------------
(* What is not a runner's.                                                  *)
LEMMA ReconcileSlots ==
    ASSUME SlotInv, NEW t \in Tools, Reconcile(t)
    PROVE  SlotInv'
<1>1. TypeOK'
  BY Spending, RiskJobsAssumption DEF Reconcile, SlotInv, TypeOK, JobIds
<1>2. Refs' /\ QuietBoot'
  BY DEF Reconcile, SlotInv, Refs, QuietBoot, Booting, JobIds
<1> QED
  BY <1>1, <1>2, SlotsStay, NoJobs DEF Reconcile, SlotInv, TypeOK

LEMMA TriggerSlots ==
    ASSUME SlotInv, Trigger
    PROVE  SlotInv'
<1>1. CASE TriggerAutoAssessment
  <2>1. TypeOK' /\ Refs' /\ QuietBoot'
    BY <1>1 DEF TriggerAutoAssessment, store, SlotInv, TypeOK, Refs, QuietBoot,
                Booting, JobIds
  <2> QED
    BY <1>1, <2>1, SlotsStay, NoJobs DEF TriggerAutoAssessment, store, SlotInv, TypeOK
<1>2. CASE \E c \in Callers : Fire(c)
  BY <1>2, EnterSlots DEF Fire, SlotInv, TypeOK, QuietBoot
<1> QED
  BY <1>1, <1>2 DEF Trigger

LEMMA RequestSlots ==
    ASSUME SlotInv, NEW c \in Callers, NEW s \in Scopes, Request(c, s)
    PROVE  SlotInv'
<1>1. s \in {"pending", "needs_review"} /\ ~Booting /\ spent' \in Bounded
      /\ autoTrigger' \in BOOLEAN /\ Enter(c, s, FALSE)
  BY Spending, RiskJobsAssumption DEF Request, Booting, SlotInv, TypeOK
<1> QED
  BY <1>1, EnterSlots

LEMMA AdminSlots ==
    ASSUME SlotInv,
           \/ \E j \in JobIds : Cancel(j)
           \/ \E p \in Providers : Activate(p) \/ Disable(p)
    PROVE  SlotInv' /\ SameTable
<1>1. spent' \in Bounded /\ UNCHANGED <<rating, memory, boot, resume>>
  BY Spending DEF Cancel, Activate, Disable, AdminDoes, SlotInv, TypeOK
<1>2. SameTable
  <2>1. ASSUME NEW j \in JobIds, Cancel(j)
        PROVE  SameTable
    BY <2>1, StatusWritten DEF Cancel, Statuses, SameTable, SlotInv, TypeOK
  <2> QED
    BY <2>1, NoJobs DEF Activate, Disable, SlotInv, TypeOK
<1>3. active' \in Providers \cup {None} /\ enabled' \subseteq Providers
  BY DEF Cancel, Activate, Disable, SlotInv, TypeOK
<1>4. TypeOK'
  BY <1>1, <1>2, <1>3 DEF SlotInv, TypeOK, memory, SameTable, JobIds
<1>5. Refs' /\ QuietBoot'
  BY <1>1, <1>2 DEF SlotInv, Refs, QuietBoot, Booting, memory, SameTable, JobIds
<1> QED
  BY <1>1, <1>2, <1>4, <1>5, SlotsStay DEF memory

LEMMA CrashSlots ==
    ASSUME SlotInv, Crash
    PROVE  SlotInv' /\ SameTable
<1>1. spent' \in Bounded
  BY Spending DEF Crash, SlotInv, TypeOK
<1>2. idleRunner.pc = "idle" /\ idleCaller.pc = "idle"
  BY DEF idleRunner, idleCaller
<1>3. TypeOK'
  <2>1. running' \in [Providers -> 0..Len(jobs)]
    BY DEF Crash, SlotInv, TypeOK
  <2>2. runner' \in [Runners -> Runner] /\ caller' \in [Callers -> Caller]
    BY IdleRecords DEF Crash
  <2> QED
    BY <1>1, <2>1, <2>2 DEF Crash, store, SlotInv, TypeOK, JobIds
<1>4. /\ \A r \in Runners : runner'[r].pc = "idle"
      /\ \A c \in Callers : caller'[c].pc = "idle"
  BY <1>2 DEF Crash
<1>5. Refs' /\ QuietBoot' /\ SlotHeld' /\ OneHolder'
  BY <1>4 DEF Crash, Refs, QuietBoot, SlotHeld, OneHolder, SlotPC
<1> QED
  BY <1>3, <1>5, NoJobs DEF SlotInv, TypeOK, Crash, store

LEMMA RecoverRunningSlots ==
    ASSUME SlotInv, RecoverRunning
    PROVE  SlotInv' /\ SameTable
<1>1. spent' \in Bounded /\ jobs \in Seq(Job) /\ boot = "recover"
      /\ boot' \in {"recover", "list"}
      /\ UNCHANGED <<rating, active, enabled, memory, resume>>
  BY Spending DEF RecoverRunning, SlotInv, TypeOK
<1>2. SameTable
  <2> DEFINE again(j) == IF jobs[j].status = "running"
                         THEN [jobs[j] EXCEPT !.status = "queued"] ELSE jobs[j]
  <2>1. CASE jobs' = [j \in JobIds |-> again(j)]
    <3>1. \A j \in JobIds : again(j) \in Job /\ again(j).provider = jobs[j].provider
      BY <1>1, JobRow DEF Job, Statuses
    <3> HIDE DEF again
    <3> QED
      BY <1>1, <2>1, <3>1 DEF SameTable, JobIds
  <2>2. CASE UNCHANGED jobs
    BY <1>1, <2>2, NoJobs
  <2> QED
    BY <2>1, <2>2 DEF RecoverRunning
<1>3. TypeOK' /\ Refs' /\ QuietBoot'
  BY <1>1, <1>2 DEF SlotInv, TypeOK, Refs, QuietBoot, Booting, memory, SameTable,
                    JobIds
<1> QED
  BY <1>1, <1>2, <1>3, SlotsStay DEF memory

LEMMA ListQueuedSlots ==
    ASSUME SlotInv, ListQueued
    PROVE  SlotInv'
<1>1. spent' \in Bounded /\ UNCHANGED <<store, memory>> /\ boot = "list"
      /\ boot' \in {"recover", "launch"} /\ resume' \subseteq JobIds
  BY Spending DEF ListQueued, SlotInv, TypeOK, Queued
<1>2. TypeOK' /\ Refs' /\ QuietBoot'
  BY <1>1 DEF SlotInv, TypeOK, Refs, QuietBoot, Booting, memory, store, JobIds
<1> QED
  BY <1>1, <1>2, SlotsStay, NoJobs DEF memory, store, SlotInv, TypeOK

----------------------------------------------------------------------------
LEMMA InitSlots == Init => SlotInv
<1> SUFFICES ASSUME Init PROVE SlotInv
  OBVIOUS
<1>1. TypeOK
  <2>1. spent \in Bounded
    BY RiskJobsAssumption DEF Init, Bounded
  <2>2. runner \in [Runners -> Runner] /\ caller \in [Callers -> Caller]
    BY IdleRecords DEF Init
  <2>3. jobs \in Seq(Job) /\ Len(jobs) = 0 /\ running \in [Providers -> 0..Len(jobs)]
    BY DEF Init
  <2>4. rating \in [Tools -> {"absent", "pending", "rated", "needs_review", "error"}]
    BY DEF Init
  <2> QED
    BY <2>1, <2>2, <2>3, <2>4 DEF Init, TypeOK
<1>2. idleRunner.pc = "idle" /\ idleCaller.pc = "idle"
  BY DEF idleRunner, idleCaller
<1> QED
  BY <1>1, <1>2 DEF Init, SlotInv, Refs, SlotHeld, OneHolder, QuietBoot, Booting, SlotPC

LEMMA RunnerStepSlots ==
    ASSUME SlotInv, NEW r \in Runners, RunnerStep(r)
    PROVE  SlotInv'
BY SetRunningSlots, GetProviderSlots, LoadSlots, AssessSlots, ReceiveSlots,
   SaveProgressSlots, FinishSlots, WriteSlots, ReleaseSlots, ListNextSlots,
   LaunchNextSlots
DEF RunnerStep

LEMMA StepSlots == SlotInv /\ [Next]_vars => SlotInv'
<1> SUFFICES ASSUME SlotInv, [Next]_vars PROVE SlotInv'
  OBVIOUS
<1>1. ASSUME NEW t \in Tools, Reconcile(t) PROVE SlotInv'
  BY <1>1, ReconcileSlots
<1>2. CASE Trigger
  BY <1>2, TriggerSlots
<1>3. ASSUME NEW c \in Callers, CallerStep(c) PROVE SlotInv'
  BY <1>3, LockSlots, CheckSlots, CreateSlots, LaunchCreatedSlots DEF CallerStep
<1>4. ASSUME NEW c \in Callers, NEW s \in Scopes, Request(c, s) PROVE SlotInv'
  BY <1>4, RequestSlots
<1>5. ASSUME NEW r \in Runners, RunnerStep(r) PROVE SlotInv'
  BY <1>5, RunnerStepSlots
<1>6. ASSUME \/ \E j \in JobIds : Cancel(j)
             \/ \E p \in Providers : Activate(p) \/ Disable(p)
      PROVE  SlotInv'
  BY <1>6, AdminSlots
<1>7. CASE Crash
  BY <1>7, CrashSlots
<1>8. CASE Resume
  BY <1>8, RecoverRunningSlots, ListQueuedSlots, LaunchResumedSlots DEF Resume
<1>9. CASE UNCHANGED vars
  <2>1. TypeOK' /\ Refs' /\ QuietBoot'
    BY <1>9 DEF SlotInv, TypeOK, Refs, QuietBoot, Booting, vars, store, memory, JobIds
  <2> QED
    BY <1>9, <2>1, SlotsStay, NoJobs DEF SlotInv, TypeOK, vars, store, memory
<1> QED
  BY <1>1, <1>2, <1>3, <1>4, <1>5, <1>6, <1>7, <1>8, <1>9 DEF Next

LEMMA SlotInvariant == Spec => []SlotInv
BY InitSlots, StepSlots, PTL DEF Spec

(* Every variable keeps its type: rows have an existing provider, goroutines *)
(* hold rows that exist, and what is spent stays within its bound.          *)
THEOREM TypeCorrect == Spec => []TypeOK
<1>1. SlotInv => TypeOK
  BY DEF SlotInv
<1> QED
  BY <1>1, SlotInvariant, PTL

(* launchJob's slot gives a provider one runner at a time, whatever fails,  *)
(* whoever queues, cancels or disables, and across restarts.                *)
THEOREM OneRunner == Spec => []OneRunnerPerProvider
<1>1. SlotInv => OneRunnerPerProvider
  BY DEF SlotInv, OneHolder, OneRunnerPerProvider, Working, SlotPC
<1> QED
  BY <1>1, SlotInvariant, PTL

----------------------------------------------------------------------------
(* From here on the database answers.                                       *)
LEMMA NoFault == SlotInv /\ MaxFaults = 0 => ~DBFails
BY DEF SlotInv, TypeOK, Bounded, DBFails, Spend

EndKept == \A j \in JobIds : jobs[j].status \in Ended => jobs'[j] = jobs[j]
RowInv == SlotInv /\ BegunRow

(* The rows and the runners stay as they are.                               *)
LEMMA RowsStay ==
    ASSUME RowInv, UNCHANGED jobs,
           \A q \in Runners : runner'[q].pc \in BegunPC => runner'[q] = runner[q]
    PROVE  BegunRow' /\ EndKept
<1>1. \A q \in Runners : runner'[q].pc \in BegunPC => JobOf(q)' = JobOf(q)
  BY DEF JobOf
<1> QED
  BY <1>1 DEF RowInv, BegunRow, EndKept

(* A runner inside its slot takes a step and writes at most its own row.    *)
LEMMA OwnRow ==
    ASSUME RowInv, SameTable, NEW r \in Runners, NEW fresh \in Runner,
           NEW from \in SlotPC, Step(r, from, fresh),
           \A k \in JobIds : k # runner[r].job => jobs'[k] = jobs[k],
           fresh.pc \in BegunPC =>
               fresh.job = runner[r].job
               /\ jobs'[fresh.job].status \in {"running", "cancelled"},
           jobs[runner[r].job].status \in Ended => UNCHANGED jobs
    PROVE  BegunRow' /\ EndKept
<1>1. runner[r].pc \in SlotPC /\ runner' = [runner EXCEPT ![r] = fresh]
  BY DEF Step
<1>2. \A q \in Runners : runner'[q] = IF q = r THEN fresh ELSE runner[q]
  BY <1>1 DEF RowInv, SlotInv, TypeOK
<1>3. \A q \in Runners : q # r /\ runner[q].pc \in BegunPC =>
        runner[q].job \in JobIds /\ runner[q].job # runner[r].job
  BY <1>1 DEF RowInv, SlotInv, Refs, OneHolder, SlotPC, BegunPC, JobOf
<1>4. \A q \in Runners : q # r /\ runner[q].pc \in BegunPC =>
        jobs'[runner[q].job].status \in {"running", "cancelled"}
  BY <1>3 DEF RowInv, BegunRow, JobOf
<1>5. BegunRow'
  BY <1>2, <1>4 DEF BegunRow, JobOf
<1>6. EndKept
  BY DEF EndKept
<1> QED
  BY <1>5, <1>6

LEMMA SetRunningRow ==
    ASSUME RowInv, MaxFaults = 0, NEW r \in Runners, SetRunning(r)
    PROVE  BegunRow' /\ EndKept
<1> DEFINE j == runner[r].job
<1>1. /\ runner[r].pc = "claim" /\ runner[r] \in Runner /\ j \in JobIds
      /\ jobs \in Seq(Job) /\ ~DBFails /\ SameTable
  BY NoFault, SetRunningSlots DEF SetRunning, Step, RowInv, SlotInv, Refs, TypeOK
<1>2. "claim" \in SlotPC
  BY DEF SlotPC
<1>3. /\ To(r, "provider") \in Runner /\ To(r, "provider").job = j
      /\ To(r, "release") \in Runner /\ To(r, "release").pc = "release"
  BY <1>1, RunnerFields DEF To
<1>4. CASE SetStatus(j, "running") /\ JobOf(r).status = "queued"
           /\ Step(r, "claim", To(r, "provider"))
  <2>1. jobs[j].status \notin Ended
    BY <1>4 DEF JobOf, Ended
  <2>2. jobs'[j].status = "running" /\ \A k \in JobIds : k # j => jobs'[k] = jobs[k]
    BY <1>1, <1>4, StatusWritten DEF Statuses
  <2> QED
    BY <1>1, <1>2, <1>3, <1>4, <2>1, <2>2, OwnRow
<1>5. CASE UNCHANGED jobs /\ Step(r, "claim", To(r, "release"))
  BY <1>1, <1>2, <1>3, <1>5, OwnRow DEF BegunPC
<1> QED
  BY <1>1, <1>4, <1>5 DEF SetRunning

(* A step of a job that has begun, without a write.                         *)
LEMMA ReadStep ==
    ASSUME RowInv, NEW r \in Runners, NEW from \in BegunPC, NEW fresh \in Runner,
           Step(r, from, fresh), fresh.job = runner[r].job, UNCHANGED jobs
    PROVE  BegunRow' /\ EndKept
<1>1. SameTable /\ from \in SlotPC
  BY NoJobs DEF RowInv, SlotInv, TypeOK, BegunPC, SlotPC
<1>2. jobs[fresh.job].status \in {"running", "cancelled"}
  BY DEF Step, RowInv, BegunRow, JobOf
<1> QED
  BY <1>1, <1>2, OwnRow

LEMMA WriteRow ==
    ASSUME RowInv, MaxFaults = 0, NEW r \in Runners,
           SaveProgress(r) \/ Write(r)
    PROVE  BegunRow' /\ EndKept
<1> DEFINE j == runner[r].job
<1>1. PICK s \in Statuses, from \in {"save", "write"}, pc \in {"work", "release"} :
        /\ UpdateProgress(j, s) /\ runner[r].pc = from /\ Step(r, from, To(r, pc))
        /\ pc = "work" => s = "running"
  <2>1. runner[r].pc = "write" => runner[r].final \in Statuses
    BY DEF RowInv, SlotInv, TypeOK, Runner, Ended, Statuses
  <2> QED
    BY <2>1, NoFault DEF SaveProgress, Write, Step, RowInv, Statuses
<1>2. runner[r] \in Runner /\ j \in JobIds /\ jobs \in Seq(Job) /\ SameTable
  BY <1>1, SaveProgressSlots, WriteSlots DEF RowInv, SlotInv, Refs, TypeOK
<1>3. To(r, pc) \in Runner /\ To(r, pc).pc = pc /\ To(r, pc).job = j
  <2>1. pc = "work" \/ pc = "release"
    BY <1>1
  <2>2. /\ To(r, "work") \in Runner /\ To(r, "work").pc = "work"
        /\ To(r, "work").job = j
        /\ To(r, "release") \in Runner /\ To(r, "release").pc = "release"
        /\ To(r, "release").job = j
    BY <1>2, RunnerFields DEF To
  <2> QED
    BY <2>1, <2>2
<1>4. /\ \A k \in JobIds : k # j => jobs'[k] = jobs[k]
      /\ \/ jobs' = jobs /\ jobs[j].status = "cancelled"
         \/ jobs'[j].status = s /\ jobs[j].status # "cancelled"
  BY <1>1, <1>2, ProgressWritten
<1>5. jobs[j].status \in {"running", "cancelled"}
  BY <1>1 DEF RowInv, BegunRow, BegunPC, JobOf
<1>6. jobs[j].status \in Ended => UNCHANGED jobs
  BY <1>4, <1>5 DEF Ended
<1>7. pc \in BegunPC => jobs'[j].status \in {"running", "cancelled"}
  BY <1>1, <1>4 DEF BegunPC
<1>8. from \in SlotPC
  BY DEF SlotPC
<1> HIDE DEF j
<1>9. To(r, pc).pc \in BegunPC =>
          To(r, pc).job = runner[r].job
          /\ jobs'[To(r, pc).job].status \in {"running", "cancelled"}
  BY <1>3, <1>7 DEF j
<1> QED
  BY <1>1, <1>2, <1>3, <1>4, <1>6, <1>8, <1>9, OwnRow DEF j

LEMMA RunnerStepRows ==
    ASSUME RowInv, MaxFaults = 0, NEW r \in Runners, RunnerStep(r)
    PROVE  BegunRow' /\ EndKept
<1>1. SlotInv
  BY DEF RowInv
<1>2. CASE SetRunning(r)
  BY <1>2, SetRunningRow
<1>3. CASE GetProvider(r) \/ Load(r) \/ Receive(r) \/ Finish(r)
  <2>1. GoesOn(r, "provider") \/ GoesOn(r, "load") \/ GoesOn(r, "work")
    BY <1>1, <1>3, GetProviderSlots, LoadSlots, ReceiveSlots, FinishSlots
  <2>2. UNCHANGED jobs
    BY <1>3 DEF GetProvider, Load, Receive, Finish
  <2>3. {"provider", "load", "work"} \subseteq BegunPC
    BY DEF BegunPC
  <2> QED
    BY <2>1, <2>2, <2>3, ReadStep DEF GoesOn
<1>4. CASE Assess(r)
  <2>1. GoesOn(r, runner[r].pc) /\ UNCHANGED jobs /\ runner[r].pc \in BegunPC
    BY <1>1, <1>4, AssessSlots DEF Assess, BegunPC
  <2> QED
    BY <2>1, ReadStep DEF GoesOn
<1>5. CASE SaveProgress(r) \/ Write(r)
  BY <1>5, WriteRow
<1>6. CASE Release(r)
  <2>1. /\ UNCHANGED jobs
        /\ \A q \in Runners : runner'[q].pc \in BegunPC => runner'[q] = runner[q]
    BY <1>1, <1>6 DEF Release, store, SlotInv, TypeOK, BegunPC, idleRunner
  <2> QED
    BY <2>1, RowsStay
<1>7. CASE ListNext(r)
  <2>1. PICK fresh : /\ Step(r, "next", fresh) /\ UNCHANGED jobs
                     /\ fresh.pc \in {"idle", "launch"}
    <3> DEFINE mine == {j \in Queued : jobs[j].provider = JobOf(r).provider}
               next == [To(r, "launch") EXCEPT !.job = Oldest(mine)]
    <3>1. To(r, "launch") \in Runner /\ To(r, "launch").pc = "launch"
      BY <1>1, RunnerFields DEF SlotInv, TypeOK, To
    <3>2. next.pc = "launch" /\ idleRunner.pc = "idle"
      BY <3>1 DEF Runner, idleRunner
    <3>3. (Step(r, "next", next) \/ Step(r, "next", idleRunner)) /\ UNCHANGED jobs
      BY <1>7 DEF ListNext
    <3> HIDE DEF next
    <3> QED
      BY <3>2, <3>3
  <2>2. \A q \in Runners : runner'[q].pc \in BegunPC => runner'[q] = runner[q]
    BY <1>1, <2>1 DEF Step, SlotInv, TypeOK, BegunPC
  <2> QED
    BY <2>1, <2>2, RowsStay
<1>8. CASE LaunchNext(r)
  <2>1. /\ UNCHANGED jobs
        /\ \A q \in Runners : runner'[q].pc \in BegunPC => runner'[q] = runner[q]
    BY <1>1, <1>8 DEF LaunchNext, Launch, store, SlotInv, TypeOK, BegunPC, idleRunner
  <2> QED
    BY <2>1, RowsStay
<1> QED
  BY <1>2, <1>3, <1>4, <1>5, <1>6, <1>7, <1>8 DEF RunnerStep

LEMMA StepRows ==
    ASSUME RowInv, MaxFaults = 0, [Next]_vars
    PROVE  BegunRow' /\ EndKept
<1>1. SlotInv
  BY DEF RowInv
<1>2. ASSUME UNCHANGED <<jobs, runner>>
      PROVE  BegunRow' /\ EndKept
  BY <1>2, RowsStay
<1>3. ASSUME NEW c \in Callers, Create(c) PROVE BegunRow' /\ EndKept
  <2>1. CASE UNCHANGED jobs
    BY <1>2, <1>3, <2>1 DEF Create, Leave
  <2>2. CASE ~UNCHANGED jobs
    <3> DEFINE row == [provider |-> caller[c].provider, scope |-> caller[c].scope,
                       status |-> "queued"]
    <3>1. jobs' = Append(jobs, row) /\ runner' = runner /\ caller[c].pc = "create"
      BY <1>3, <2>2 DEF Create, Leave, store
    <3>2. row \in Job
      BY <1>1, <3>1 DEF SlotInv, TypeOK, Refs, Caller, Job, Statuses
    <3> HIDE DEF row
    <3>3. \A k \in JobIds : jobs'[k] = jobs[k]
      BY <1>1, <3>1, <3>2, Appended
    <3>4. \A q \in Runners : runner[q].pc \in BegunPC => runner[q].job \in JobIds
      BY <1>1 DEF SlotInv, Refs, BegunPC
    <3> QED
      BY <3>1, <3>3, <3>4 DEF RowInv, BegunRow, EndKept, JobOf
  <2> QED
    BY <2>1, <2>2
<1>4. ASSUME NEW c \in Callers, LaunchCreated(c) PROVE BegunRow' /\ EndKept
  <2>1. UNCHANGED jobs /\ Launch(caller[c].job, IdleRunners, runner)
    BY <1>4 DEF LaunchCreated, store
  <2>2. \A q \in Runners : runner'[q].pc \in BegunPC => runner'[q] = runner[q]
    BY <1>1, <2>1, ZenonT(60) DEF Launch, SlotInv, TypeOK, BegunPC, idleRunner, IdleRunners
  <2> QED
    BY <2>1, <2>2, RowsStay
<1>5. ASSUME NEW c \in Callers, CallerStep(c) PROVE BegunRow' /\ EndKept
  <2>1. CASE Lock(c) \/ Check(c)
    BY <1>2, <2>1 DEF Lock, Check, Leave, store
  <2> QED
    BY <1>3, <1>4, <1>5, <2>1 DEF CallerStep
<1>6. CASE Resume
  <2>1. CASE RecoverRunning
    <3>1. boot = "recover" /\ runner' = runner
      BY <2>1 DEF RecoverRunning, memory
    <3>2. \A q \in Runners : runner[q].pc = "idle"
      BY <1>1, <3>1 DEF SlotInv, QuietBoot, Booting
    <3>3. BegunRow'
      BY <3>1, <3>2 DEF BegunRow, BegunPC
    <3>4. \A j \in JobIds : jobs[j].status # "running" => jobs'[j] = jobs[j]
      BY <2>1 DEF RecoverRunning
    <3> QED
      BY <3>3, <3>4 DEF EndKept, Ended
  <2>2. CASE ListQueued
    BY <1>2, <2>2 DEF ListQueued, store, memory
  <2>3. CASE LaunchResumed
    <3>1. UNCHANGED jobs
      BY <2>3 DEF LaunchResumed, store
    <3>2. runner' = runner \/ Launch(Oldest(resume), IdleRunners, runner)
      BY <2>3 DEF LaunchResumed
    <3>3. \A q \in Runners : runner'[q].pc \in BegunPC => runner'[q] = runner[q]
      BY <1>1, <3>2, ZenonT(60) DEF Launch, SlotInv, TypeOK, BegunPC, idleRunner, IdleRunners
    <3> QED
      BY <3>1, <3>3, RowsStay
  <2> QED
    BY <1>6, <2>1, <2>2, <2>3 DEF Resume
<1>7. ASSUME NEW j \in JobIds, Cancel(j) PROVE BegunRow' /\ EndKept
  <2>1. /\ jobs[j].status \notin Ended /\ runner' = runner
        /\ SetStatus(j, "cancelled")
    BY <1>7 DEF Cancel, AdminDoes, memory, Ended
  <2>2. /\ \A k \in JobIds : k # j => jobs'[k] = jobs[k]
        /\ jobs'[j].status = "cancelled"
    BY <1>1, <2>1, StatusWritten DEF SlotInv, TypeOK, Statuses
  <2>3. \A q \in Runners : runner[q].pc \in BegunPC => runner[q].job \in JobIds
    BY <1>1 DEF SlotInv, Refs, BegunPC
  <2> QED
    BY <2>1, <2>2, <2>3 DEF RowInv, BegunRow, EndKept, JobOf
<1>8. CASE Crash
  <2>1. UNCHANGED jobs /\ \A q \in Runners : runner'[q].pc = "idle"
    BY <1>8 DEF Crash, store, idleRunner
  <2> QED
    BY <2>1, RowsStay DEF BegunPC
<1>9. ASSUME NEW r \in Runners, RunnerStep(r) PROVE BegunRow' /\ EndKept
  BY <1>9, RunnerStepRows
<1>10. CASE \/ \E t \in Tools : Reconcile(t)
            \/ Trigger
            \/ \E c \in Callers, s \in Scopes : Request(c, s)
            \/ \E p \in Providers : Activate(p) \/ Disable(p)
            \/ UNCHANGED vars
  BY <1>2, <1>10 DEF Reconcile, Trigger, TriggerAutoAssessment, Fire, Request,
     Enter, Activate, Disable, AdminDoes, store, memory, vars
<1> QED
  BY <1>5, <1>6, <1>7, <1>8, <1>9, <1>10 DEF Next

LEMMA InitRows == Init => BegunRow
BY DEF Init, BegunRow, BegunPC, idleRunner

LEMMA RowInvariant == MaxFaults = 0 => (Spec => []RowInv)
<1>1. Init => RowInv
  BY InitSlots, InitRows DEF RowInv
<1>2. MaxFaults = 0 => (RowInv /\ [Next]_vars => RowInv')
  BY StepSlots, StepRows DEF RowInv
<1> SUFFICES ASSUME MaxFaults = 0 PROVE Spec => []RowInv
  OBVIOUS
<1>3. RowInv /\ [Next]_vars => RowInv'
  BY <1>2
<1> QED
  BY <1>1, <1>3, PTL DEF Spec

(* As long as the database answers, a job that ended stays as it ended:     *)
(* neither a runner nor Resume writes over a cancellation or a result.      *)
THEOREM EndedStays == MaxFaults = 0 => (Spec => EndIsFinal)
<1> SUFFICES ASSUME MaxFaults = 0 PROVE Spec => EndIsFinal
  OBVIOUS
<1>1. RowInv /\ [Next]_vars =>
        [spent.faults = 0 =>
            \A j \in JobIds : jobs[j].status \in Ended => jobs'[j] = jobs[j]]_vars
  BY StepRows DEF EndKept
<1> QED
  BY <1>1, RowInvariant, PTL DEF Spec, EndIsFinal

----------------------------------------------------------------------------
(* The jobs that wait are the ones that waited, and keep their starters.    *)
LEMMA StillStarted ==
    ASSUME SlotInv, Started, SameTable, UNCHANGED <<boot, resume>>,
           \A j \in JobIds : jobs'[j].status = "queued" => jobs[j].status = "queued",
           \A j \in JobIds : Starter(j) => Starter(j)'
    PROVE  Started'
<1>1. JobIds' = JobIds
  BY DEF SameTable, JobIds
<1> QED
  BY <1>1 DEF Started

(* Starters outlive a step that takes no slot away, no caller out of its    *)
(* launch and no runner out of its search.                                  *)
LEMMA StartersStay ==
    ASSUME SlotInv, SameTable,
           \A p \in Providers : running[p] # 0 => running'[p] # 0,
           \A c \in Callers : caller[c].pc = "launch" => caller'[c] = caller[c],
           \A q \in Runners : runner[q].pc \in {"next", "launch"} =>
                runner'[q] = runner[q]
    PROVE  \A j \in JobIds : Starter(j) => Starter(j)'
<1> SUFFICES ASSUME NEW j \in JobIds, Starter(j) PROVE Starter(j)'
  OBVIOUS
<1>1. jobs'[j].provider = jobs[j].provider /\ jobs[j].provider \in Providers
  BY JobRow DEF SameTable, SlotInv, TypeOK
<1>2. \A q \in Runners : runner[q].pc \in {"next", "launch"} =>
        JobOf(q)'.provider = JobOf(q).provider
  BY DEF SlotInv, Refs, SameTable, JobOf
<1>3. CASE \E c \in Callers : caller[c].pc = "launch" /\ caller[c].job = j
  BY <1>3 DEF Starter
<1>4. CASE running[jobs[j].provider] # 0
  BY <1>1, <1>4 DEF Starter
<1>5. CASE \E q \in Runners : /\ runner[q].pc \in {"next", "launch"}
                              /\ JobOf(q).provider = jobs[j].provider
  BY <1>1, <1>2, <1>5 DEF Starter
<1> QED
  BY <1>3, <1>4, <1>5 DEF Starter

(* A runner works on its job.                                               *)
LEMMA WorkStarted ==
    ASSUME SlotInv, Started, MaxFaults = 0, NEW r \in Runners,
           \/ SetRunning(r) \/ GetProvider(r) \/ Load(r) \/ Assess(r)
           \/ Receive(r) \/ SaveProgress(r) \/ Finish(r) \/ Write(r)
    PROVE  Started'
<1>1. SameTable
  BY SetRunningSlots, GetProviderSlots, LoadSlots, AssessSlots, ReceiveSlots,
     SaveProgressSlots, FinishSlots, WriteSlots
<1>2. PICK from \in SlotPC : \E fresh : Step(r, from, fresh)
  <2>1. CASE SetRunning(r)
    BY <2>1 DEF SetRunning, SlotPC
  <2>2. CASE GetProvider(r) \/ Load(r) \/ Receive(r) \/ Finish(r)
    <3>1. GoesOn(r, "provider") \/ GoesOn(r, "load") \/ GoesOn(r, "work")
      BY <2>2, GetProviderSlots, LoadSlots, ReceiveSlots, FinishSlots
    <3> QED
      BY <3>1 DEF GoesOn, SlotPC
  <2>3. CASE Assess(r)
    BY <2>3, AssessSlots DEF GoesOn, SlotPC, Assess
  <2>4. CASE SaveProgress(r) \/ Write(r)
    BY <2>4 DEF SaveProgress, Write, SlotPC
  <2> QED
    BY <2>1, <2>2, <2>3, <2>4
<1>3. \A j \in JobIds : Starter(j) => Starter(j)'
  BY <1>1, <1>2, StartersStay DEF Step, SlotInv, TypeOK, SlotPC
<1>4. \A j \in JobIds : jobs'[j].status = "queued" => jobs[j].status = "queued"
  <2> DEFINE k == runner[r].job
  <2>1. k \in JobIds /\ jobs \in Seq(Job)
    BY <1>2 DEF Step, SlotInv, Refs, TypeOK, SlotPC
  <2>2. CASE UNCHANGED jobs
    BY <2>2
  <2>3. CASE SetStatus(k, "running")
    BY <2>1, <2>3, StatusWritten DEF Statuses
  <2>4. CASE \E s \in Ended \cup {"running"} : UpdateProgress(k, s)
    BY <2>1, <2>4, ProgressWritten DEF Statuses, Ended
  <2>5. runner[r].final \in Ended
    BY DEF SlotInv, TypeOK, Runner
  <2> QED
    BY <2>2, <2>3, <2>4, <2>5 DEF SetRunning, GetProvider, Load, Assess, Receive,
       SaveProgress, Finish, Write
<1> QED
  BY <1>1, <1>2, <1>3, <1>4, StillStarted DEF Step

LEMMA ReleaseStarted ==
    ASSUME SlotInv, Started, NEW r \in Runners, Release(r)
    PROVE  Started'
<1> DEFINE p == JobOf(r).provider
<1>1. /\ SameTable /\ UNCHANGED <<jobs, caller, boot, resume>>
      /\ running' = [running EXCEPT ![p] = 0]
      /\ runner' = [runner EXCEPT ![r] = [idleRunner EXCEPT !.pc = "next",
                                                            !.job = runner[r].job]]
      /\ runner[r].pc = "release"
  BY ReleaseSlots DEF Release, store
<1>2. /\ runner'[r].pc = "next" /\ JobOf(r)' = JobOf(r)
      /\ \A q \in Runners : q # r => runner'[q] = runner[q]
  BY <1>1 DEF SlotInv, TypeOK, JobOf, idleRunner
<1>3. \A o \in Providers : o # p => running'[o] = running[o]
  BY <1>1 DEF SlotInv, TypeOK
<1>4. ASSUME NEW j \in JobIds, Starter(j) PROVE Starter(j)'
  <2>1. jobs[j].provider \in Providers
    BY JobRow DEF SlotInv, TypeOK
  <2>2. CASE jobs[j].provider = p
    BY <1>1, <1>2, <2>2 DEF Starter
  <2>3. CASE jobs[j].provider # p
    BY <1>1, <1>2, <1>3, <1>4, <2>1, <2>3 DEF Starter, JobOf
  <2> QED
    BY <2>2, <2>3
<1> QED
  BY <1>1, <1>4, StillStarted

LEMMA ListNextStarted ==
    ASSUME SlotInv, Started, MaxFaults = 0, NEW r \in Runners, ListNext(r)
    PROVE  Started'
<1> DEFINE mine == {j \in Queued : jobs[j].provider = JobOf(r).provider}
           next == [To(r, "launch") EXCEPT !.job = Oldest(mine)]
<1>1. /\ runner[r].pc = "next" /\ runner[r] \in Runner /\ jobs \in Seq(Job)
      /\ UNCHANGED <<jobs, running, caller, boot, resume>> /\ SameTable
      /\ runner \in [Runners -> Runner]
  BY ListNextSlots DEF ListNext, Step, SlotInv, TypeOK
<1>2. \/ mine # {} /\ runner' = [runner EXCEPT ![r] = next]
      \/ mine = {} /\ runner' = [runner EXCEPT ![r] = idleRunner]
  BY NoFault DEF ListNext, Step
<1>3. mine # {} => next.pc = "launch" /\ next.job \in mine
  <2>1. mine \in SUBSET Nat
    BY <1>1, JobIdsAreNat DEF Queued
  <2>2. mine # {} => Oldest(mine) \in mine
    BY <2>1, OldestIsOne
  <2>3. To(r, "launch") \in Runner /\ To(r, "launch").pc = "launch"
    BY <1>1, RunnerFields DEF To
  <2> HIDE DEF mine
  <2> QED
    BY <2>2, <2>3 DEF Runner
<1> HIDE DEF next
<1>4. ASSUME NEW j \in JobIds, jobs[j].status = "queued", Starter(j)
      PROVE  Starter(j)'
  <2>1. CASE jobs[j].provider = JobOf(r).provider
    <3>1. j \in mine
      BY <1>4, <2>1 DEF Queued
    <3>2. runner'[r] = next /\ next.pc = "launch" /\ next.job \in mine
      BY <1>1, <1>2, <1>3, <3>1
    <3>3. JobOf(r)'.provider = jobs[j].provider
      BY <1>1, <2>1, <3>2 DEF JobOf
    <3> QED
      BY <1>1, <3>2, <3>3 DEF Starter
  <2>2. CASE jobs[j].provider # JobOf(r).provider
    <3>1. \A q \in Runners : q # r => runner'[q] = runner[q]
      BY <1>1, <1>2
    <3> HIDE DEF mine
    <3> QED
      BY <1>1, <1>4, <2>2, <3>1 DEF Starter, JobOf
  <2> QED
    BY <2>1, <2>2
<1>5. JobIds' = JobIds
  BY <1>1 DEF JobIds
<1> QED
  BY <1>1, <1>4, <1>5 DEF Started

(* A launch: the slot of the job's provider is held afterwards.             *)
LEMMA LaunchNextStarted ==
    ASSUME SlotInv, Started, NEW r \in Runners, LaunchNext(r)
    PROVE  Started'
<1> DEFINE j == runner[r].job
           rest == [runner EXCEPT ![r] = idleRunner]
<1>1. /\ j \in JobIds /\ runner[r].pc = "launch" /\ Launch(j, {r}, rest)
      /\ UNCHANGED <<jobs, caller, boot, resume>>
  BY DEF LaunchNext, SlotInv, Refs, store
<1>2. rest \in [Runners -> Runner]
      /\ \A q \in Runners : \/ rest[q] = runner[q]
                            \/ rest[q] = idleRunner /\ runner[q].pc \notin SlotPC
  BY <1>1, IdleRecords DEF SlotInv, TypeOK, SlotPC
<1>3. {r} \in SUBSET Runners /\ (\A q \in {r} : runner[q].pc \notin SlotPC)
  BY <1>1 DEF SlotPC
<1>4. \A q \in Runners : q # r => rest[q] = runner[q]
  BY DEF SlotInv, TypeOK
<1> HIDE DEF rest
<1>5. /\ \A p \in Providers : running[p] # 0 => running'[p] # 0
      /\ running'[jobs[j].provider] # 0
      /\ \A q \in Runners : q # r => runner'[q] = runner[q]
  <2>1. /\ \A p \in Providers : running[p] # 0 => running'[p] # 0
        /\ running'[jobs[j].provider] # 0
        /\ \A q \in Runners : runner'[q] = rest[q] \/ q \in {r}
    <3> HIDE DEF j
    <3>1. j \in JobIds /\ Launch(j, {r}, rest) /\ UNCHANGED jobs
      BY <1>1
    <3>2. rest \in [Runners -> Runner]
      BY <1>2
    <3>3. \A q \in Runners : \/ rest[q] = runner[q]
                             \/ rest[q] = idleRunner /\ runner[q].pc \notin SlotPC
      BY <1>2
    <3> QED
      BY <3>1, <3>2, <3>3, <1>3, Launches
  <2> QED
    BY <1>4, <2>1
<1>6. ASSUME NEW k \in JobIds, Starter(k) PROVE Starter(k)'
  <2>1. jobs[k].provider \in Providers
    BY JobRow DEF SlotInv, TypeOK
  <2>2. CASE jobs[k].provider = jobs[j].provider
    BY <1>1, <1>5, <2>2 DEF Starter
  <2>3. CASE jobs[k].provider # jobs[j].provider
    BY <1>1, <1>5, <1>6, <2>1, <2>3 DEF Starter, JobOf
  <2> QED
    BY <2>2, <2>3
<1> QED
  BY <1>1, <1>6, StillStarted, NoJobs DEF SlotInv, TypeOK

(* A launch from outside the runners, of a job that nobody else may start.  *)
LEMMA OtherLaunch ==
    ASSUME SlotInv, NEW j \in JobIds, Launch(j, IdleRunners, runner), UNCHANGED jobs,
           NEW k \in JobIds,
           \/ k = j \/ running[jobs[k].provider] # 0
           \/ \E r \in Runners : /\ runner[r].pc \in {"next", "launch"}
                                 /\ JobOf(r).provider = jobs[k].provider
    PROVE  Starter(k)'
<1>1. \A q \in IdleRunners : q \in Runners /\ runner[q].pc \notin SlotPC
  BY DEF IdleRunners, SlotPC
<1>2. runner \in [Runners -> Runner] /\ IdleRunners \in SUBSET Runners
  BY DEF SlotInv, TypeOK, IdleRunners
<1>3. /\ \A p \in Providers : running[p] # 0 => running'[p] # 0
      /\ running'[jobs[j].provider] # 0
      /\ \A q \in Runners : runner'[q] = runner[q] \/ q \in IdleRunners
  BY <1>1, <1>2, Launches
<1>4. jobs[k].provider \in Providers
  BY JobRow DEF SlotInv, TypeOK
<1> QED
  BY <1>3, <1>4 DEF Starter, JobOf, IdleRunners

LEMMA LaunchCreatedStarted ==
    ASSUME SlotInv, Started, NEW c \in Callers, LaunchCreated(c)
    PROVE  Started'
<1> DEFINE j == caller[c].job
<1>1. /\ j \in JobIds /\ caller[c].pc = "launch" /\ Launch(j, IdleRunners, runner)
      /\ caller' = [caller EXCEPT ![c] = idleCaller]
      /\ UNCHANGED <<jobs, boot, resume>>
  BY DEF LaunchCreated, SlotInv, Refs, store
<1>2. \A d \in Callers : d # c => caller'[d] = caller[d]
  BY <1>1 DEF SlotInv, TypeOK
<1>3. ASSUME NEW k \in JobIds, Starter(k) PROVE Starter(k)'
  <2>1. CASE \E d \in Callers : d # c /\ caller[d].pc = "launch" /\ caller[d].job = k
    BY <1>2, <2>1 DEF Starter
  <2>2. CASE ~ \E d \in Callers : d # c /\ caller[d].pc = "launch" /\ caller[d].job = k
    BY <1>1, <1>3, <2>2, OtherLaunch DEF Starter
  <2> QED
    BY <2>1, <2>2
<1> QED
  BY <1>1, <1>3, StillStarted, NoJobs DEF SlotInv, TypeOK

LEMMA LaunchResumedStarted ==
    ASSUME SlotInv, Started, LaunchResumed
    PROVE  Started'
<1>1. UNCHANGED <<jobs, caller>> /\ JobIds' = JobIds /\ boot = "launch"
  BY DEF LaunchResumed, store, JobIds
<1>2. CASE resume = {}
  BY <1>1, <1>2 DEF LaunchResumed, Started, Starter, JobOf
<1>3. CASE resume # {}
  <2> DEFINE j == Oldest(resume)
  <2>1. /\ Launch(j, IdleRunners, runner)
        /\ resume' = resume \ {j} /\ boot' = boot
    BY <1>3 DEF LaunchResumed
  <2>2. j \in JobIds
    BY <1>3, OldestIsOne, JobIdsAreNat DEF SlotInv, TypeOK
  <2> HIDE DEF j
  <2>3. ASSUME NEW k \in JobIds, Starter(k) \/ k = j PROVE Starter(k)'
    <3>1. CASE \E d \in Callers : caller[d].pc = "launch" /\ caller[d].job = k
      BY <1>1, <3>1 DEF Starter
    <3>2. CASE ~ \E d \in Callers : caller[d].pc = "launch" /\ caller[d].job = k
      BY <1>1, <2>1, <2>2, <2>3, <3>2, OtherLaunch DEF Starter
    <3> QED
      BY <3>1, <3>2
  <2> QED
    BY <1>1, <2>1, <2>3 DEF Started
<1> QED
  BY <1>2, <1>3

(* A fresh job is launched by the caller that created it.                     *)
LEMMA CreateStarted ==
    ASSUME SlotInv, Started, NEW c \in Callers, Create(c)
    PROVE  Started'
<1>1. caller[c].pc = "create"
  BY DEF Create
<1>2. CASE UNCHANGED jobs
  <2>1. /\ UNCHANGED <<running, runner, boot, resume>>
        /\ caller' = [caller EXCEPT ![c] = idleCaller]
    BY <1>2 DEF Create, Leave, SlotInv, TypeOK
  <2>2. \A d \in Callers : caller[d].pc = "launch" => caller'[d] = caller[d]
    BY <1>1, <2>1 DEF SlotInv, TypeOK
  <2> QED
    BY <1>2, <2>1, <2>2, StartersStay, StillStarted, NoJobs DEF SlotInv, TypeOK
<1>3. CASE ~UNCHANGED jobs
  <2> DEFINE row == [provider |-> caller[c].provider, scope |-> caller[c].scope,
                     status |-> "queued"]
             fresh == [caller[c] EXCEPT !.pc = "launch", !.job = Len(jobs) + 1]
  <2>1. /\ jobs' = Append(jobs, row) /\ caller' = [caller EXCEPT ![c] = fresh]
        /\ UNCHANGED <<running, runner, boot, resume>>
    BY <1>3 DEF Create, Leave, store
  <2>2. row \in Job
    BY <1>1 DEF SlotInv, TypeOK, Refs, Caller, Job, Statuses
  <2>3. fresh.pc = "launch" /\ fresh.job = Len(jobs) + 1
    BY DEF SlotInv, TypeOK, Caller
  <2> HIDE DEF row, fresh
  <2>4. \A d \in Callers : caller[d].pc = "launch" => caller'[d] = caller[d]
    BY <1>1, <2>1 DEF SlotInv, TypeOK
  <2>5. \A k \in JobIds : jobs'[k] = jobs[k]
    BY <2>1, <2>2, Appended
  <2>6. \A q \in Runners : runner[q].pc \in {"next", "launch"} => JobOf(q)' = JobOf(q)
    BY <2>1, <2>5 DEF SlotInv, Refs, JobOf
  <2>7. ASSUME NEW k \in JobIds, Starter(k) PROVE Starter(k)'
    BY <2>1, <2>4, <2>5, <2>6, <2>7 DEF Starter
  <2>8. ASSUME NEW k, k = Len(jobs) + 1 PROVE Starter(k)'
    BY <2>1, <2>3, <2>8 DEF Starter, SlotInv, TypeOK
  <2>9. ASSUME NEW k \in JobIds', jobs'[k].status = "queued"
        PROVE  \/ boot' \in {"recover", "list"}
               \/ boot' = "launch" /\ k \in resume'
               \/ Starter(k)'
    <3>1. CASE k \in JobIds
      BY <2>1, <2>5, <2>7, <2>9, <3>1 DEF Started
    <3>2. CASE k \notin JobIds
      BY <2>1, <2>2, <2>8, <2>9, <3>2, Appended
    <3> QED
      BY <3>1, <3>2
  <2> QED
    BY <2>9 DEF Started
<1> QED
  BY <1>2, <1>3

LEMMA StepStarted ==
    ASSUME SlotInv, Started, MaxFaults = 0, [Next]_vars
    PROVE  Started'
<1>1. ASSUME UNCHANGED <<jobs, running, runner, boot, resume>>,
             \A c \in Callers : caller[c].pc = "launch" => caller'[c] = caller[c]
      PROVE  Started'
  BY <1>1, StartersStay, StillStarted, NoJobs DEF SlotInv, TypeOK
<1>2. CASE \/ \E t \in Tools : Reconcile(t)
           \/ TriggerAutoAssessment
           \/ \E p \in Providers : Activate(p) \/ Disable(p)
           \/ UNCHANGED vars
  BY <1>1, <1>2 DEF Reconcile, TriggerAutoAssessment, Activate, Disable, AdminDoes,
                    store, memory, vars
<1>3. ASSUME NEW c \in Callers, Fire(c) \/ \E s \in Scopes : Request(c, s)
      PROVE  Started'
  <2>1. /\ UNCHANGED <<jobs, running, runner, boot, resume>>
        /\ caller[c].pc = "idle"
        /\ \A d \in Callers : d # c => caller'[d] = caller[d]
    BY <1>3 DEF Fire, Request, Enter, store, SlotInv, TypeOK
  <2> QED
    BY <1>1, <2>1
<1>4. ASSUME NEW c \in Callers, Lock(c) \/ Check(c)
      PROVE  Started'
  <2>1. /\ UNCHANGED <<jobs, running, runner, boot, resume>>
        /\ caller[c].pc \in {"lock", "check"}
        /\ \A d \in Callers : d # c => caller'[d] = caller[d]
    BY <1>4 DEF Lock, Check, Leave, store, SlotInv, TypeOK
  <2> QED
    BY <1>1, <2>1
<1>5. ASSUME NEW c \in Callers, CallerStep(c)
      PROVE  Started'
  BY <1>4, <1>5, CreateStarted, LaunchCreatedStarted DEF CallerStep
<1>6. ASSUME NEW r \in Runners, RunnerStep(r)
      PROVE  Started'
  BY <1>6, WorkStarted, ReleaseStarted, ListNextStarted, LaunchNextStarted
     DEF RunnerStep
<1>7. ASSUME NEW j \in JobIds, Cancel(j)
      PROVE  Started'
  <2>1. SameTable /\ SetStatus(j, "cancelled") /\ UNCHANGED <<memory, boot, resume>>
    BY <1>7, AdminSlots DEF Cancel, AdminDoes
  <2>2. \A k \in JobIds : jobs'[k].status = "queued" => jobs[k].status = "queued"
    BY <2>1, StatusWritten DEF SlotInv, TypeOK, Statuses
  <2>3. \A k \in JobIds : Starter(k) => Starter(k)'
    BY <2>1, StartersStay DEF memory
  <2> QED
    BY <2>1, <2>2, <2>3, StillStarted
<1>8. CASE Crash
  BY <1>8 DEF Crash, Started
<1>9. CASE Resume
  <2>1. CASE RecoverRunning
    BY <2>1 DEF RecoverRunning, Started
  <2>2. CASE ListQueued
    BY <2>2 DEF ListQueued, Queued, Started, store, JobIds
  <2> QED
    BY <1>9, <2>1, <2>2, LaunchResumedStarted DEF Resume
<1> QED
  BY <1>2, <1>3, <1>5, <1>6, <1>7, <1>8, <1>9 DEF Next, Trigger

(* As long as the database answers, a queued job of a running process has   *)
(* somebody who will start it: its creator, the holder of its provider's    *)
(* slot or the runner that has just given it up.                            *)
THEOREM QueuedHasStarter == MaxFaults = 0 => (Spec => []QueuedJobHasStarter)
<1> SUFFICES ASSUME MaxFaults = 0 PROVE Spec => []QueuedJobHasStarter
  OBVIOUS
<1>1. Init => Started
  BY DEF Init, Started, JobIds
<1>2. SlotInv /\ Started /\ [Next]_vars => Started'
  BY StepStarted
<1>3. SlotInv /\ Started => QueuedJobHasStarter
  BY DEF Started, Starter, QueuedJobHasStarter
<1> QED
  BY <1>1, <1>2, <1>3, SlotInvariant, PTL DEF Spec
=============================================================================
