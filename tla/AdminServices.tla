---------------------------- MODULE AdminServices ----------------------------
(***************************************************************************)
(* Nine components an administrator works with, which share no state with  *)
(* each other, in one specification: an execution picks one of Services    *)
(* and follows it, while the others stay as they start.  The state space   *)
(* is the sum of theirs.                                                   *)
(***************************************************************************)
EXTENDS Naturals, FiniteSets, Sequences

CONSTANTS
    Services,   \* the components that may be followed
    Absent, Never, Nobody    \* values of no set

VARIABLES service

CONSTANTS Tools, Syncs, Descriptions, Answers, MaxOps
VARIABLES row, sync, rating, decided, overtaken, ops
Risk == INSTANCE RiskAssessment
riskVars == <<row, sync, rating, decided, overtaken, ops>>

CONSTANTS Items, BatchSize, Workers, Replies
VARIABLES next, worker, jobCtx, reader, running, counts, fate
Rating == INSTANCE BatchRating WITH job <- running
batchVars == <<next, worker, jobCtx, reader, running, counts, fate>>

CONSTANTS Requests, Failures, Subjects, Exempt, Threshold, Window, FirstBlock, MaxBlock,
          Escalation, MaxTime, MaxBlocks, MaxFaults
VARIABLES mode, now, counter, blockKey, blocks, request, release, guardBroken, guardFaults
Guard == INSTANCE SecurityGuard
guardVars == <<mode, now, counter, blockKey, blocks, request, release, guardBroken,
               guardFaults>>

CONSTANTS NEvents, AuditQueue, AuditBatch, MaxAuditFaults
VARIABLES occurred, submitting, auditQueue, auditPending, auditor, auditStop, draining,
          auditLog, accepted, auditLost, expired, auditFaults
Audit == INSTANCE AuditLog
auditVars == <<occurred, submitting, auditQueue, auditPending, auditor, auditStop,
               draining, auditLog, accepted, auditLost, expired, auditFaults>>

CONSTANTS Handlers, Passwords, Requested, Foreign, MaxConfigOps, MaxConfigFaults
VARIABLES file, memory, process, signingKey, marker, job, backup, generated,
          configOps, configFaults
Config == INSTANCE ConfigFile
configVars == <<file, memory, process, signingKey, marker, job, backup, generated,
                configOps, configFaults>>

CONSTANTS Updates, Endpoints, Modes, MaxRuns, MaxUpdates, MaxAttempts
VARIABLES saved, connector, loops, attempt, caller, overlapped, updates
XiaoZhiLoops == INSTANCE XiaoZhi
xiaozhiVars == <<saved, connector, loops, attempt, caller, overlapped, updates>>

CONSTANTS UpstreamNames, Rules, Keys, Providers, MaxIds, MaxImports, MaxWrites
VARIABLES config, export, imported, imports, writes
Exchange == INSTANCE Backup WITH backup <- imported
backupVars == <<config, export, imported, imports, writes>>

CONSTANTS ScriptIds, Upstreams, Admins, Contents, Critical, MaxScripts, MaxVersions,
          MaxOutside
VARIABLES meta, versions, files, ref, author, scriptRefMu, started, ran, unchecked, outside
Library == INSTANCE Scripts WITH admin <- author, launch <- started
scriptsVars == <<meta, versions, files, ref, author, scriptRefMu, started, ran, unchecked,
                 outside>>

CONSTANTS Dials, Closers, Stdio
VARIABLES state, conn, dial, handshake, cleanup, cancelled, open, snapshots, closer
Dialling == INSTANCE Session
sessionVars == <<state, conn, dial, handshake, cleanup, cancelled, open, snapshots, closer>>

-----------------------------------------------------------------------------
(* What the components assume of their constants *)

(* A rater answers with a level of its scale. *)
ASSUME AnswersAreLevels == Answers \subseteq 1..4
(* A job lists each tool once, batches and the pool of workers are not      *)
(* empty, and a reply in text is a list of the tools it rates.              *)
ASSUME JobConstants ==
    /\ Items \in Seq(Rating!ToSet(Items)) /\ Rating!IsInjective(Items)
    /\ BatchSize \in Nat \ {0} /\ Workers # {}
    /\ \A reply \in Replies :
        reply.kind = "text" => reply.says \in Seq(Rating!ToSet(reply.says))
(* A failed request names subjects to block, the durations are numbers, and *)
(* the absent key is none of them.                                          *)
ASSUME GuardConstants ==
    /\ Never \notin Subjects
    /\ Failures \subseteq Seq(Subjects) \ {<<>>}
    /\ FirstBlock \in Nat /\ MaxBlock \in Nat /\ Escalation \in Nat /\ MaxFaults \in Nat
(* The events that may occur are numbered.                                  *)
ASSUME EventsAreNumbered == NEvents \in Nat
(* A backup written elsewhere has an administrator and a secret; no         *)
(* password leaves the account without one.                                 *)
ASSUME ForeignIsBackup ==
    DOMAIN Foreign = {"admin", "secret", "settings"} /\ Foreign.admin # "none" /\ Foreign.secret # 0
ASSUME NoneIsNoPassword == "none" \notin Passwords
(* The connector has an address and a mode, and the application that shuts  *)
(* it down is no update.                                                    *)
ASSUME SomeSettings == Endpoints # {} /\ Modes # {}
ASSUME RunsAreCounted == MaxRuns \in Nat
ASSUME AppIsNoUpdate == "app" \notin Updates
(* Nobody holds no lock and refers to no script, and no dial is absent.     *)
ASSUME NobodyIsNoAdmin == Nobody \notin Admins
ASSUME NobodyIsNoReference == Nobody \notin Library!References
ASSUME NoneIsNoDial == Dialling!None \notin Dials

-----------------------------------------------------------------------------
allVars == <<service, riskVars, batchVars, guardVars, auditVars, configVars, xiaozhiVars,
             backupVars, scriptsVars, sessionVars>>

(* TLC's view: the rest of a state stays as it started *)
Followed ==
    CASE service = "risk" -> riskVars
      [] service = "batch" -> batchVars
      [] service = "guard" -> guardVars
      [] service = "audit" -> auditVars
      [] service = "config" -> configVars
      [] service = "xiaozhi" -> xiaozhiVars
      [] service = "backup" -> backupVars
      [] service = "scripts" -> scriptsVars
      [] service = "session" -> sessionVars
View == <<service, Followed>>

Init ==
    /\ service \in Services
    /\ Risk!Init /\ Rating!Init /\ Guard!Init /\ Audit!Init /\ Config!Init
    /\ XiaoZhiLoops!Init /\ Exchange!Init /\ Library!Init /\ Dialling!Init

Next ==
    /\ UNCHANGED service
    /\ IF service = "risk" THEN Risk!Next ELSE UNCHANGED riskVars
    /\ IF service = "batch" THEN Rating!Next ELSE UNCHANGED batchVars
    /\ IF service = "guard" THEN Guard!Next ELSE UNCHANGED guardVars
    /\ IF service = "audit" THEN Audit!Next ELSE UNCHANGED auditVars
    /\ IF service = "config" THEN Config!Next ELSE UNCHANGED configVars
    /\ IF service = "xiaozhi" THEN XiaoZhiLoops!Next ELSE UNCHANGED xiaozhiVars
    /\ IF service = "backup" THEN Exchange!Next ELSE UNCHANGED backupVars
    /\ IF service = "scripts" THEN Library!Next ELSE UNCHANGED scriptsVars
    /\ IF service = "session" THEN Dialling!Next ELSE UNCHANGED sessionVars

Spec == Init /\ [][Next]_allVars

-----------------------------------------------------------------------------
(* The properties of the modules, of the component that is followed *)

(* A tool is in the lists exactly if a call of it is allowed. *)
ListedIffCallable == service = "risk" => Risk!ListedIffCallable
(* A rating counts only for the description it was decided on, or for one    *)
(* stored while the provider was asked. *)
UsedAfterDecision == service = "risk" => Risk!UsedAfterDecision
(* A job that has ended accounts for every tool it listed. *)
JobAccountsForTools == service = "batch" => Rating!JobAccountsForTools
(* Whoever the guard refuses has a block an administrator sees. *)
RefusalsAreListed == service = "guard" => Guard!RefusalsAreListed
(* An audit log stopped in order has written what it accepted. *)
AuditIsComplete == service = "audit" => Audit!AuditIsComplete
(* The file stays loadable, the administrator and the secret in it. *)
AdminKeepsAccess ==
    [](service = "config" => Config!Loadable)
    /\ [][service = "config" => Config!KeepsAdmin]_configVars
(* At rest the connector runs, or not, as the settings say. *)
ConnectorFollowsSettings == service = "xiaozhi" => XiaoZhiLoops!ConnectorFollowsSettings
(* An import restores what the backup holds. *)
ImportRestores == [][service = "backup" => Exchange!Restored]_backupVars
(* No process, stream or snapshot is left without an owner. *)
NothingLeaks == service = "session" => Dialling!NothingLeaks
(* An upstream runs the published bytes its reference stands for. *)
ReferencesHold == service = "scripts" => Library!ReferencesHold
=============================================================================
