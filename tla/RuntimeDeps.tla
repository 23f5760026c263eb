---------------------------- MODULE RuntimeDeps ----------------------------
(***************************************************************************)
(* The shared npm and pip packages of the data volume: their installation  *)
(* (src/internal/runtime/deps.go, run_shared.go, doctor.go and the handlers *)
(* of src/internal/httpapi/runtime_env.go) and the preflight of stdio       *)
(* upstreams, which looks their tools up through two caches                *)
(* (src/internal/runtime/layout.go, requirements.go).                      *)
(*                                                                         *)
(* One package operation runs at a time.  Its command is a tree: npm or uv *)
(* and the processes these start.  A deadline or a closed connection sends *)
(* SIGTERM to the tree and, after a grace, kills the first process only:   *)
(* the others may go on writing after the operation has answered.          *)
(* Specifications are model values here; their syntax check is a fact of   *)
(* the specification.  The clock's unit is longer than a preflight or a    *)
(* lookup of the prefixes.  Package operations, the polled summary,        *)
(* launches and RunCommand look the prefixes up as preflights do.          *)
(***************************************************************************)
EXTENDS Integers, FiniteSets, Sequences

CONSTANTS
    Admins,         \* administrators that manage packages
    Probers,        \* clients that ask for a preflight
    Pollers,        \* clients that poll the summary, launches, callers of RunCommand
    Packages,       \* [kind: {"npm","pip"}, name, tools: what it puts in its bin]
    Placed,         \* what the operator may put in runtime/bin: [kind: {"bin"}, name, tools]
    Image,          \* tools of the image, found on the PATH
    Preflights,     \* [command, mode: {"auto","manual"}, tools, runtimes]
    PrefixTTL, PreflightTTL,    \* pathPrefixesCacheTTL, preflightCacheTTL
    MaxLogs,        \* maxDepLogs: what Logs returns; twice as many are kept
    Nobody,
    MaxTime, MaxLines,  \* bounds; MaxLines: per command
    MaxWork         \* bounds preflights, package requests and files placed, by Work

VARIABLES
    installed,      \* packages on the volume
    dirs,           \* kinds whose bin directory exists
    modified,       \* its number of modifications (the mtime)
    depOpMu,        \* holder of depOpMu and of DependencyManager.mu
    op,             \* of each administrator: its request
    tree,           \* of each command still running: what runs of it
    progress, lastError, logs,  \* by the number of their operation
    latest,         \* number of the operation that last cleared the logs
    ops,            \* number of operations so far
    prefixes,       \* pathPrefixesCache: [at, dirs]
    preflights,     \* preflightCache: [key -> [at, missing]]
    probe,          \* of each prober: its request
    answer,         \* the last preflight: [tools, missing]
    absent, present,\* of each tool: the last time it was missing, available
    now, probes,
    looks,          \* of administrators and pollers: a lookup of the prefixes
    disturbed,      \* preflights between whose two lookups another request stored its own
    doubtful        \* keys of the results of such preflights

depVars == <<installed, dirs, modified, depOpMu, op, tree, progress, lastError, logs,
             latest, ops, prefixes, preflights, probe, answer, absent, present, now, probes,
             looks, disturbed, doubtful>>

files == <<installed, dirs, modified, absent, present>>
summary == <<progress, lastError, logs, latest>>
caches == <<prefixes, preflights, disturbed, doubtful>>
requests == <<depOpMu, op, tree, ops, looks>>
probing == <<probe, answer, probes>>

Kinds == {"npm", "pip", "bin"}     \* bin: what the operator puts in runtime/bin by hand
None == 0       \* operations are numbered from 1, in the order in which they run
Idle == [stage |-> "idle"]
Lookup == << >>  \* the prefixes are wanted for the key of the cache
Ready == [stage |-> "look", dirs |-> {}, found |-> 0]     \* found: commands already resolved
NeverRead == [at |-> -1, dirs |-> {}]

(* KnownTools: what a command and a template's runtime tag need *)
Known == {"node", "npx", "npm", "python", "python3", "uv", "uvx"}

InferredFrom(command) ==
    CASE command = "npx" -> {"node", "npx"}
      [] command = "npm" -> {"node", "npm"}
      [] command = "uvx" -> {"uv", "uvx"}
      [] command \in Known -> {command}
      [] OTHER -> {}

RuntimeTools(tag) ==
    CASE tag = "node" -> {"node", "npx", "npm"}
      [] tag = "python" -> {"python", "python3"}
      [] tag \in {"uv", "uvx"} -> {"uv", "uvx"}
      [] OTHER -> {}

(* ResolveEffectiveTools *)
EffectiveTools(req) ==
    LET declared == req.tools \cap Known
        suggested == InferredFrom(req.command) \cup UNION {RuntimeTools(t) : t \in req.runtimes}
    IN IF req.mode = "manual" \/ suggested = {} THEN declared ELSE suggested

ToolsIn(pkgs, seen) == Image \cup UNION {p.tools : p \in {q \in pkgs : q.kind \in seen}}

(* LookPathWithPrefixes over the prefixes that PathPrefixes returned *)
Missing(tools, seen) == tools \ ToolsIn(installed, seen)

Work == probes + 2 * (ops + Cardinality({a \in Admins : op[a].stage = "waiting"}))
               + 2 * modified["bin"]

Init ==
    /\ installed = {} /\ dirs = {"bin"} /\ modified = [k \in Kinds |-> 0]
    /\ depOpMu = Nobody
    /\ op = [a \in Admins |-> Idle]
    /\ tree = << >>
    /\ progress = None /\ lastError = None /\ logs = <<>> /\ latest = None
    /\ ops = 0
    /\ prefixes = NeverRead
    /\ preflights = << >>
    /\ probe = [p \in Probers |-> Idle]
    /\ answer = [tools |-> {}, missing |-> {}]
    /\ absent = [t \in Known |-> IF t \in Image THEN -1 ELSE 0]
    /\ present = [t \in Known |-> IF t \in Image THEN 0 ELSE -1]
    /\ now = 0 /\ probes = 0
    /\ looks = [r \in Admins \cup Pollers |-> Ready]
    /\ disturbed = {} /\ doubtful = {}

-----------------------------------------------------------------------------
(* Package operations *)

Move(a, stage) == op' = [op EXCEPT ![a].stage = stage]

Here(a, stage) == op[a].stage = stage

(* addLog: twice the limit is cut to the limit *)
Logged(log, n) ==
    LET longer == Append(log, n) IN
    IF Len(longer) >= 2 * MaxLogs THEN SubSeq(longer, Len(longer) - MaxLogs + 1, Len(longer))
    ELSE longer

Effect(do, pkg) ==
    CASE do = "install" -> installed \cup {pkg}
      [] do = "uninstall" -> installed \ {pkg}
      [] OTHER -> installed

(* When each tool was last missing and last there: what the property reads *)
Observe(there, time) ==
    /\ absent' = [t \in Known |-> IF t \in there THEN absent[t] ELSE time]
    /\ present' = [t \in Known |-> IF t \in there THEN time ELSE present[t]]

(* A command writes its packages; an installation makes the directory if needed *)
Write(pkgs, kind) ==
    LET known == IF pkgs \subseteq installed THEN dirs ELSE dirs \cup {kind}
    IN /\ installed' = pkgs
       /\ dirs' = known
       /\ modified' = [modified EXCEPT ![kind] = @ + 1]
       /\ Observe(ToolsIn(pkgs, known), now)

Changes(do, pkg) == Effect(do, pkg) # installed /\ Write(Effect(do, pkg), pkg.kind)

(* runtimeListDeps, runtimeInstallDep, runtimeUninstallDep: the deadline starts here *)
Request(a, do, pkg) ==
    /\ Here(a, "idle") /\ Work + 2 <= MaxWork
    /\ op' = [op EXCEPT ![a] = [stage |-> "waiting", do |-> do, pkg |-> pkg,
                                number |-> None, done |-> FALSE, ok |-> FALSE]]
    /\ UNCHANGED <<files, looks, depOpMu, tree, ops, summary, caches, probing, now>>

(* The deadline passes or the client goes away; Lock does not notice *)
CancelRequest(a) ==
    /\ op[a].stage \in {"waiting", "locked", "begun", "running"} /\ ~op[a].done
    /\ op' = [op EXCEPT ![a].done = TRUE]
    /\ UNCHANGED <<files, looks, depOpMu, tree, ops, summary, caches, probing, now>>

Numbered(a) ==
    /\ ops' = ops + 1
    /\ op' = [op EXCEPT ![a].stage = "locked", ![a].number = ops + 1]

Acquire(a) ==
    /\ Here(a, "waiting") /\ depOpMu = Nobody
    /\ depOpMu' = a
    /\ Numbered(a)
    /\ UNCHANGED <<files, looks, tree, summary, caches, probing, now>>

(* InstallDep and UninstallDep, of a specification that validateDepSpec accepts *)
Begin(a) ==
    /\ Here(a, "locked")
    /\ Move(a, "begun")
    /\ IF op[a].do = "list" THEN UNCHANGED summary
       ELSE /\ logs' = <<op[a].number>> /\ progress' = op[a].number
            /\ lastError' = None /\ latest' = op[a].number
    /\ UNCHANGED <<files, looks, depOpMu, tree, ops, caches, probing, now>>

Fails(a) ==
    /\ Move(a, "over")
    /\ IF op[a].do = "list" THEN UNCHANGED <<lastError, logs>>
       ELSE lastError' = op[a].number /\ logs' = Logged(logs, op[a].number)
    /\ progress' = IF op[a].do = "list" THEN progress ELSE None
    /\ UNCHANGED <<latest, depOpMu, ops, caches, probing, now>>

(* What resolveNpm, resolveUv and hasPython look for, one lookup each *)
Managers(kind) == IF kind = "npm" THEN <<{"npm"}>> ELSE <<{"uv"}, {"python3", "python"}>>

Wanted(a) == Managers(op[a].pkg.kind)

LookAt(r, next) == looks' = [looks EXCEPT ![r] = next]

Looking(a, stage) == Here(a, "begun") /\ looks[a].stage = stage

Resolved(a) == looks[a].found = Len(Wanted(a))

Find(a) ==
    /\ Looking(a, "seen") /\ ~Resolved(a)
    /\ Wanted(a)[looks[a].found + 1] \cap ToolsIn(installed, looks[a].dirs) # {}
    /\ LookAt(a, [Ready EXCEPT !.found = looks[a].found + 1])
    /\ UNCHANGED <<files, depOpMu, op, tree, ops, summary, caches, probing, now>>

(* A command is not found, or exec refuses to start it under a context that is done *)
CannotStart(a) ==
    /\ Looking(a, "seen")
    /\ IF Resolved(a) THEN op[a].done
       ELSE Wanted(a)[looks[a].found + 1] \cap ToolsIn(installed, looks[a].dirs) = {}
    /\ Fails(a) /\ LookAt(a, Ready)
    /\ UNCHANGED <<files, tree>>

(* runCommand, after a last lookup for the PATH of the command *)
StartCommand(a) ==
    /\ Looking(a, "seen") /\ Resolved(a) /\ ~op[a].done
    /\ tree' = [n \in DOMAIN tree \cup {op[a].number} |->
                   IF n \in DOMAIN tree THEN tree[n]
                   ELSE [do |-> op[a].do, pkg |-> op[a].pkg, leader |-> TRUE, lines |-> 0]]
    /\ Move(a, "running") /\ LookAt(a, Ready)
    /\ UNCHANGED <<files, depOpMu, ops, summary, caches, probing, now>>

(* A line of output reaches the log through the pipes that Wait closes *)
Output(a) ==
    /\ Here(a, "running")
    /\ LET n == op[a].number IN
       /\ tree[n].lines < MaxLines
       /\ tree' = [tree EXCEPT ![n].lines = @ + 1]
       /\ logs' = Logged(logs, n)
    /\ UNCHANGED <<files, looks, depOpMu, op, ops, progress, lastError, latest, caches, probing, now>>

(* The command exits by itself *)
Exit(a) ==
    /\ Here(a, "running")
    /\ LET n == op[a].number IN
       /\ tree' = [m \in DOMAIN tree \ {n} |-> tree[m]]
       /\ \/ /\ \/ Changes(op[a].do, op[a].pkg)
                \/ Effect(op[a].do, op[a].pkg) = installed /\ UNCHANGED files
             /\ op' = [op EXCEPT ![a].stage = "over", ![a].ok = TRUE]
             /\ logs' = IF op[a].do = "list" THEN logs ELSE Logged(logs, n)
             /\ progress' = IF op[a].do = "list" THEN progress ELSE None
             /\ UNCHANGED <<lastError, latest, depOpMu, ops, looks, caches, probing, now>>
          \/ /\ Fails(a) /\ UNCHANGED looks
             /\ Changes(op[a].do, op[a].pkg) \/ UNCHANGED files

(* terminateProcessGroup, then WaitDelay: the tree may outlive its first process *)
Terminate(a) ==
    /\ Here(a, "running") /\ op[a].done
    /\ LET n == op[a].number IN
       \/ tree' = [m \in DOMAIN tree \ {n} |-> tree[m]]
       \/ tree' = [tree EXCEPT ![n].leader = FALSE]
    /\ Fails(a)
    /\ UNCHANGED <<files, looks>>

(* What is left of a terminated tree finishes its work *)
OrphanWrites(n) ==
    /\ n \in DOMAIN tree /\ ~tree[n].leader
    /\ \/ Changes(tree[n].do, tree[n].pkg)
       \/ UNCHANGED files
    /\ tree' = [m \in DOMAIN tree \ {n} |-> tree[m]]
    /\ UNCHANGED <<looks, depOpMu, op, ops, summary, caches, probing, now>>

(* A change that succeeded: invalidatePathPrefixes *)
InvalidatePrefixes(a) ==
    /\ Here(a, "over") /\ op[a].ok /\ op[a].do # "list"
    /\ prefixes' = NeverRead
    /\ Move(a, "invalidating")
    /\ UNCHANGED <<files, looks, depOpMu, tree, ops, summary, preflights, disturbed, doubtful,
                   probing, now>>

(* InvalidatePreflightCache *)
InvalidatePreflights(a) ==
    /\ Here(a, "invalidating")
    /\ preflights' = << >>
    /\ Move(a, "answered")
    /\ UNCHANGED <<files, looks, depOpMu, tree, ops, summary, prefixes, disturbed, doubtful,
                   probing, now>>

Release(a) ==
    /\ \/ Here(a, "answered")
       \/ Here(a, "over") /\ ~(op[a].ok /\ op[a].do # "list")
    /\ depOpMu' = Nobody
    /\ op' = [op EXCEPT ![a] = Idle]
    /\ UNCHANGED <<files, looks, tree, ops, summary, caches, probing, now>>

(* The operator adds or removes a file of runtime/bin *)
Place(file) ==
    /\ Work + 2 <= MaxWork
    /\ \/ Write(installed \cup {file}, "bin") \/ Write(installed \ {file}, "bin")
    /\ UNCHANGED <<requests, summary, caches, probing, now>>

-----------------------------------------------------------------------------
(* PathPrefixes *)

Fresh(entry, ttl) == entry.at # -1 /\ now - entry.at < ttl

ProbeAt(p, next) == probe' = [probe EXCEPT ![p] = next]

(* After the lookup for the key has begun, and before the second one has the cache *)
BetweenLookups(p) ==
    \/ probe[p].stage \in {"store", "use"} /\ probe[p].for = Lookup
    \/ probe[p].stage = "prefixes" /\ probe[p].for # Lookup

Stores(seen, others) ==
    /\ prefixes' = [at |-> now, dirs |-> seen]
    /\ disturbed' = disturbed \cup {p \in others : BetweenLookups(p)}

(* From the cache, or by a stat of the directories.  What a poller does with them *)
(* changes nothing here, so that one which meets a fresh cache takes no step.     *)
Look(r) ==
    /\ looks[r].stage = "look"
    /\ IF r \in Admins THEN Here(r, "begun") ELSE ~Fresh(prefixes, PrefixTTL)
    /\ IF Fresh(prefixes, PrefixTTL)
       THEN LookAt(r, [looks[r] EXCEPT !.stage = "seen", !.dirs = prefixes.dirs])
       ELSE LookAt(r, [looks[r] EXCEPT !.stage = "store", !.dirs = dirs])
    /\ UNCHANGED <<files, depOpMu, op, tree, ops, summary, caches, probing, now>>

(* The result of the stat is stored in a second step *)
StoreLook(r) ==
    /\ looks[r].stage = "store"
    /\ Stores(looks[r].dirs, Probers)
    /\ LookAt(r, IF r \in Admins THEN [looks[r] EXCEPT !.stage = "seen"] ELSE Ready)
    /\ UNCHANGED <<files, depOpMu, op, tree, ops, summary, preflights, doubtful, probing, now>>

-----------------------------------------------------------------------------
(* Preflight *)

StartPreflight(p, req) ==
    /\ probe[p] = Idle /\ Work < MaxWork
    /\ probes' = probes + 1
    /\ disturbed' = disturbed \ {p}
    /\ ProbeAt(p, [stage |-> "prefixes", for |-> Lookup, req |-> req, seen |-> {}])
    /\ UNCHANGED <<files, requests, summary, prefixes, preflights, doubtful, answer, now>>

(* PathPrefixes, for the key or for the evaluation *)
ReadPrefixes(p) ==
    /\ probe[p].stage = "prefixes"
    /\ IF Fresh(prefixes, PrefixTTL)
       THEN ProbeAt(p, [probe[p] EXCEPT !.stage = "use", !.seen = prefixes.dirs])
       ELSE ProbeAt(p, [probe[p] EXCEPT !.stage = "store", !.seen = dirs])
    /\ UNCHANGED <<files, requests, summary, caches, answer, probes, now>>

StorePrefixes(p) ==
    /\ probe[p].stage = "store"
    /\ Stores(probe[p].seen, Probers \ {p})
    /\ ProbeAt(p, [probe[p] EXCEPT !.stage = "use"])
    /\ UNCHANGED <<files, requests, summary, preflights, doubtful, answer, probes, now>>

(* preflightCacheKey: the request and the mtime of every prefix *)
Key_RequestOnly(req, seen) == <<req, seen>>

Key(req, seen) == <<req, {<<k, modified[k]>> : k \in seen}>>

Answered(req, missing) == answer' = [tools |-> EffectiveTools(req), missing |-> missing]

UseEntry(p) ==
    /\ probe[p].stage = "use" /\ probe[p].for = Lookup
    /\ LET key == Key(probe[p].req, probe[p].seen) IN
       IF key \in DOMAIN preflights /\ Fresh(preflights[key], PreflightTTL)
       THEN /\ Answered(probe[p].req, preflights[key].missing)
            /\ ProbeAt(p, Idle)
            /\ UNCHANGED preflights
       ELSE /\ ProbeAt(p, [stage |-> "prefixes", for |-> key, req |-> probe[p].req, seen |-> {}])
            /\ UNCHANGED <<answer, preflights>>
    /\ UNCHANGED <<files, requests, summary, prefixes, disturbed, doubtful, probes, now>>

(* EvaluatePreflight *)
Evaluate(p) ==
    /\ probe[p].stage = "use" /\ probe[p].for # Lookup
    /\ ProbeAt(p, [stage |-> "save", for |-> probe[p].for, req |-> probe[p].req,
                   missing |-> Missing(EffectiveTools(probe[p].req), probe[p].seen)])
    /\ UNCHANGED <<files, requests, summary, caches, answer, probes, now>>

SavePreflight(p) ==
    /\ probe[p].stage = "save"
    /\ preflights' = [k \in DOMAIN preflights \cup {probe[p].for} |->
                         IF k = probe[p].for THEN [at |-> now, missing |-> probe[p].missing]
                         ELSE preflights[k]]
    /\ Answered(probe[p].req, probe[p].missing)
    /\ doubtful' = IF p \in disturbed THEN doubtful \cup {probe[p].for}
                   ELSE doubtful \ {probe[p].for}
    /\ ProbeAt(p, Idle)
    /\ UNCHANGED <<files, requests, summary, prefixes, disturbed, probes, now>>

Tick ==
    /\ now < MaxTime /\ \A p \in Probers : probe[p] = Idle
    /\ \A r \in Admins \cup Pollers : looks[r] = Ready
    /\ now' = now + 1
    /\ Observe(ToolsIn(installed, dirs), now + 1)
    /\ UNCHANGED <<installed, dirs, modified, requests, summary, caches, probing>>

Next ==
    \/ \E a \in Admins :
        \/ \E do \in {"install", "uninstall", "list"}, pkg \in Packages : Request(a, do, pkg)
        \/ CancelRequest(a) \/ Acquire(a) \/ Begin(a) \/ Find(a) \/ CannotStart(a)
        \/ StartCommand(a)
        \/ Output(a) \/ Exit(a) \/ Terminate(a)
        \/ InvalidatePrefixes(a) \/ InvalidatePreflights(a) \/ Release(a)
    \/ \E n \in DOMAIN tree : OrphanWrites(n)
    \/ \E file \in Placed : Place(file)
    \/ \E r \in Admins \cup Pollers : Look(r) \/ StoreLook(r)
    \/ \E p \in Probers :
        \/ \E req \in Preflights : StartPreflight(p, req)
        \/ ReadPrefixes(p) \/ StorePrefixes(p) \/ UseEntry(p) \/ Evaluate(p) \/ SavePreflight(p)
    \/ Tick

Spec == Init /\ [][Next]_depVars

-----------------------------------------------------------------------------
(* One package manager runs at a time, and what the administrator polls is *)
(* about one operation: the progress, the error and the lines of the logs  *)
(* belong to the last one that began (lines of a later list aside), also   *)
(* when requests queue, are cancelled or leave processes behind.           *)
OneOperationAtATime ==
    /\ Cardinality({n \in DOMAIN tree : tree[n].leader}) <= 1
    /\ progress \in {None, latest} /\ lastError \in {None, latest}
    /\ \A i \in DOMAIN logs : logs[i] >= latest
    /\ progress # None => depOpMu \in Admins /\ op[depOpMu].number = progress

(* The results kept for PreflightTTL add nothing to the age of an answer: a *)
(* tool that a preflight misses was missing, and one it finds was there,   *)
(* within the last PrefixTTL, whatever package operations, orphans, files  *)
(* placed by hand and invalidations do (the fingerprint of the directories *)
(* is part of the key).  It is not said of a result for which another      *)
(* request, preflight, package operation or poller stored its prefixes     *)
(* between the two lookups of the one that evaluated it: its key can be of *)
(* newer directories than its answer, which is then served PreflightTTL on. *)
AnswersRecently ==
    \A p \in Probers :
        /\ probe[p] # Idle /\ probe'[p] = Idle
        /\ probe[p].stage = "use" => Key(probe[p].req, probe[p].seen) \notin doubtful
        => \A t \in answer'.tools :
              now - (IF t \in answer'.missing THEN absent ELSE present)[t] < PrefixTTL
PreflightIsRecent == [][AnswersRecently]_depVars
=============================================================================
