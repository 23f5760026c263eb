----------------------------- MODULE ConfigFile -----------------------------
(***************************************************************************)
(* config.yaml and who writes it: the start of the process (defaults, the   *)
(* offline reset of the password, the signing secret), the registration, a  *)
(* change of password, of settings, and a restored backup.  Every handler   *)
(* changes a snapshot of the configuration and saves it as a whole          *)
(* (config/manager.go, auth, httpapi/settings.go, backup/service.go).       *)
(***************************************************************************)
EXTENDS Naturals, FiniteSets, Functions

CONSTANTS
    Handlers,
    Passwords,
    Requested, \* settings an administrator may send: the fields that differ
               \* from their default, with their values
    Foreign,   \* a backup of another installation
    MaxConfigOps, MaxConfigFaults \* bounds

VARIABLES
    file,      \* config.yaml, or NoFile
    memory,    \* Manager.cfg
    process,   \* down, reset, unmark, secret, up
    signingKey,\* of the tokens, read at the start
    marker,    \* data/.reset-admin exists
    job,       \* where each handler is
    backup,    \* the last exported backup
    generated, \* history: secrets that were generated
    configOps, configFaults \* history: how much of the bounds is used

configVars == <<file, memory, process, signingKey, marker, job, backup, generated,
                configOps, configFaults>>

----------------------------------------------------------------------------
(* The ranges of ValidateYAMLConfig, and the defaults.                       *)
Limits == [
    session_timeout_s |-> 300..86400,        sync_timeout_s |-> 5..300,
    retry_initial_backoff_s |-> 1..60,       retry_max_backoff_s |-> 1..86400,
    failure_threshold |-> 1..100,            demand_reconnect_cooldown_s |-> 1..300,
    demand_reconnect_wait_s |-> 1..30,       upstream_call_timeout_s |-> 1..600,
    smart_discovery_limit |-> 1..200,        top_limit_default |-> 1..100,
    stats_retention_days |-> 1..3650,        page_size_default |-> 1..200,
    audit_retention_days |-> 1..3650,        failure_window_s |-> 60..3600,
    max_failures_per_ip |-> 1..10000,        max_failures_per_key |-> 1..10000,
    max_acl_denies_per_key_ip |-> 1..10000,  first_block_duration_s |-> 60..86400,
    max_block_duration_s |-> 60..604800,     escalation_window_s |-> 300..604800]

Default == [
    session_timeout_s |-> 3600,              sync_timeout_s |-> 30,
    retry_initial_backoff_s |-> 5,           retry_max_backoff_s |-> 300,
    failure_threshold |-> 10,                demand_reconnect_cooldown_s |-> 5,
    demand_reconnect_wait_s |-> 8,           upstream_call_timeout_s |-> 30,
    smart_discovery_limit |-> 50,            top_limit_default |-> 10,
    stats_retention_days |-> 90,             page_size_default |-> 20,
    audit_retention_days |-> 180,            failure_window_s |-> 300,
    max_failures_per_ip |-> 30,              max_failures_per_key |-> 8,
    max_acl_denies_per_key_ip |-> 5,         first_block_duration_s |-> 900,
    max_block_duration_s |-> 86400,          escalation_window_s |-> 86400]

(* Fields that came with later versions: zero is the default.                *)
ZeroIsDefault == {"demand_reconnect_cooldown_s", "demand_reconnect_wait_s",
    "failure_window_s", "max_failures_per_ip", "max_failures_per_key",
    "max_acl_denies_per_key_ip", "first_block_duration_s",
    "max_block_duration_s", "escalation_window_s"}

NormalizeYAMLConfig(settings) ==
    Restrict(settings, {f \in DOMAIN settings :
                            ~(f \in ZeroIsDefault /\ settings[f] = 0)})

Value(settings, f) == IF f \in DOMAIN settings THEN settings[f] ELSE Default[f]

ValidateYAMLConfig(settings) ==
    /\ \A f \in DOMAIN settings : settings[f] \in Limits[f]
    /\ Value(settings, "first_block_duration_s") <=
       Value(settings, "max_block_duration_s")

----------------------------------------------------------------------------
NoFile == [admin |-> "no file", secret |-> 0, settings |-> <<>>]
DefaultYAMLConfig == [admin |-> "none", secret |-> 0, settings |-> <<>>]
Idle == [at |-> "idle", op |-> "none", old |-> NoFile, new |-> NoFile]

Init ==
    /\ file = NoFile /\ memory = NoFile /\ process = "down" /\ signingKey = 0
    /\ marker = FALSE /\ job = [p \in Handlers |-> Idle] /\ backup = Foreign
    /\ generated = 0 /\ configOps = 0 /\ configFaults = 0

Fails == configFaults < MaxConfigFaults /\ configFaults' = configFaults + 1
Counted == configOps < MaxConfigOps /\ configOps' = configOps + 1

(* Load: what the file says must be valid; a missing one is created.         *)
Load ==
    /\ process = "down"
    /\ IF file = NoFile
       THEN file' = DefaultYAMLConfig /\ memory' = DefaultYAMLConfig
       ELSE /\ file' = file
            /\ memory' = [file EXCEPT !.settings = NormalizeYAMLConfig(@)]
            /\ ValidateYAMLConfig(memory'.settings)
    /\ process' = "reset"
    /\ UNCHANGED <<signingKey, marker, job, backup, generated, configOps, configFaults>>

(* Save at the start, where nothing else runs; if it fails the start does.   *)
SaveAtStart(config, next) ==
    \/ /\ file' = config /\ memory' = config /\ process' = next
       /\ configFaults' = configFaults
    \/ /\ Fails /\ process' = "down" /\ UNCHANGED <<file, memory>>

(* MaybeResetAdminPassword: a new random password, ...                       *)
MaybeResetAdminPassword ==
    /\ process = "reset"
    /\ IF marker THEN SaveAtStart([memory EXCEPT !.admin = "random"], "unmark")
                 ELSE process' = "secret" /\ UNCHANGED <<file, memory, configFaults>>
    /\ UNCHANGED <<signingKey, marker, job, backup, generated, configOps>>

(* ... then the marker is removed; if that fails the next start resets again.*)
RemoveMarker ==
    /\ process = "unmark" /\ process' = "secret"
    /\ marker' \in BOOLEAN
    /\ IF marker' THEN Fails ELSE configFaults' = configFaults
    /\ UNCHANGED <<file, memory, signingKey, job, backup, generated, configOps>>

EnsureJWTSecret ==
    /\ process = "secret"
    /\ IF memory.secret # 0
       THEN process' = "up" /\ UNCHANGED <<file, memory, generated, configFaults>>
       ELSE /\ SaveAtStart([memory EXCEPT !.secret = generated + 1], "up")
            /\ generated' = generated + (IF process' = "up" THEN 1 ELSE 0)
    /\ signingKey' = IF process' = "up" THEN memory'.secret ELSE 0
    /\ UNCHANGED <<marker, job, backup, configOps>>

(* A crash, a stop or a restart at any step.                                 *)
Stop ==
    /\ process # "down" /\ Fails
    /\ process' = "down" /\ signingKey' = 0 /\ memory' = NoFile
    /\ job' = [p \in Handlers |-> Idle]
    /\ UNCHANGED <<file, marker, backup, generated, configOps>>

(* An operator asks for a reset.                                             *)
TouchMarker ==
    /\ ~marker /\ marker' = TRUE /\ Fails
    /\ UNCHANGED <<file, memory, process, signingKey, job, backup, generated, configOps>>

----------------------------------------------------------------------------
(* A handler takes a snapshot and will save a changed copy.                  *)
Begin(p, op, config) ==
    /\ process = "up" /\ job[p] = Idle /\ Counted
    /\ job' = [job EXCEPT ![p] = [at |-> "save", op |-> op, old |-> memory, new |-> config]]
    /\ UNCHANGED <<file, memory, process, signingKey, marker, backup, generated, configFaults>>

Register(p, pw) ==
    memory.admin = "none" /\ Begin(p, "register", [memory EXCEPT !.admin = pw])

(* What follows needs a token, and Login gives one to the administrator only.*)
LoggedIn == memory.admin # "none"

ChangePassword(p, pw) ==
    LoggedIn /\ Begin(p, "password", [memory EXCEPT !.admin = pw])

(* Mutation: what the form does not show is taken from the request.          *)
updateSettings_Whole(p, settings) ==
    LoggedIn /\ Begin(p, "settings", [DefaultYAMLConfig EXCEPT !.settings = settings])
updateSettings(p, settings) ==
    LoggedIn /\ Begin(p, "settings", [memory EXCEPT !.settings = settings])

Export ==
    /\ process = "up" /\ LoggedIn /\ backup # memory /\ backup' = memory
    /\ UNCHANGED <<file, memory, process, signingKey, marker, job, generated,
                   configOps, configFaults>>

Import(p) ==
    LoggedIn /\ ValidateYAMLConfig(backup.settings) /\ Begin(p, "import", backup)

(* Save: the file without a lock, ...                                        *)
WriteFile(p) ==
    LET settings == NormalizeYAMLConfig(job[p].new.settings)
        config == [job[p].new EXCEPT !.settings = settings]
    IN /\ job[p].at = "save"
       /\ \/ /\ ValidateYAMLConfig(settings) /\ file' = config
             /\ job' = [job EXCEPT ![p].at = "publish", ![p].new = config]
             /\ configFaults' = configFaults
          \/ /\ IF ValidateYAMLConfig(settings) THEN Fails
                                               ELSE configFaults' = configFaults
             /\ file' = file /\ job' = [job EXCEPT ![p] = Idle]
       /\ UNCHANGED <<memory, process, signingKey, marker, backup, generated, configOps>>

(* ... then the memory.                                                      *)
Publish(p) ==
    /\ job[p].at = "publish" /\ memory' = job[p].new
    /\ job' = [job EXCEPT ![p] = IF @.op \in {"settings", "import"}
                                 THEN [@ EXCEPT !.at = "apply"] ELSE Idle]
    /\ UNCHANGED <<file, process, signingKey, marker, backup, generated, configOps,
                   configFaults>>

(* ApplySettings or ImportBusiness; if it fails the snapshot is saved again. *)
Apply(p) ==
    /\ job[p].at = "apply"
    /\ \/ job' = [job EXCEPT ![p] = Idle] /\ configFaults' = configFaults
       \/ /\ Fails
          /\ job' = [job EXCEPT ![p] = [at |-> "save", op |-> "rollback",
                                        old |-> NoFile, new |-> @.old]]
    /\ UNCHANGED <<file, memory, process, signingKey, marker, backup, generated, configOps>>

Next ==
    \/ Load \/ MaybeResetAdminPassword \/ RemoveMarker \/ EnsureJWTSecret
    \/ Stop \/ TouchMarker \/ Export
    \/ \E p \in Handlers :
         \/ \E pw \in Passwords : Register(p, pw) \/ ChangePassword(p, pw)
         \/ \E settings \in Requested : updateSettings(p, settings)
         \/ Import(p) \/ WriteFile(p) \/ Publish(p) \/ Apply(p)

Spec == Init /\ [][Next]_configVars

(* Nobody is locked out: whatever saves, rollbacks, imports, failing writes  *)
(* and crashes overlap, the file loads again, an administrator once          *)
(* registered stays registered, the secret is generated once and never       *)
(* changes but by a backup of another installation, and a running process    *)
(* has one.                                                                  *)
Loadable ==
    /\ ValidateYAMLConfig(NormalizeYAMLConfig(file.settings))
    /\ generated <= 1 /\ file.secret \in {0, 1, Foreign.secret}
    /\ process = "up" => signingKey # 0
KeepsAdmin ==
    /\ file.admin \notin {"no file", "none"} => file'.admin # "none"
    /\ file.secret # 0 => file'.secret # 0
AdminKeepsAccess == []Loadable /\ [][KeepsAdmin]_configVars
=============================================================================
