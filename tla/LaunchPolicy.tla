----------------------------- MODULE LaunchPolicy -----------------------------
(***************************************************************************)
(* What a stdio upstream may execute (internal/runtime, and                *)
(* transport/session_stdio.go): its parameters are validated when they are *)
(* saved, and validated again, against the policy and the host of that     *)
(* moment, by every launch. Settings, files on the host and cached probes  *)
(* change in between. A path is the sequence of its names; a file is       *)
(* [name, real, root]: its base name, the base name it has once links are  *)
(* resolved, and the root that then holds it. Managed scripts are module   *)
(* Scripts.                                                                *)
(***************************************************************************)
EXTENDS Naturals, Sequences, FiniteSets, FiniteSetsExt, SequencesExt, Functions

CONSTANTS
    Policies,        \* runtime settings an administrator may store
    Profiles,        \* securityProfile of an upstream
    Commands,        \* the other connection parameters
    Hosts,           \* states of the host: executables, links, manifests, bwrap
    ParentEnv,       \* environment of the gateway: key -> search list
    HasRuntimeDir,   \* ResolveRuntimeDir names a directory: the runtime volume
    Sensitive,       \* keys isSensitiveEnvKey recognises
    Dangerous,       \* package specs that are a URL, a path or hold blanks
    Nothing

VARIABLES
    policy, host,
    seen,       \* cached probes: the path of bwrap (30 s), the PATH prefixes (5 s)
    saved,      \* parameters in the database
    launch,     \* Connect between its validation and the start of the process
    process     \* the child process

launchVars == <<policy, host, seen, saved, launch, process>>

Init ==
    /\ policy \in Policies /\ host \in Hosts
    /\ seen = [bwrap |-> host.bwrap, prefixes |-> host.prefixes]
    /\ saved = Nothing /\ launch = Nothing /\ process = Nothing

Tools == {"node", "npx", "npm", "python", "python3", "uv", "uvx"}
StrictTools == Tools \ {"npm"}
Shells == {"sh", "bash", "cmd", "powershell", "sudo", "env", "xargs", "busybox", "perl"}
OrElse(s, default) == IF s = {} THEN default ELSE s

----------------------------------------------------------------------------
(* security_profile.go: the profile merged with the settings.                *)

(* ValidateSecurityProfile: no root directory, no climbing path, no package  *)
(* that is not a name; an unknown mode is refused, an absent one inherits.   *)
Acceptable(profile) ==
    /\ profile.mode \in {"", "standard", "strict", "unrestricted"}
    /\ \A p \in profile.paths : p # <<>> /\ p[1] # ".."
    /\ profile.packages \cap Dangerous = {}

CommandAllowlist(pol, mode) ==
    CASE mode = "unrestricted" -> {}      \* the denylist alone
      [] mode = "strict" ->
            LET strict == OrElse(pol.strictCommands, StrictTools)
            IN  IF pol.commands = {} THEN strict ELSE pol.commands \cap strict
      [] OTHER -> pol.commands

(* ResolveEffectiveSecurity.                                                 *)
Effective(pol, profile) ==
    LET mode == IF profile.mode = "" THEN pol.defaultMode ELSE profile.mode
        roots == OrElse(profile.paths, pol.fileRoots)
    IN  [mode |-> mode,
         roots |-> roots,
         fileMode |-> IF profile.fileMode # "inherit" THEN profile.fileMode
                      ELSE IF mode = "strict" THEN "allowlist"
                      ELSE IF mode = "standard" /\ roots # {} THEN "allowlist"
                      ELSE "unrestricted",
         network |-> IF profile.network # "inherit" THEN profile.network
                     ELSE IF mode # "strict" THEN "unrestricted"
                     ELSE pol.strictNetwork,
         hosts |-> profile.hosts,
         selfInstall |-> IF profile.selfInstall = "default" THEN mode # "strict"
                         ELSE profile.selfInstall = "yes",
         hardening |-> pol.hardening,
         needsAck |-> profile.mode = "unrestricted",
         note |-> profile.note,
         commands |-> CommandAllowlist(pol, mode),
         packages |-> OrElse(pol.strictPackages, {"@modelcontextprotocol/*"}) \cup profile.packages]

Isolated(pol, eff) ==
    \/ eff.mode # "strict" \/ seen.bwrap \/ pol.strictAllowPolicyOnly
    \/ eff.fileMode = "unrestricted" /\ eff.network = "unrestricted"

CommandAllowed(name, pol, allowlist) ==
    /\ pol.stdioEnabled /\ name \notin Shells
    /\ allowlist = {} \/ name \in allowlist

Real(p) == IF p \in DOMAIN host.real THEN host.real[p] ELSE p
Exists(p) == p \in DOMAIN host.real
PathAllowed(p, roots) == \E r \in roots : IsPrefix(r, Real(p)) \/ IsPrefix(Real(r), Real(p))

(* ValidateCwdAgainstFileAccess; <<>> is no working directory.               *)
CwdAllowed(cwd, eff) ==
    CASE eff.fileMode = "deny" -> cwd = <<>>
      [] eff.fileMode = "allowlist" ->
            IF cwd = <<>> \/ eff.roots = {} THEN eff.mode # "strict" ELSE PathAllowed(cwd, eff.roots)
      [] OTHER -> TRUE

(* DetectSelfInstallIntent.                                                  *)
InstallsItself(command, args) ==
    LET manager == command \in {"npm", "npx", "pnpm", "yarn", "pip", "pip3", "uv", "uvx"}
    IN  \E i \in DOMAIN args :
           \/ manager /\ args[i] \in {"-g", "--global", "install", "i", "add"}
           \/ i = 1 /\ args[i] \in {"install", "i"}
           \/ manager /\ args[i] = "--no-install" /\ i < Len(args)   \* "install " occurs

(* launcher_args.go: the first argument that is neither a switch, nor an     *)
(* option, nor the value of one; 0 when there is none.                       *)
Decides(args, switches, valued) ==
    LET skipped[i \in Nat] == i > 1 /\ args[i - 1] \in valued /\ ~skipped[i - 1]
        left == {i \in DOMAIN args : ~skipped[i] /\ args[i] \notin switches \cup valued}
    IN  IF left = {} THEN 0 ELSE Min(left)

Flags == {"-p", "--package", "-c", "--call", "--shell", "--node-options", "--with", "-e", "--from", "-f",
          "-y", "--yes", "-q", "--quiet", "--no-install", "-g", "--global", "--prefer-offline",
          "--registry", "--prefix", "--cache", "--python", "--index-url", "--isolated", "--refresh"}
Named(spec) == IF spec \in Dangerous \cup Flags THEN Nothing ELSE spec

(* extractNpxTarget: the package option wins wherever it stands.             *)
NpxTarget(args) ==
    LET decisive == {i \in DOMAIN args :
                       args[i] \in {"-p", "--package", "-c", "--call", "--shell", "--node-options"}}
        i == IF decisive # {} THEN Min(decisive)
             ELSE Decides(args, {"-y", "--yes", "-q", "--quiet", "--no-install", "-g", "--global",
                                 "--prefer-offline"}, {"--registry", "--prefix", "--cache"})
    IN  IF i = 0 THEN Nothing
        ELSE IF decisive = {} THEN Named(args[i])
        ELSE IF args[i] \in {"-p", "--package"} /\ i < Len(args) /\ args[i + 1] \notin Dangerous
             THEN args[i + 1] ELSE Nothing

(* extractUvxTarget: the package of the last --from before the tool.         *)
UvxTarget(args) ==
    LET valued == {"--from", "-f", "--python", "--index-url"}
        i == Decides(args, {"-q", "--quiet", "--isolated", "--refresh"}, valued)
        from == {k \in DOMAIN args : args[k] \in {"--from", "-f"} /\ k < Len(args) /\ (i = 0 \/ k < i)}
    IN  IF i # 0 /\ args[i] \in Flags \cup {"run", "tool", "install", "pip"} THEN Nothing
        ELSE IF from # {} THEN Named(args[Max(from) + 1])
        ELSE IF i = 0 THEN Nothing ELSE Named(args[i])

Target(command, args) == IF command = "npx" THEN NpxTarget(args) ELSE UvxTarget(args)

LauncherAllowed(command, args, eff) ==
    command \in {"npx", "uvx"} => Target(command, args) \in eff.packages \ {Nothing}

(* ValidateEffectiveSecurityWithCommand.                                     *)
SecurityAllows(eff, cwd, command, args) ==
    /\ CwdAllowed(cwd, eff)
    /\ eff.mode = "unrestricted" /\ eff.needsAck => eff.note
    /\ eff.mode = "strict" =>
          /\ eff.fileMode = "allowlist" => eff.roots # {}
          /\ eff.selfInstall \/ ~InstallsItself(command, args)
          /\ LauncherAllowed(command, args, eff)
          /\ ~(eff.network = "allowlist" /\ eff.hosts = {} /\ eff.selfInstall)

----------------------------------------------------------------------------
(* ResolveExistingPathWithinRoots: under one root, as written and resolved.  *)
Within(path, roots) ==
    /\ Exists(path)
    /\ \E r \in roots : /\ Exists(r) /\ IsPrefix(Real(r), Real(path))
                        /\ IsPrefix(r, path) \/ IsPrefix(Real(r), path)

(* directory_launch.go: the manifest is read again whenever it is used, and  *)
(* an entry counts only when its script and its directory lie in the root.   *)
Entry(pol, profile, c) ==
    LET root == Real(c.root)
        entry == host.manifest[<<root, c.entry>>]
    IN  IF /\ Within(c.root, pol.fileRoots \cup profile.paths)
           /\ <<root, c.entry>> \in DOMAIN host.manifest
           /\ CommandAllowed(entry.command, pol, pol.commands)
           /\ Within(entry.script, {root}) /\ Within(entry.cwd, {root})
        THEN [command |-> entry.command, args |-> <<Last(entry.script)>>, cwd |-> Real(entry.cwd)]
        ELSE Nothing

Started(pol, profile, c) ==
    IF c.mode = "directory" THEN Entry(pol, profile, c)
    ELSE [command |-> c.command, args |-> c.args, cwd |-> c.cwd]

(* The checks Connect makes in this order, and validateStdioParams too.      *)
Accepts(pol, profile, c) ==
    LET s == Started(pol, profile, c)
        eff == Effective(pol, profile)
    IN  /\ Acceptable(profile) /\ s # Nothing
        /\ Isolated(pol, eff)
        /\ CommandAllowed(s.command, pol, eff.commands)
        /\ SecurityAllows(eff, s.cwd, s.command, s.args)

(* path_lookup.go: in the prefixes, then on PATH. Strict, the resolved file  *)
(* must lie in the runtime volume or in a directory of a built-in tool.      *)
TrustedRoots ==
    (IF seen.prefixes THEN {"volume"} ELSE {})
        \cup {host.path[t].root : t \in Tools \cap DOMAIN host.path}

Found(command) ==
    IF seen.prefixes /\ command \in DOMAIN host.volume THEN host.volume[command]
    ELSE IF command \in DOMAIN host.path THEN host.path[command] ELSE Nothing

Resolved(file) == [name |-> file.real, real |-> file.real, root |-> file.root]

FoundTrusted(command) ==
    LET trusted(files) == command \in DOMAIN files /\ files[command].root \in TrustedRoots
    IN  IF seen.prefixes /\ trusted(host.volume) THEN Resolved(host.volume[command])
        ELSE IF trusted(host.path) THEN Resolved(host.path[command]) ELSE Nothing

(* env.go: the layers of the child's environment, the later ones winning.    *)
Prepended(list) == IF Contains(list, "volume") THEN list ELSE <<"volume">> \o list
WithPrefixes(list) == IF seen.prefixes THEN Prepended(list) ELSE list

Inherited(pol, mode) ==
    {k \in DOMAIN ParentEnv : /\ k \notin Sensitive \cup pol.sensitive
                              /\ mode = "strict" => k \in {"PATH", "HOME", "LANG", "TMPDIR"}}

Of(env, k) == IF k \in DOMAIN env THEN env[k] ELSE <<>>
Over(f, g) == [k \in DOMAIN f \cup DOMAIN g |-> IF k \in DOMAIN f THEN f[k] ELSE g[k]]

(* The search paths of modules the gateway manages: those of its volume.     *)
ModulePaths == IF HasRuntimeDir THEN {"NODE_PATH", "PYTHONPATH"} ELSE {}

(* The environment the upstream declares written last.                       *)
ChildEnv_UserLast(pol, eff, user) ==
    Over(user, Over([k \in ModulePaths |-> <<"volume">>],
                    Restrict(ParentEnv, Inherited(pol, eff.mode))))

(* BuildChildEnvWithOptions: inherited, managed, declared, and managed again. *)
ChildEnv(pol, eff, user) ==
    LET strict == eff.mode = "strict"
        parent == Restrict(ParentEnv, Inherited(pol, eff.mode))
        path == [k \in {"PATH"} |-> WithPrefixes(Of(parent, k))]
        mirrors == [k \in IF pol.mirror THEN {"REGISTRY"} ELSE {} |-> <<"mirror">>]
        declared == Restrict(user, IF strict
                       THEN DOMAIN user \ {"LD_PRELOAD", "NODE_OPTIONS", "NODE_PATH", "PYTHONPATH"}
                       ELSE DOMAIN user)
        env == Over(declared, Over(mirrors, Over(path, parent)))
        last == [k \in ModulePaths |->
                   IF strict THEN <<"volume">> ELSE Prepended(Of(env, k))]
        again == [k \in IF strict THEN {"PATH"} ELSE {} |-> WithPrefixes(env[k])]
    IN  Over(again, Over(last, env))

----------------------------------------------------------------------------
(* PUT /runtime/policy; files change; the cached probes run out.             *)
SetPolicy(p) == policy' = p /\ UNCHANGED <<host, seen, saved, launch, process>>
ChangeHost(h) == host' = h /\ UNCHANGED <<policy, seen, saved, launch, process>>
Expire(probe) ==
    /\ seen' = [seen EXCEPT ![probe] = host[probe]]
    /\ UNCHANGED <<policy, host, saved, launch, process>>

(* validateStdioParams, then the row is written.                             *)
Save(profile, c) ==
    /\ Accepts(policy, profile, c)
    /\ saved' = [profile |-> profile, params |-> c]
    /\ UNCHANGED <<policy, host, seen, launch, process>>

(* Connect, up to the command it will execute: every check again. A check    *)
(* that fails ends it, and nothing has changed.                              *)
Resolve ==
    /\ saved # Nothing /\ launch = Nothing /\ process = Nothing
    /\ LET eff == Effective(policy, saved.profile)
           s == Started(policy, saved.profile, saved.params)
           file == IF eff.mode = "strict" /\ policy.strictPathOnly
                   THEN FoundTrusted(s.command) ELSE Found(s.command)
       IN  /\ Accepts(policy, saved.profile, saved.params)
           /\ file # Nothing /\ CommandAllowed(file.name, policy, eff.commands)
           /\ launch' = [policy |-> policy, eff |-> eff, file |-> file, command |-> s.command,
                         args |-> s.args, cwd |-> s.cwd, user |-> saved.params.env]
    /\ UNCHANGED <<policy, host, seen, saved, process>>

(* The rest of Connect: the environment, and the start.                      *)
Start ==
    /\ launch # Nothing
    /\ process' = [started |-> launch, env |-> ChildEnv(launch.policy, launch.eff, launch.user)]
    /\ launch' = Nothing
    /\ UNCHANGED <<policy, host, seen, saved>>

Exit == process # Nothing /\ process' = Nothing
        /\ UNCHANGED <<policy, host, seen, saved, launch>>

Next ==
    \/ \E p \in Policies : SetPolicy(p)
    \/ \E h \in Hosts : ChangeHost(h)
    \/ \E probe \in {"bwrap", "prefixes"} : Expire(probe)
    \/ \E profile \in Profiles, c \in Commands : Save(profile, c)
    \/ Resolve \/ Start \/ Exit

Spec == Init /\ [][Next]_launchVars

----------------------------------------------------------------------------
(* Whatever was valid when an upstream was saved, and whatever settings,     *)
(* manifests and executables have become: a process runs what the policy     *)
(* read by its launch lets it run. In strict mode the file it executes lies  *)
(* under a trusted root and bears a name both lists allow (where they share  *)
(* one), and npx and uvx name a listed package; in every mode the secrets of *)
(* the gateway are not inherited, and where the gateway has a runtime volume *)
(* its modules stay on the search path whatever the upstream declares.       *)
ProcessesObeyPolicy ==
    process # Nothing =>
        LET p == process.started
            pol == p.policy
            strict == p.eff.mode = "strict"
            both == {c \in OrElse(pol.strictCommands, StrictTools) :
                        pol.commands = {} \/ c \in pol.commands}
        IN  /\ pol.stdioEnabled /\ p.file.name \notin Shells
            /\ strict =>
                  /\ pol.strictPathOnly => p.file.root # "elsewhere"
                  /\ both # {} => p.file.name \in both
                  /\ p.command \in {"npx", "uvx"} =>
                        \E i \in DOMAIN p.args : p.args[i] \in p.eff.packages
            /\ \A k \in (DOMAIN ParentEnv \cap DOMAIN process.env) \ DOMAIN p.user : k \notin Sensitive
            /\ \A k \in ModulePaths : Contains(process.env[k], "volume")

=============================================================================
