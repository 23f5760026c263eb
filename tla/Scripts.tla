------------------------------ MODULE Scripts -------------------------------
(***************************************************************************)
(* The script library (scripts/store.go) and the upstreams launched from   *)
(* it (transport/script_ref.go, verified_script_unix.go): versions are     *)
(* published once, an upstream binds one version by its hash, and a launch *)
(* executes a private copy of the bytes it has checked. Files may be       *)
(* edited from outside at any moment, and the process may die in the       *)
(* middle of a write. A hash is the content it is the hash of.             *)
(***************************************************************************)
EXTENDS Naturals, FiniteSets, Functions

CONSTANTS
    ScriptIds, Upstreams,
    Admins,          \* requests of the administrative API in progress
    Contents,
    Critical,        \* contents AnalyzeContent rates critical
    MaxScripts, MaxVersions,
    MaxOutside,      \* bound: edits of files from outside, crashes, imports
    Nobody           \* no one holds scriptRefMu, no reference, no launch

VARIABLES
    meta,         \* meta.json of the scripts: active, trash, or moved to the trash
    versions,     \* versions/<n>/meta.json: hash of the version, by script
    files,        \* versions/<n>/main.py: content, by script
    ref,          \* connParams.scriptRef of the upstreams in the database
    admin,        \* what each request is about to do
    scriptRefMu,
    launch,       \* the launch of each upstream in progress
    ran,          \* what each upstream executed last, and for which reference
    unchecked,    \* history: upstreams a backup brought, whose reference names
                  \* nothing that was published here
    outside

scriptsVars == <<meta, versions, files, ref, admin, scriptRefMu, launch, ran, unchecked, outside>>

Idle == [does |-> "nothing"]

Init ==
    /\ meta = <<>> /\ versions = <<>> /\ files = <<>>
    /\ ref = [u \in Upstreams |-> Nobody]
    /\ admin = [a \in Admins |-> Idle] /\ scriptRefMu = Nobody
    /\ launch = [u \in Upstreams |-> Nobody] /\ ran = [u \in Upstreams |-> Nobody]
    /\ unchecked = {} /\ outside = 0

Active(id) == id \in DOMAIN meta /\ meta[id].status = "active"
With(f, k, v) == [x \in DOMAIN f \cup {k} |-> IF x = k THEN v ELSE f[x]]
Without(f, k) == Restrict(f, DOMAIN f \ {k})
FirstVersion(c) == With(<<>>, 1, c)

(* A new process: requests and launches are gone, the files stay.            *)
Restarted ==
    /\ admin' = [a \in Admins |-> Idle] /\ scriptRefMu' = Nobody
    /\ launch' = [u \in Upstreams |-> Nobody]

----------------------------------------------------------------------------
(* Every operation of the store runs under its mutex; what a failing disk or *)
(* a crash leaves behind is the choice below.                                *)

(* Create, under a new random id: the directory of a script deleted without  *)
(* being moved still counts.                                                 *)
Create(id, c) ==
    /\ id \notin DOMAIN meta \cup DOMAIN versions
    /\ Cardinality(DOMAIN versions) < MaxScripts
    /\ \/ /\ meta' = With(meta, id, [status |-> "active", current |-> 1])
          /\ versions' = With(versions, id, FirstVersion(c)) /\ files' = With(files, id, FirstVersion(c))
          /\ UNCHANGED <<admin, scriptRefMu, launch, outside>>
       \/ \* dies between the version and meta.json
          /\ outside < MaxOutside /\ outside' = outside + 1 /\ Restarted
          /\ versions' = With(versions, id, FirstVersion(c)) /\ files' = With(files, id, FirstVersion(c))
          /\ UNCHANGED meta
    /\ UNCHANGED <<ref, ran, unchecked>>

(* nextAvailableVersionUnlocked: the first number after the current version  *)
(* whose directory does not exist, published or left behind.                 *)
NextAvailableVersion_AfterCurrent(id) == meta[id].current + 1

NextAvailableVersion(id) ==
    CHOOSE n \in (meta[id].current + 1)..(meta[id].current + Cardinality(DOMAIN files[id]) + 1) :
        /\ n \notin DOMAIN files[id]
        /\ \A m \in (meta[id].current + 1)..(n - 1) : m \in DOMAIN files[id]

(* SaveContent with writeVersionUnlocked: content, metadata of the version,  *)
(* meta.json; an error removes the directory of the version.                 *)
SaveContent(id, c) ==
    /\ Active(id) /\ Cardinality(DOMAIN files[id]) < MaxVersions
    /\ LET next == NextAvailableVersion(id)
           file == [files EXCEPT ![id] = With(@, next, c)]
           version == [versions EXCEPT ![id] = With(@, next, c)]
       IN \/ /\ files' = file /\ versions' = version
             /\ meta' = [meta EXCEPT ![id].current = next]
             /\ UNCHANGED <<admin, scriptRefMu, launch, outside>>
          \/ \* an error: the directory of the version is removed again
             /\ outside < MaxOutside /\ outside' = outside + 1
             /\ files' = [files EXCEPT ![id] = Without(@, next)]
             /\ versions' = [versions EXCEPT ![id] = Without(@, next)]
             /\ UNCHANGED <<meta, admin, scriptRefMu, launch>>
          \/ \* dies after the content, or after the metadata of the version
             /\ outside < MaxOutside /\ outside' = outside + 1 /\ Restarted
             /\ files' = file /\ versions' \in {versions, version} /\ UNCHANGED meta
    /\ UNCHANGED <<ref, ran, unchecked>>

(* ActivateVersion: the pointer moves to a published version.                *)
ActivateVersion(id, n) ==
    /\ Active(id) /\ n \in DOMAIN versions[id]
    /\ meta' = [meta EXCEPT ![id].current = n]
    /\ UNCHANGED <<versions, files, ref, admin, scriptRefMu, launch, ran, unchecked, outside>>

(* Someone writes the file of a version from outside the gateway.            *)
Edited(id, n, c) ==
    /\ outside < MaxOutside /\ outside' = outside + 1
    /\ files' = [files EXCEPT ![id][n] = c]
    /\ UNCHANGED <<meta, versions, ref, admin, scriptRefMu, launch, ran, unchecked>>

----------------------------------------------------------------------------
(* What a reference stands for is published.                                 *)
Published(r) ==
    /\ Active(r.script) /\ r.version \in DOMAIN versions[r.script]
    /\ versions[r.script][r.version] = r.hash

(* ResolveEntryPath and BuildLaunchBinding: the file must have the hash its  *)
(* version was published with.                                               *)
Resolves(id, n) ==
    /\ Active(id) /\ n \in DOMAIN versions[id] /\ files[id][n] = versions[id][n]

(* resolveManagedScript, in validateStdioParams and in Connect, and the      *)
(* profile a critical script needs.                                          *)
Valid(r) ==
    /\ Resolves(r.script, r.version) /\ versions[r.script][r.version] = r.hash
    /\ r.hash \in Critical => r.unrestricted

(* A client holds the references it was given; it may use an old one.        *)
References == [script : ScriptIds, version : 1..(MaxVersions + 1),
               hash : Contents, unrestricted : BOOLEAN]

(* createUpstream and updateUpstream: under scriptRefMu the configuration is *)
(* validated and then stored.                                                *)
CheckReference(a, u, r) ==
    /\ admin[a] = Idle /\ scriptRefMu = Nobody /\ Valid(r)
    /\ scriptRefMu' = a /\ admin' = [admin EXCEPT ![a] = [does |-> "bind", up |-> u, ref |-> r]]
    /\ UNCHANGED <<meta, versions, files, ref, launch, ran, unchecked, outside>>

StoreReference(a) ==
    /\ admin[a].does = "bind"
    /\ ref' = [ref EXCEPT ![admin[a].up] = admin[a].ref]
    /\ unchecked' = unchecked \ {admin[a].up}
    /\ admin' = [admin EXCEPT ![a] = Idle] /\ scriptRefMu' = Nobody
    /\ UNCHANGED <<meta, versions, files, launch, ran, outside>>

(* deleteUpstream, without scriptRefMu.                                      *)
DeleteUpstream(u) ==
    /\ ref[u] # Nobody /\ ref' = [ref EXCEPT ![u] = Nobody]
    /\ unchecked' = unchecked \ {u}
    /\ UNCHANGED <<meta, versions, files, admin, scriptRefMu, launch, ran, outside>>

(* importBackup: under scriptRefMu, one transaction replaces every upstream  *)
(* by those of the file; their references are not validated.                 *)
ImportUpstreams(a) ==
    /\ admin[a] = Idle /\ scriptRefMu = Nobody
    /\ outside < MaxOutside /\ outside' = outside + 1
    /\ ref' \in [Upstreams -> References \cup {Nobody}]
    /\ unchecked' = {u \in Upstreams : ref'[u] # Nobody /\ ~Published(ref'[u])}
    /\ UNCHANGED <<meta, versions, files, admin, scriptRefMu, launch, ran>>

(* deleteScript: under scriptRefMu no upstream may use the script; then      *)
(* SoftDelete writes the status and moves the directory, which may fail.     *)
CheckUnused(a, id) ==
    /\ admin[a] = Idle /\ scriptRefMu = Nobody /\ Active(id)
    /\ \A u \in Upstreams : ref[u] # Nobody => ref[u].script # id
    /\ scriptRefMu' = a /\ admin' = [admin EXCEPT ![a] = [does |-> "delete", script |-> id]]
    /\ UNCHANGED <<meta, versions, files, ref, launch, ran, unchecked, outside>>

SoftDelete(a) ==
    /\ admin[a].does = "delete"
    /\ LET id == admin[a].script IN
       \/ /\ meta' = [meta EXCEPT ![id].status = "moved"]
          /\ versions' = Without(versions, id) /\ files' = Without(files, id)
          /\ UNCHANGED outside
       \/ \* only the status is written: ErrTrashMoveFailed
          /\ outside < MaxOutside /\ outside' = outside + 1
          /\ meta' = [meta EXCEPT ![id].status = "trash"] /\ UNCHANGED <<versions, files>>
    /\ admin' = [admin EXCEPT ![a] = Idle] /\ scriptRefMu' = Nobody
    /\ UNCHANGED <<ref, launch, ran, unchecked>>

----------------------------------------------------------------------------
(* stdioSession.Connect: the reference is resolved, the command and the      *)
(* profile are checked, then prepareVerifiedScript reads the file again.     *)
ResolveManagedScript(u) ==
    /\ ref[u] # Nobody /\ launch[u] = Nobody /\ Valid(ref[u])
    /\ launch' = [launch EXCEPT ![u] = ref[u]]
    /\ UNCHANGED <<meta, versions, files, ref, admin, scriptRefMu, ran, unchecked, outside>>

Readable(r) == r.script \in DOMAIN files /\ r.version \in DOMAIN files[r.script]

PrepareVerifiedScript(u) ==
    /\ launch[u] # Nobody
    /\ LET r == launch[u] IN
       ran' = IF Readable(r) /\ files[r.script][r.version] = r.hash
                THEN [ran EXCEPT ![u] = [ref |-> r, bytes |-> files[r.script][r.version]]] ELSE ran
    /\ launch' = [launch EXCEPT ![u] = Nobody]
    /\ UNCHANGED <<meta, versions, files, ref, admin, scriptRefMu, unchecked, outside>>

Next ==
    \/ \E id \in ScriptIds, c \in Contents : Create(id, c) \/ SaveContent(id, c)
    \/ \E id \in DOMAIN versions : \E n \in DOMAIN files[id] :
          \/ ActivateVersion(id, n)
          \/ \E c \in Contents \ {files[id][n]} : Edited(id, n, c)
    \/ \E a \in Admins :
          \/ \E u \in Upstreams, r \in References : CheckReference(a, u, r)
          \/ StoreReference(a) \/ ImportUpstreams(a)
          \/ \E id \in ScriptIds : CheckUnused(a, id)
          \/ SoftDelete(a)
    \/ \E u \in Upstreams :
          DeleteUpstream(u) \/ ResolveManagedScript(u) \/ PrepareVerifiedScript(u)

Spec == Init /\ [][Next]_scriptsVars

----------------------------------------------------------------------------
(* The reference of an upstream always names a version of a script that is   *)
(* not deleted, published with exactly the bytes the reference was made of   *)
(* and never with others, whatever is saved, activated, deleted, imported or *)
(* interrupted meanwhile; only a backup can bring one that names nothing,    *)
(* and one it brings that does name a version goes on doing so. And an       *)
(* upstream executes only the bytes its reference stands for, a critical     *)
(* script only without restrictions, also when its file is edited while it   *)
(* is being launched, and wherever its reference comes from. (scriptRefMu,   *)
(* nextAvailableVersionUnlocked, resolveManagedScript, prepareVerifiedScript)*)
ReferencesHold ==
    \A u \in Upstreams :
       /\ ref[u] # Nobody /\ u \notin unchecked => Published(ref[u])
       /\ ran[u] # Nobody =>
             /\ ran[u].bytes = ran[u].ref.hash
             /\ ran[u].bytes \in Critical => ran[u].ref.unrestricted
=============================================================================
