------------------------------- MODULE Backup -------------------------------
(***************************************************************************)
(* The business configuration and its backup: what the administrators      *)
(* change (upstreams, alias and filter rules with their scope, API keys    *)
(* with the upstreams they may use, AI providers, assessments), the        *)
(* foreign keys that follow a deletion (store.go), the export, which reads *)
(* one table after the other, and the import, which replaces everything in *)
(* one transaction and gives every row a new identifier                    *)
(* (backup/store_adapter.go).                                              *)
(***************************************************************************)
EXTENDS Naturals, FiniteSets, Functions

CONSTANTS
    UpstreamNames, Rules, Keys, Providers, \* names; unique in their tables
    MaxIds, MaxImports, MaxWrites          \* bounds

VARIABLES
    config,   \* the tables, see Init
    export,   \* the export under way: the table it reads, the rows of it whose
              \* relations it has still to read, and what it has read
    backup,   \* the file of the last export that ended
    imports,  \* imports done
    writes    \* history: changes by administrators

backupVars == <<config, export, backup, imports, writes>>

None == 0
Empty == <<>>

(* rule: [scope, on]: the bindings are identifiers of upstreams; key: [mode,  *)
(* on]; risk: the provider that rated the tool of an upstream, or None;      *)
(* tables of identifiers and of names have the used ones as their domain.    *)
Tables == {"upstream", "rule", "key", "provider", "risk"}

NoExport == [at |-> "none", left |-> {}, read |-> Empty]

Init ==
    /\ config = [t \in Tables \cup {"next"} |-> IF t = "next" THEN 1 ELSE Empty]
    /\ export = NoExport
    /\ backup = Empty /\ imports = 0 /\ writes = 0

With(f, x, v) == [y \in DOMAIN f \cup {x} |-> IF y = x THEN v ELSE f[y]]
Without(f, x) == [y \in DOMAIN f \ {x} |-> f[y]]

(* A write that an administrator makes, also while an export reads.          *)
Becomes(c) ==
    /\ writes < MaxWrites /\ writes' = writes + 1
    /\ config' = c
    /\ UNCHANGED <<export, backup, imports>>

----------------------------------------------------------------------------
CreateUpstream(n) ==
    /\ n \notin Range(config.upstream) /\ config.next <= MaxIds
    /\ Becomes([config EXCEPT !.upstream = With(@, config.next, n), !.next = @ + 1])

(* ON DELETE CASCADE of the bindings of rules, the access rows of keys and   *)
(* the assessments. The rule keeps its scope_type.                           *)
Unbound(row, u) == [row EXCEPT !.on = @ \ {u}]

DeleteUpstream(u) ==
    /\ u \in DOMAIN config.upstream
    /\ Becomes([config EXCEPT
          !.upstream = Without(@, u), !.risk = Without(@, u),
          !.rule = [r \in DOMAIN @ |-> Unbound(@[r], u)],
          !.key = [k \in DOMAIN @ |-> Unbound(@[k], u)]])

(* What the repository stores of a scope (normalizeRuleScope).               *)
NormalizeRuleScope(scope, on) ==
    IF scope = "upstreams" /\ on # {} THEN [scope |-> scope, on |-> on]
                                      ELSE [scope |-> "all", on |-> {}]

(* Creation or update; normalizeHTTPScope refuses a scope without upstreams  *)
(* and the foreign key an upstream that does not exist.                      *)
SaveRule(r, scope, on) ==
    /\ scope = "upstreams" => on # {} /\ on \subseteq DOMAIN config.upstream
    /\ Becomes([config EXCEPT !.rule = With(@, r, NormalizeRuleScope(scope, on))])

DeleteRule(r) ==
    /\ r \in DOMAIN config.rule
    /\ Becomes([config EXCEPT !.rule = Without(@, r)])

CreateKey(k) ==
    /\ k \notin DOMAIN config.key
    /\ Becomes([config EXCEPT !.key = With(@, k, [mode |-> "all", on |-> {}])])

(* APIKeyUpstreamAccessRepo.Replace, in a transaction.                       *)
Replace(mode, on) == [mode |-> mode, on |-> IF mode = "selected" THEN on ELSE {}]

SetAccess(k, mode, on) ==
    /\ k \in DOMAIN config.key /\ (mode = "selected" => on \subseteq DOMAIN config.upstream)
    /\ Becomes([config EXCEPT !.key[k] = Replace(mode, on)])

DeleteKey(k) ==
    /\ k \in DOMAIN config.key
    /\ Becomes([config EXCEPT !.key = Without(@, k)])

CreateProvider(p) ==
    /\ p \notin Range(config.provider) /\ config.next <= MaxIds
    /\ Becomes([config EXCEPT !.provider = With(@, config.next, p), !.next = @ + 1])

(* ON DELETE SET NULL.                                                       *)
DeleteProvider(p) ==
    /\ p \in DOMAIN config.provider
    /\ Becomes([config EXCEPT
          !.provider = Without(@, p),
          !.risk = [u \in DOMAIN @ |-> IF @[u] = p THEN None ELSE @[u]]])

(* The assessment of an upstream's tool: its row, and who rated it.          *)
Rate(u, p) ==
    /\ u \in DOMAIN config.upstream /\ p \in DOMAIN config.provider \cup {None}
    /\ Becomes([config EXCEPT !.risk = With(@, u, p)])

----------------------------------------------------------------------------
(* ExportBusiness reads the tables in this order, each with a query of its   *)
(* own, and the upstreams of a rule or a key with one query more per row,    *)
(* after the list. Service.Export makes the file of what was read. If a      *)
(* query fails there is no file.                                             *)
ReadAfter == [none |-> "upstream", upstream |-> "rule", rule |-> "key",
              key |-> "provider", provider |-> "risk"]

Listed(t) == IF t \in {"rule", "key"}
             THEN [x \in DOMAIN config[t] |-> [config[t][x] EXCEPT !.on = {}]]
             ELSE config[t]

ReadTable ==
    LET t == ReadAfter[export.at]
        read == With(export.read, t, Listed(t))
    IN  /\ export.left = {}
        /\ export' = IF t = "risk" THEN NoExport
                     ELSE [at |-> t, read |-> read,
                           left |-> IF t \in {"rule", "key"} THEN DOMAIN config[t] ELSE {}]
        /\ backup' = IF t = "risk" THEN read ELSE backup
        /\ UNCHANGED <<config, imports, writes>>

(* listBindings finds none for a rule that was deleted since; the query of a *)
(* key's access fails for such a key (one deleted and made again, which has  *)
(* another identifier, is taken for the one listed).                         *)
ReadRelations(x) ==
    LET t == export.at
        on == IF x \in DOMAIN config[t] THEN config[t][x].on ELSE {}
    IN  /\ x \in export.left /\ t = "key" => x \in DOMAIN config.key
        /\ export' = [at |-> t, left |-> export.left \ {x},
                      read |-> [export.read EXCEPT ![t][x].on = on]]
        /\ UNCHANGED <<config, backup, imports, writes>>

ExportFails ==
    /\ export.at # "none"
    /\ export' = NoExport
    /\ UNCHANGED <<config, backup, imports, writes>>

(* A validation that only looks at the references, not at an empty scope.    *)
ValidateRuleScope_RefsOnly(f, r) ==
    f.rule[r].scope = "upstreams" => f.rule[r].on \subseteq DOMAIN f.upstream

(* validateBusiness: the references must be to rows of the file.             *)
ValidateRuleScope(f, r) ==
    f.rule[r].scope = "upstreams" =>
        f.rule[r].on # {} /\ f.rule[r].on \subseteq DOMAIN f.upstream

ValidateBusiness(f) ==
    /\ \A r \in DOMAIN f.rule : ValidateRuleScope(f, r)
    /\ \A k \in DOMAIN f.key : f.key[k].on \subseteq DOMAIN f.upstream
    /\ DOMAIN f.risk \subseteq DOMAIN f.upstream
    /\ \A u \in DOMAIN f.risk : f.risk[u] \in DOMAIN f.provider \cup {None}

(* remapIDs: an identifier without a new one is dropped.                     *)
RemapIDs(ids, map) == {map[i] : i \in ids \cap DOMAIN map}

(* importBusiness: every row is deleted, then the rows of the file are       *)
(* created with new identifiers, in the order upstreams, providers, rules,   *)
(* keys with their access, assessments. A failure rolls all of it back and   *)
(* the settings with it, as an import that is refused. The process then      *)
(* restarts, which ends an export.                                           *)
Fresh(old, from) == CHOOSE m \in [old -> from..(from + Cardinality(old) - 1)] :
                        IsInjective(m)

(* The rows under their new identifiers.                                     *)
Moved(map, rows) == [i \in Range(map) |-> rows[CHOOSE o \in DOMAIN map : map[o] = i]]

Import ==
    /\ backup # Empty /\ ValidateBusiness(backup) /\ imports < MaxImports
    /\ LET ups == Fresh(DOMAIN backup.upstream, config.next)
           provs == Fresh(DOMAIN backup.provider, config.next + Cardinality(DOMAIN ups))
           risk == [u \in DOMAIN backup.risk |->
                      IF backup.risk[u] \in DOMAIN provs THEN provs[backup.risk[u]] ELSE None]
       IN config' = [
            upstream |-> Moved(ups, backup.upstream),
            provider |-> Moved(provs, backup.provider),
            rule |-> [r \in DOMAIN backup.rule |->
                        NormalizeRuleScope(backup.rule[r].scope,
                                           RemapIDs(backup.rule[r].on, ups))],
            key |-> [k \in DOMAIN backup.key |->
                        Replace(backup.key[k].mode, RemapIDs(backup.key[k].on, ups))],
            risk |-> Moved([u \in DOMAIN risk |-> ups[u]], risk),
            next |-> config.next + Cardinality(DOMAIN ups) + Cardinality(DOMAIN provs)]
    /\ imports' = imports + 1
    /\ export' = NoExport
    /\ UNCHANGED <<backup, writes>>

Writes ==
    \/ \E n \in UpstreamNames : CreateUpstream(n)
    \/ \E u \in DOMAIN config.upstream :
          \/ DeleteUpstream(u)
          \/ \E p \in DOMAIN config.provider \cup {None} : Rate(u, p)
    \/ \E on \in SUBSET DOMAIN config.upstream :
          \/ \E r \in Rules, scope \in {"all", "upstreams"} : SaveRule(r, scope, on)
          \/ \E k \in Keys, mode \in {"all", "selected"} : SetAccess(k, mode, on)
    \/ \E r \in Rules : DeleteRule(r)
    \/ \E k \in Keys : CreateKey(k) \/ DeleteKey(k)
    \/ \E p \in Providers : CreateProvider(p)
    \/ \E p \in DOMAIN config.provider : DeleteProvider(p)

Next ==
    \/ Writes \/ ReadTable \/ ExportFails \/ Import
    \/ \E x \in export.left : ReadRelations(x)

Spec == Init /\ [][Next]_backupVars

----------------------------------------------------------------------------
(* What the scopes of rules, the access of keys and the ratings say in terms *)
(* of names: the identifiers have no meaning outside one database, and those *)
(* beside "all" have none at all.                                            *)
Named(c, scope, ids) == IF scope = "all" THEN {} ELSE {c.upstream[i] : i \in ids}

Meaning(c) ==
    [upstreams |-> Range(c.upstream), providers |-> Range(c.provider),
     rules |-> [r \in DOMAIN c.rule |->
                  [scope |-> c.rule[r].scope, on |-> Named(c, c.rule[r].scope, c.rule[r].on)]],
     keys |-> [k \in DOMAIN c.key |->
                 [mode |-> c.key[k].mode, on |-> Named(c, c.key[k].mode, c.key[k].on)]],
     risks |-> {<<c.upstream[u], IF c.risk[u] = None THEN "none" ELSE c.provider[c.risk[u]]>> :
                   u \in DOMAIN c.risk}]

(* After an import every rule and key reaches the upstreams, by name, that   *)
(* it reached in the file: none is widened or loses one, although every     *)
(* identifier changed, and the ratings keep their upstream and provider      *)
(* (importBusiness, remapIDs, validateRuleScope, normalizeRuleScope).        *)
Restored == imports' # imports => Meaning(config') = Meaning(backup)
ImportRestores == [][Restored]_backupVars

=============================================================================
