-------------------------- MODULE UpstreamCatalog --------------------------
(***************************************************************************)
(* The catalogue of upstreams: creation, update, deletion, reordering and  *)
(* the exchange of "mcpServers" files with other MCP clients               *)
(* (src/internal/httpapi/upstream.go, upstream_import.go,                  *)
(* src/internal/manager/manager.go, src/internal/transport/validate.go,    *)
(* src/internal/store/repo_upstream.go).                                   *)
(*                                                                         *)
(* Creations, imports and updates of the administrative API hold           *)
(* scriptRefMu; deletions, enabling and reordering do not.  The connection *)
(* that every write rebuilds is ConnLifecycle's, the resolution of a       *)
(* managed script is Scripts', the policy on commands LaunchPolicy's.      *)
(*                                                                         *)
(* A value of a parameter is <<"text", v>>, <<"url", scheme, host, sse>>   *)
(* (host: it names one; sse: it contains "/sse"), <<"blank">>, <<"list">>, *)
(* <<"map", v>> or <<"other">> (of a type the parameter does not take).  A *)
(* name is a sequence of words, of which " " stands for outer blanks; a    *)
(* number is a "-n" suffix.                                                *)
(***************************************************************************)
EXTENDS Integers, FiniteSets, Sequences, FiniteSetsExt, Functions

CONSTANTS
    Admins,             \* concurrent administrative requests
    Requests,           \* configurations that forms submit
    Files,              \* foreign files that are imported
    NameBefore(_, _),   \* the order of sort.Strings on names
    MaxName, MaxTags,   \* minNameLen..maxNameLen, maxTags
    MaxItems,           \* maxUpstreamImportItems
    Nobody,
    MaxRows, MaxEdits, MaxCatalogFaults \* bounds: creations, other writes, failed queries

VARIABLES
    rows,       \* upstream_mcp: identifier (in creation order) -> configuration
    created,    \* number of rows ever inserted
    scriptRefMu,\* holder of Router.scriptRefMu
    job,        \* of each request: what it still has to do
    moved,      \* rows whose order was set after their creation
    edits, faults

catalogVars == <<rows, created, scriptRefMu, job, moved, edits, faults>>

-----------------------------------------------------------------------------
(* Validation *)

Unset == "unset"    \* the empty string

Without(name) == IF name # <<>> /\ Head(name) = " " THEN Tail(name) ELSE name

Present(params, key) == key \in DOMAIN params

Text(params, key) == Present(params, key) /\ params[key][1] \in {"text", "url"}

UrlOf(params, key, schemes) ==
    /\ Text(params, key)
    /\ params[key][1] = "url" /\ params[key][2] \in schemes /\ params[key][3]

Optional(params, key, kinds) == Present(params, key) => params[key][1] \in kinds

InvalidStdio(params) ==
    {k \in {"command"} : ~Present(params, "scriptRef") /\ ~Text(params, k)}
    \cup {k \in {"args"} : ~Optional(params, k, {"list"})}
    \cup {k \in {"env"} : ~Optional(params, k, {"map"})}
    \cup {k \in {"cwd"} : ~Optional(params, k, {"text"})}

InvalidDocument(params) ==
    {k \in {"docUrl"} :
        \/ ~Optional(params, k, {"text", "url", "blank"})
        \/ Text(params, k) /\ ~UrlOf(params, k, {"http", "https"})
        \/ ~Text(params, k) /\ ~Text(params, "docContent")}
    \cup {k \in {"docContent"} : ~Optional(params, k, {"text", "blank"})}

NamedAuth == {"api-key-header", "api-key-query", "custom-header"}

InvalidAuth(params) ==
    LET type == IF Text(params, "authType") THEN params["authType"][2] ELSE Unset IN
    {k \in {"authType"} :
        \/ ~Optional(params, k, {"text", "blank"})
        \/ type \notin {Unset, "none", "bearer", "basic"} \cup NamedAuth}
    \cup {k \in {"authName"} : type \in NamedAuth /\ ~Text(params, k)}

(* ValidateConnParams: the fields in error *)
InvalidParams(cfg) ==
    LET p == cfg.params
        headers == {k \in {"headers"} : ~Optional(p, k, {"map"})}
        url(key, schemes) == IF UrlOf(p, key, schemes) THEN {} ELSE {key}
    IN CASE cfg.transport = "stdio" -> InvalidStdio(p)
         [] cfg.transport \in {"sse", "streamable-http"} ->
                url("url", {"http", "https"}) \cup headers
         [] cfg.transport = "websocket" -> url("url", {"ws", "wss"}) \cup headers
         [] cfg.transport = "openapi" ->
                url("baseUrl", {"http", "https"}) \cup InvalidDocument(p)
                    \cup InvalidAuth(p) \cup headers
         [] OTHER -> {"transport"}

(* The members of a set in an order: the n-th has n - 1 before it *)
InOrder(S, Earlier(_, _)) ==
    [n \in 1 .. Cardinality(S) |->
        CHOOSE x \in S : Cardinality({y \in S : Earlier(y, x)}) = n - 1]

(* A tag is <<word, padded, capital>>: duplicates differ in blanks and case only *)
KeptTags(tags) ==
    {i \in DOMAIN tags : /\ tags[i][1] # Unset
                         /\ \A j \in DOMAIN tags : j < i => tags[j][1] # tags[i][1]}

NormalTags(tags) ==
    LET at == InOrder(KeptTags(tags), <)
    IN [n \in DOMAIN at |-> <<tags[at[n]][1], FALSE, tags[at[n]][3]>>]

NoLimits == [on |-> FALSE, zone |-> "UTC", calls |-> 0]

NormalLimits(limits) ==
    IF ~limits.on THEN NoLimits
    ELSE [limits EXCEPT !.zone = IF @ = Unset THEN "UTC" ELSE @]

InvalidLimits(limits) ==
    limits.on /\ (limits.zone = "unknown" \/ limits.calls < 0)

(* validateConfig *)
Invalid(cfg) ==
    {f \in {"name"} : Without(cfg.name) = <<>> \/ Len(cfg.name) > MaxName}
    \cup InvalidParams(cfg)
    \cup {f \in {"tags"} : Len(NormalTags(cfg.tags)) > MaxTags}
    \cup {f \in {"rateLimits"} : InvalidLimits(cfg.limits)}

Normalized(cfg) ==
    [cfg EXCEPT !.tags = NormalTags(@), !.limits = NormalLimits(@)]

-----------------------------------------------------------------------------
(* Exported and imported files *)

Listed ==
    InOrder(DOMAIN rows, LAMBDA i, j :
        \/ rows[i].order < rows[j].order
        \/ rows[i].order = rows[j].order /\ i < j)

(* uniqueMCPExportName: the name of the n-th listed upstream *)
ExportName(list, n) ==
    LET name == Without(rows[list[n]].name)
        before == Cardinality({m \in 1 .. n - 1 : Without(rows[list[m]].name) = name})
    IN IF before = 0 THEN name ELSE Append(name, before + 1)

Carries(transport) ==
    IF transport = "stdio" THEN {"command", "args", "env", "cwd"} ELSE {"url", "headers"}

ExportServer(cfg) ==
    [name |-> <<>>, transport |-> cfg.transport,
     params |-> Restrict(cfg.params, DOMAIN cfg.params \cap Carries(cfg.transport)),
     credential |-> cfg.credential, tags |-> cfg.tags, limits |-> NoLimits,
     enabled |-> {cfg.enabled}]

(* buildMCPExport: of two upstreams of one exported name the later is kept *)
Exported ==
    LET list == Listed
        last(name) == CHOOSE n \in DOMAIN list :
                          /\ ExportName(list, n) = name
                          /\ \A m \in DOMAIN list : ExportName(list, m) = name => m <= n
    IN [name \in {ExportName(list, n) : n \in DOMAIN list} |->
            ExportServer(rows[list[last(name)]])]

TransportOfUrl(url) ==
    IF url[1] = "url" /\ url[2] \in {"ws", "wss"} THEN "websocket"
    ELSE IF url[1] = "url" /\ url[4] THEN "sse"
    ELSE "streamable-http"

InferTransport_ByUrl(server) ==
    IF Present(server.params, "url") THEN TransportOfUrl(server.params["url"])
    ELSE IF server.transport = Unset THEN "stdio" ELSE server.transport

InferTransport(server) ==
    CASE server.transport \in {Unset, "stdio"} ->
            IF Present(server.params, "url") THEN TransportOfUrl(server.params["url"])
            ELSE "stdio"
      [] server.transport \in {"http", "streamable_http", "streamable-http"} ->
            "streamable-http"
      [] server.transport \in {"ws", "websocket"} -> "websocket"
      [] OTHER -> server.transport

(* mcpServerToUpstreamConfig and normalizeImportConfig *)
ServerConfig(name, server) ==
    LET transport == InferTransport(server) IN
    [name |-> Without(IF Without(server.name) # <<>> THEN server.name ELSE name),
     transport |-> transport,
     params |-> Restrict(server.params, DOMAIN server.params \cap Carries(transport)),
     credential |-> server.credential, tags |-> server.tags, limits |-> server.limits,
     enabled |-> FALSE \notin server.enabled, order |-> 0]

(* parseMCPJSONConfig: servers in the order of their names, or a list of requests *)
Items(file) ==
    IF file.form = "servers"
    THEN LET names == InOrder(DOMAIN file.servers, NameBefore)
         IN [n \in DOMAIN names |-> ServerConfig(names[n], file.servers[names[n]])]
    ELSE [n \in DOMAIN file.items |-> [file.items[n] EXCEPT !.name = Without(@)]]

-----------------------------------------------------------------------------
(* Requests *)

Idle == [op |-> "idle"]

Init ==
    /\ rows = <<>>
    /\ created = 0
    /\ scriptRefMu = Nobody
    /\ job = [a \in Admins |-> Idle]
    /\ moved = {}
    /\ edits = 0
    /\ faults = 0

Become(a, next) == job' = [job EXCEPT ![a] = next]

Taken(name, except) == \E i \in DOMAIN rows \ except : rows[i].name = name

Fault == faults < MaxCatalogFaults /\ faults' = faults + 1

Edit == edits < MaxEdits /\ edits' = edits + 1

BeginCreate_Unlocked(a, items) ==
    /\ job[a] = Idle
    /\ items # <<>> /\ Len(items) <= MaxItems
    /\ created + Len(items) <= MaxRows
    /\ Become(a, [op |-> "create", items |-> items, order |-> -1])
    /\ scriptRefMu' = Nobody
    /\ UNCHANGED <<rows, created, moved, edits, faults>>

(* createUpstream, and importUpstreams, which creates one item after the other *)
BeginCreate(a, items) ==
    /\ job[a] = Idle /\ scriptRefMu = Nobody
    /\ items # <<>> /\ Len(items) <= MaxItems
    /\ created + Len(items) <= MaxRows
    /\ Become(a, [op |-> "create", items |-> items, order |-> -1])
    /\ scriptRefMu' = a
    /\ UNCHANGED <<rows, created, moved, edits, faults>>

(* nextSortOrder *)
NextSortOrder == Max({-1} \cup {rows[i].order : i \in DOMAIN rows}) + 1

Creating(a) == job[a].op = "create" /\ job[a].items # <<>>

(* The item is valid and the largest order is read *)
ReadOrder(a) ==
    /\ Creating(a) /\ job[a].order = -1 /\ Invalid(Head(job[a].items)) = {}
    /\ Become(a, [job[a] EXCEPT !.order = NextSortOrder])
    /\ UNCHANGED <<rows, created, scriptRefMu, moved, edits, faults>>

(* An item that is refused: an import goes on with the next one *)
Drop(a) ==
    /\ Creating(a)
    /\ \/ job[a].order = -1 /\ Invalid(Head(job[a].items)) # {} /\ UNCHANGED faults
       \/ job[a].order # -1 /\ Taken(Head(job[a].items).name, {}) /\ UNCHANGED faults
       \/ Fault
    /\ Become(a, [job[a] EXCEPT !.items = Tail(@), !.order = -1])
    /\ UNCHANGED <<rows, created, scriptRefMu, moved, edits>>

StoreCreate(a) ==
    /\ Creating(a) /\ job[a].order # -1
    /\ LET cfg == [Normalized(Head(job[a].items)) EXCEPT !.order = job[a].order] IN
       /\ ~Taken(cfg.name, {})
       /\ rows' = [i \in DOMAIN rows \cup {created + 1} |->
                      IF i = created + 1 THEN cfg ELSE rows[i]]
    /\ created' = created + 1
    /\ Become(a, [job[a] EXCEPT !.items = Tail(@), !.order = -1])
    /\ UNCHANGED <<scriptRefMu, moved, edits, faults>>

EndCreate(a) ==
    /\ job[a].op = "create" /\ job[a].items = <<>>
    /\ Become(a, Idle)
    /\ scriptRefMu' = Nobody
    /\ UNCHANGED <<rows, created, moved, edits, faults>>

(* updateUpstream: the whole configuration, the order of the form included *)
Update(id, cfg) ==
    /\ scriptRefMu = Nobody /\ Edit
    /\ Invalid(cfg) = {} /\ id \in DOMAIN rows /\ ~Taken(cfg.name, {id})
    /\ rows' = [rows EXCEPT ![id] = Normalized(cfg)]
    /\ moved' = moved \cup {id}
    /\ UNCHANGED <<created, scriptRefMu, job, faults>>

SetEnabled(id) ==
    /\ id \in DOMAIN rows /\ Edit
    /\ rows' = [rows EXCEPT ![id].enabled = ~@]
    /\ UNCHANGED <<created, scriptRefMu, job, moved, faults>>

Delete(id) ==
    /\ id \in DOMAIN rows /\ Edit
    /\ rows' = Restrict(rows, DOMAIN rows \ {id})
    /\ UNCHANGED <<created, scriptRefMu, job, moved, faults>>

(* ValidateReorder: every registered upstream exactly once *)
IsPermutation(registered, ids) == IsInjective(ids) /\ Range(ids) = registered

(* Reorder reads the list and validates the request against it *)
BeginReorder(a) ==
    /\ job[a] = Idle /\ rows # <<>> /\ edits < MaxEdits
    /\ \E ids \in [1 .. Cardinality(DOMAIN rows) -> DOMAIN rows] :
           /\ IsPermutation(DOMAIN rows, ids)
           /\ Become(a, [op |-> "reorder", ids |-> ids])
    /\ UNCHANGED <<rows, created, scriptRefMu, moved, edits, faults>>

(* The transaction: a row deleted since then undoes it all *)
StoreReorder(a) ==
    /\ job[a].op = "reorder"
    /\ LET ids == job[a].ids
           place == [i \in Range(ids) |-> (CHOOSE n \in DOMAIN ids : ids[n] = i) - 1]
       IN IF Range(ids) \subseteq DOMAIN rows
          THEN /\ rows' = [i \in DOMAIN rows |->
                              IF i \in Range(ids) THEN [rows[i] EXCEPT !.order = place[i]]
                              ELSE rows[i]]
               /\ moved' = moved \cup Range(ids)
               /\ Edit
          ELSE UNCHANGED <<rows, moved, edits>>
    /\ Become(a, Idle)
    /\ UNCHANGED <<created, scriptRefMu, faults>>

Next ==
    \/ \E a \in Admins :
        \/ \E cfg \in Requests : BeginCreate(a, <<cfg>>)
        \/ \E file \in Files : BeginCreate(a, Items(file))
        \/ ReadOrder(a) \/ Drop(a) \/ StoreCreate(a) \/ EndCreate(a)
        \/ BeginReorder(a) \/ StoreReorder(a)
    \/ \E id \in 1 .. MaxRows :
        \/ \E cfg \in Requests : Update(id, cfg)
        \/ SetEnabled(id) \/ Delete(id)

Spec == Init /\ [][Next]_catalogVars

-----------------------------------------------------------------------------
(* Upstreams whose order nobody set since are listed in the order of their *)
(* creation, whatever creations, imports, deletions and reorderings of the *)
(* others interleave (two statements of manager.go:182-187).               *)
CreationOrderIsKept ==
    \A i, j \in DOMAIN rows \ moved : i < j => rows[i].order < rows[j].order

(* Every server of an exported file is read back as the upstream it        *)
(* describes, with the parameters that the file carries, and accepted again *)
(* (but for a name that has become too long).  What no file describes, a    *)
(* managed script without a command or an OpenAPI service, is refused:      *)
(* never created as something else.                                         *)
(* (buildMCPExport, mcpServerToUpstreamConfig, ValidateConnParams)          *)
ServersRoundTrip ==
    LET list == Listed
    IN \A n \in DOMAIN list :
        LET row == rows[list[n]]
            name == ExportName(list, n)
            back == Normalized(ServerConfig(name, ExportServer(row)))
            carried == DOMAIN row.params \cap Carries(row.transport)
            described == /\ row.transport # "openapi"
                         /\ row.transport = "stdio" => Text(row.params, "command")
        IN /\ name \in DOMAIN Exported
           /\ back = [row EXCEPT !.name = name, !.order = 0, !.limits = NoLimits,
                                 !.params = Restrict(@, carried)]
           /\ IF described THEN Invalid(back) \subseteq {"name"} ELSE Invalid(back) # {}
=============================================================================
