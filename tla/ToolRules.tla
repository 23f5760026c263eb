----------------------------- MODULE ToolRules ------------------------------
(***************************************************************************)
(* The rules between the upstreams' tool lists and what a client sees:     *)
(* aliases, hidden tools and tool policies (store/repo_alias.go,           *)
(* repo_filter.go, repo_tool_policy.go, httpapi/rules.go), the build that  *)
(* reads them one query at a time (aggregation.go), and the pipeline and   *)
(* routing that apply them (aggregation/pipeline.go, domain/rule_*.go).    *)
(* A pattern is the set of names it matches. What a query or a filter      *)
(* leaves of a list keeps its positions in it: it is a function from some  *)
(* of them, and their order is its order.                                  *)
(***************************************************************************)
EXTENDS Naturals, FiniteSets, SequencesExt

CONSTANTS
    UpstreamOrder,    \* enabled upstreams the key may use, by sort order
    Listed,           \* upstream -> its cached tools, [name, schema]
    AliasChoices,     \* alias rules an administrator may write: [all, ups
                      \*   (its scope), pattern, target, order]
    FilterChoices,    \* filters: [all, ups, pattern, enabled]
    PolicyChoices,    \* policies: [pattern, enabled, order, strategy]
    DefaultStrategy,
    Turns,            \* bound: roundRobin counts modulo a multiple of the sources
    MaxRuleOps        \* bound: changes of rules

VARIABLES
    aliases, mcpFilters, keyFilters, policies,   \* tables, in order of creation
    build,       \* the build in progress: what it has read
    standing,    \* filters in effect since the build began, as [table, row]
    met,         \* filters in effect at some time of the build
    served,      \* the last complete build: name -> reverse map entry
    hidden,      \* what its filters had to, and what they could hide
    roundRobin,  \* calls by exposed name
    called,      \* the last call: [entry, source]
    ruleOps

rulesVars == <<aliases, mcpFilters, keyFilters, policies, build, standing, met, served,
               hidden, roundRobin, called, ruleOps>>
tables == <<aliases, mcpFilters, keyFilters, policies>>

NoBuild == [step |-> "none"]

Init ==
    /\ aliases = <<>> /\ mcpFilters = <<>> /\ keyFilters = <<>> /\ policies = <<>>
    /\ build = NoBuild /\ standing = {} /\ met = {}
    /\ served = <<>> /\ hidden = [must |-> {}, may |-> {}]
    /\ roundRobin = <<>> /\ called = <<>> /\ ruleOps = 0

----------------------------------------------------------------------------
(* domain/rule_engine_impl.go, rule_filter.go, rule_alias.go.                *)
Match(pattern, name) == name \in pattern

MatchedByAny(name, filters) ==
    \E i \in DOMAIN filters : filters[i].enabled /\ Match(filters[i].pattern, name)

(* ApplyFilters looks at the original name, whatever the tool is called now. *)
ApplyFilters_Name(tools, filters) ==
    Restrict(tools, {p \in DOMAIN tools : ~MatchedByAny(tools[p].name, filters)})

ApplyFilters(tools, filters) ==
    Restrict(tools, {p \in DOMAIN tools : ~MatchedByAny(tools[p].original, filters)})

(* Rows come by their sort order, the older first: the first of some.        *)
Leading(rows, some) ==
    rows[CHOOSE i \in some : \A j \in some \ {i} :
            rows[i].order < rows[j].order \/ (rows[i].order = rows[j].order /\ i < j)]

(* ApplyAliases: the first rule that matches the original name decides.      *)
ApplyAliases(tools, rules) ==
    LET name(t) ==
          LET hits == {i \in DOMAIN rules : Match(rules[i].pattern, t.original)} IN
          IF hits = {} \/ Leading(rules, hits).target = "" THEN t.name ELSE Leading(rules, hits).target
    IN [p \in DOMAIN tools |-> [up |-> tools[p].up, original |-> tools[p].original,
                               name |-> name(tools[p]), schema |-> tools[p].schema]]

(* A tool is at <<the position of its upstream, its own in that list>>.      *)
Earlier(p, q) == p[1] < q[1] \/ (p[1] = q[1] /\ p[2] < q[2])
Nth(places, k) ==
    CHOOSE p \in places : Cardinality({q \in places : Earlier(q, p)}) = k

(* groupToolsByName: sources of one name are its candidates; the first one's *)
(* schema is shown, and only those with that schema are called.              *)
GroupToolsByName(tools) ==
    LET of(n) == {p \in DOMAIN tools : tools[p].name = n}
        shown(n) == tools[Nth(of(n), 0)].schema
    IN [n \in {tools[p].name : p \in DOMAIN tools} |->
          [name |-> n, schema |-> shown(n),
           candidates |-> [p \in of(n) |->
              [up |-> tools[p].up, original |-> tools[p].original, schema |-> tools[p].schema,
               compatible |-> tools[p].schema = shown(n)]]]]

(* runPipeline: the filters of the upstream, the aliases, the key's filters. *)
Through(b, apiKeyFilters) ==
    LET tools == [k \in DOMAIN Listed[b.up] |->
                    [up |-> b.up, original |-> Listed[b.up][k].name,
                     name |-> Listed[b.up][k].name, schema |-> Listed[b.up][k].schema]]
    IN ApplyFilters(ApplyAliases(ApplyFilters(tools, b.filters), b.aliases), apiKeyFilters)

RunPipeline(bundles, apiKeyFilters) ==
    LET out(i) == Through(bundles[i], apiKeyFilters)
    IN GroupToolsByName([p \in UNION {{i} \X DOMAIN out(i) : i \in DOMAIN bundles} |->
                           out(p[1])[p[2]]])

----------------------------------------------------------------------------
(* The scope a request may name (normalizeHTTPScope) is kept with the row    *)
(* (replaceAliasBindings, in the row's transaction).                         *)
InScope(row, u) == row.all \/ u \in row.ups
ListByUpstream(table, u) == Restrict(table, {i \in DOMAIN table : InScope(table[i], u)})

Effect == {<<"mcp", mcpFilters[i]>> : i \in {j \in DOMAIN mcpFilters : mcpFilters[j].enabled}}
          \cup {<<"key", keyFilters[i]>> : i \in {j \in DOMAIN keyFilters : keyFilters[j].enabled}}

(* After every change, what the running build may have met of the filters.   *)
Changed ==
    /\ ruleOps < MaxRuleOps /\ ruleOps' = ruleOps + 1
    /\ standing' = standing \cap Effect' /\ met' = met \cup Effect'
    /\ UNCHANGED <<build, served, hidden, roundRobin, called>>

(* What a statement of the repositories makes of their table: Create, Update *)
(* and Delete, and SetEnabled of filters and policies.                       *)
Edits(table, choices) ==
    {Append(table, row) : row \in choices}
    \cup {[table EXCEPT ![i] = row] : i \in DOMAIN table, row \in choices}
    \cup {RemoveAt(table, i) : i \in DOMAIN table}
Switched(table) == {[table EXCEPT ![i].enabled = ~@] : i \in DOMAIN table}

AliasTables == Edits(aliases, AliasChoices)
FilterTables == Edits(mcpFilters, FilterChoices) \cup Switched(mcpFilters)
PolicyTables == Edits(policies, PolicyChoices) \cup Switched(policies)
KeyFilterTables ==
    {Append(keyFilters, f) : f \in {g \in FilterChoices : g.all}}
    \cup {RemoveAt(keyFilters, i) : i \in DOMAIN keyFilters} \cup Switched(keyFilters)

(* The handlers. (The limits on the numbers of rules are not reached.)       *)
EditAlias ==
    /\ aliases' \in AliasTables /\ UNCHANGED <<mcpFilters, keyFilters, policies>> /\ Changed
EditFilter ==
    /\ mcpFilters' \in FilterTables /\ UNCHANGED <<aliases, keyFilters, policies>> /\ Changed
EditKeyFilter ==
    /\ keyFilters' \in KeyFilterTables /\ UNCHANGED <<aliases, mcpFilters, policies>> /\ Changed
EditPolicy ==
    /\ policies' \in PolicyTables /\ UNCHANGED <<aliases, mcpFilters, keyFilters>> /\ Changed

----------------------------------------------------------------------------
(* buildToolSetWithReverseMapFresh: the upstreams, then for each its aliases *)
(* and its filters, then the key's filters: a query each.                    *)
ListUpstreams ==
    /\ build = NoBuild
    /\ build' = [step |-> "aliases", bundles |-> <<>>]
    /\ standing' = Effect /\ met' = Effect
    /\ UNCHANGED <<tables, served, hidden, roundRobin, called, ruleOps>>

Reads == build # NoBuild /\ UNCHANGED <<tables, standing, met, roundRobin, called, ruleOps>>
Following == UpstreamOrder[Len(build.bundles) + 1]

ReadAliases ==
    /\ Reads /\ build.step = "aliases" /\ Len(build.bundles) < Len(UpstreamOrder)
    /\ build' = [step |-> "filters", bundles |-> build.bundles,
                 aliases |-> ListByUpstream(aliases, Following)]
    /\ UNCHANGED <<served, hidden>>

ReadFilters ==
    /\ Reads /\ build.step = "filters"
    /\ build' = [step |-> "aliases",
                 bundles |-> Append(build.bundles,
                    [up |-> Following, aliases |-> build.aliases,
                     filters |-> ListByUpstream(mcpFilters, Following)])]
    /\ UNCHANGED <<served, hidden>>

HiddenBy(filters) ==
    {t \in UNION {{<<u, Listed[u][i].name>> : i \in DOMAIN Listed[u]} : u \in DOMAIN Listed} :
        \E f \in filters : InScope(f[2], t[1]) /\ Match(f[2].pattern, t[2])}

ReadKeyFilters ==
    /\ Reads /\ build.step = "aliases" /\ Len(build.bundles) = Len(UpstreamOrder)
    /\ served' = RunPipeline(build.bundles, keyFilters)
    /\ hidden' = [must |-> HiddenBy(standing), may |-> HiddenBy(met)]
    /\ build' = NoBuild

(* InvokeTool: resolveToolPolicy and the rotation of selectCandidate (which  *)
(* sources are available and within quota: InvokeRouting). The policy        *)
(* matches the exposed name; a strategy left empty is the default one.       *)
Strategy(name) ==
    LET hits == {i \in DOMAIN policies : policies[i].enabled /\ Match(policies[i].pattern, name)} IN
    IF hits = {} \/ Leading(policies, hits).strategy = "" THEN DefaultStrategy
    ELSE Leading(policies, hits).strategy

SelectCandidate(name) ==
    LET entry == served[name]
        usable == {p \in DOMAIN entry.candidates : entry.candidates[p].compatible}
        balanced == Strategy(name) = "smart_balance" /\ Cardinality(usable) > 1
        n == IF name \in DOMAIN roundRobin THEN roundRobin[name] ELSE 0
        turn == IF balanced THEN n % Cardinality(usable) ELSE 0
    IN /\ called' = [entry |-> entry, source |-> entry.candidates[Nth(usable, turn)]]
       /\ roundRobin' = IF balanced
                          THEN [m \in DOMAIN roundRobin \cup {name} |->
                                  IF m = name THEN (n + 1) % Turns ELSE roundRobin[m]]
                          ELSE roundRobin
       /\ UNCHANGED <<tables, build, standing, met, served, hidden, ruleOps>>

Next ==
    \/ EditAlias \/ EditFilter \/ EditKeyFilter \/ EditPolicy
    \/ ListUpstreams \/ ReadAliases \/ ReadFilters \/ ReadKeyFilters
    \/ \E name \in DOMAIN served : SelectCandidate(name)

Spec == Init /\ [][Next]_rulesVars

----------------------------------------------------------------------------
(* A build that reads the rules while they are edited hides every tool some  *)
(* filter hid during all of it, under whatever name an alias gives the tool, *)
(* and loses none that no filter hid at any time of it, also when several    *)
(* sources end under one name; and a call goes to a source with the schema   *)
(* the client was shown. (buildToolSetWithReverseMapFresh, runPipeline,      *)
(* groupToolsByName, selectCandidate)                                        *)
RulesDecideVisibility ==
    /\ LET reached == {<<c.up, c.original>> :
                         c \in UNION {Range(served[n].candidates) : n \in DOMAIN served}}
       IN served # <<>> =>
             /\ reached \cap hidden.must = {}
             /\ \A i \in DOMAIN UpstreamOrder : \A k \in DOMAIN Listed[UpstreamOrder[i]] :
                   LET t == <<UpstreamOrder[i], Listed[UpstreamOrder[i]][k].name>> IN
                   t \in reached \cup hidden.may
    /\ called # <<>> => called.source.schema = called.entry.schema
=============================================================================
