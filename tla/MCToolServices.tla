--------------------------- MODULE MCToolServices ---------------------------
(* The values TLC gives to the constants of ToolServices *)
EXTENDS ToolServices, TLC

Both == {"first", "second"}    \* two requests, administrators or calls

(* A constant built of records and functions, in TLC's normal form *)
Normal(value) == IF value = value THEN value ELSE value

Limit(rate, day) == [rate |-> rate, day |-> day]
MCPeriod == Normal("day" :> 2)
Limited(counts, seconds) == [limits |-> counts, rateWindowS |-> seconds]
MCLimitChoices == Normal({Limited(Limit(1, 2), 1), Limited(Limit(0, 1), 1), Limited(Limit(2, 0), 2)})

Param(name, in, required) == [name |-> name, in |-> in, required |-> required]
Operation(base, template, pathParams, params, body, deprecated) ==
    [base |-> base, template |-> template, pathParams |-> pathParams, params |-> params,
     body |-> body, deprecated |-> deprecated]
Get == 0        \* the name of an operation, of which get_2 may be another
Plain == Operation(<<Get>>, {}, <<>>, <<>>, "no", FALSE)
Described == Normal(
    {Operation(b, {"id"}, <<Param("id", "path", TRUE), Param("q", "query", FALSE)>>, p, body, d) :
        b \in {<<Get>>, <<Get, 2>>},
        p \in {<<>>, <<Param("q", "query", TRUE)>>, <<[ref |-> "s"], Param("id", "header", TRUE)>>},
        body \in {"no", "required"}, d \in BOOLEAN})
MCDocuments == Normal(
    {[version3 |-> FALSE, shared |-> <<>>, ops |-> <<>>]} \cup
    {[version3 |-> TRUE, shared |-> "s" :> Param("q", "cookie", TRUE), ops |-> <<Plain, o, Plain>>] :
        o \in Described})
MCValues == {{}, {"id"}, {"id", "q"}, {"id", "q", "body"}}

Tool(name, schema) == [name |-> name, schema |-> schema]
MCUpstreamOrder == <<"u1", "u2">>
MCUpstreamTools == Normal([u1 |-> <<Tool("a", "s"), Tool("b", "s")>>,
                           u2 |-> <<Tool("a", "s"), Tool("c", "t")>>])
MCAliasChoices == Normal(
    {[all |-> TRUE, ups |-> {}, pattern |-> {"a"}, target |-> "c", order |-> 0],
     [all |-> FALSE, ups |-> {"u2"}, pattern |-> {"a", "c"}, target |-> "b", order |-> 1]})
MCFilterChoices == Normal(
    {[all |-> TRUE, ups |-> {}, pattern |-> {"a"}, enabled |-> TRUE],
     [all |-> FALSE, ups |-> {"u1"}, pattern |-> {"a", "b"}, enabled |-> TRUE]})
MCPolicyChoices == Normal(
    {[pattern |-> {"b", "a"}, enabled |-> TRUE, order |-> 0, strategy |-> "smart_balance"]})

Shown(name, upstreams) == [name |-> name, ups |-> upstreams]
MCToolLists == Normal(
    {<<Shown("a", {"git"}), Shown("b", {"Git", "hub"}), Shown("c", {"github"})>>,
     <<Shown("b", {"hub"}), Shown("a", {"git"})>>})
MCMatching == Normal([git |-> {"git", "Git", "github"}, hub |-> {"hub", "github"}])
MCFolded == Normal([git |-> "git", Git |-> "git", hub |-> "hub", github |-> "github"])
MCQueries == Normal([x |-> [a |-> 1, b |-> 2, c |-> 1], y |-> [a |-> 0, b |-> 0, c |-> 0]])
MCContaining == Normal([x |-> {}, y |-> {"c", "a"}])
MCNameRank == [a |-> 1, b |-> 2, c |-> 3]

Policy(commands, default, trusting) ==
    [stdioEnabled |-> TRUE, commands |-> commands, defaultMode |-> default,
     strictCommands |-> {}, strictPackages |-> {"pkg"}, fileRoots |-> {<<"work">>},
     strictPathOnly |-> TRUE, strictNetwork |-> "allowlist", strictAllowPolicyOnly |-> trusting,
     hardening |-> TRUE, sensitive |-> {}, mirror |-> trusting]
Profile(level, paths, packages) ==
    [mode |-> level, fileMode |-> "inherit", paths |-> paths, network |-> "inherit",
     hosts |-> {}, packages |-> packages, selfInstall |-> "default", note |-> FALSE]
Run(command, args, cwd, env) ==
    [mode |-> "command", command |-> command, args |-> args, cwd |-> cwd, env |-> env]
MCCommands == Normal(
    {Run("npx", <<"-y", "pkg">>, <<"work">>, <<>>),
     Run("node", <<"x">>, <<"work", "a">>, ("NODE_PATH" :> <<"user">>) @@ ("PATH" :> <<"user">>)),
     Run("uvx", <<"--from", "bad", "pkg">>, <<"work", "link">>, <<>>),
     [mode |-> "directory", root |-> <<"work", "link">>, entry |-> "main", env |-> <<>>]})
File(name, real, root) == [name |-> name, real |-> real, root |-> root]
Host(bwrap, link, npx) ==
    [bwrap |-> bwrap, prefixes |-> TRUE,
     volume |-> "node" :> File("node", "node", "elsewhere"),
     path |-> ("node" :> File("node", "node", "image")) @@ ("npx" :> File("npx", npx, "image"))
              @@ ("uvx" :> File("uvx", "uvx", "image")),
     real |-> (<<"work">> :> <<"work">>) @@ (<<"work", "a">> :> <<"work", "a">>)
              @@ (<<"work", "link">> :> link) @@ (<<"work", "a", "main">> :> <<"work", "a", "main">>),
     manifest |-> <<<<"work", "a">>, "main">> :>
        [command |-> "node", script |-> <<"work", "a", "main">>, cwd |-> <<"work", "a">>]]
MCPolicies == Normal({Policy({"node", "npx", "npm", "python", "python3", "uv", "uvx"}, "standard", TRUE),
                      Policy({"node", "npx"}, "strict", FALSE)})
MCLaunchProfiles == Normal({Profile("", {}, {}), Profile("strict", {<<"work", "a">>}, {"other"}),
                      Profile("unrestricted", {}, {})})
MCHosts == Normal({Host(TRUE, <<"work", "a">>, "npx"), Host(FALSE, <<"etc">>, "npx-cli.js")})
MCParentEnv == Normal(("PATH" :> <<"parent">>) @@ ("SECRET" :> <<"parent">>)
                      @@ ("OTHER" :> <<"parent">>))

Call(upstream, tool, latency, status, success, how, from, message, age) ==
    [upstream |-> upstream, key |-> upstream, tool |-> tool, latency |-> latency,
     status |-> status, success |-> success, mode |-> how, source |-> from,
     message |-> message, age |-> age]
MCBatches == Normal(
    {<<Call(1, 1, 150, "upstream_error", TRUE, "full", "api", "e1", 2),
       Call(1, 1, 60, "failed", FALSE, "full", "api", "e2", 0)>>,
     <<Call(1, 1, 150, "", FALSE, "", "", "e3", 1),
       Call(1, 2, 4000, "success", TRUE, "smart", "api", "", 1)>>,
     <<Call(0, 2, -5, "", TRUE, "", "xiaozhi", "", 0),
       Call(0, 2, 70, "failed", FALSE, "full", "api", "e4", 1)>>})

Url(scheme, sse) == <<"url", scheme, TRUE, sse>>
Row(name, transport, params, tags) ==
    [name |-> name, transport |-> transport, params |-> params, credential |-> "k",
     tags |-> tags, limits |-> [on |-> TRUE, zone |-> "unset", calls |-> 1], enabled |-> TRUE,
     order |-> 0]
Server(transport, params) ==
    [name |-> <<>>, transport |-> transport, params |-> params, credential |-> "unset",
     tags |-> <<>>, limits |-> [on |-> FALSE, zone |-> "unset", calls |-> 0], enabled |-> {}]
Forms == Normal(
    {Row(<<" ", "a">>, "streamable-http",
         ("url" :> Url("https", TRUE)) @@ ("headers" :> <<"map", "h">>),
         <<<<"t", TRUE, TRUE>>, <<"unset", TRUE, FALSE>>, <<"t", FALSE, FALSE>>>>),
     Row(<<"b">>, "stdio", ("scriptRef" :> <<"text", "s">>) @@ ("cwd" :> <<"text", "d">>), <<>>)})
ImportFiles == Normal(
    {[form |-> "servers",
      servers |-> (<<"c">> :> Server("unset", "command" :> <<"text", "npx">>))
                  @@ (<<"a">> :> Server("http", "url" :> Url("http", FALSE)))],
     [form |-> "items",
      items |-> <<Row(<<"d">>, "openapi",
                      ("baseUrl" :> Url("https", FALSE)) @@ ("docContent" :> <<"text", "doc">>)
                      @@ ("authType" :> <<"text", "api-key-query">>) @@ ("authName" :> <<"text", "n">>),
                      <<>>),
                  Row(<<"e">>, "websocket", "url" :> Url("https", FALSE), <<>>)>>]})
Before(m, n) == IF Len(m) # Len(n) THEN Len(m) < Len(n) ELSE m # n /\ m = <<"a">>

MCPackages == Normal({[kind |-> "pip", name |-> "uvx", tools |-> {"uvx"}],
                      [kind |-> "npm", name |-> "npx", tools |-> {"npx"}]})
MCPlaced == Normal({[kind |-> "bin", name |-> "node", tools |-> {"node", "npm"}]})
MCPreflights == Normal({[command |-> "uvx", mode |-> "auto", tools |-> {"node"},
                         runtimes |-> {"node"}]})

Dir == [kind |-> "dir", to |-> <<>>]
PlainFile == [kind |-> "file", to |-> <<>>]
Link(to) == [kind |-> "link", to |-> to]
(* Links into a root, out of it, between roots and in a circle; a root that *)
(* is a link itself                                                         *)
MCDisks == Normal(
    {(<<"d">> :> Dir) @@ (<<"d", "a">> :> Dir) @@ (<<"d", "a", "f">> :> PlainFile)
     @@ (<<"d", "a", "l">> :> Link(<<"d">>)) @@ (<<"d", "l">> :> Link(<<"o">>))
     @@ (<<"o">> :> Dir) @@ (<<"o", "p">> :> Dir) @@ (<<"o", "c">> :> Link(<<"o", "c">>)),
     (<<"d">> :> Link(<<"o", "p">>)) @@ (<<"o">> :> Dir) @@ (<<"o", "p">> :> Dir)
     @@ (<<"o", "p", "a">> :> Dir) @@ (<<"o", "x">> :> Link(<<"d", "a">>))})
Roots(global, extra, own) ==
    [data |-> {<<"d">>}, global |-> global, extra |-> extra, declared |-> own]
FirstName(m, n) == \E i, j \in 1..6 : i < j /\ <<"a", "c", "f", "l", "p", "x">>[i] = m
                                          /\ <<"a", "c", "f", "l", "p", "x">>[j] = n
MCRootPolicies == {Roots({<<"d", "a">>}, {}, {}), Roots({}, {<<"o">>}, {<<"o", "p">>}),
                   Roots({<<>>}, {}, {<<"d">>})}
MCTyped == {<<"d">>, <<"d", "a", "l", "..">>, <<"d", "..", "o">>, <<"o", "x">>, <<".", "d">>,
            <<"d", "l">>, <<"d", "n">>}
MCContexts == <<<<"d", "n", "m">>, <<"d", "a", "f">>, <<".", "x">>, <<"d", "a">>,
                <<"d", "a", "l">>>>

(* Where a component has several initial states, the others start in one *)
MCInit ==
    /\ Init
    /\ service # "openapi" => document = CHOOSE d \in Documents : d.version3
    /\ service # "endpoints" => visible = CHOOSE l \in ToolLists : TRUE
    /\ service # "launch" => policy.mirror /\ host.bwrap
    /\ service # "browse" => <<"o", "x">> \in DOMAIN disk /\ settings.extra # {}
    /\ Normal(allVars) = allVars
MCSpec == MCInit /\ [][Next]_allVars
=============================================================================
