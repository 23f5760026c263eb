---------------------------- MODULE McpEndpoints ----------------------------
(***************************************************************************)
(* The MCP servers the gateway offers its clients (mcpapi): a session in   *)
(* full mode registers the visible tools when it opens, one in smart mode  *)
(* four tools to browse, search and call the tools visible at the moment.  *)
(* Clients page through lists while tools come and go and the              *)
(* administrator changes the page size. One API key; the set visible to it *)
(* and its index are those of ToolSetCache.                                *)
(***************************************************************************)
EXTENDS Naturals, FiniteSets, Sequences

CONSTANTS
    Sessions,
    ToolLists,      \* sets of tools that may be visible: sequences of [name, ups]
    Matching,       \* upstream filter -> the upstream names that contain it
    Folded,         \* a name or filter -> what it is without regard to case
    Queries,        \* query -> [tool name -> its score], 0 if no term matches
    Containing,     \* query -> the tools whose name or description contains it
    NameRank,       \* tool name -> its place by length, then alphabetically
    Requested,      \* limits a client asks for, 0 for none
    Settings,       \* values of the discovery limit in the settings
    MaxDiscoveryLimit, DefaultDiscoveryLimit,
    NoSession

VARIABLES
    visible,        \* what BuildToolSet and BuildToolDiscoveries answer now
    discoveryLimit, \* of Service.smart
    session,        \* server of each session: mode, its snapshots
    browse,         \* the client's paging in the session
    called          \* the last tool a session's call was forwarded to

endpointVars == <<visible, discoveryLimit, session, browse, called>>

NotPaging == [next |-> 0, stable |-> FALSE]

Init ==
    /\ visible \in ToolLists /\ discoveryLimit = DefaultDiscoveryLimit
    /\ session = [s \in Sessions |-> NoSession]
    /\ browse = [s \in Sessions |-> NotPaging]
    /\ called = <<>>

Names(tools) == {tools[i].name : i \in DOMAIN tools}

----------------------------------------------------------------------------
(* NewSmartModeHandler and SetDiscoveryLimit: open sessions keep the handler *)
(* they were built with.                                                     *)
SetDiscoveryLimit(n) ==
    /\ discoveryLimit' = IF n \in 1..MaxDiscoveryLimit THEN n ELSE DefaultDiscoveryLimit
    /\ UNCHANGED <<visible, session, browse, called>>

(* Tools come and go: every paging of before is over another set.            *)
Published(tools) ==
    /\ visible # tools /\ visible' = tools
    /\ browse' = [s \in Sessions |-> IF browse[s] = NotPaging THEN NotPaging
                                      ELSE [browse[s] EXCEPT !.stable = FALSE]]
    /\ UNCHANGED <<discoveryLimit, session, called>>

(* BuildServer: without a tool set there is no full session.                 *)
Open(s, mode) ==
    /\ session[s] = NoSession
    /\ session' = [session EXCEPT ![s] = [mode |-> mode, limit |-> discoveryLimit,
                      tools |-> IF mode = "full" THEN Names(visible) ELSE {}]]
    /\ UNCHANGED <<visible, discoveryLimit, browse, called>>

Close(s) ==
    /\ session[s] # NoSession
    /\ session' = [session EXCEPT ![s] = NoSession]
    /\ browse' = [browse EXCEPT ![s] = NotPaging]
    /\ UNCHANGED <<visible, discoveryLimit, called>>

----------------------------------------------------------------------------
ResolveLimit(s, requested) ==
    IF requested = 0 THEN session[s].limit
    ELSE IF requested > MaxDiscoveryLimit THEN MaxDiscoveryLimit ELSE requested

(* filterByUpstream: the upstreams of that name, in whatever case, else      *)
(* those that contain it. Tools are told by their places in the list of all. *)
FilterByUpstream(tools, filter) ==
    LET exact == {i \in DOMAIN tools : \E u \in tools[i].ups : Folded[u] = Folded[filter]} IN
    IF filter = "" THEN DOMAIN tools
    ELSE IF exact # {} THEN exact
    ELSE {i \in DOMAIN tools : tools[i].ups \cap Matching[filter] # {}}

(* upstreamOverview, with the first page of every list, by name and case.    *)
UpstreamOverview(tools) ==
    [u \in UNION {tools[i].ups : i \in DOMAIN tools} |->
        Cardinality({i \in DOMAIN tools : u \in tools[i].ups})]

(* Search: the tools with a match of a term, without one those that contain  *)
(* the query (substringFallback); sortHits: the best first.                  *)
Search(tools, query) ==
    LET hits == {i \in DOMAIN tools : Queries[query][tools[i].name] > 0} IN
    IF hits # {} THEN hits ELSE {i \in DOMAIN tools : tools[i].name \in Containing[query]}

Better(tools, query, i, j) ==
    LET score(k) == Queries[query][tools[k].name] IN
    \/ score(i) > score(j)
    \/ score(i) = score(j) /\ NameRank[tools[i].name] < NameRank[tools[j].name]

InOrder(places, Earlier(_, _)) ==
    [n \in 1..Cardinality(places) |->
        CHOOSE i \in places : Cardinality({j \in places : Earlier(j, i)}) = n - 1]

(* The list a request pages through.                                         *)
Listing(asks, tools) ==
    LET order == IF asks.tool = "list_tools"
                   THEN InOrder(FilterByUpstream(tools, asks.text), LAMBDA i, j : i < j)
                   ELSE InOrder(Search(tools, asks.text),
                                LAMBDA i, j : Better(tools, asks.text, i, j))
    IN [n \in DOMAIN order |-> tools[order[n]]]

(* A cursor is an offset into the list of now, which may have become shorter;*)
(* the last page has none (0).                                               *)
Page_Numbered(list, offset, limit) ==
    LET from == IF offset * limit > Len(list) THEN Len(list) ELSE offset * limit
        to == IF from + limit > Len(list) THEN Len(list) ELSE from + limit
    IN [tools |-> SubSeq(list, from + 1, to), next |-> IF to < Len(list) THEN offset + 1 ELSE 0]

Page(list, offset, limit) ==
    LET from == IF offset > Len(list) THEN Len(list) ELSE offset
        to == IF from + limit > Len(list) THEN Len(list) ELSE from + limit
    IN [tools |-> SubSeq(list, from + 1, to), next |-> IF to < Len(list) THEN to ELSE 0]

Smart(s) == session[s] # NoSession /\ session[s].mode = "smart"

(* ListTools and SearchTools without a cursor.                               *)
FirstPage(s, asks, requested) ==
    /\ Smart(s)
    /\ LET page == Page(Listing(asks, visible), 0, ResolveLimit(s, requested)) IN
       browse' = [browse EXCEPT ![s] =
          [asks |-> asks, seen |-> page.tools, next |-> page.next, of |-> visible, stable |-> TRUE,
           overview |-> IF asks.tool = "list_tools" THEN UpstreamOverview(visible) ELSE <<>>]]
    /\ UNCHANGED <<visible, discoveryLimit, session, called>>

(* And with the cursor of the page before.                                   *)
NextPage(s, requested) ==
    /\ Smart(s) /\ browse[s].next # 0
    /\ LET b == browse[s]
           page == Page(Listing(b.asks, visible), b.next, ResolveLimit(s, requested)) IN
       browse' = [browse EXCEPT ![s].seen = b.seen \o page.tools, ![s].next = page.next]
    /\ UNCHANGED <<visible, discoveryLimit, session, called>>

(* A call: the session's own list first, in full mode, then the tools that   *)
(* are visible now (InvokeTool). A panic in it is answered as an error, and  *)
(* the session goes on.                                                      *)
CallTool(s, name) ==
    /\ session[s] # NoSession
    /\ called' = IF /\ session[s].mode = "full" => name \in session[s].tools
                    /\ name \in Names(visible)
                   THEN <<s, name>> ELSE <<>>
    /\ UNCHANGED <<visible, discoveryLimit, session, browse>>

Asks == [tool : {"list_tools"}, text : DOMAIN Matching \cup {""}]
        \cup [tool : {"search_tools"}, text : DOMAIN Queries]

Next ==
    \/ \E n \in Settings : SetDiscoveryLimit(n)
    \/ \E tools \in ToolLists : Published(tools)
    \/ \E s \in Sessions :
          \/ \E mode \in {"full", "smart"} : Open(s, mode)
          \/ Close(s)
          \/ \E asks \in Asks, n \in Requested : FirstPage(s, asks, n)
          \/ \E n \in Requested : NextPage(s, n)
          \/ \E name \in UNION {Names(l) : l \in ToolLists} : CallTool(s, name)

Spec == Init /\ [][Next]_endpointVars

----------------------------------------------------------------------------
(* No other name of the overview is the same but for its case.               *)
Unlike(name, overview) == \A u \in DOMAIN overview : Folded[u] = Folded[name] => u = name

(* A client that follows the cursors to the end of a list or a search, with  *)
(* whatever page sizes and whatever the administrator makes of the default   *)
(* meanwhile, has seen every tool of it exactly once and in order, if the    *)
(* visible tools did not change; and of an upstream no fewer tools than the  *)
(* overview of the first page announced, and as many, where no other visible *)
(* upstream has the same name in another case. (ListTools, SearchTools,      *)
(* resolveLimit, filterByUpstream, upstreamOverview)                         *)
PagesShowEveryTool ==
    \A s \in Sessions :
       LET b == browse[s] IN
       (b.next = 0 /\ b.stable) =>
          /\ b.seen = Listing(b.asks, b.of)
          /\ (b.asks.tool = "list_tools" /\ b.asks.text \in DOMAIN b.overview) =>
                /\ Len(b.seen) >= b.overview[b.asks.text]
                /\ Unlike(b.asks.text, b.overview) => Len(b.seen) = b.overview[b.asks.text]
=============================================================================
