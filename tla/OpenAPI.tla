------------------------------ MODULE OpenAPI -------------------------------
(***************************************************************************)
(* The virtual upstream made of an OpenAPI document                        *)
(* (transport/session_openapi.go): the document becomes one tool for each  *)
(* operation when the session connects, and a call of a tool becomes an    *)
(* HTTP request. The document changes only with a new connection; clients  *)
(* call by the names they know.                                            *)
(***************************************************************************)
EXTENDS Naturals, FiniteSets, Sequences, Functions

CONSTANTS
    Documents,   \* documents the upstream may serve, see Operation
    Values       \* arguments of a call: sets of names given a value

VARIABLES
    document,    \* what docUrl answers now
    tools,       \* openAPIConn.tools: names, by the place of the operation
                 \* in the document; <<>> without connection
    operations,  \* openAPIConn.operations: name -> operation
    source,      \* the document the connection was made of
    request      \* the last request of a call, or <<>>

openapiVars == <<document, tools, operations, source, request>>

(* An operation of a document, in the order of its path and method:          *)
(*   [base |-> the name openAPIToolName gives it, as a sequence,             *)
(*    template |-> the parameters in braces of its path,                     *)
(*    pathParams, params |-> declared for the path and for the operation:    *)
(*                           sequences of [name, in, required] or [ref],     *)
(*    body |-> "no", "optional" or "required", deprecated |-> BOOLEAN]       *)
(* A document: [version3, shared (components.parameters), ops]. One that     *)
(* cannot be fetched or parsed fails like one of another version.            *)
Unavailable == [version3 |-> FALSE, shared |-> <<>>, ops |-> <<>>]

Init ==
    /\ document \in {d \in Documents : d.version3}
    /\ tools = <<>> /\ operations = <<>> /\ source = Unavailable /\ request = <<>>

----------------------------------------------------------------------------
(* resolveOpenAPIParameters: a reference that names nothing stays as it is,  *)
(* a parameter without name or location.                                     *)
ResolveParameters(params, doc) ==
    [i \in DOMAIN params |->
        LET p == params[i] IN
        IF "ref" \notin DOMAIN p THEN p
        ELSE IF p.ref \in DOMAIN doc.shared THEN doc.shared[p.ref]
        ELSE [name |-> "", in |-> "", required |-> FALSE]]

(* mergeOpenAPIParameters: an operation's parameter takes the place of the   *)
(* path's of that location and name (the last one, should there be several), *)
(* and of its own earlier ones. Their order is of no account.                *)
SameParameter(p, q) == p.in = q.in /\ p.name = q.name
LastPlaces(params) ==
    {i \in DOMAIN params : \A j \in DOMAIN params : j > i => ~SameParameter(params[i], params[j])}

MergeParameters(pathParams, opParams) ==
    LET replaced == {i \in LastPlaces(pathParams) :
                        \E j \in DOMAIN opParams : SameParameter(pathParams[i], opParams[j])}
    IN {pathParams[i] : i \in DOMAIN pathParams \ replaced}
       \cup {opParams[j] : j \in LastPlaces(opParams)}

(* uniqueOpenAPIToolName: the first free number from 2.                      *)
UniqueToolName_Second(base, names) == Append(base, 2)

UniqueToolName(base, names) ==
    LET free == {i \in 2..(Cardinality(names) + 2) : Append(base, i) \notin names}
    IN Append(base, CHOOSE i \in free : \A j \in free : i <= j)

(* compileOpenAPIOperations: deprecated operations make no tool, and each of *)
(* the others in turn a tool whose name none before it has.                  *)
Live(doc) == {i \in DOMAIN doc.ops : ~doc.ops[i].deprecated}

ToolNames(doc) ==
    LET name[i \in Live(doc)] ==
          LET base == doc.ops[i].base
              taken == {name[j] : j \in {k \in Live(doc) : k < i}}
          IN IF base \in taken THEN UniqueToolName(base, taken) ELSE base
    IN name

CompileOperation(op, doc) ==
    [op |-> op, params |-> MergeParameters(ResolveParameters(op.pathParams, doc),
                                           ResolveParameters(op.params, doc))]

(* The operation of a name is the last one that got it.                      *)
Operations(doc, names) ==
    [n \in Range(names) |->
        CompileOperation(doc.ops[CHOOSE i \in DOMAIN names :
                           names[i] = n /\ \A j \in DOMAIN names : names[j] = n => j <= i], doc)]

(* Connect: loadOpenAPIDocument and the compilation, which refuses another   *)
(* version and a document without operations. A failed connection leaves     *)
(* the session without tools.                                                *)
Connect ==
    LET made == IF document.version3 THEN Live(document) ELSE {} IN
    /\ tools' = IF made = {} THEN <<>> ELSE ToolNames(document)
    /\ operations' = IF made = {} THEN <<>> ELSE Operations(document, tools')
    /\ source' = IF made = {} THEN Unavailable ELSE document
    /\ request' = <<>> /\ UNCHANGED document

(* The service publishes another document, or is down.                       *)
Publishes ==
    /\ document' \in Documents
    /\ UNCHANGED <<tools, operations, source, request>>

Locations == {"path", "query", "header", "cookie"}

(* buildRequest and expandOpenAPIPath: the values are looked up by name, so  *)
(* parameters of one name in two places get the same value; a missing value  *)
(* of a path placeholder, of a required parameter or of a required body is   *)
(* refused.                                                                  *)
Missing(made, values) ==
    \/ \E n \in made.op.template : n \notin values
    \/ \E p \in made.params : p.required /\ p.in # "path" /\ p.name \notin values
    \/ made.op.body = "required" /\ "body" \notin values

Call(name, values) ==
    /\ source # Unavailable
    /\ request' =
         IF name \notin DOMAIN operations \/ Missing(operations[name], values) THEN <<>>
         ELSE LET made == operations[name] IN
              [op |-> made.op, path |-> made.op.template,
               sent |-> {<<p.in, p.name>> :
                           p \in {q \in made.params : /\ q.in \in Locations \ {"path"}
                                                     /\ q.name \in values}},
               body |-> made.op.body # "no" /\ "body" \in values]
    /\ UNCHANGED <<document, tools, operations, source>>

(* The names clients know: those of any document served so far or before.    *)
KnownNames == UNION {Range(ToolNames(d)) : d \in Documents}

Next ==
    \/ Connect \/ Publishes
    \/ \E n \in KnownNames, v \in Values : Call(n, v)

Spec == Init /\ [][Next]_openapiVars

----------------------------------------------------------------------------
(* Every operation of the document that is not deprecated is reached by      *)
(* exactly one tool, also when sanitized names coincide, with each other or  *)
(* with a name made unique before; and a request carries each required       *)
(* parameter of its operation as the operation declares it last, over a      *)
(* path's. (compileOpenAPIOperations, uniqueOpenAPIToolName,                 *)
(* mergeOpenAPIParameters, buildRequest)                                     *)
ToolsReachTheirOperation ==
    /\ source # Unavailable =>
          /\ DOMAIN tools = Live(source) /\ IsInjective(tools)
          /\ \A i \in Live(source) : operations[tools[i]].op = source.ops[i]
    /\ request # <<>> =>
          LET own == ResolveParameters(request.op.params, source) IN
          \A i \in LastPlaces(own) :
             (own[i].required /\ own[i].in \in Locations \ {"path"})
                => <<own[i].in, own[i].name>> \in request.sent
=============================================================================
