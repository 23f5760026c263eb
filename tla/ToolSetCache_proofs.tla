------------------------ MODULE ToolSetCache_proofs ------------------------
(***************************************************************************)
(* Proofs about ToolSetCache for any number of requests, writers, API keys  *)
(* and writes.                                                              *)
(***************************************************************************)
EXTENDS ToolSetCache, TLAPS

(* The kinds of data a request has read when it is at pc.                   *)
ReadBy(pc) ==
    CASE pc = "rules" -> {"upstreams"}
      [] pc \in {"publish", "keyFilters"} -> {"upstreams", "rules"}
      [] pc = "insert" -> Kinds
      [] OTHER -> {}

(* What a request keeps true of itself.  It began before the last           *)
(* invalidation or at it; a build has read nothing older than the request   *)
(* and, if the version has not moved since, nothing older than the last     *)
(* invalidation.                                                            *)
Safe(r) ==
    /\ ~At(r, "idle") => req[r].key \in Keys
    /\ AtLeast(cleared, req[r].floor)
    /\ req[r].ver <= version
    /\ \A k \in ReadBy(req[r].pc) :
         /\ req[r].floor[k] <= req[r].set[k]
         /\ req[r].ver = version => cleared[k] <= req[r].set[k]
    /\ req[r].pc \in HoldsToolSet => AtLeast(req[r].set, req[r].floor)
    /\ At(r, "discPut") => req[r].disc.set = req[r].set
    /\ req[r].pc \in {"result", "select", "call"} => req[r].op = "invoke"
    /\ At(r, "indexPut") => req[r].index = req[r].disc
    /\ At(r, "done") /\ req[r].op = "search" => req[r].index = req[r].disc

IndexFits ==
    \A k \in Keys :
        Has(k) /\ entries[k].index # None => entries[k].index = entries[k].disc

CacheInv ==
    /\ TypeOK
    /\ AtLeast(db, cleared)
    /\ EntriesAreFresh
    /\ IndexFits
    /\ \A r \in Requests : Safe(r)

LEMMA InitEstablishes == Init => CacheInv
<1> SUFFICES ASSUME Init PROVE CacheInv
  OBVIOUS
<1>1. idle \in Request
  BY DEF idle, Request, PC, nothingRead, Reads, Generation
<1>2. nothingRead \in Reads
  BY DEF nothingRead, Reads, Generation
<1>3. TypeOK
  BY <1>1, <1>2 DEF Init, TypeOK, Generation
<1>4. \A r \in Requests : Safe(r)
  BY DEF Init, Safe, At, idle, ReadBy, AtLeast, nothingRead
<1> QED
  BY <1>3, <1>4 DEF Init, CacheInv, AtLeast, nothingRead, EntriesAreFresh,
     IndexFits, Has

(* A step that leaves the version, the marks and the entries of the cache   *)
(* alone, and every other request, only has to keep its own request safe.   *)
LEMMA OneRequest ==
  ASSUME CacheInv, NEW r \in Requests, TypeOK',
         UNCHANGED <<db, entries, version, cleared>>,
         \A q \in Requests \ {r} : req'[q] = req[q],
         Safe(r)'
  PROVE  CacheInv'
<1>1. \A q \in Requests : Safe(q)'
  <2> SUFFICES ASSUME NEW q \in Requests, q # r PROVE Safe(q)'
    OBVIOUS
  <2>1. Safe(q) /\ req'[q] = req[q]
    BY DEF CacheInv
  <2> QED
    BY <2>1 DEF HoldsToolSet, Safe, At, AtLeast
<1>2. AtLeast(db, cleared)' /\ EntriesAreFresh' /\ IndexFits'
  BY DEF CacheInv, AtLeast, EntriesAreFresh, IndexFits, Has
<1> QED
  BY <1>1, <1>2 DEF CacheInv

LEMMA BeginSafe ==
  ASSUME CacheInv, NEW r \in Requests, Begin(r) PROVE CacheInv'
<1> PICK k \in Keys, op \in Ops :
      req' = [req EXCEPT ![r] = [idle EXCEPT !.op = op, !.key = k,
                                   !.floor = cleared, !.pc = First(op)]]
  BY DEF Begin
<1> DEFINE x == [idle EXCEPT !.op = op, !.key = k, !.floor = cleared,
                             !.pc = First(op)]
<1>1. TypeOK /\ UNCHANGED <<db, entries, version, cleared, configs, results, writer, purged>>
  BY DEF Begin, InCache, Rest, CacheInv
<1>2. First(op) \in {"search", "disc", "look"}
  BY DEF First
<1>3. /\ x.pc = First(op) /\ x.op = op /\ x.key = k /\ x.floor = cleared
      /\ x.ver = 0 /\ x.index = None /\ x.disc = None
  BY DEF idle
<1>4. x \in Request
  <2>1. idle \in Request
    BY DEF idle, Request, PC, nothingRead, Reads, Generation
  <2>2. First(op) \in PC /\ cleared \in Reads
    BY <1>1, <1>2 DEF TypeOK, PC
  <2> QED
    BY <2>1, <2>2 DEF Request
<1>5. req' = [req EXCEPT ![r] = x]
  OBVIOUS
<1> HIDE DEF x
<1>6. TypeOK'
  BY <1>1, <1>4, <1>5 DEF TypeOK
<1>7. req'[r] = x /\ \A q \in Requests \ {r} : req'[q] = req[q]
  BY <1>1, <1>5 DEF TypeOK
<1>8. Safe(r)'
  <2>1. \A j \in Kinds : cleared[j] \in Nat
    BY <1>1 DEF TypeOK, Reads, Generation
  <2>2. version \in Nat
    BY <1>1 DEF TypeOK
  <2>3. ReadBy(First(op)) = {}
    BY <1>2 DEF ReadBy
  <2>4. /\ req'[r].pc = First(op) /\ req'[r].key = k /\ req'[r].floor = cleared
        /\ req'[r].ver = 0
    BY <1>3, <1>7
  <2> QED
    BY <1>1, <1>2, <2>1, <2>2, <2>3, <2>4 DEF HoldsToolSet, Safe, At, AtLeast
<1> QED
  BY <1>1, <1>6, <1>7, <1>8, OneRequest

LEMMA LookSafe ==
  ASSUME CacheInv, NEW r \in Requests, Look(r) PROVE CacheInv'
<1> DEFINE k == req[r].key
<1>1. TypeOK /\ UNCHANGED <<db, entries, version, cleared, configs, results, writer, purged>>
  BY DEF Look, InCache, Rest, CacheInv
<1>2. /\ At(r, "look") /\ req[r] \in Request /\ k \in Keys /\ Safe(r)
      /\ Has(k) => entries[k] \in Entry
  BY <1>1 DEF Look, At, CacheInv, Safe, TypeOK, Has
<1>3. CASE Valid(k)
  <2>1. req' = [req EXCEPT ![r].pc = "built", ![r].set = entries[k].set, ![r].ver = version]
    BY <1>3 DEF Look
  <2>2. entries[k].set \in Reads /\ AtLeast(entries[k].set, cleared)
    BY <1>2, <1>3 DEF Valid, Has, Entry, CacheInv, EntriesAreFresh
  <2>3. TypeOK'
    BY <1>1, <1>2, <2>1, <2>2 DEF TypeOK, Request, PC
  <2>4. /\ req'[r] = [req[r] EXCEPT !.pc = "built", !.set = entries[k].set, !.ver = version]
        /\ \A q \in Requests \ {r} : req'[q] = req[q]
    BY <1>1, <2>1 DEF TypeOK
  <2>5. AtLeast(entries[k].set, req[r].floor)
    BY <1>1, <1>2, <2>2 DEF AtLeast, Safe, TypeOK, Request, Reads, Generation
  <2>6. Safe(r)'
    BY <1>1, <1>2, <2>2, <2>4, <2>5 DEF HoldsToolSet, Safe, At, AtLeast, ReadBy, TypeOK, Request
  <2> QED
    BY <1>1, <2>3, <2>4, <2>6, OneRequest
<1>4. CASE ~Valid(k)
  <2>1. PICK pc \in {"purge", "list"} :
          req' = [req EXCEPT ![r].pc = pc, ![r].ver = version, ![r].valid = FALSE]
    BY <1>4 DEF Look
  <2>2. TypeOK'
    BY <1>1, <1>2, <2>1 DEF TypeOK, Request, PC
  <2>3. /\ req'[r] = [req[r] EXCEPT !.pc = pc, !.ver = version, !.valid = FALSE]
        /\ \A q \in Requests \ {r} : req'[q] = req[q]
    BY <1>1, <2>1 DEF TypeOK
  <2>4. Safe(r)'
    BY <1>1, <1>2, <2>3 DEF HoldsToolSet, Safe, At, AtLeast, ReadBy, TypeOK, Request
  <2> QED
    BY <1>1, <2>2, <2>3, <2>4, OneRequest
<1> QED
  BY <1>3, <1>4

(* The steps that only move a request on, to a point where nothing more is  *)
(* asked of it than before.                                                 *)
LEMMA MovesOn ==
  ASSUME CacheInv, NEW r \in Requests, NEW pc \in PC, ~At(r, "idle"),
         req' = [req EXCEPT ![r].pc = pc],
         ReadBy(pc) \subseteq ReadBy(req[r].pc), pc \notin {"indexPut", "discPut"},
         pc \in HoldsToolSet => AtLeast(req[r].set, req[r].floor),
         pc \in {"result", "select", "call"} => req[r].op = "invoke",
         pc = "done" /\ req[r].op = "search" => req[r].index = req[r].disc,
         configs' \in Generation, results' \in [Keys -> Reads \cup {None}],
         UNCHANGED <<entries, version, db, writer, cleared, purged>>
  PROVE  CacheInv'
<1>1. TypeOK /\ req[r] \in Request /\ Safe(r)
  BY DEF CacheInv, TypeOK
<1>2. /\ req'[r] = [req[r] EXCEPT !.pc = pc]
      /\ \A q \in Requests \ {r} : req'[q] = req[q]
  BY <1>1 DEF TypeOK
<1>3. TypeOK'
  BY <1>1 DEF TypeOK, Request
<1>4. Safe(r)'
  BY <1>1, <1>2 DEF HoldsToolSet, Safe, At, AtLeast, Request
<1> QED
  BY <1>2, <1>3, <1>4, OneRequest

LEMMA ReturnSafe ==
  ASSUME CacheInv, NEW r \in Requests, Return(r),
         UNCHANGED <<entries, version, db, configs, results, writer, cleared, purged>>
  PROVE  CacheInv'
<1>1. TypeOK /\ idle \in Request
  BY DEF CacheInv, idle, Request, PC, nothingRead, Reads, Generation
<1>2. req'[r] = idle /\ \A q \in Requests \ {r} : req'[q] = req[q]
  BY <1>1 DEF TypeOK, Return
<1>3. TypeOK'
  BY <1>1 DEF TypeOK, Return
<1>4. Safe(r)'
  <2>1. /\ idle.pc = "idle" /\ idle.floor = nothingRead /\ idle.ver = 0
        /\ ReadBy("idle") = {}
    BY DEF idle, ReadBy
  <2>2. AtLeast(cleared, nothingRead) /\ version \in Nat
    BY <1>1 DEF AtLeast, nothingRead, TypeOK, Reads, Generation
  <2> QED
    BY <1>1, <1>2, <2>1, <2>2 DEF HoldsToolSet, Safe, At, AtLeast
<1> QED
  BY <1>2, <1>3, <1>4, OneRequest

LEMMA MovingSteps ==
  ASSUME CacheInv, NEW r \in Requests,
         \/ PublishConfigs(r) \/ Built(r) \/ CachedResult(r)
         \/ SelectCandidate(r) \/ CallReturns(r)
  PROVE  CacheInv'
<1>1. TypeOK /\ req[r] \in Request /\ Safe(r)
  BY DEF CacheInv, TypeOK
<1> DEFINE Fresh == AtLeast(req[r].set, req[r].floor)
<1>2. CASE PublishConfigs(r)
  <2>1. At(r, "publish") /\ req' = [req EXCEPT ![r].pc = "keyFilters"]
    BY <1>2 DEF PublishConfigs, Goto
  <2>2. ReadBy("keyFilters") \subseteq ReadBy(req[r].pc)
    BY <2>1 DEF At, ReadBy
  <2>3. configs' \in Generation
    BY <1>1, <1>2 DEF PublishConfigs, Request, Reads, Kinds
  <2>4. UNCHANGED <<entries, version, db, results, writer, cleared, purged>>
    BY <1>2 DEF PublishConfigs, InCache, Rest
  <2> QED
    BY <1>1, <2>1, <2>2, <2>3, <2>4, MovesOn DEF At, PC, TypeOK, HoldsToolSet
<1>3. CASE Built(r)
  <2> DEFINE pc == AfterBuild(req[r].op)
  <2>1. At(r, "built") /\ req' = [req EXCEPT ![r].pc = pc]
    BY <1>3 DEF Built, Goto
  <2>2. pc \in {"done", "result", "discAgain"} /\ (pc = "result" => req[r].op = "invoke")
        /\ (pc = "done" => req[r].op = "set")
    BY DEF AfterBuild
  <2>3. Fresh
    BY <1>1, <2>1 DEF HoldsToolSet, Safe, At
  <2>4. UNCHANGED <<entries, version, db, configs, results, writer, cleared, purged>>
    BY <1>3 DEF Built, InCache, Rest
  <2>5. ReadBy(pc) = {}
    BY <2>2 DEF ReadBy
  <2> HIDE DEF pc
  <2> QED
    BY <1>1, <2>1, <2>2, <2>3, <2>4, <2>5, MovesOn DEF At, PC, TypeOK
<1>4. CASE CachedResult(r) \/ SelectCandidate(r) \/ CallReturns(r)
  <2>1. /\ req[r].pc \in {"result", "select", "call"}
        /\ UNCHANGED <<entries, version, db, configs, writer, cleared, purged>>
    BY <1>4 DEF CachedResult, SelectCandidate, CallReturns, At, InCache, Rest
  <2>2. Fresh
    BY <1>1, <2>1 DEF HoldsToolSet, Safe
  <2>3. CASE SelectCandidate(r) /\ Return(r)
    BY <2>1, <2>3, ReturnSafe DEF SelectCandidate
  <2>4. CASE \E pc \in {"done", "select", "call"} : req' = [req EXCEPT ![r].pc = pc]
    <3> PICK pc \in {"done", "select", "call"} : req' = [req EXCEPT ![r].pc = pc]
      BY <2>4
    <3>1. results' \in [Keys -> Reads \cup {None}]
      BY <1>1, <1>4 DEF CachedResult, SelectCandidate, CallReturns, TypeOK, Request
    <3>2. ReadBy(pc) = {}
      BY DEF ReadBy
    <3>3. req[r].op = "invoke"
      BY <1>1, <2>1 DEF HoldsToolSet, Safe
    <3> QED
      BY <1>1, <2>1, <2>2, <3>1, <3>2, <3>3, MovesOn DEF At, PC, TypeOK
  <2> QED
    BY <1>4, <2>3, <2>4 DEF CachedResult, SelectCandidate, CallReturns, Goto
<1> QED
  BY <1>2, <1>3, <1>4

(* The same for a step that changes the entries as well, and may forget     *)
(* that others found theirs valid.                                          *)
LEMMA EntriesChange ==
  ASSUME CacheInv, NEW r \in Requests, TypeOK',
         UNCHANGED <<db, version, cleared>>,
         EntriesAreFresh', IndexFits',
         \A q \in Requests \ {r} :
            req'[q] = req[q] \/ req'[q] = [req[q] EXCEPT !.valid = FALSE],
         Safe(r)'
  PROVE  CacheInv'
<1>1. \A q \in Requests : Safe(q)'
  <2> SUFFICES ASSUME NEW q \in Requests, q # r PROVE Safe(q)'
    OBVIOUS
  <2>1. Safe(q) /\ req[q] \in Request
    BY DEF CacheInv, TypeOK
  <2>2. /\ req'[q].pc = req[q].pc /\ req'[q].op = req[q].op
        /\ req'[q].key = req[q].key /\ req'[q].floor = req[q].floor
        /\ req'[q].set = req[q].set /\ req'[q].ver = req[q].ver
        /\ req'[q].index = req[q].index /\ req'[q].disc = req[q].disc
    <3>1. CASE req'[q] = req[q]
      BY <3>1
    <3>2. CASE req'[q] = [req[q] EXCEPT !.valid = FALSE]
      BY <2>1, <3>2 DEF Request
    <3> QED
      BY <3>1, <3>2
  <2> QED
    BY <2>1, <2>2 DEF HoldsToolSet, Safe, At, AtLeast
<1>2. AtLeast(db, cleared)'
  BY DEF CacheInv, AtLeast
<1> QED
  BY <1>1, <1>2 DEF CacheInv

LEMMA PurgeSafe ==
  ASSUME CacheInv, NEW r \in Requests, PurgeExpired(r) PROVE CacheInv'
<1> DEFINE k == req[r].key
<1>1. /\ TypeOK /\ req[r] \in Request /\ Safe(r) /\ req[r].pc = "purge"
      /\ k \in Keys
  BY DEF CacheInv, TypeOK, PurgeExpired, At, Safe
<1>2. /\ UNCHANGED <<db, version, cleared, configs, results, writer, purged>>
      /\ req' = [req EXCEPT ![r].pc = "list", ![r].ver = version]
      /\ entries' = entries \/ entries' = [entries EXCEPT ![k] = None]
  BY DEF PurgeExpired, Rest
<1>3. TypeOK'
  BY <1>1, <1>2 DEF TypeOK, Request, PC
<1>4. EntriesAreFresh' /\ IndexFits'
  BY <1>1, <1>2 DEF CacheInv, EntriesAreFresh, IndexFits, Has, AtLeast, TypeOK
<1>5. /\ req'[r] = [req[r] EXCEPT !.pc = "list", !.ver = version]
      /\ \A q \in Requests \ {r} : req'[q] = req[q]
  BY <1>1, <1>2 DEF TypeOK
<1>6. Safe(r)'
  BY <1>1, <1>2, <1>5 DEF HoldsToolSet, Safe, At, AtLeast, ReadBy, TypeOK, Request
<1> QED
  BY <1>2, <1>3, <1>4, <1>5, <1>6, EntriesChange

LEMMA ReadsSafe ==
  ASSUME CacheInv, NEW r \in Requests,
         ListUpstreams(r) \/ ReadRules(r) \/ ReadKeyFilters(r)
  PROVE  CacheInv'
<1>1. /\ TypeOK /\ req[r] \in Request /\ Safe(r) /\ AtLeast(db, cleared)
      /\ UNCHANGED <<entries, version, configs, results, db, writer, cleared, purged>>
  BY DEF CacheInv, TypeOK, ListUpstreams, ReadRules, ReadKeyFilters, InCache, Rest
<1>2. PICK k \in Kinds, next \in {"rules", "publish", "insert"} :
        /\ Read(r, k, next)
        /\ ReadBy(next) \subseteq ReadBy(req[r].pc) \cup {k}
        /\ req[r].pc \in {"list", "rules", "keyFilters"}
  BY DEF ListUpstreams, ReadRules, ReadKeyFilters, At, ReadBy, Kinds
<1>3. req' = [req EXCEPT ![r].set[k] = db[k], ![r].pc = next]
  BY <1>2 DEF Read
<1>4. /\ req'[r] = [req[r] EXCEPT !.set = [@ EXCEPT ![k] = db[k]], !.pc = next]
      /\ \A q \in Requests \ {r} : req'[q] = req[q]
  BY <1>1, <1>3 DEF TypeOK
<1>5. [req[r].set EXCEPT ![k] = db[k]] \in Reads
  BY <1>1 DEF TypeOK, Request, Reads, Generation
<1>6. TypeOK'
  <2>1. [req[r] EXCEPT !.set = [@ EXCEPT ![k] = db[k]], !.pc = next] \in Request
    BY <1>1, <1>5 DEF Request, PC
  <2>2. req' \in [Requests -> Request]
    BY <1>1, <1>3, <2>1 DEF TypeOK
  <2> QED
    BY <1>1, <2>2 DEF TypeOK
<1>7. Safe(r)'
  <2> DEFINE s == [req[r].set EXCEPT ![k] = db[k]]
  <2>1. \A j \in Kinds : s[j] = IF j = k THEN db[k] ELSE req[r].set[j]
    BY <1>1 DEF Request, Reads
  <2>2. \A j \in Kinds : /\ db[j] \in Nat /\ cleared[j] \in Nat
                         /\ req[r].floor[j] \in Nat /\ req[r].set[j] \in Nat
    BY <1>1 DEF TypeOK, Request, Reads, Generation
  <2> HIDE DEF s
  <2>3. /\ req'[r].pc = next /\ req'[r].set = s
        /\ req'[r].floor = req[r].floor /\ req'[r].ver = req[r].ver
        /\ req'[r].key = req[r].key
    BY <1>1, <1>4 DEF Request, s
  <2>4. ASSUME NEW j \in ReadBy(next)
        PROVE  /\ req[r].floor[j] <= s[j]
               /\ req[r].ver = version => cleared[j] <= s[j]
    <3>1. j \in Kinds /\ ReadBy(req[r].pc) \subseteq Kinds
      BY <1>2 DEF ReadBy, Kinds
    <3>2. CASE j = k
      <4>1. req[r].floor[j] <= cleared[j] /\ cleared[j] <= db[j]
        BY <1>1, <3>1 DEF HoldsToolSet, Safe, AtLeast
      <4> QED
        BY <2>1, <2>2, <3>1, <3>2, <4>1
    <3>3. CASE j # k
      BY <1>1, <1>2, <2>1, <3>1, <3>3 DEF HoldsToolSet, Safe
    <3> QED
      BY <3>2, <3>3
  <2> QED
    BY <1>1, <1>2, <2>3, <2>4 DEF HoldsToolSet, Safe, At, AtLeast
<1> QED
  BY <1>1, <1>4, <1>6, <1>7, OneRequest

LEMMA InsertSafe ==
  ASSUME CacheInv, NEW r \in Requests, Insert(r) PROVE CacheInv'
<1> DEFINE k == req[r].key
           new == [set |-> req[r].set, valid |-> TRUE,
                   disc |-> None, index |-> None]
<1>1. /\ TypeOK /\ req[r] \in Request /\ Safe(r) /\ req[r].pc = "insert"
      /\ k \in Keys
  BY DEF CacheInv, TypeOK, Insert, At, Safe
<1>2. UNCHANGED <<db, version, cleared, configs, results, writer, purged>>
  BY DEF Insert, Rest
<1>3. AtLeast(req[r].set, req[r].floor)
  BY <1>1 DEF HoldsToolSet, Safe, ReadBy, AtLeast
<1>4. CASE version # req[r].ver
  <2>1. req' = [req EXCEPT ![r].pc = "built"] /\ entries' = entries
    BY <1>4 DEF Insert, Goto
  <2>2. "built" \in PC /\ ReadBy("built") = {}
    BY DEF PC, ReadBy
  <2> QED
    BY <1>1, <1>2, <1>3, <2>1, <2>2, MovesOn DEF At, TypeOK
<1>5. CASE version = req[r].ver
  <2>1. AtLeast(req[r].set, cleared)
    BY <1>1, <1>5 DEF HoldsToolSet, Safe, ReadBy, AtLeast
  <2>2. PICK kept \in Pruned(k) :
          entries' = [j \in Keys |->
              IF j = k THEN new ELSE IF j \in kept THEN entries[j] ELSE None]
    BY <1>5 DEF Insert
  <2>3. req' = [q \in Requests |->
                  CASE q = r -> [req[q] EXCEPT !.pc = "built"]
                    [] q # r /\ req[q].key = k -> [req[q] EXCEPT !.valid = FALSE]
                    [] OTHER -> req[q]]
    BY <1>5 DEF Insert
  <2>4. /\ req'[r] = [req[r] EXCEPT !.pc = "built"]
        /\ \A q \in Requests \ {r} :
              req'[q] = req[q] \/ req'[q] = [req[q] EXCEPT !.valid = FALSE]
    BY <2>3
  <2>5. new \in Entry /\ new.index = None /\ new.set = req[r].set
    BY <1>1 DEF Entry, Request
  <2> HIDE DEF new
  <2>6. \A j \in Keys : entries'[j] \in {new, entries[j], None}
    BY <2>2
  <2>7. TypeOK'
    <3>1. req' \in [Requests -> Request]
      <4>1. ASSUME NEW q \in Requests PROVE req'[q] \in Request
        <5>1. req[q] \in Request
          BY <1>1 DEF TypeOK
        <5>2. /\ [req[q] EXCEPT !.valid = FALSE] \in Request
              /\ [req[q] EXCEPT !.pc = "built"] \in Request
          BY <5>1 DEF Request, PC
        <5>3. req'[q] \in {req[q], [req[q] EXCEPT !.valid = FALSE],
                           [req[q] EXCEPT !.pc = "built"]}
          BY <2>4
        <5> QED
          BY <5>1, <5>2, <5>3
      <4> QED
        BY <2>3, <4>1
    <3>2. entries' \in [Keys -> Entry \cup {None}]
      BY <1>1, <2>2, <2>5 DEF TypeOK
    <3> QED
      BY <1>1, <1>2, <3>1, <3>2 DEF TypeOK
  <2>8. EntriesAreFresh' /\ IndexFits'
    BY <1>2, <2>1, <2>5, <2>6 DEF CacheInv, EntriesAreFresh, IndexFits, Has, AtLeast
  <2>9. Safe(r)'
    BY <1>1, <1>2, <1>3, <2>4 DEF HoldsToolSet, Safe, At, AtLeast, ReadBy, Request
  <2> QED
    BY <1>2, <2>4, <2>7, <2>8, <2>9, EntriesChange
<1> QED
  BY <1>4, <1>5

LEMMA DiscoverySteps ==
  ASSUME CacheInv, NEW r \in Requests,
         CachedDiscoveries(r) \/ ComputeDiscoveries(r)
  PROVE  CacheInv'
<1> DEFINE k == req[r].key
           next == NextAfterDiscoveries(r)
<1>1. /\ TypeOK /\ req[r] \in Request /\ Safe(r) /\ ~At(r, "idle") /\ k \in Keys
      /\ UNCHANGED <<entries, version, configs, results, db, writer, cleared, purged>>
  BY DEF CacheInv, TypeOK, CachedDiscoveries, ComputeDiscoveries, At, Safe,
     InCache, Rest
<1>2. /\ next \in {"searchAgain", "done"}
      /\ next = "done" => req[r].op # "search"
  BY DEF NextAfterDiscoveries
<1> HIDE DEF next
<1>3. PICK pc \in {"searchAgain", "done", "look", "compute", "discPut"},
           d \in Discoveries \cup {None}, v \in BOOLEAN :
        /\ req' = [req EXCEPT ![r].pc = pc, ![r].disc = d, ![r].valid = v]
        /\ pc = "done" => req[r].op # "search"
        /\ pc \in {"compute", "discPut"} => AtLeast(req[r].set, req[r].floor)
        /\ pc = "discPut" => d.set = req[r].set
  <2>1. CASE CachedDiscoveries(r) /\ Ready(k)
    <3>1. entries[k].disc \in Discoveries \cup {None} /\ req[r].valid \in BOOLEAN
      BY <1>1, <2>1 DEF Ready, Valid, Has, TypeOK, Entry, Request
    <3>2. req' = [req EXCEPT ![r].pc = next, ![r].disc = entries[k].disc]
      BY <2>1 DEF CachedDiscoveries, next
    <3>3. req' = [req EXCEPT ![r].pc = next, ![r].disc = entries[k].disc,
                             ![r].valid = req[r].valid]
      BY <1>1, <3>2 DEF TypeOK, Request
    <3> QED
      BY <1>2, <3>1, <3>3
  <2>2. CASE CachedDiscoveries(r) /\ ~Ready(k)
    <3>1. req[r].disc \in Discoveries \cup {None} /\ Valid(k) \in BOOLEAN
      BY <1>1 DEF Request, Valid, Has, TypeOK, Entry
    <3>2. PICK pc \in {"look", "compute"} :
            /\ req' = [req EXCEPT ![r].pc = pc, ![r].valid = Valid(k)]
            /\ pc = "compute" => At(r, "discAgain")
      BY <2>2 DEF CachedDiscoveries, At
    <3>3. req' = [req EXCEPT ![r].pc = pc, ![r].disc = req[r].disc,
                             ![r].valid = Valid(k)]
      BY <1>1, <3>2 DEF TypeOK, Request
    <3>4. pc = "compute" => AtLeast(req[r].set, req[r].floor)
      BY <1>1, <3>2 DEF Safe, At, HoldsToolSet
    <3> QED
      BY <3>1, <3>3, <3>4
  <2>3. CASE ComputeDiscoveries(r)
    <3> DEFINE d == [set |-> req[r].set, tags |-> configs]
    <3>1. d \in Discoveries \cup {None} /\ req[r].valid \in BOOLEAN
      BY <1>1 DEF Discoveries, Request, TypeOK
    <3>2. req' = [req EXCEPT ![r].pc = "discPut", ![r].disc = d]
      BY <2>3 DEF ComputeDiscoveries
    <3>4. d.set = req[r].set /\ AtLeast(req[r].set, req[r].floor)
      BY <1>1, <2>3 DEF ComputeDiscoveries, Safe, At, HoldsToolSet
    <3> HIDE DEF d
    <3>3. req' = [req EXCEPT ![r].pc = "discPut", ![r].disc = d,
                             ![r].valid = req[r].valid]
      BY <1>1, <3>2 DEF TypeOK, Request
    <3> QED
      BY <3>1, <3>3, <3>4
  <2> QED
    BY <2>1, <2>2, <2>3
<1>4. /\ req'[r] = [req[r] EXCEPT !.pc = pc, !.disc = d, !.valid = v]
      /\ \A q \in Requests \ {r} : req'[q] = req[q]
  BY <1>1, <1>3 DEF TypeOK
<1>5. TypeOK'
  BY <1>1, <1>3, ZenonT(60) DEF TypeOK, Request, PC
<1>6. Safe(r)'
  <2>1. ReadBy(pc) = {}
    BY DEF ReadBy
  <2>2. /\ req'[r].pc = pc /\ req'[r].op = req[r].op
        /\ req'[r].key = req[r].key /\ req'[r].floor = req[r].floor
        /\ req'[r].ver = req[r].ver /\ req'[r].set = req[r].set
        /\ req'[r].disc = d
    BY <1>1, <1>4 DEF Request
  <2> QED
    BY <1>1, <1>3, <2>1, <2>2 DEF HoldsToolSet, Safe, At, AtLeast
<1> QED
  BY <1>1, <1>4, <1>5, <1>6, OneRequest

LEMMA PutDiscoveriesSafe ==
  ASSUME CacheInv, NEW r \in Requests, PutDiscoveries(r) PROVE CacheInv'
<1> DEFINE k == req[r].key
           next == NextAfterDiscoveries(r)
<1>1. /\ TypeOK /\ req[r] \in Request /\ Safe(r) /\ ~At(r, "idle") /\ k \in Keys
      /\ UNCHANGED <<version, configs, results, db, writer, cleared, purged>>
  BY DEF CacheInv, TypeOK, PutDiscoveries, At, Safe, InCache, Rest
<1>2. /\ next \in {"searchAgain", "done"}
      /\ next = "done" => req[r].op # "search"
  BY DEF NextAfterDiscoveries
<1>3. PICK d \in Discoveries \cup {None} :
        req' = [req EXCEPT ![r].pc = next, ![r].disc = d]
  <2>1. CASE Has(k) /\ req[r].valid /\ entries[k].disc # None
    <3>1. entries[k].disc \in Discoveries \cup {None}
      BY <1>1, <2>1 DEF Has, TypeOK, Entry
    <3> QED
      BY <2>1, <3>1 DEF PutDiscoveries
  <2>2. CASE ~(Has(k) /\ req[r].valid /\ entries[k].disc # None)
    <3>1. req' = [req EXCEPT ![r].pc = next]
      BY <2>2 DEF PutDiscoveries, Goto
    <3>2. req' = [req EXCEPT ![r].pc = next, ![r].disc = req[r].disc]
      BY <1>1, <3>1 DEF TypeOK, Request
    <3> QED
      BY <1>1, <3>2 DEF Request
  <2> QED
    BY <2>1, <2>2
<1> HIDE DEF next
<1>4. \/ entries' = entries
      \/ /\ Has(k)
         /\ entries' = [entries EXCEPT ![k].disc = req[r].disc, ![k].index = None]
  BY DEF PutDiscoveries
<1>5. /\ req'[r] = [req[r] EXCEPT !.pc = next, !.disc = d]
      /\ \A q \in Requests \ {r} : req'[q] = req[q]
  BY <1>1, <1>3 DEF TypeOK
<1>6. TypeOK'
  <2>1. req' \in [Requests -> Request]
    BY <1>1, <1>2, <1>3, ZenonT(60) DEF TypeOK, Request, PC
  <2>2. entries' \in [Keys -> Entry \cup {None}]
    <3>1. CASE entries' = entries
      BY <1>1, <3>1 DEF TypeOK
    <3>2. CASE entries' # entries
      <4>1. entries[k] \in Entry /\ req[r].disc \in Discoveries \cup {None}
        BY <1>1, <1>4, <3>2 DEF TypeOK, Has, Request
      <4>2. [entries[k] EXCEPT !.disc = req[r].disc, !.index = None] \in Entry
        BY <4>1 DEF Entry
      <4>3. entries' = [entries EXCEPT ![k] =
                          [entries[k] EXCEPT !.disc = req[r].disc, !.index = None]]
        BY <1>1, <1>4, <3>2 DEF TypeOK
      <4> QED
        BY <1>1, <4>2, <4>3 DEF TypeOK
    <3> QED
      BY <3>1, <3>2
  <2> QED
    BY <1>1, <2>1, <2>2 DEF TypeOK
<1>7. Safe(r)'
  <2>1. ReadBy(next) = {}
    BY <1>2 DEF ReadBy
  <2> QED
    BY <1>1, <1>2, <1>5, <2>1 DEF HoldsToolSet, Safe, At, AtLeast, Request
<1>8. EntriesAreFresh' /\ IndexFits'
  <2>1. ASSUME NEW j \in Keys, entries'[j] # None
        PROVE  /\ AtLeast(entries'[j].set, cleared)
               /\ entries'[j].index # None => entries'[j].index = entries'[j].disc
    <3>1. entries[j] # None /\ entries[j] \in Entry
      BY <1>1, <1>4, <2>1 DEF Has, TypeOK
    <3>2. entries'[j].set = entries[j].set
      BY <1>1, <1>4, <3>1 DEF TypeOK, Entry
    <3>3. entries'[j].index = None \/ entries'[j] = entries[j]
      BY <1>1, <1>4, <3>1 DEF TypeOK, Entry
    <3> QED
      BY <3>1, <3>2, <3>3 DEF CacheInv, EntriesAreFresh, IndexFits, Has
  <2> QED
    BY <1>1, <2>1 DEF EntriesAreFresh, IndexFits, Has, AtLeast
<1> QED
  BY <1>1, <1>5, <1>6, <1>7, <1>8, EntriesChange

LEMMA CachedSearchSafe ==
  ASSUME CacheInv, NEW r \in Requests, CachedSearch(r) PROVE CacheInv'
<1> DEFINE k == req[r].key
<1>1. /\ TypeOK /\ req[r] \in Request /\ Safe(r) /\ ~At(r, "idle") /\ k \in Keys
      /\ UNCHANGED <<entries, version, configs, results, db, writer, cleared, purged>>
  BY DEF CacheInv, TypeOK, CachedSearch, At, Safe, InCache, Rest
<1>2. CASE Indexed(k)
  <2>1. req' = [req EXCEPT ![r].pc = "done", ![r].disc = entries[k].disc,
                           ![r].index = entries[k].index]
    BY <1>2 DEF CachedSearch
  <2>2. /\ entries[k] \in Entry /\ entries[k].index = entries[k].disc
    BY <1>1, <1>2 DEF Indexed, Ready, Valid, Has, TypeOK, CacheInv, IndexFits
  <2>3. /\ req'[r] = [req[r] EXCEPT !.pc = "done", !.disc = entries[k].disc,
                                    !.index = entries[k].index]
        /\ \A q \in Requests \ {r} : req'[q] = req[q]
    BY <1>1, <2>1 DEF TypeOK
  <2>4. TypeOK'
    BY <1>1, <2>1, <2>2, ZenonT(60) DEF TypeOK, Request, PC, Entry
  <2>5. Safe(r)'
    BY <1>1, <2>2, <2>3 DEF HoldsToolSet, Safe, At, AtLeast, ReadBy, Request
  <2> QED
    BY <1>1, <2>3, <2>4, <2>5, OneRequest
<1>3. CASE ~Indexed(k)
  <2>1. PICK pc \in {"disc", "indexPut"} :
          req' = [req EXCEPT ![r].pc = pc, ![r].index = req[r].disc,
                             ![r].valid = Valid(k)]
    BY <1>3 DEF CachedSearch
  <2>2. Valid(k) \in BOOLEAN
    BY <1>1 DEF Valid, Has, TypeOK, Entry
  <2>3. /\ req'[r] = [req[r] EXCEPT !.pc = pc, !.index = req[r].disc,
                                    !.valid = Valid(k)]
        /\ \A q \in Requests \ {r} : req'[q] = req[q]
    BY <1>1, <2>1 DEF TypeOK
  <2>4. TypeOK'
    BY <1>1, <2>1, <2>2 DEF TypeOK, Request, PC
  <2>5. Safe(r)'
    BY <1>1, <2>3 DEF HoldsToolSet, Safe, At, AtLeast, ReadBy, Request
  <2> QED
    BY <1>1, <2>3, <2>4, <2>5, OneRequest
<1> QED
  BY <1>2, <1>3

LEMMA PutIndexSafe ==
  ASSUME CacheInv, NEW r \in Requests, PutIndex(r) PROVE CacheInv'
<1> DEFINE k == req[r].key
           usable == Has(k) /\ req[r].valid /\ entries[k].disc # None
<1>1. /\ TypeOK /\ req[r] \in Request /\ Safe(r) /\ ~At(r, "idle") /\ k \in Keys
      /\ req[r].index = req[r].disc
      /\ UNCHANGED <<version, configs, results, db, writer, cleared, purged>>
  BY DEF CacheInv, TypeOK, PutIndex, At, Safe, InCache, Rest
<1>2. PICK d \in Discoveries \cup {None} :
        req' = [req EXCEPT ![r].pc = "done", ![r].disc = d, ![r].index = d]
  <2>1. CASE usable /\ entries[k].index # None
    <3>1. /\ entries[k].disc \in Discoveries \cup {None}
          /\ entries[k].index = entries[k].disc
      BY <1>1, <2>1 DEF Has, TypeOK, Entry, CacheInv, IndexFits
    <3>2. req' = [req EXCEPT ![r].pc = "done", ![r].disc = entries[k].disc,
                             ![r].index = entries[k].index]
      BY <2>1 DEF PutIndex
    <3> QED
      BY <3>1, <3>2
  <2>2. CASE ~(usable /\ entries[k].index # None)
    <3>1. req' = [req EXCEPT ![r].pc = "done"]
      BY <2>2 DEF PutIndex, Goto
    <3>2. req' = [req EXCEPT ![r].pc = "done", ![r].disc = req[r].disc,
                             ![r].index = req[r].disc]
      BY <1>1, <3>1 DEF TypeOK, Request
    <3> QED
      BY <1>1, <3>2 DEF Request
  <2> QED
    BY <2>1, <2>2
<1>3. \/ entries' = entries
      \/ /\ Has(k) /\ entries[k].disc = req[r].index
         /\ entries' = [entries EXCEPT ![k].index = req[r].index]
  BY <1>1 DEF PutIndex
<1>4. /\ req'[r] = [req[r] EXCEPT !.pc = "done", !.disc = d, !.index = d]
      /\ \A q \in Requests \ {r} : req'[q] = req[q]
  BY <1>1, <1>2 DEF TypeOK
<1>5. TypeOK'
  <2>1. req' \in [Requests -> Request]
    BY <1>1, <1>2 DEF TypeOK, Request, PC
  <2>2. entries' \in [Keys -> Entry \cup {None}]
    BY <1>1, <1>3 DEF TypeOK, Entry, Has, Request
  <2> QED
    BY <1>1, <2>1, <2>2 DEF TypeOK
<1>6. Safe(r)'
  BY <1>1, <1>4 DEF HoldsToolSet, Safe, At, AtLeast, ReadBy, Request
<1>7. EntriesAreFresh' /\ IndexFits'
  <2>1. ASSUME NEW j \in Keys, entries'[j] # None
        PROVE  /\ AtLeast(entries'[j].set, cleared)
               /\ entries'[j].index # None => entries'[j].index = entries'[j].disc
    <3>1. entries[j] # None /\ entries[j] \in Entry
      BY <1>1, <1>3, <2>1 DEF Has, TypeOK
    <3>2. entries'[j].set = entries[j].set /\ entries'[j].disc = entries[j].disc
      BY <1>1, <1>3, <3>1 DEF TypeOK, Entry
    <3>3. entries'[j].index = entries[j].disc \/ entries'[j] = entries[j]
      BY <1>1, <1>3, <3>1 DEF TypeOK, Entry
    <3> QED
      BY <3>1, <3>2, <3>3 DEF CacheInv, EntriesAreFresh, IndexFits, Has
  <2> QED
    BY <1>1, <2>1 DEF EntriesAreFresh, IndexFits, Has, AtLeast
<1> QED
  BY <1>1, <1>4, <1>5, <1>6, <1>7, EntriesChange

LEMMA RequestStepSafe ==
  ASSUME CacheInv, NEW r \in Requests, RequestStep(r) PROVE CacheInv'
<1>1. CASE ReadFails(r) \/ Done(r)
  BY <1>1, ReturnSafe DEF ReadFails, Done, InCache, Rest
<1> QED
  BY <1>1, BeginSafe, LookSafe, PurgeSafe, ReadsSafe, MovingSteps, InsertSafe,
     DiscoverySteps, PutDiscoveriesSafe, CachedSearchSafe, PutIndexSafe
     DEF RequestStep

LEMMA TimeSafe ==
  ASSUME CacheInv, NEW k \in Keys, Expire(k) \/ DropResult(k) PROVE CacheInv'
<1>1. /\ TypeOK
      /\ UNCHANGED <<db, version, configs, req, writer, cleared, purged>>
  BY DEF CacheInv, Expire, DropResult, InCache, Rest
<1>2. \/ entries' = entries
      \/ Has(k) /\ entries' = [entries EXCEPT ![k].valid = FALSE]
  BY DEF Expire, DropResult, Valid, InCache
<1>3. results' \in [Keys -> Reads \cup {None}]
  BY <1>1 DEF Expire, DropResult, TypeOK
<1>4. TypeOK'
  <2>1. entries' \in [Keys -> Entry \cup {None}]
    BY <1>1, <1>2, ZenonT(60) DEF TypeOK, Entry, Has
  <2> QED
    BY <1>1, <1>3, <2>1 DEF TypeOK
<1>5. ASSUME NEW j \in Keys, entries'[j] # None
      PROVE  /\ AtLeast(entries'[j].set, cleared)
             /\ entries'[j].index # None => entries'[j].index = entries'[j].disc
  <2>1. entries[j] # None /\ entries[j] \in Entry
    BY <1>1, <1>2, <1>5 DEF Has, TypeOK
  <2>2. /\ entries'[j].set = entries[j].set /\ entries'[j].disc = entries[j].disc
        /\ entries'[j].index = entries[j].index
    BY <1>1, <1>2, <2>1 DEF TypeOK, Entry
  <2> QED
    BY <2>1, <2>2 DEF CacheInv, EntriesAreFresh, IndexFits, Has
<1>6. EntriesAreFresh' /\ IndexFits'
  BY <1>1, <1>5 DEF EntriesAreFresh, IndexFits, Has, AtLeast
<1>7. \A r \in Requests : Safe(r)'
  BY <1>1 DEF CacheInv, HoldsToolSet, Safe, At, AtLeast
<1> QED
  BY <1>1, <1>4, <1>6, <1>7 DEF CacheInv, AtLeast

(* An invalidation moves the version past every build under way, so none of *)
(* them has anything to answer for any more.                                *)
LEMMA WriterSafe ==
  ASSUME CacheInv, NEW w \in Writers, Write(w) \/ ClearToolSets(w) \/ ClearResults(w)
  PROVE  CacheInv'
<1>1. TypeOK /\ UNCHANGED <<req, configs>>
  BY DEF CacheInv, Write, ClearToolSets, ClearResults
<1>2. \A j \in Kinds : db[j] \in Nat /\ cleared[j] \in Nat /\ cleared[j] <= db[j]
  BY <1>1 DEF TypeOK, Reads, Generation, CacheInv, AtLeast
<1>3. CASE Write(w)
  <2>1. UNCHANGED <<entries, version, configs, results, req, cleared, purged>>
    BY <1>3 DEF Write, InCache
  <2>2. PICK k \in Kinds : db' = [db EXCEPT ![k] = @ + 1]
    BY <1>3 DEF Write
  <2>3. db' \in Reads /\ \A j \in Kinds : db[j] <= db'[j]
    BY <1>1, <1>2, <2>2 DEF TypeOK, Reads, Generation
  <2>4. TypeOK'
    BY <1>1, <1>3, <2>1, <2>3 DEF TypeOK, Write
  <2>5. AtLeast(db, cleared)'
    BY <1>2, <2>1, <2>3 DEF AtLeast, Reads, Generation
  <2>6. EntriesAreFresh' /\ IndexFits'
    BY <2>1 DEF CacheInv, EntriesAreFresh, IndexFits, Has, AtLeast
  <2>7. \A r \in Requests : Safe(r)'
    BY <2>1 DEF CacheInv, HoldsToolSet, Safe, At, AtLeast
  <2> QED
    BY <2>4, <2>5, <2>6, <2>7 DEF CacheInv
<1>4. CASE ClearToolSets(w)
  <2>1. /\ UNCHANGED <<db, configs, results, req, purged>>
        /\ entries' = [k \in Keys |-> None] /\ version' = version + 1
        /\ cleared' = db /\ writer' = [writer EXCEPT ![w] = "cleared"]
    BY <1>4 DEF ClearToolSets
  <2>2. TypeOK'
    BY <1>1, <2>1 DEF TypeOK
  <2>3. AtLeast(db, cleared)' /\ EntriesAreFresh' /\ IndexFits'
    BY <1>2, <2>1 DEF AtLeast, EntriesAreFresh, IndexFits, Has
  <2>4. ASSUME NEW r \in Requests PROVE Safe(r)'
    <3>1. Safe(r) /\ req[r] \in Request /\ version \in Nat
      BY <1>1 DEF CacheInv, TypeOK
    <3>2. \A j \in Kinds : req[r].floor[j] <= db[j]
      <4>1. \A j \in Kinds : req[r].floor[j] \in Nat /\ req[r].floor[j] <= cleared[j]
        BY <3>1 DEF HoldsToolSet, Safe, AtLeast, Request, Reads, Generation
      <4> QED
        BY <1>2, <4>1
    <3>3. req[r].ver <= version' /\ req[r].ver # version'
      BY <2>1, <3>1 DEF HoldsToolSet, Safe, Request
    <3> QED
      BY <2>1, <3>1, <3>2, <3>3 DEF HoldsToolSet, Safe, At, AtLeast
  <2> QED
    BY <2>2, <2>3, <2>4 DEF CacheInv
<1>5. CASE ClearResults(w)
  <2>1. /\ UNCHANGED <<db, entries, version, configs, req, cleared>>
        /\ purged' = db /\ results' = [k \in Keys |-> None]
        /\ writer' = [writer EXCEPT ![w] = "idle"]
    BY <1>5 DEF ClearResults, InCache
  <2>2. TypeOK'
    BY <1>1, <2>1 DEF TypeOK
  <2>3. \A r \in Requests : Safe(r)'
    BY <2>1 DEF CacheInv, HoldsToolSet, Safe, At, AtLeast
  <2>4. AtLeast(db, cleared)' /\ EntriesAreFresh' /\ IndexFits'
    BY <2>1 DEF CacheInv, EntriesAreFresh, IndexFits, Has, AtLeast
  <2> QED
    BY <2>2, <2>3, <2>4 DEF CacheInv
<1> QED
  BY <1>3, <1>4, <1>5

(* CacheInv holds in every state of every behaviour.                        *)
LEMMA CacheInvariant == Spec => []CacheInv
<1>1. CacheInv /\ [Next]_vars => CacheInv'
  <2> SUFFICES ASSUME CacheInv, [Next]_vars PROVE CacheInv'
    OBVIOUS
  <2>1. CASE UNCHANGED vars
    <3>1. UNCHANGED <<db, entries, version, configs, results, req, writer, cleared, purged>>
      BY <2>1 DEF vars
    <3>2. TypeOK'
      BY <3>1 DEF CacheInv, TypeOK
    <3> QED
      BY <3>1, <3>2 DEF CacheInv, AtLeast, EntriesAreFresh, IndexFits, Has, Safe, At
  <2> QED
    BY <2>1, RequestStepSafe, TimeSafe, WriterSafe DEF Next
<1> QED
  BY <1>1, InitEstablishes, PTL DEF Spec

(* Every variable keeps its type, so no step reads an entry that is not     *)
(* there.                                                                   *)
THEOREM TypeCorrect == Spec => []TypeOK
<1>1. CacheInv => TypeOK
  BY DEF CacheInv
<1> QED
  BY <1>1, CacheInvariant, PTL

(* The tool set cached for a key was computed from data no older than the   *)
(* last InvalidateToolSetCache, however builds and writes overlap.          *)
THEOREM CacheIsFresh == Spec => []EntriesAreFresh
<1>1. CacheInv => EntriesAreFresh
  BY DEF CacheInv
<1> QED
  BY <1>1, CacheInvariant, PTL

(* The tool set a request lists, routes its call by or computes its own     *)
(* projection from is no older than the last invalidation before it began.  *)
(* Projections, indexes and results taken from the cache are not covered.   *)
THEOREM ToolSetsAreCurrent == Spec => []ToolSetsSeeEarlierWrites
<1>1. CacheInv => ToolSetsSeeEarlierWrites
  BY DEF CacheInv, ToolSetsSeeEarlierWrites, Safe
<1> QED
  BY <1>1, CacheInvariant, PTL

(* A search index is only ever paired with the projection it was built from.*)
THEOREM IndexFitsDiscoveries == Spec => []IndexMatchesDiscoveries
<1>1. CacheInv => IndexMatchesDiscoveries
  BY DEF CacheInv, IndexMatchesDiscoveries, IndexFits, Safe
<1> QED
  BY <1>1, CacheInvariant, PTL

============================================================================
