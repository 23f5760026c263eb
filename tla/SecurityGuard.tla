--------------------------- MODULE SecurityGuard ---------------------------
(***************************************************************************)
(* The guard of security/service.go: failing requests are counted in Redis, *)
(* a subject (an address, the fingerprint of a key, a key at an address)    *)
(* with too many of them in a window is blocked by a Redis key, and a row   *)
(* in PostgreSQL tells the administrator, who may release it.               *)
(*                                                                          *)
(* Two lines of the guard next to each other happen at one time (a block    *)
(* lasts in Redis as long as its row says); between its calls to the stores *)
(* any time may pass.                                                       *)
(***************************************************************************)
EXTENDS Naturals, Sequences, FiniteSets, FiniteSetsExt

CONSTANTS
    Requests,
    Failures,   \* the sequences of subjects one failing request may count for
    Subjects, Exempt,
    Threshold,  \* failures in a window that block
    Window,     \* length of the counting window
    FirstBlock, MaxBlock,
    Escalation, \* how long earlier blocks make the next one longer
    MaxTime, MaxBlocks, \* bounds
    MaxFaults,          \* bound: failing calls, restarts and changes of mode
    Never

VARIABLES
    mode,     \* off, monitor or enforce, from the configuration
    now,
    counter,  \* failures of the current window, in Redis (Threshold and more
              \* are the same)
    blockKey, \* until when Redis has a block of the subject, or Never
    blocks,   \* the rows of security_block, oldest first
    request,  \* where a failing request is in RecordAuthFailure
    release,  \* the subject whose key ReleaseBlock has still to delete
    guardBroken, \* history: subjects with a write that failed or was cut off
    guardFaults  \* history: how much of MaxFaults is used

guardVars == <<mode, now, counter, blockKey, blocks, request, release,
               guardBroken, guardFaults>>

Idle == [at |-> "idle", todo |-> <<>>, length |-> 0, until |-> 0]

Init ==
    /\ mode = "enforce" /\ now = 0
    /\ counter = [s \in Subjects |-> 0]
    /\ blockKey = [s \in Subjects |-> Never]
    /\ blocks = <<>>
    /\ request = [q \in Requests |-> Idle]
    /\ release = Never
    /\ guardBroken = {} /\ guardFaults = 0

Blocked(s) == blockKey[s] # Never /\ blockKey[s] > now

(* PreAuthMiddleware and PostAuthMiddleware look at Redis only.              *)
Refused(s) == mode = "enforce" /\ s \notin Exempt /\ Blocked(s)

(* One of MaxFaults.                                                         *)
Fails == guardFaults < MaxFaults /\ guardFaults' = guardFaults + 1

(* RecordAuthFailure, RecordACLDenied: not while the guard is off.           *)
RecordAuthFailure(q) ==
    /\ request[q].at = "idle" /\ mode # "off"
    /\ \E f \in Failures :
         /\ \A i \in 1..Len(f) : ~Refused(f[i])
         /\ request' = [request EXCEPT ![q] =
                            [at |-> "count", todo |-> f, length |-> 0, until |-> 0]]
    /\ UNCHANGED <<mode, now, counter, blockKey, blocks, release, guardBroken,
                   guardFaults>>

(* The next subject of the request, or its end.                              *)
Done(q) == IF Len(request[q].todo) > 1
           THEN [at |-> "count", todo |-> Tail(request[q].todo), length |-> 0, until |-> 0]
           ELSE Idle

ShouldBlock(s, n) == mode = "enforce" /\ n >= Threshold /\ s \notin Exempt

(* increment: INCR may fail, and EXPIRE after the first INCR may: then the   *)
(* failure is counted for later ones and not for this one.                   *)
Increment(q) ==
    LET s == Head(request[q].todo)
        Next(n) == IF ShouldBlock(s, n) THEN [request[q] EXCEPT !.at = "set"]
                                        ELSE Done(q)
    IN /\ request[q].at = "count"
       /\ \/ /\ counter' = [counter EXCEPT ![s] = Min({@ + 1, Threshold})]
             /\ request' = [request EXCEPT ![q] = Next(counter[s] + 1)]
             /\ guardFaults' = guardFaults
          \/ /\ Fails /\ counter[s] = 0 /\ counter' = [counter EXCEPT ![s] = 1]
             /\ request' = [request EXCEPT ![q] = Next(0)]
          \/ /\ Fails /\ counter' = counter
             /\ request' = [request EXCEPT ![q] = Next(0)]
       /\ UNCHANGED <<mode, now, blockKey, blocks, release, guardBroken>>

CountBlocksBySubjectSince(s, t) ==
    Cardinality({i \in 1..Len(blocks) :
                    blocks[i].subject = s /\ blocks[i].created >= t})

(* Twice as long for every earlier block, released ones too.                 *)
BlockDuration(s, previous) ==
    LET longest == Max({FirstBlock, MaxBlock})
    IN Min({longest, FirstBlock * 2^previous})

(* block: how long, from the earlier blocks of the database (a query that    *)
(* fails counts none), ...                                                   *)
CountBlocks(q) ==
    LET s == Head(request[q].todo)
        since == IF now < Escalation THEN 0 ELSE now - Escalation
        Counted(previous) ==
            request' = [request EXCEPT ![q] =
                [@ EXCEPT !.at = "key", !.length = BlockDuration(s, previous)]]
    IN /\ request[q].at = "set"
       /\ \/ Counted(CountBlocksBySubjectSince(s, since)) /\ guardFaults' = guardFaults
          \/ Counted(0) /\ Fails
       /\ UNCHANGED <<mode, now, counter, blockKey, blocks, release, guardBroken>>

(* ... the key in Redis (until then the requests still pass), ...            *)
SetBlock(q) ==
    LET s == Head(request[q].todo)
        until == now + request[q].length
    IN /\ request[q].at = "key"
       /\ request' = [request EXCEPT ![q] = [@ EXCEPT !.at = "create", !.until = until]]
       /\ \/ blockKey' = [blockKey EXCEPT ![s] = until] /\ guardFaults' = guardFaults
          \/ blockKey' = blockKey /\ Fails
       /\ UNCHANGED <<mode, now, counter, blocks, release, guardBroken>>

(* Mutation: a subject that has an active row gets no second one.            *)
CreateBlock_Once(q) ==
    LET s == Head(request[q].todo)
    IN /\ request[q].at = "create" /\ Len(blocks) < MaxBlocks
       /\ blocks' = IF \E i \in 1..Len(blocks) :
                          blocks[i].subject = s /\ blocks[i].status = "active"
                    THEN blocks
                    ELSE Append(blocks, [subject |-> s, created |-> now,
                                 until |-> request[q].until, status |-> "active"])
       /\ request' = [request EXCEPT ![q] = Done(q)]
       /\ UNCHANGED <<mode, now, counter, blockKey, release, guardBroken, guardFaults>>
(* ... then the row.  A block without row cannot be released.                *)
CreateBlock(q) ==
    LET s == Head(request[q].todo)
    IN /\ request[q].at = "create"
       /\ \/ /\ Len(blocks) < MaxBlocks
             /\ blocks' = Append(blocks, [subject |-> s, created |-> now,
                                  until |-> request[q].until, status |-> "active"])
             /\ UNCHANGED <<guardBroken, guardFaults>>
          \/ blocks' = blocks /\ guardBroken' = guardBroken \cup {s} /\ Fails
       /\ request' = [request EXCEPT ![q] = Done(q)]
       /\ UNCHANGED <<mode, now, counter, blockKey, release>>

----------------------------------------------------------------------------
(* ReleaseBlock: the row, whatever its status was, ...                       *)
ReleaseBlock(i) ==
    /\ release = Never
    /\ blocks' = [blocks EXCEPT ![i].status = "released"]
    /\ release' = blocks[i].subject
    /\ UNCHANGED <<mode, now, counter, blockKey, request, guardBroken, guardFaults>>

(* ... then the key of its subject, whichever block has written it.          *)
DeleteBlock ==
    /\ release # Never /\ release' = Never
    /\ \/ /\ blockKey' = [blockKey EXCEPT ![release] = Never]
          /\ UNCHANGED <<guardBroken, guardFaults>>
       \/ /\ blockKey' = blockKey /\ Fails
          /\ guardBroken' = guardBroken \cup {release}
    /\ UNCHANGED <<mode, now, counter, blocks, request>>

MarkedExpired(rows) ==
    [i \in 1..Len(rows) |->
        IF rows[i].status = "active" /\ rows[i].until <= now
        THEN [rows[i] EXCEPT !.status = "expired"] ELSE rows[i]]

(* Summary and ListBlocks first bring the rows up to date.                   *)
MarkExpiredBlocks ==
    /\ blocks' = MarkedExpired(blocks) /\ blocks' # blocks
    /\ UNCHANGED <<mode, now, counter, blockKey, request, release, guardBroken,
                   guardFaults>>

(* RestoreActiveBlocks: what is active is written back, the newest row first *)
(* (where a subject has several, the key ends with the oldest); some writes  *)
(* may fail.                                                                 *)
RestoreActiveBlocks(rows, keys) ==
    LET Active(s) == {i \in 1..Len(rows) : rows[i].subject = s /\
                                           rows[i].status = "active"}
    IN {[s \in Subjects |-> IF Active(s) = {} \/ s \in failed THEN keys[s]
                            ELSE rows[Min(Active(s))].until] :
           failed \in IF guardFaults < MaxFaults THEN SUBSET Subjects ELSE {{}}}

(* The process ends at any step and starts again; Redis may be empty then.   *)
Restart ==
    /\ Fails
    /\ request' = [q \in Requests |-> Idle] /\ release' = Never
    /\ guardBroken' = guardBroken
           \cup {Head(request[q].todo) : q \in {p \in Requests : request[p].at = "create"}}
           \cup ({release} \ {Never})
    /\ blocks' = MarkedExpired(blocks)
    /\ \E keys \in {blockKey, [s \in Subjects |-> Never]} :
           blockKey' \in RestoreActiveBlocks(MarkedExpired(blocks), keys)
    /\ UNCHANGED <<mode, now, counter>>

----------------------------------------------------------------------------
SetMode ==
    /\ mode' \in {"off", "monitor", "enforce"} \ {mode} /\ Fails
    /\ UNCHANGED <<now, counter, blockKey, blocks, request, release, guardBroken>>

(* A key of Redis is gone when its time is over; a new window has counters   *)
(* of its own.                                                               *)
Tick ==
    /\ now < MaxTime /\ now' = now + 1
    /\ counter' = IF now' % Window = 0 THEN [s \in Subjects |-> 0] ELSE counter
    /\ blockKey' = [s \in Subjects |->
           IF blockKey[s] # Never /\ blockKey[s] <= now' THEN Never ELSE blockKey[s]]
    /\ UNCHANGED <<mode, blocks, request, release, guardBroken, guardFaults>>

Next ==
    \/ \E q \in Requests : \/ RecordAuthFailure(q) \/ Increment(q)
                           \/ CountBlocks(q) \/ SetBlock(q) \/ CreateBlock(q)
    \/ \E i \in 1..Len(blocks) : ReleaseBlock(i)
    \/ DeleteBlock \/ MarkExpiredBlocks \/ Restart \/ SetMode \/ Tick

Spec == Init /\ [][Next]_guardVars

(* Whoever is refused is on the list of active blocks for as long, where an  *)
(* administrator can release it, or a request or a release is at work on it: *)
(* overlapping failures, releases, expiry, restarts and an emptied Redis     *)
(* leave no refusal behind that nobody sees (unless writing its row or       *)
(* deleting its key failed or was cut off).                                  *)
RefusalsAreListed ==
    \A s \in Subjects \ guardBroken : Blocked(s) =>
        \/ \E i \in 1..Len(blocks) : /\ blocks[i].subject = s
                                     /\ blocks[i].status = "active"
                                     /\ blocks[i].until >= blockKey[s]
        \/ \E q \in Requests : /\ request[q].at = "create"
                               /\ Head(request[q].todo) = s
        \/ release = s
=============================================================================
