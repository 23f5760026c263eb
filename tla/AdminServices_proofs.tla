------------------------- MODULE AdminServices_proofs -------------------------
(***************************************************************************)
(* Proofs about five of the components of AdminServices, for every value    *)
(* of their constants: the session of an upstream, the security guard, the  *)
(* configuration file, the backup and the audit log.  Each is the invariant *)
(* of its component, kept by every step of it, and the theorem says it of   *)
(* any execution that follows the component among the others.               *)
(***************************************************************************)
EXTENDS AdminServices, FiniteSetTheorems, SequenceTheorems, WellFoundedInduction, TLAPS

(* Where a dial still has its handshake before it, and who will receive the *)
(* result: the dial itself, or the goroutine it has left behind.            *)
Handshaking == {"starts", "opened", "failed", "session"}

SessionTypes ==
    /\ state \in {"idle", "connecting", "connected", "closed"}
    /\ conn \in Dials \cup {Dialling!None}
    /\ dial \in [Dials -> {"no", "begun", "waiting", "abort", "complete", "drop", "over"}]
    /\ handshake \in [Dials -> Handshaking \cup {"no", "received"}]
    /\ cleanup \in [Dials -> {"no", "waiting", "over"}]
    /\ cancelled \subseteq Dials /\ open \subseteq Dials /\ snapshots \subseteq Dials
    /\ closer \in [Closers -> [at : {"no", "closing", "over"}, conn : Dials \cup {Dialling!None}]]

(* The result of a handshake has one receiver, and only a received          *)
(* connection is completed or dropped.                                      *)
OneReceiver(d) ==
    /\ dial[d] = "waiting" => handshake[d] \in Handshaking /\ cleanup[d] = "no"
    /\ cleanup[d] = "waiting" => handshake[d] \in Handshaking
    /\ handshake[d] \in Handshaking => dial[d] = "waiting" \/ cleanup[d] = "waiting"
    /\ dial[d] \in {"no", "begun"} => handshake[d] = "no" /\ cleanup[d] = "no"
    /\ dial[d] \in {"complete", "drop"} => handshake[d] = "received"
    /\ dial[d] \notin {"abort", "over"} => d \notin cancelled

(* A Close has taken the connection and closes it.                          *)
Taken(d) == \E c \in Closers : closer[c].at = "closing" /\ closer[c].conn = d

(* Whatever is open belongs to a step that will close it, or to the session. *)
Owned(d) ==
    /\ d \in open =>
          \/ handshake[d] \in Handshaking /\ (dial[d] = "waiting" \/ cleanup[d] = "waiting")
          \/ dial[d] \in {"complete", "drop"}
          \/ conn = d \/ Taken(d)
    /\ d \in snapshots =>
          dial[d] \in {"waiting", "complete", "drop"} \/ conn = d \/ Taken(d)

(* The session and its connection change under one lock.                    *)
OneConnection ==
    /\ conn # Dialling!None => state = "connected" /\ conn \notin cancelled /\ dial[conn] = "over"
    /\ \A c \in Closers : closer[c].at # "no" => state = "closed"
    /\ \A c \in Closers : closer[c].at = "closing" =>
          closer[c].conn # Dialling!None /\ dial[closer[c].conn] = "over"

SessionInv ==
    /\ SessionTypes
    /\ \A d \in Dials : OneReceiver(d) /\ Owned(d)
    /\ OneConnection

LEMMA SessionInit ==
    ASSUME Dialling!None \notin Dials, Dialling!Init
    PROVE  SessionInv
BY DEF Dialling!Init, SessionInv, SessionTypes, OneReceiver, Owned, OneConnection,
   Handshaking, Taken

(* One dial changes its place, and at most what it has open; the session    *)
(* keeps the connection it has.                                             *)
LEMMA DialStep ==
    ASSUME Dialling!None \notin Dials, SessionInv, NEW d \in Dials, SessionTypes',
           \A e \in Dials \ {d} :
               /\ dial'[e] = dial[e] /\ handshake'[e] = handshake[e]
               /\ cleanup'[e] = cleanup[e]
               /\ e \in open' => e \in open
               /\ e \in snapshots' => e \in snapshots
               /\ e \in cancelled' => e \in cancelled,
           OneReceiver(d)', Owned(d)',
           conn' = conn, closer' = closer, dial[d] = "over" => dial'[d] = "over",
           conn = d => (d \in cancelled' => d \in cancelled),
           state' = state \/ state' = "closed" \/ state \in {"idle", "connecting"},
           state \in {"connected", "closed"} => state' = state
    PROVE  SessionInv'
<1>1. \A e \in Dials : OneReceiver(e)'
  BY DEF SessionInv, OneReceiver, SessionTypes
<1>2. \A e \in Dials : Owned(e)'
  BY DEF SessionInv, Owned, Taken
<1>3. OneConnection'
  BY DEF SessionInv, OneConnection, SessionTypes
<1> QED
  BY <1>1, <1>2, <1>3 DEF SessionInv

LEMMA SessionNext ==
    ASSUME Dialling!None \notin Dials, SessionInv, [Dialling!Next]_sessionVars
    PROVE  SessionInv'
<1> USE DEF SessionInv
<1>1. ASSUME NEW d \in Dials, Dialling!BeginConnect(d)
      PROVE  SessionInv'
  <2>1. SessionTypes'
    BY <1>1 DEF Dialling!BeginConnect, SessionTypes, Dialling!Goes
  <2>2. OneReceiver(d)' /\ Owned(d)'
    BY <1>1 DEF Dialling!BeginConnect, SessionTypes, Dialling!Goes, OneReceiver, Owned,
       Taken, Handshaking
  <2> QED
    BY <1>1, <2>1, <2>2, DialStep DEF Dialling!BeginConnect, SessionTypes, Dialling!Goes
<1>2. ASSUME NEW d \in Dials, Dialling!Prepare(d)
      PROVE  SessionInv'
  <2>1. SessionTypes'
    BY <1>2 DEF Dialling!Prepare, SessionTypes, Dialling!Goes, Handshaking
  <2>2. OneReceiver(d)' /\ Owned(d)'
    BY <1>2 DEF Dialling!Prepare, SessionTypes, Dialling!Goes, OneReceiver, Owned, Taken,
       Handshaking
  <2> QED
    BY <1>2, <2>1, <2>2, DialStep DEF Dialling!Prepare, SessionTypes, Dialling!Goes
<1>3. ASSUME NEW d \in Dials, Dialling!Opens(d)
      PROVE  SessionInv'
  <2>1. SessionTypes'
    BY <1>3 DEF Dialling!Opens, SessionTypes, Handshaking
  <2>2. OneReceiver(d)' /\ Owned(d)'
    BY <1>3 DEF Dialling!Opens, SessionTypes, OneReceiver, Owned, Taken, Handshaking
  <2> QED
    BY <1>3, <2>1, <2>2, DialStep DEF Dialling!Opens, SessionTypes
<1>4. ASSUME NEW d \in Dials, Dialling!Initializes(d)
      PROVE  SessionInv'
  <2>1. SessionTypes'
    BY <1>4 DEF Dialling!Initializes, SessionTypes, Handshaking
  <2>2. OneReceiver(d)' /\ Owned(d)'
    BY <1>4 DEF Dialling!Initializes, SessionTypes, OneReceiver, Owned, Taken, Handshaking
  <2> QED
    BY <1>4, <2>1, <2>2, DialStep DEF Dialling!Initializes, SessionTypes
<1>5. ASSUME NEW d \in Dials, Dialling!Result(d)
      PROVE  SessionInv'
  <2>1. SessionTypes'
    BY <1>5 DEF Dialling!Result, SessionTypes, Dialling!Goes, Handshaking
  <2>2. OneReceiver(d)' /\ Owned(d)'
    BY <1>5 DEF Dialling!Result, SessionTypes, Dialling!Goes, OneReceiver, Owned, Taken,
       Handshaking
  <2>3. conn # d
    BY <1>5 DEF Dialling!Result, OneConnection
  <2> QED
    BY <1>5, <2>1, <2>2, <2>3, DialStep DEF Dialling!Result, SessionTypes, Dialling!Goes
<1>6. ASSUME NEW d \in Dials, Dialling!Timeout(d)
      PROVE  SessionInv'
  <2>1. SessionTypes'
    BY <1>6 DEF Dialling!Timeout, SessionTypes, Dialling!Goes, Dialling!LeavesCleanup
  <2>2. OneReceiver(d)' /\ Owned(d)'
    BY <1>6 DEF Dialling!Timeout, SessionTypes, Dialling!Goes, Dialling!LeavesCleanup,
       OneReceiver, Owned, Taken, Handshaking
  <2>3. conn # d
    BY <1>6 DEF Dialling!Timeout, OneConnection
  <2> QED
    BY <1>6, <2>1, <2>2, <2>3, DialStep DEF Dialling!Timeout, SessionTypes, Dialling!Goes,
       Dialling!LeavesCleanup
<1>7. ASSUME NEW d \in Dials, Dialling!Cleanup(d)
      PROVE  SessionInv'
  <2>1. SessionTypes'
    BY <1>7 DEF Dialling!Cleanup, SessionTypes, Handshaking
  <2>2. OneReceiver(d)' /\ Owned(d)'
    BY <1>7 DEF Dialling!Cleanup, SessionTypes, OneReceiver, Owned, Taken, Handshaking
  <2> QED
    BY <1>7, <2>1, <2>2, DialStep DEF Dialling!Cleanup, SessionTypes
<1>8. ASSUME NEW d \in Dials, Dialling!AbortConnect(d)
      PROVE  SessionInv'
  <2>1. SessionTypes'
    BY <1>8 DEF Dialling!AbortConnect, SessionTypes, Dialling!Goes
  <2>2. OneReceiver(d)' /\ Owned(d)'
    BY <1>8 DEF Dialling!AbortConnect, SessionTypes, Dialling!Goes, OneReceiver, Owned,
       Taken, Handshaking
  <2> QED
    BY <1>8, <2>1, <2>2, DialStep DEF Dialling!AbortConnect, SessionTypes, Dialling!Goes
<1>9. ASSUME NEW d \in Dials, Dialling!CompleteConnect(d)
      PROVE  SessionInv'
  <2>1. SessionTypes'
    BY <1>9 DEF Dialling!CompleteConnect, SessionTypes, Dialling!Goes
  <2>2. conn = Dialling!None \/ conn' = conn
    BY <1>9 DEF Dialling!CompleteConnect, OneConnection
  <2>3. \A e \in Dials : OneReceiver(e)'
    BY <1>9 DEF Dialling!CompleteConnect, SessionTypes, Dialling!Goes, OneReceiver
  <2>4. \A e \in Dials : Owned(e)'
    BY <1>9, <2>2 DEF Dialling!CompleteConnect, SessionTypes, Dialling!Goes, Owned, Taken,
       Handshaking
  <2>5. OneConnection'
    BY <1>9 DEF Dialling!CompleteConnect, SessionTypes, Dialling!Goes, OneConnection,
       OneReceiver
  <2> QED
    BY <2>1, <2>3, <2>4, <2>5
<1>10. ASSUME NEW d \in Dials, Dialling!Drop(d)
       PROVE  SessionInv'
  <2>1. SessionTypes'
    BY <1>10 DEF Dialling!Drop, Dialling!CloseConn, SessionTypes, Dialling!Goes
  <2>2. OneReceiver(d)' /\ Owned(d)'
    BY <1>10 DEF Dialling!Drop, Dialling!CloseConn, SessionTypes, Dialling!Goes,
       OneReceiver, Owned, Taken, Handshaking
  <2>3. conn # d
    BY <1>10 DEF Dialling!Drop, OneConnection
  <2> QED
    BY <1>10, <2>1, <2>2, <2>3, DialStep DEF Dialling!Drop, Dialling!CloseConn,
       SessionTypes, Dialling!Goes
<1>11. ASSUME NEW d \in Dials, Dialling!Lost(d)
       PROVE  SessionInv'
  <2>1. SessionTypes'
    BY <1>11 DEF Dialling!Lost, SessionTypes
  <2>2. OneReceiver(d)' /\ Owned(d)'
    BY <1>11 DEF Dialling!Lost, OneReceiver, Owned, Taken
  <2> QED
    BY <1>11, <2>1, <2>2, DialStep DEF Dialling!Lost
<1>12. ASSUME NEW c \in Closers, Dialling!Close(c)
       PROVE  SessionInv'
  <2>1. SessionTypes'
    BY <1>12 DEF Dialling!Close, SessionTypes
  <2>2. \A d \in Dials : OneReceiver(d)'
    BY <1>12 DEF Dialling!Close, OneReceiver
  <2>3. \A d \in Dials : (conn = d => conn' = d \/ Taken(d)') /\ (Taken(d) => Taken(d)')
    BY <1>12 DEF Dialling!Close, Taken, SessionTypes
  <2>4. \A d \in Dials : Owned(d)'
    BY <1>12, <2>3 DEF Dialling!Close, Owned
  <2>5. OneConnection'
    BY <1>12 DEF Dialling!Close, SessionTypes, OneConnection
  <2> QED
    BY <2>1, <2>2, <2>4, <2>5
<1>13. ASSUME NEW c \in Closers, Dialling!CloseTaken(c)
       PROVE  SessionInv'
  <2> DEFINE d == closer[c].conn
  <2>1. /\ d \in Dials /\ dial[d] = "over" /\ conn = Dialling!None
    BY <1>13 DEF Dialling!CloseTaken, OneConnection, SessionTypes
  <2>2. SessionTypes'
    BY <1>13, <2>1 DEF Dialling!CloseTaken, Dialling!CloseConn, SessionTypes
  <2>3. \A e \in Dials : OneReceiver(e)'
    <3>1. \A e \in Dials : e \in cancelled' => e \in cancelled \/ dial[e] = "over"
      BY <1>13, <2>1 DEF Dialling!CloseTaken, Dialling!CloseConn
    <3> QED
      BY <1>13, <3>1 DEF Dialling!CloseTaken, OneReceiver
  <2>4. \A e \in Dials \ {d} : Taken(e) => Taken(e)'
    BY <1>13 DEF Dialling!CloseTaken, Taken, SessionTypes
  <2>5. \A e \in Dials : Owned(e)'
    BY <1>13, <2>1, <2>4 DEF Dialling!CloseTaken, Dialling!CloseConn, Owned
  <2>6. OneConnection'
    BY <1>13, <2>1 DEF Dialling!CloseTaken, Dialling!CloseConn, SessionTypes, OneConnection
  <2> QED
    BY <2>2, <2>3, <2>5, <2>6
<1>14. CASE UNCHANGED sessionVars
  BY <1>14 DEF sessionVars, SessionTypes, OneReceiver, Owned, OneConnection, Taken
<1> QED
  BY <1>1, <1>2, <1>3, <1>4, <1>5, <1>6, <1>7, <1>8, <1>9, <1>10, <1>11, <1>12,
     <1>13, <1>14 DEF Dialling!Next

(* When nobody works on the session, only the session owns anything.        *)
LEMMA QuietOwns ==
    ASSUME Dialling!None \notin Dials, SessionInv
    PROVE  Dialling!NothingLeaks
<1>1. ASSUME Dialling!Quiet
      PROVE  \A d \in open \cup snapshots : conn = d
  BY <1>1 DEF SessionInv, SessionTypes, Owned, OneReceiver, Taken, Dialling!Quiet,
     Handshaking
<1>2. ASSUME NEW c \in Closers, closer[c].at # "no"
      PROVE  conn = Dialling!None
  BY <1>2 DEF SessionInv, OneConnection
<1>3. Dialling!Quiet => open \cup snapshots \subseteq
                   IF \E c \in Closers : closer[c].at # "no" THEN {} ELSE {conn}
  BY <1>1, <1>2 DEF SessionInv, SessionTypes
<1> QED
  BY <1>3 DEF Dialling!NothingLeaks, SessionInv, OneConnection


(* The states, connections and goroutines of a session stay what they are   *)
(* meant to be, for any number of dials and of calls of Close.              *)
THEOREM SessionIsTyped ==
    Spec => []SessionTypes
<1>1. Init => SessionInv
  BY SessionInit, NoneIsNoDial DEF Init
<1>2. SessionInv /\ [Next]_allVars => SessionInv'
  <2>1. [Next]_allVars => [Dialling!Next]_sessionVars
    BY DEF Next, allVars, sessionVars
  <2> QED
    BY <2>1, SessionNext, NoneIsNoDial
<1>3. SessionInv => SessionTypes
  BY DEF SessionInv
<1> QED
  BY <1>1, <1>2, <1>3, PTL DEF Spec


(* connectWithTimeout, completeConnect and Close leave no child process,    *)
(* stream or snapshot behind, however many retries and calls of Close meet  *)
(* timeouts and late handshakes.                                            *)
THEOREM SessionLeaksNothing ==
    Spec => []NothingLeaks
<1>1. Init => SessionInv
  BY SessionInit, NoneIsNoDial DEF Init
<1>2. SessionInv /\ [Next]_allVars => SessionInv'
  <2>1. [Next]_allVars => [Dialling!Next]_sessionVars
    BY DEF Next, allVars, sessionVars
  <2> QED
    BY <2>1, SessionNext, NoneIsNoDial
<1>3. SessionInv => NothingLeaks
  BY QuietOwns, NoneIsNoDial DEF NothingLeaks
<1> QED
  BY <1>1, <1>2, <1>3, PTL DEF Spec


-----------------------------------------------------------------------------


(* What is assumed of the constants; that powers of two are numbers is      *)
(* arithmetic the provers do not know.                                      *)
GuardAssumption ==
    /\ Never \notin Subjects
    /\ Failures \subseteq Seq(Subjects) \ {<<>>}
    /\ FirstBlock \in Nat /\ MaxBlock \in Nat /\ Escalation \in Nat
    /\ MaxFaults \in Nat
    /\ \A n \in Nat : 2^n \in Nat

BlockRow == [subject : Subjects, created : Nat, until : Nat,
          status : {"active", "released", "expired"}]
RequestRecord == [at : {"idle", "count", "set", "key", "create"}, todo : Seq(Subjects),
                  length : Nat, until : Nat]

GuardTypes ==
    /\ now \in Nat
    /\ blockKey \in [Subjects -> Nat \cup {Never}]
    /\ blocks \in Seq(BlockRow)
    /\ request \in [Requests -> RequestRecord]
    /\ \A q \in Requests : request[q].at # "idle" => request[q].todo # <<>>
    /\ release \in Subjects \cup {Never}

HasBlock(s) == \E i \in 1..Len(blocks) :
    blocks[i].subject = s /\ blocks[i].status = "active" /\ blocks[i].until >= blockKey[s]

(* RefusalsAreListed, and a request at work is about to list at least what  *)
(* the key says: another one may have written the key meanwhile.            *)
Coming(s) == \E q \in Requests :
    request[q].at = "create" /\ Head(request[q].todo) = s /\ request[q].until >= blockKey[s]

Accounted == \A s \in Subjects \ guardBroken :
    Guard!Blocked(s) => HasBlock(s) \/ Coming(s) \/ release = s

GuardInv == GuardTypes /\ Accounted

LEMMA GuardInit ==
    ASSUME GuardAssumption, Guard!Init
    PROVE  GuardInv
<1>1. Guard!Idle \in RequestRecord
  BY DEF Guard!Idle, RequestRecord
<1> QED
  BY <1>1 DEF Guard!Init, GuardInv, GuardTypes, Accounted, Guard!Blocked, Guard!Idle

LEMMA SmallerOf ==
    ASSUME NEW m \in Nat, NEW n \in Nat
    PROVE  Guard!Min({m, n}) \in Nat /\ Guard!Max({m, n}) \in Nat
BY DEF Guard!Min, Guard!Max

LEMMA TailNotEmpty ==
    ASSUME NEW S, NEW t \in Seq(S), Len(t) > 1
    PROVE  Tail(t) \in Seq(S) /\ Tail(t) # <<>>
<1>1. t # <<>>
  BY EmptySeq
<1>2. Tail(t) \in Seq(S) /\ Len(Tail(t)) = Len(t) - 1
  BY <1>1, HeadTailProperties
<1>3. Len(t) \in Nat /\ Len(Tail(t)) # 0
  <2>1. Len(t) \in Nat
    BY LenProperties, Zenon
  <2> DEFINE long == Len(t)
             short == Len(Tail(t))
  <2>2. long \in Nat /\ long > 1 /\ short = long - 1
    BY <1>2, <2>1
  <2> HIDE DEF long, short
  <2>3. short # 0
    BY ONLY <2>2
  <2> QED
    BY ONLY <2>2, <2>3 DEF long, short
<1> QED
  BY <1>2, <1>3, EmptySeq

(* A function on the positions of a sequence is one of the same length.     *)
LEMMA SameLength ==
    ASSUME NEW S, NEW n \in Nat, NEW f \in [1..n -> S]
    PROVE  f \in Seq(S) /\ Len(f) = n
<1>1. f \in Seq(S)
  BY SeqDef, Zenon
<1>2. Len(f) \in Nat /\ 1..Len(f) = 1..n
  BY <1>1, LenProperties
<1> QED
  BY <1>1, <1>2

(* The smallest of the active rows of a subject is one of them.             *)
LEMMA MinIsElement ==
    ASSUME NEW S \in SUBSET Nat, S # {}
    PROVE  Guard!Min(S) \in S
<1>1. PICK x \in S : \A y \in S : ~ (<<y, x>> \in OpToRel(<, Nat))
  BY WFMin, NatLessThanWellFounded, Zenon
<1>2. \A y \in S : ~ (y < x)
  BY <1>1, Zenon DEF OpToRel
<1>3. \A y \in S : x =< y
  BY <1>2
<1> QED
  BY <1>3 DEF Guard!Min

LEMMA DurationIsNumber ==
    ASSUME GuardAssumption, GuardTypes, NEW s \in Subjects, NEW t \in Nat,
           NEW previous \in {0, Guard!CountBlocksBySubjectSince(s, t)}
    PROVE  Guard!BlockDuration(s, previous) \in Nat
<1>1. Guard!CountBlocksBySubjectSince(s, t) \in Nat
  <2>1. Len(blocks) \in Nat
    BY DEF GuardTypes
  <2>2. IsFiniteSet(1..Len(blocks))
    BY <2>1, FS_Interval
  <2> QED
    BY <2>2, FS_Subset, FS_CardinalityType DEF Guard!CountBlocksBySubjectSince,
       Guard!Cardinality, Cardinality
<1>2. previous \in Nat
  BY <1>1
<1>3. FirstBlock * 2^previous \in Nat
  BY <1>2 DEF GuardAssumption
<1> QED
  BY <1>3, SmallerOf DEF Guard!BlockDuration, GuardAssumption

(* A request writes its own record, and its subject is the first it has     *)
(* left.                                                                    *)
LEMMA RequestMoves ==
    ASSUME GuardAssumption, GuardTypes, NEW q \in Requests, request[q].at # "idle"
    PROVE  /\ Head(request[q].todo) \in Subjects
           /\ Guard!Done(q) \in RequestRecord /\ Guard!Done(q).at # "create"
           /\ Guard!Done(q).at # "idle" => Guard!Done(q).todo # <<>>
<1>1. /\ request[q].todo \in Seq(Subjects) /\ request[q].todo # <<>>
      /\ request[q] \in RequestRecord /\ Head(request[q].todo) \in Subjects
  <2>1. request[q].todo \in Seq(Subjects) /\ request[q].todo # <<>> /\ request[q] \in RequestRecord
    BY DEF GuardTypes, RequestRecord
  <2> QED
    BY <2>1, HeadTailProperties
<1>2. CASE Len(request[q].todo) > 1
  <2>1. Tail(request[q].todo) \in Seq(Subjects) /\ Tail(request[q].todo) # <<>>
    BY <1>1, <1>2, TailNotEmpty
  <2> QED
    BY <1>1, <1>2, <2>1 DEF Guard!Done, RequestRecord
<1>3. CASE ~(Len(request[q].todo) > 1)
  BY <1>1, <1>3 DEF Guard!Done, Guard!Idle, RequestRecord
<1> QED
  BY <1>1, <1>2, <1>3

(* The keys and rows stay, and so does whoever is about to write a row.     *)
LEMMA RequestFrame ==
    ASSUME GuardInv, NEW q \in Requests, request[q].at # "create", GuardTypes',
           \A p \in Requests \ {q} : request'[p] = request[p],
           UNCHANGED <<now, blockKey, blocks, release, guardBroken>>
    PROVE  GuardInv'
<1>1. \A s \in Subjects : Coming(s) => Coming(s)'
  BY DEF Coming
<1>2. \A s \in Subjects : HasBlock(s) => HasBlock(s)'
  BY DEF HasBlock
<1> QED
  BY <1>1, <1>2 DEF GuardInv, Accounted, Guard!Blocked

(* The rows, one at a time.                                                 *)
LEMMA RowsAreBlocks ==
    ASSUME NEW rows \in Seq(BlockRow), NEW i \in 1..Len(rows)
    PROVE  /\ rows[i] \in BlockRow
           /\ rows[i].until \in Nat /\ rows[i].subject \in Subjects
           /\ [rows[i] EXCEPT !.status = "released"] \in BlockRow
<1>1. rows[i] \in BlockRow
  BY ElementOfSeq
<1> QED
  BY <1>1 DEF BlockRow

(* Rows that have lost their effect are of no use to a key that still has   *)
(* its own.                                                                 *)
LEMMA ExpiredRows ==
    ASSUME GuardTypes
    PROVE  /\ Guard!MarkedExpired(blocks) \in Seq(BlockRow)
           /\ Len(Guard!MarkedExpired(blocks)) = Len(blocks)
           /\ \A i \in 1..Len(blocks) :
                /\ Guard!MarkedExpired(blocks)[i].subject = blocks[i].subject
                /\ Guard!MarkedExpired(blocks)[i].until = blocks[i].until
                /\ blocks[i].status = "active" /\ blocks[i].until > now
                     => Guard!MarkedExpired(blocks)[i].status = "active"
                /\ Guard!MarkedExpired(blocks)[i].status = "active" => blocks[i].status = "active"
<1>1. \A i \in 1..Len(blocks) : blocks[i] \in BlockRow
  BY RowsAreBlocks DEF GuardTypes
<1>2. \A i \in 1..Len(blocks) :
         (IF blocks[i].status = "active" /\ blocks[i].until <= now
          THEN [blocks[i] EXCEPT !.status = "expired"] ELSE blocks[i]) \in BlockRow
  BY <1>1 DEF BlockRow
<1>3. Len(blocks) \in Nat
  BY DEF GuardTypes
<1>4. /\ Guard!MarkedExpired(blocks) \in Seq(BlockRow)
      /\ Len(Guard!MarkedExpired(blocks)) = Len(blocks)
      /\ \A i \in 1..Len(blocks) : Guard!MarkedExpired(blocks)[i] =
            IF blocks[i].status = "active" /\ blocks[i].until <= now
            THEN [blocks[i] EXCEPT !.status = "expired"] ELSE blocks[i]
  <2>1. Guard!MarkedExpired(blocks) \in [1..Len(blocks) -> BlockRow]
    BY <1>2, Zenon DEF Guard!MarkedExpired
  <2>2. Guard!MarkedExpired(blocks) \in Seq(BlockRow) /\ Len(Guard!MarkedExpired(blocks)) = Len(blocks)
    BY <1>3, <2>1, SameLength
  <2> QED
    BY <2>2, Zenon DEF Guard!MarkedExpired
<1>5. now \in Nat /\ \A i \in 1..Len(blocks) : blocks[i].until \in Nat
  BY RowsAreBlocks DEF GuardTypes
<1>6. ASSUME NEW i \in 1..Len(blocks)
      PROVE  /\ Guard!MarkedExpired(blocks)[i].subject = blocks[i].subject
             /\ Guard!MarkedExpired(blocks)[i].until = blocks[i].until
             /\ blocks[i].status = "active" /\ blocks[i].until > now
                  => Guard!MarkedExpired(blocks)[i].status = "active"
             /\ Guard!MarkedExpired(blocks)[i].status = "active" => blocks[i].status = "active"
  <2>1. CASE blocks[i].status = "active" /\ blocks[i].until <= now
    <3>1. Guard!MarkedExpired(blocks)[i] = [blocks[i] EXCEPT !.status = "expired"]
      BY <1>4, <2>1
    <3>2. blocks[i] \in BlockRow
      BY <1>1
    <3>3. Guard!MarkedExpired(blocks)[i].status = "expired"
          /\ Guard!MarkedExpired(blocks)[i].subject = blocks[i].subject
          /\ Guard!MarkedExpired(blocks)[i].until = blocks[i].until
      BY <3>1, <3>2 DEF BlockRow
    <3> QED
      BY <1>5, <2>1, <3>3
  <2>2. CASE ~(blocks[i].status = "active" /\ blocks[i].until <= now)
    <3>1. Guard!MarkedExpired(blocks)[i] = blocks[i]
      BY <1>4, <2>2
    <3> QED
      BY <1>5, <2>2, <3>1
  <2> QED
    BY <2>1, <2>2
<1> QED
  BY <1>4, <1>6

LEMMA RequestSteps ==
    ASSUME GuardAssumption, GuardInv, NEW q \in Requests,
           Guard!RecordAuthFailure(q) \/ Guard!Increment(q)
    PROVE  GuardInv'
<1>1. request[q].at # "create"
  BY DEF Guard!RecordAuthFailure, Guard!Increment
<1>2. CASE Guard!RecordAuthFailure(q)
  <2>1. PICK f \in Failures : request' = [request EXCEPT ![q] =
                                  [at |-> "count", todo |-> f, length |-> 0, until |-> 0]]
    BY <1>2 DEF Guard!RecordAuthFailure
  <2>2. f \in Seq(Subjects) /\ f # <<>>
    BY DEF GuardAssumption
  <2>3. [at |-> "count", todo |-> f, length |-> 0, until |-> 0] \in RequestRecord
    BY <2>2 DEF RequestRecord
  <2>4. GuardTypes'
    BY <1>2, <2>1, <2>2, <2>3 DEF Guard!RecordAuthFailure, GuardTypes, GuardInv
  <2> QED
    BY <1>1, <1>2, <2>1, <2>4, RequestFrame DEF Guard!RecordAuthFailure, GuardInv,
       GuardTypes
<1>3. CASE Guard!Increment(q)
  <2>1. request[q].at = "count" /\ request[q] \in RequestRecord /\ request[q].todo # <<>>
    BY <1>3 DEF Guard!Increment, GuardInv, GuardTypes
  <2>2. \E r \in {[request[q] EXCEPT !.at = "set"], Guard!Done(q)} :
           request' = [request EXCEPT ![q] = r]
    BY <1>3 DEF Guard!Increment
  <2>3. [request[q] EXCEPT !.at = "set"] \in RequestRecord
        /\ [request[q] EXCEPT !.at = "set"].todo # <<>>
    BY <2>1 DEF RequestRecord
  <2>4. /\ Guard!Done(q) \in RequestRecord
        /\ Guard!Done(q).at # "idle" => Guard!Done(q).todo # <<>>
    BY <2>1, RequestMoves DEF GuardInv
  <2>5. GuardTypes'
    BY <1>3, <2>2, <2>3, <2>4 DEF Guard!Increment, GuardTypes, GuardInv
  <2> QED
    BY <1>1, <1>3, <2>2, <2>5, RequestFrame DEF Guard!Increment, GuardInv, GuardTypes
<1> QED
  BY <1>2, <1>3

LEMMA CountBlocksStep ==
    ASSUME GuardAssumption, GuardInv, NEW q \in Requests, Guard!CountBlocks(q)
    PROVE  GuardInv'
<1> DEFINE s == Head(request[q].todo)
           since == IF now < Escalation THEN 0 ELSE now - Escalation
<1> USE DEF GuardInv
<1>1. s \in Subjects /\ request[q] \in RequestRecord /\ request[q].todo # <<>>
  BY RequestMoves DEF Guard!CountBlocks, GuardTypes
<1>2. since \in Nat
  BY DEF GuardTypes, GuardAssumption
<1>3. PICK previous \in {0, Guard!CountBlocksBySubjectSince(s, since)} :
        request' = [request EXCEPT ![q] =
            [@ EXCEPT !.at = "key", !.length = Guard!BlockDuration(s, previous)]]
  BY DEF Guard!CountBlocks
<1> DEFINE length == Guard!BlockDuration(s, previous)
           r == [request[q] EXCEPT !.at = "key", !.length = length]
<1>4. length \in Nat
  BY <1>1, <1>2, DurationIsNumber
<1>5. r \in RequestRecord /\ r.at = "key" /\ r.todo = request[q].todo
  <2> HIDE DEF length
  <2> QED
    BY <1>1, <1>4 DEF RequestRecord
<1>6. request' = [request EXCEPT ![q] = r]
  BY <1>3
<1>7. GuardTypes'
  <2> HIDE DEF s, r
  <2>1. request' \in [Requests -> RequestRecord]
    BY <1>5, <1>6 DEF GuardTypes
  <2>2. \A p \in Requests : request'[p].at # "idle" => request'[p].todo # <<>>
    BY <1>1, <1>5, <1>6 DEF GuardTypes
  <2> QED
    BY <2>1, <2>2 DEF Guard!CountBlocks, GuardTypes
<1>8. \A p \in Requests \ {q} : request'[p] = request[p]
  BY <1>6 DEF GuardTypes
<1> QED
  BY <1>7, <1>8, RequestFrame DEF Guard!CountBlocks

LEMMA SetBlockStep ==
    ASSUME GuardAssumption, GuardInv, NEW q \in Requests, Guard!SetBlock(q)
    PROVE  GuardInv'
<1> DEFINE s == Head(request[q].todo)
           until == now + request[q].length
           r == [request[q] EXCEPT !.at = "create", !.until = until]
<1> USE DEF GuardInv
<1>1. s \in Subjects /\ request[q] \in RequestRecord /\ request[q].todo # <<>>
  BY RequestMoves DEF Guard!SetBlock, GuardTypes
<1>3. blockKey' = [blockKey EXCEPT ![s] = until] \/ blockKey' = blockKey
  BY DEF Guard!SetBlock
<1>4. until \in Nat
  BY <1>1 DEF GuardTypes, RequestRecord
<1>5. r \in RequestRecord /\ r.at = "create" /\ r.todo = request[q].todo /\ r.until = until
  BY <1>1, <1>4 DEF RequestRecord
<1>6. request' = [request EXCEPT ![q] = r]
  BY DEF Guard!SetBlock
<1>7. GuardTypes'
  <2> HIDE DEF s, until, r
  <2>1. request' \in [Requests -> RequestRecord]
    BY <1>5, <1>6 DEF GuardTypes
  <2>2. \A p \in Requests : request'[p].at # "idle" => request'[p].todo # <<>>
    BY <1>1, <1>5, <1>6 DEF GuardTypes
  <2>3. blockKey' \in [Subjects -> Nat \cup {Never}]
    BY <1>1, <1>3, <1>4 DEF GuardTypes, until
  <2> QED
    BY <2>1, <2>2, <2>3 DEF Guard!SetBlock, GuardTypes
<1>8. request'[q] = r /\ \A p \in Requests \ {q} : request'[p] = request[p]
  BY <1>6 DEF GuardTypes
<1>9. request[q].at = "key"
  BY DEF Guard!SetBlock
<1>10. UNCHANGED <<now, blocks, release, guardBroken>>
  BY DEF Guard!SetBlock
<1>11. ASSUME NEW t \in Subjects \ guardBroken, Guard!Blocked(t)'
       PROVE  HasBlock(t)' \/ Coming(t)' \/ release' = t
  <2>1. CASE blockKey'[t] = blockKey[t]
    <3>1. HasBlock(t) => HasBlock(t)'
      BY <1>10, <2>1 DEF HasBlock
    <3>2. Coming(t) => Coming(t)'
      BY <1>8, <1>9, <2>1 DEF Coming
    <3>3. Guard!Blocked(t)
      BY <1>10, <1>11, <2>1 DEF Guard!Blocked
    <3> QED
      BY <1>10, <3>1, <3>2, <3>3 DEF Accounted
  <2>2. CASE t = s /\ blockKey'[t] = until
    <3>1. /\ request'[q].at = "create" /\ Head(request'[q].todo) = t
          /\ request'[q].until = blockKey'[t] /\ blockKey'[t] \in Nat
      BY <1>4, <1>5, <1>8, <2>2
    <3>2. Coming(t)'
      BY <3>1 DEF Coming
    <3> QED
      BY <3>2
  <2> QED
    BY <1>1, <1>3, <2>1, <2>2 DEF GuardTypes
<1> QED
  BY <1>7, <1>10, <1>11 DEF Accounted

LEMMA CreateBlockStep ==
    ASSUME GuardAssumption, GuardInv, NEW q \in Requests, Guard!CreateBlock(q)
    PROVE  GuardInv'
<1> USE DEF GuardInv
<1>1. request[q].at = "create" /\ request[q] \in RequestRecord
  BY DEF Guard!CreateBlock, GuardTypes
<1>2. /\ Guard!Done(q) \in RequestRecord /\ Guard!Done(q).at # "create"
      /\ Guard!Done(q).at # "idle" => Guard!Done(q).todo # <<>>
  BY <1>1, RequestMoves
<1>3. PICK s \in Subjects : s = Head(request[q].todo)
  BY <1>1, RequestMoves
<1>4. PICK listed \in BlockRow : listed = [subject |-> s, created |-> now,
                                  until |-> request[q].until, status |-> "active"]
  BY <1>1 DEF GuardTypes, RequestRecord, BlockRow
<1>5. /\ request' = [request EXCEPT ![q] = Guard!Done(q)]
      /\ UNCHANGED <<now, blockKey, release>>
  BY DEF Guard!CreateBlock
<1>6. \/ blocks' = Append(blocks, listed) /\ guardBroken' = guardBroken
      \/ blocks' = blocks /\ guardBroken' = guardBroken \cup {s}
  BY <1>3, <1>4 DEF Guard!CreateBlock
<1>7. /\ Append(blocks, listed) \in Seq(BlockRow) /\ Len(Append(blocks, listed)) = Len(blocks) + 1
      /\ \A i \in 1..Len(blocks) : Append(blocks, listed)[i] = blocks[i]
      /\ Append(blocks, listed)[Len(blocks) + 1] = listed
      /\ Len(blocks) \in Nat
  BY AppendProperties, LenProperties DEF GuardTypes
<1>8. /\ request'[q] = Guard!Done(q) /\ \A p \in Requests \ {q} : request'[p] = request[p]
      /\ request' \in [Requests -> RequestRecord]
  BY <1>2, <1>5 DEF GuardTypes
<1>9. GuardTypes'
  <2>1. \A p \in Requests : request'[p].at # "idle" => request'[p].todo # <<>>
    BY <1>2, <1>8 DEF GuardTypes
  <2>2. blocks' \in Seq(BlockRow)
    BY <1>6, <1>7 DEF GuardTypes
  <2> QED
    BY <1>5, <1>8, <2>1, <2>2 DEF GuardTypes
<1>10. \A t \in Subjects : HasBlock(t) => HasBlock(t)'
  <2> SUFFICES ASSUME NEW t \in Subjects, NEW i \in 1..Len(blocks),
                      blocks[i].subject = t, blocks[i].status = "active",
                      blocks[i].until >= blockKey[t]
               PROVE  HasBlock(t)'
    BY DEF HasBlock
  <2>1. blocks'[i] = blocks[i] /\ i \in 1..Len(blocks')
    BY <1>6, <1>7
  <2> QED
    BY <1>5, <2>1 DEF HasBlock
<1>11. \A t \in Subjects \ {s} : Coming(t) => Coming(t)'
  BY <1>3, <1>5, <1>8 DEF Coming
<1>12. s \notin guardBroken' /\ Coming(s) => HasBlock(s)' \/ Coming(s)'
  <2> SUFFICES ASSUME s \notin guardBroken', NEW p \in Requests,
                      request[p].at = "create", Head(request[p].todo) = s,
                      request[p].until >= blockKey[s]
               PROVE  HasBlock(s)' \/ Coming(s)'
    BY DEF Coming
  <2>1. CASE p = q
    <3>1. blocks' = Append(blocks, listed)
      BY <1>6
    <3>2. Len(blocks) + 1 \in 1..Len(blocks') /\ blocks'[Len(blocks) + 1] = listed
      BY <1>7, <3>1
    <3>3. listed.subject = s /\ listed.status = "active" /\ listed.until >= blockKey'[s]
      BY <1>4, <1>5, <2>1
    <3>4. HasBlock(s)'
      BY <3>2, <3>3 DEF HasBlock
    <3> QED
      BY <3>4
  <2>2. CASE p # q
    <3>1. Coming(s)'
      BY <1>5, <1>8, <2>2 DEF Coming
    <3> QED
      BY <3>1
  <2> QED
    BY <2>1, <2>2
<1>13. ASSUME NEW t \in Subjects \ guardBroken', Guard!Blocked(t)'
       PROVE  HasBlock(t)' \/ Coming(t)' \/ release' = t
  <2>1. HasBlock(t) \/ Coming(t) \/ release = t
    BY <1>5, <1>6, <1>13 DEF Accounted, Guard!Blocked
  <2> QED
    BY <1>5, <1>10, <1>11, <1>12, <1>13, <2>1
<1> QED
  BY <1>9, <1>13 DEF Accounted

LEMMA ReleaseSteps ==
    ASSUME GuardAssumption, GuardInv,
           Guard!DeleteBlock \/ \E i \in 1..Len(blocks) : Guard!ReleaseBlock(i)
    PROVE  GuardInv'
<1> USE DEF GuardInv
<1>1. ASSUME NEW i \in 1..Len(blocks), Guard!ReleaseBlock(i)
      PROVE  GuardInv'
  <2>1. /\ blocks[i] \in BlockRow /\ [blocks[i] EXCEPT !.status = "released"] \in BlockRow
    BY RowsAreBlocks DEF GuardTypes
  <2>2. /\ blocks' \in Seq(BlockRow) /\ Len(blocks') = Len(blocks)
        /\ \A j \in 1..Len(blocks) : j # i => blocks'[j] = blocks[j]
    BY <1>1, <2>1 DEF Guard!ReleaseBlock, GuardTypes
  <2>3. /\ release' = blocks[i].subject /\ release = Never
        /\ UNCHANGED <<now, blockKey, request, guardBroken>>
    BY <1>1 DEF Guard!ReleaseBlock
  <2>4. GuardTypes'
    BY <2>1, <2>2, <2>3 DEF GuardTypes, BlockRow
  <2>5. \A s \in Subjects : Coming(s) => Coming(s)'
    BY <2>3 DEF Coming
  <2>6. \A s \in Subjects : HasBlock(s) => HasBlock(s)' \/ release' = s
    BY <2>2, <2>3 DEF HasBlock
  <2> QED
    BY <2>3, <2>4, <2>5, <2>6 DEF Accounted, Guard!Blocked, GuardAssumption
<1>2. CASE Guard!DeleteBlock
  <2>1. /\ release \in Subjects /\ release' = Never
        /\ UNCHANGED <<now, blocks, request>>
    BY <1>2 DEF Guard!DeleteBlock, GuardTypes
  <2>2. \/ blockKey' = [blockKey EXCEPT ![release] = Never] /\ guardBroken' = guardBroken
        \/ blockKey' = blockKey /\ guardBroken' = guardBroken \cup {release}
    BY <1>2 DEF Guard!DeleteBlock
  <2>3. GuardTypes'
    BY <2>1, <2>2 DEF GuardTypes
  <2>4. \A s \in Subjects \ guardBroken' : Guard!Blocked(s)' =>
            s # release /\ blockKey'[s] = blockKey[s] /\ Guard!Blocked(s)
    BY <2>1, <2>2 DEF Guard!Blocked, GuardTypes
  <2>5. \A s \in Subjects : blockKey'[s] = blockKey[s] =>
            (HasBlock(s) => HasBlock(s)') /\ (Coming(s) => Coming(s)')
    BY <2>1 DEF HasBlock, Coming
  <2> QED
    BY <2>2, <2>3, <2>4, <2>5 DEF Accounted
<1> QED
  BY <1>1, <1>2

LEMMA ExpiryStep ==
    ASSUME GuardInv, Guard!MarkExpiredBlocks
    PROVE  GuardInv'
<1> USE DEF GuardInv
<1>1. /\ blocks' = Guard!MarkedExpired(blocks)
      /\ UNCHANGED <<now, blockKey, request, release, guardBroken>>
  BY DEF Guard!MarkExpiredBlocks
<1>2. GuardTypes'
  BY <1>1, ExpiredRows DEF GuardTypes
<1>3. \A s \in Subjects : Guard!Blocked(s) /\ HasBlock(s) => HasBlock(s)'
  <2> SUFFICES ASSUME NEW s \in Subjects, Guard!Blocked(s), NEW i \in 1..Len(blocks),
                      blocks[i].subject = s, blocks[i].status = "active",
                      blocks[i].until >= blockKey[s]
               PROVE  HasBlock(s)'
    BY DEF HasBlock
  <2>1. blockKey[s] \in Nat /\ now \in Nat /\ blocks[i].until \in Nat
    BY RowsAreBlocks DEF GuardTypes, Guard!Blocked
  <2>2. blocks[i].until > now
    BY <2>1 DEF Guard!Blocked
  <2>3. /\ blocks'[i].subject = s /\ blocks'[i].status = "active"
        /\ blocks'[i].until >= blockKey'[s] /\ i \in 1..Len(blocks')
    BY <1>1, <2>2, ExpiredRows
  <2> QED
    BY <2>3 DEF HasBlock
<1>4. \A s \in Subjects : Coming(s) => Coming(s)'
  BY <1>1 DEF Coming
<1> QED
  BY <1>1, <1>2, <1>3, <1>4 DEF Accounted, Guard!Blocked

(* What Restart writes back is what is listed; where it writes nothing the  *)
(* key is the old one or gone.                                              *)
LEMMA RestartStep ==
    ASSUME GuardAssumption, GuardInv, Guard!Restart
    PROVE  GuardInv'
<1> USE DEF GuardInv
<1> DEFINE rows == Guard!MarkedExpired(blocks)
           Active(s) == {i \in 1..Len(rows) : rows[i].subject = s /\ rows[i].status = "active"}
<1>1. /\ request' = [q \in Requests |-> Guard!Idle] /\ release' = Never /\ now' = now
      /\ blocks' = rows
      /\ guardBroken' = guardBroken
           \cup {Head(request[q].todo) : q \in {p \in Requests : request[p].at = "create"}}
           \cup ({release} \ {Never})
  BY DEF Guard!Restart
<1>2. PICK keys \in {blockKey, [s \in Subjects |-> Never]} :
         blockKey' \in Guard!RestoreActiveBlocks(rows, keys)
  BY DEF Guard!Restart
<1>3. PICK failed \in SUBSET Subjects :
         blockKey' = [s \in Subjects |-> IF Active(s) = {} \/ s \in failed THEN keys[s]
                                          ELSE rows[Guard!Min(Active(s))].until]
  BY <1>2 DEF Guard!RestoreActiveBlocks
<1>4. /\ rows \in Seq(BlockRow) /\ Len(rows) = Len(blocks) /\ Len(rows) \in Nat
  BY ExpiredRows DEF GuardTypes
<1>5. \A s \in Subjects : Active(s) # {} => Guard!Min(Active(s)) \in Active(s)
  <2> SUFFICES ASSUME NEW s \in Subjects, Active(s) # {}
               PROVE  Guard!Min(Active(s)) \in Active(s)
    OBVIOUS
  <2>1. Active(s) \in SUBSET Nat
    BY <1>4
  <2> HIDE DEF Active
  <2> QED
    BY <2>1, MinIsElement
<1>6. \A i \in 1..Len(rows) : rows[i].until \in Nat
  BY <1>4, RowsAreBlocks
<1>7. \A s \in Subjects : keys[s] \in Nat \cup {Never}
  BY DEF GuardTypes
<1>8. blockKey' \in [Subjects -> Nat \cup {Never}]
  BY <1>3, <1>5, <1>6, <1>7
<1>9. Guard!Idle \in RequestRecord /\ Guard!Idle.at = "idle"
  BY DEF Guard!Idle, RequestRecord
<1>10. GuardTypes'
  BY <1>1, <1>4, <1>8, <1>9 DEF GuardTypes
<1>11. ASSUME NEW s \in Subjects \ guardBroken', Guard!Blocked(s)'
       PROVE  HasBlock(s)'
  <2>1. CASE Active(s) = {} \/ s \in failed
    <3>1. blockKey'[s] = blockKey[s]
      BY <1>2, <1>3, <1>11, <2>1 DEF Guard!Blocked
    <3>2. Guard!Blocked(s) /\ s \notin guardBroken /\ release # s /\ ~Coming(s)
      BY <1>1, <1>11, <3>1 DEF Guard!Blocked, Coming, GuardAssumption
    <3>3. PICK i \in 1..Len(blocks) :
             blocks[i].subject = s /\ blocks[i].status = "active" /\ blocks[i].until >= blockKey[s]
      BY <3>2 DEF Accounted, HasBlock
    <3>4. blockKey[s] \in Nat /\ now \in Nat /\ blocks[i].until \in Nat
      BY <3>2, RowsAreBlocks DEF GuardTypes, Guard!Blocked
    <3>5. blocks[i].until > now
      BY <3>2, <3>3, <3>4 DEF Guard!Blocked
    <3>6. /\ rows[i].subject = s /\ rows[i].status = "active"
          /\ rows[i].until >= blockKey'[s] /\ i \in 1..Len(rows)
      BY <1>4, <3>1, <3>3, <3>5, ExpiredRows
    <3> QED
      BY <1>1, <3>6 DEF HasBlock
  <2>2. CASE Active(s) # {} /\ s \notin failed
    <3>1. Guard!Min(Active(s)) \in Active(s)
      BY <1>5, <2>2
    <3>2. blockKey'[s] = rows[Guard!Min(Active(s))].until /\ blockKey'[s] \in Nat
      BY <1>3, <1>6, <2>2, <3>1
    <3>3. rows[Guard!Min(Active(s))].until >= blockKey'[s]
      BY <3>2
    <3> HIDE DEF rows
    <3> QED
      BY <1>1, <3>1, <3>3 DEF HasBlock
  <2> QED
    BY <2>1, <2>2
<1> QED
  BY <1>10, <1>11 DEF Accounted

LEMMA TimeSteps ==
    ASSUME GuardInv, Guard!Tick \/ Guard!SetMode \/ UNCHANGED guardVars
    PROVE  GuardInv'
<1> USE DEF GuardInv
<1>1. CASE UNCHANGED <<now, blockKey>>
  <2>1. UNCHANGED <<now, blockKey, blocks, request, release, guardBroken>>
    BY <1>1 DEF Guard!Tick, Guard!SetMode, guardVars
  <2>2. GuardTypes'
    BY <2>1 DEF GuardTypes
  <2> QED
    BY <2>1, <2>2 DEF Accounted, Guard!Blocked, HasBlock, Coming
<1>2. CASE Guard!Tick
  <2>1. /\ now' = now + 1 /\ UNCHANGED <<blocks, request, release, guardBroken>>
        /\ blockKey' = [s \in Subjects |->
              IF blockKey[s] # Never /\ blockKey[s] <= now' THEN Never ELSE blockKey[s]]
    BY <1>2 DEF Guard!Tick
  <2>2. GuardTypes'
    BY <2>1 DEF GuardTypes
  <2>3. \A s \in Subjects : Guard!Blocked(s)' => blockKey'[s] = blockKey[s] /\ Guard!Blocked(s)
    BY <2>1 DEF Guard!Blocked, GuardTypes
  <2>4. \A s \in Subjects : blockKey'[s] = blockKey[s] =>
            (HasBlock(s) => HasBlock(s)') /\ (Coming(s) => Coming(s)')
    BY <2>1 DEF HasBlock, Coming
  <2> QED
    BY <2>1, <2>2, <2>3, <2>4 DEF Accounted
<1> QED
  BY <1>1, <1>2 DEF Guard!SetMode, guardVars

LEMMA GuardNext ==
    ASSUME GuardAssumption, GuardInv, [Guard!Next]_guardVars
    PROVE  GuardInv'
BY RequestSteps, CountBlocksStep, SetBlockStep, CreateBlockStep, ReleaseSteps, ExpiryStep, RestartStep,
   TimeSteps DEF Guard!Next


(* Whoever the guard refuses has an active block that an administrator can  *)
(* release, or one is being written or released, through any overlap of     *)
(* failures, releases, expiry and restarts (block, ReleaseBlock,            *)
(* MarkExpiredBlocks, RestoreActiveBlocks).                                 *)
THEOREM RefusalsListed ==
    ASSUME \A n \in Nat : 2^n \in Nat
    PROVE  Spec => []RefusalsAreListed
<1>0. GuardAssumption
  BY GuardConstants DEF GuardAssumption
<1>1. Init => GuardInv
  BY GuardInit, <1>0 DEF Init
<1>2. GuardInv /\ [Next]_allVars => GuardInv'
  <2>1. [Next]_allVars => [Guard!Next]_guardVars
    BY DEF Next, allVars, guardVars
  <2> QED
    BY <2>1, GuardNext, <1>0
<1>3. GuardInv => RefusalsAreListed
  BY DEF GuardInv, Accounted, HasBlock, Coming, RefusalsAreListed, Guard!RefusalsAreListed
<1> QED
  BY <1>1, <1>2, <1>3, PTL DEF Spec


-----------------------------------------------------------------------------


ConfigFields == {"admin", "secret", "settings"}

Secrets == {0, 1, Foreign.secret}
Valid(settings) == Config!ValidateYAMLConfig(Config!NormalizeYAMLConfig(settings))
IsConfig(c) == DOMAIN c = ConfigFields /\ c.secret \in Secrets
Usable(c) == IsConfig(c) /\ c.admin # "none" /\ c.secret # 0

(* What a handler saves, or goes back to, has an administrator and a secret. *)
Handling(p) ==
    LET j == job[p] IN
    /\ DOMAIN j = {"at", "op", "old", "new"} /\ j.at \in {"idle", "save", "publish", "apply"}
    /\ j.at # "idle" => process = "up" /\ Usable(j.new)
    /\ j.at # "idle" /\ j.op \in {"settings", "import"} => Usable(j.old)
    /\ j.at = "apply" => j.op \in {"settings", "import"}

(* Until the process is up the memory is the file's.                         *)
ConfigInv ==
    /\ IsConfig(file) /\ Valid(file.settings)
    /\ process \in {"down", "reset", "unmark", "secret", "up"}
    /\ process # "down" => IsConfig(memory)
    /\ process \in {"reset", "unmark", "secret"} =>
          /\ memory.secret = file.secret /\ memory.admin = file.admin
          /\ Valid(memory.settings)
    /\ process = "up" => memory.secret # 0 /\ signingKey # 0
    /\ DOMAIN job = Handlers /\ \A p \in Handlers : Handling(p)
    /\ Usable(backup)
    /\ generated \in {0, 1} /\ (generated = 1 => file.secret # 0)

(* Normalising twice is normalising once.                                    *)
LEMMA NormalIsNormal ==
    ASSUME NEW s
    PROVE  Config!NormalizeYAMLConfig(Config!NormalizeYAMLConfig(s)) = Config!NormalizeYAMLConfig(s)
<1> DEFINE n == Config!NormalizeYAMLConfig(s)
           D == {f \in DOMAIN s : ~(f \in Config!ZeroIsDefault /\ s[f] = 0)}
<1>1. n = [f \in D |-> s[f]]
  BY DEF Config!NormalizeYAMLConfig, Config!Restrict
<1>2. Config!NormalizeYAMLConfig(n)
        = [f \in {f \in DOMAIN n : ~(f \in Config!ZeroIsDefault /\ n[f] = 0)} |-> n[f]]
  BY DEF Config!NormalizeYAMLConfig, Config!Restrict
<1> HIDE DEF n
<1>3. {f \in DOMAIN n : ~(f \in Config!ZeroIsDefault /\ n[f] = 0)} = D
  BY <1>1
<1> HIDE DEF D
<1>4. Config!NormalizeYAMLConfig(n) = [f \in D |-> n[f]]
  BY <1>2, <1>3
<1>5. n = [f \in D |-> n[f]]
  BY <1>1
<1> QED
  BY <1>4, <1>5 DEF n

LEMMA DefaultsAreValid == Valid(<<>>)
<1>1. DOMAIN <<>> = {}
  OBVIOUS
<1>2. DOMAIN Config!NormalizeYAMLConfig(<<>>) = {}
  BY <1>1 DEF Config!NormalizeYAMLConfig, Config!Restrict
<1> DEFINE n == Config!NormalizeYAMLConfig(<<>>)
<1>3. Config!Value(n, "first_block_duration_s") = 900 /\ Config!Value(n, "max_block_duration_s") = 86400
  BY <1>2 DEF Config!Value, Config!Default
<1> HIDE DEF n
<1> QED
  BY <1>2, <1>3 DEF Valid, Config!ValidateYAMLConfig, n

LEMMA ConfigInit == Config!Init => ConfigInv
<1> SUFFICES ASSUME Config!Init PROVE ConfigInv
  OBVIOUS
<1>1. IsConfig(file) /\ Valid(file.settings)
  BY DefaultsAreValid DEF Config!Init, Config!NoFile, IsConfig, ConfigFields, Secrets
<1>2. Usable(backup)
  BY ForeignIsBackup DEF Config!Init, Usable, IsConfig, ConfigFields, Secrets
<1> QED
  BY <1>1, <1>2 DEF Config!Init, ConfigInv, Handling, Config!Idle


LEMMA LoadStep ==
    ASSUME ConfigInv, Config!Load
    PROVE  ConfigInv' /\ Config!KeepsAdmin
<1>1. /\ process = "down" /\ process' = "reset"
      /\ UNCHANGED <<signingKey, marker, job, backup, generated>>
  BY DEF Config!Load
<1>2. \A p \in Handlers : Handling(p)'
  BY <1>1 DEF ConfigInv, Handling, Usable, IsConfig
<1>3. CASE file = Config!NoFile
  <2>1. file' = Config!DefaultYAMLConfig /\ memory' = Config!DefaultYAMLConfig
    BY <1>3 DEF Config!Load
  <2>2. IsConfig(file') /\ Valid(file'.settings)
    BY <2>1, DefaultsAreValid DEF Config!DefaultYAMLConfig, IsConfig, ConfigFields, Secrets
  <2>3. generated = 0
    BY <1>3 DEF ConfigInv, Config!NoFile
  <2> QED
    BY <1>1, <1>2, <1>3, <2>1, <2>2, <2>3 DEF ConfigInv, Config!KeepsAdmin, Config!NoFile,
       Usable, IsConfig
<1>4. CASE file # Config!NoFile
  <2> DEFINE n == Config!NormalizeYAMLConfig(file.settings)
  <2>1. file' = file /\ memory' = [file EXCEPT !.settings = n]
    BY <1>4 DEF Config!Load
  <2>2. IsConfig(file) /\ Valid(file.settings)
    BY DEF ConfigInv
  <2>3. Valid(n)
    BY <2>2, NormalIsNormal DEF Valid
  <2> HIDE DEF n
  <2>4. /\ IsConfig(memory') /\ memory'.secret = file.secret /\ memory'.admin = file.admin
        /\ memory'.settings = n
    BY <2>1, <2>2 DEF IsConfig, ConfigFields
  <2> QED
    BY <1>1, <1>2, <2>1, <2>2, <2>3, <2>4 DEF ConfigInv, Config!KeepsAdmin, Usable, IsConfig
<1> QED
  BY <1>3, <1>4

LEMMA StartSaves ==
    ASSUME ConfigInv, process \in {"reset", "secret"}, UNCHANGED <<job, backup>>,
           NEW written, NEW place \in {"unmark", "up"}, Config!SaveAtStart(written, place),
           IsConfig(written), Valid(written.settings),
           file.secret # 0 => written.secret # 0,
           file.admin \notin {"no file", "none"} => written.admin # "none",
           generated' \in {0, 1}, process' = place => (generated' = 1 => written.secret # 0),
           process' = "down" => generated' = generated,
           place = "up" => process' = "down" \/ (written.secret # 0 /\ signingKey' # 0)
    PROVE  ConfigInv' /\ Config!KeepsAdmin
<1>1. ASSUME NEW p \in Handlers
      PROVE  Handling(p)'
  <2>1. job[p].at = "idle"
    BY DEF ConfigInv, Handling
  <2> QED
    BY <2>1 DEF ConfigInv, Handling
<1>2. Usable(backup)'
  BY DEF ConfigInv, Usable, IsConfig
<1>3. CASE file' = written /\ memory' = written /\ process' = place
  BY <1>1, <1>2, <1>3 DEF ConfigInv, Config!KeepsAdmin, IsConfig
<1>4. CASE process' = "down" /\ UNCHANGED <<file, memory>>
  BY <1>1, <1>2, <1>4 DEF ConfigInv, Config!KeepsAdmin, IsConfig
<1> QED
  BY <1>3, <1>4 DEF Config!SaveAtStart

LEMMA ResetStep ==
    ASSUME ConfigInv, Config!MaybeResetAdminPassword
    PROVE  ConfigInv' /\ Config!KeepsAdmin
<1>1. process = "reset" /\ UNCHANGED <<signingKey, job, backup, generated>>
  BY DEF Config!MaybeResetAdminPassword
<1>2. CASE marker
  <2> DEFINE written == [memory EXCEPT !.admin = "random"]
  <2>1. Config!SaveAtStart(written, "unmark")
    BY <1>2 DEF Config!MaybeResetAdminPassword
  <2>2. /\ IsConfig(written) /\ written.settings = memory.settings /\ written.admin = "random"
        /\ written.secret = file.secret
    BY <1>1 DEF ConfigInv, IsConfig, ConfigFields
  <2>3. Valid(written.settings)
    BY <1>1, <2>2 DEF ConfigInv
  <2> HIDE DEF written
  <2> QED
    BY <1>1, <2>1, <2>2, <2>3, StartSaves DEF ConfigInv
<1>3. CASE ~marker
  <2>1. process' = "secret" /\ UNCHANGED <<file, memory>>
    BY <1>3 DEF Config!MaybeResetAdminPassword
  <2>2. \A p \in Handlers : Handling(p)'
    BY <1>1, <2>1 DEF ConfigInv, Handling
  <2> QED
    BY <1>1, <2>1, <2>2 DEF ConfigInv, Config!KeepsAdmin, Usable, IsConfig
<1> QED
  BY <1>2, <1>3

LEMMA SecretStep ==
    ASSUME ConfigInv, Config!EnsureJWTSecret
    PROVE  ConfigInv' /\ Config!KeepsAdmin
<1>1. /\ process = "secret" /\ UNCHANGED <<job, backup>>
      /\ signingKey' = IF process' = "up" THEN memory'.secret ELSE 0
  BY DEF Config!EnsureJWTSecret
<1>2. CASE memory.secret # 0
  <2>1. process' = "up" /\ UNCHANGED <<file, memory, generated>>
    BY <1>2 DEF Config!EnsureJWTSecret
  <2>2. \A p \in Handlers : Handling(p)'
    BY <1>1, <2>1 DEF ConfigInv, Handling
  <2> QED
    BY <1>1, <1>2, <2>1, <2>2 DEF ConfigInv, Config!KeepsAdmin, Usable, IsConfig
<1>3. CASE memory.secret = 0
  <2> DEFINE written == [memory EXCEPT !.secret = generated + 1]
  <2>1. /\ Config!SaveAtStart(written, "up")
        /\ generated' = generated + (IF process' = "up" THEN 1 ELSE 0)
    BY <1>3 DEF Config!EnsureJWTSecret
  <2>2. IsConfig(memory) /\ memory.secret = file.secret /\ memory.admin = file.admin
    BY <1>1 DEF ConfigInv
  <2>3. generated = 0
    BY <1>3, <2>2 DEF ConfigInv
  <2>4. /\ IsConfig(written) /\ written.settings = memory.settings /\ written.admin = file.admin
        /\ written.secret = 1
    BY <2>2, <2>3 DEF IsConfig, ConfigFields, Secrets
  <2>5. Valid(written.settings)
    BY <1>1, <2>4 DEF ConfigInv
  <2> HIDE DEF written
  <2>6. process' = "down" \/ (process' = "up" /\ memory' = written)
    BY <2>1 DEF Config!SaveAtStart
  <2>7. process' = "down" \/ signingKey' # 0
    BY <1>1, <2>4, <2>6
  <2>8. generated' \in {0, 1} /\ (process' = "down" => generated' = generated)
    BY <2>1, <2>3
  <2>9. UNCHANGED <<job, backup>> /\ process \in {"reset", "secret"} /\ written.secret # 0
    BY <1>1, <2>4
  <2>10. file.admin \notin {"no file", "none"} => written.admin # "none"
    BY <2>4
  <2>11. Config!SaveAtStart(written, "up") /\ "up" \in {"unmark", "up"}
    BY <2>1
  <2> QED
    BY <2>4, <2>5, <2>7, <2>8, <2>9, <2>10, <2>11, StartSaves
<1> QED
  BY <1>2, <1>3

(* A handler that changes its own record, and no file.                       *)
LEMMA HandlerMoves ==
    ASSUME ConfigInv, NEW p \in Handlers, NEW new, job' = [job EXCEPT ![p] = new],
           UNCHANGED <<process, backup, signingKey, generated>>,
           IsConfig(file'), Valid(file'.settings), file' = file \/ Usable(file'),
           memory' = memory \/ Usable(memory'), process = "up", Handling(p)'
    PROVE  ConfigInv' /\ Config!KeepsAdmin
<1>1. DOMAIN job' = Handlers /\ \A q \in Handlers \ {p} : job'[q] = job[q]
  BY DEF ConfigInv
<1>2. \A q \in Handlers : Handling(q)'
  BY <1>1 DEF ConfigInv, Handling, Usable, IsConfig
<1>3. IsConfig(memory') /\ memory'.secret # 0
  BY DEF ConfigInv, Usable
<1>4. file.secret # 0 => file'.secret # 0
  BY DEF Usable
<1>5. file' = file \/ file'.admin # "none"
  BY DEF Usable
<1>6. Usable(backup)'
  BY DEF ConfigInv, Usable, IsConfig
<1> QED
  BY <1>1, <1>2, <1>3, <1>4, <1>5, <1>6 DEF ConfigInv, Config!KeepsAdmin, IsConfig

LEMMA BeginStep ==
    ASSUME ConfigInv, NEW p \in Handlers, NEW op, NEW written, Config!Begin(p, op, written),
           Usable(written), op \in {"settings", "import"} => memory.admin # "none"
    PROVE  ConfigInv' /\ Config!KeepsAdmin
<1> DEFINE new == [at |-> "save", op |-> op, old |-> memory, new |-> written]
<1>1. /\ process = "up" /\ job' = [job EXCEPT ![p] = new]
      /\ UNCHANGED <<file, memory, process, signingKey, backup, generated>>
  BY DEF Config!Begin
<1>2. op \in {"settings", "import"} => Usable(memory)
  BY <1>1 DEF ConfigInv, Usable
<1>3. job'[p] = new
  BY <1>1 DEF ConfigInv
<1>4. /\ DOMAIN new = {"at", "op", "old", "new"} /\ new.at = "save" /\ new.op = op
      /\ new.old = memory /\ new.new = written
  OBVIOUS
<1> HIDE DEF new
<1>5. Handling(p)'
  BY <1>1, <1>2, <1>3, <1>4 DEF Handling, Usable, IsConfig
<1>6. IsConfig(file') /\ Valid(file'.settings)
  BY <1>1 DEF ConfigInv, IsConfig
<1> QED
  BY <1>1, <1>5, <1>6, HandlerMoves

LEMMA RequestStep ==
    ASSUME ConfigInv, NEW p \in Handlers,
           \/ \E pw \in Passwords : Config!Register(p, pw) \/ Config!ChangePassword(p, pw)
           \/ \E settings \in Requested : Config!updateSettings(p, settings)
           \/ Config!Import(p)
    PROVE  ConfigInv' /\ Config!KeepsAdmin
<1>1. ASSUME process = "up"
      PROVE  IsConfig(memory) /\ memory.secret # 0
  BY <1>1 DEF ConfigInv
<1>2. ASSUME NEW pw \in Passwords, Config!Register(p, pw) \/ Config!ChangePassword(p, pw)
      PROVE  ConfigInv' /\ Config!KeepsAdmin
  <2> DEFINE written == [memory EXCEPT !.admin = pw]
  <2>1. process = "up" /\ (Config!Begin(p, "register", written) \/ Config!Begin(p, "password", written))
    BY <1>2 DEF Config!Register, Config!ChangePassword, Config!Begin
  <2>2. Usable(written)
    BY <1>1, <2>1, NoneIsNoPassword DEF Usable, IsConfig, ConfigFields
  <2> HIDE DEF written
  <2> QED
    BY <2>1, <2>2, BeginStep
<1>3. ASSUME NEW settings \in Requested, Config!updateSettings(p, settings)
      PROVE  ConfigInv' /\ Config!KeepsAdmin
  <2> DEFINE written == [memory EXCEPT !.settings = settings]
  <2>1. process = "up" /\ Config!Begin(p, "settings", written) /\ memory.admin # "none"
    BY <1>3 DEF Config!updateSettings, Config!Begin, Config!LoggedIn
  <2>2. Usable(written)
    BY <1>1, <2>1 DEF Usable, IsConfig, ConfigFields
  <2> HIDE DEF written
  <2> QED
    BY <2>1, <2>2, BeginStep
<1>4. CASE Config!Import(p)
  <2>1. Config!Begin(p, "import", backup) /\ memory.admin # "none"
    BY <1>4 DEF Config!Import, Config!LoggedIn
  <2>2. Usable(backup)
    BY DEF ConfigInv
  <2> QED
    BY <2>1, <2>2, BeginStep
<1> QED
  BY <1>2, <1>3, <1>4

LEMMA IdleHandles ==
    ASSUME ConfigInv, NEW p \in Handlers, job' = [job EXCEPT ![p] = Config!Idle]
    PROVE  Handling(p)'
<1>1. job'[p] = Config!Idle
  BY DEF ConfigInv
<1> QED
  BY <1>1 DEF Handling, Config!Idle

LEMMA WriteFileStep ==
    ASSUME ConfigInv, NEW p \in Handlers, Config!WriteFile(p)
    PROVE  ConfigInv' /\ Config!KeepsAdmin
<1> DEFINE settings == Config!NormalizeYAMLConfig(job[p].new.settings)
           written == [job[p].new EXCEPT !.settings = settings]
           new == [job[p] EXCEPT !.at = "publish", !.new = written]
<1>1. /\ job[p].at = "save" /\ UNCHANGED <<memory, process, signingKey, backup, generated>>
      /\ \/ Config!ValidateYAMLConfig(settings) /\ file' = written /\ job' = [job EXCEPT ![p] = new]
         \/ file' = file /\ job' = [job EXCEPT ![p] = Config!Idle]
  BY DEF Config!WriteFile, ConfigInv
<1>2. Handling(p) /\ process = "up" /\ Usable(job[p].new)
  BY <1>1 DEF ConfigInv, Handling
<1>3. Usable(written) /\ written.settings = settings
  BY <1>2 DEF Usable, IsConfig, ConfigFields
<1>4. Config!ValidateYAMLConfig(settings) => Valid(settings)
  BY NormalIsNormal DEF Valid
<1> HIDE DEF written, settings
<1>5. /\ DOMAIN new = {"at", "op", "old", "new"} /\ new.at = "publish" /\ new.op = job[p].op
      /\ new.old = job[p].old /\ new.new = written
  BY <1>2 DEF Handling
<1> HIDE DEF new
<1>6. CASE Config!ValidateYAMLConfig(settings) /\ file' = written /\ job' = [job EXCEPT ![p] = new]
  <2>1. job'[p] = new
    BY <1>6 DEF ConfigInv
  <2>2. Handling(p)'
    BY <1>1, <1>2, <1>3, <1>5, <2>1 DEF Handling, Usable, IsConfig
  <2>3. IsConfig(file') /\ Valid(file'.settings) /\ Usable(file')
    BY <1>3, <1>4, <1>6 DEF Usable
  <2> QED
    BY <1>1, <1>2, <1>6, <2>2, <2>3, HandlerMoves
<1>7. CASE file' = file /\ job' = [job EXCEPT ![p] = Config!Idle]
  <2>1. IsConfig(file') /\ Valid(file'.settings)
    BY <1>7 DEF ConfigInv, IsConfig
  <2> QED
    BY <1>1, <1>2, <1>7, <2>1, IdleHandles, HandlerMoves
<1> QED
  BY <1>1, <1>6, <1>7

LEMMA PublishStep ==
    ASSUME ConfigInv, NEW p \in Handlers, Config!Publish(p)
    PROVE  ConfigInv' /\ Config!KeepsAdmin
<1> DEFINE new == [job[p] EXCEPT !.at = "apply"]
           on == job[p].op \in {"settings", "import"}
<1>1. /\ job[p].at = "publish" /\ UNCHANGED <<file, process, signingKey, backup, generated>>
      /\ memory' = job[p].new /\ job' = [job EXCEPT ![p] = IF on THEN new ELSE Config!Idle]
  BY DEF Config!Publish, ConfigInv
<1>2. Handling(p) /\ process = "up" /\ Usable(job[p].new)
  BY <1>1 DEF ConfigInv, Handling
<1>3. /\ DOMAIN new = {"at", "op", "old", "new"} /\ new.at = "apply" /\ new.op = job[p].op
      /\ new.old = job[p].old /\ new.new = job[p].new
  BY <1>2 DEF Handling
<1> HIDE DEF new
<1>4. Handling(p)'
  <2>1. CASE on
    <3>1. job'[p] = new
      BY <1>1, <2>1 DEF ConfigInv
    <3> QED
      BY <1>1, <1>2, <1>3, <2>1, <3>1 DEF Handling, Usable, IsConfig
  <2>2. CASE ~on
    BY <1>1, <2>2, IdleHandles
  <2> QED
    BY <2>1, <2>2
<1>5. IsConfig(file') /\ Valid(file'.settings) /\ Usable(memory')
  BY <1>1, <1>2 DEF ConfigInv, IsConfig
<1> QED
  BY <1>1, <1>2, <1>4, <1>5, HandlerMoves

LEMMA ApplyStep ==
    ASSUME ConfigInv, NEW p \in Handlers, Config!Apply(p)
    PROVE  ConfigInv' /\ Config!KeepsAdmin
<1> DEFINE new == [at |-> "save", op |-> "rollback", old |-> Config!NoFile, new |-> job[p].old]
<1>1. /\ job[p].at = "apply"
      /\ UNCHANGED <<file, memory, process, signingKey, backup, generated>>
      /\ job' = [job EXCEPT ![p] = Config!Idle] \/ job' = [job EXCEPT ![p] = new]
  BY DEF Config!Apply, ConfigInv
<1>2. Handling(p) /\ process = "up" /\ Usable(job[p].old)
  BY <1>1 DEF ConfigInv, Handling
<1>3. /\ DOMAIN new = {"at", "op", "old", "new"} /\ new.at = "save" /\ new.op = "rollback"
      /\ new.new = job[p].old
  OBVIOUS
<1> HIDE DEF new
<1>4. IsConfig(file') /\ Valid(file'.settings)
  BY <1>1 DEF ConfigInv, IsConfig
<1>5. CASE job' = [job EXCEPT ![p] = new]
  <2>1. job'[p] = new
    BY <1>5 DEF ConfigInv
  <2>2. Handling(p)'
    BY <1>1, <1>2, <1>3, <2>1 DEF Handling, Usable, IsConfig
  <2> QED
    BY <1>1, <1>2, <1>4, <1>5, <2>2, HandlerMoves
<1>6. CASE job' = [job EXCEPT ![p] = Config!Idle]
  BY <1>1, <1>2, <1>4, <1>6, IdleHandles, HandlerMoves
<1> QED
  BY <1>1, <1>5, <1>6

(* The steps that leave the file alone.                                      *)
LEMMA OtherSteps ==
    ASSUME ConfigInv, Config!RemoveMarker \/ Config!Stop \/ Config!TouchMarker \/ Config!Export \/ UNCHANGED configVars
    PROVE  ConfigInv' /\ Config!KeepsAdmin
<1>1. UNCHANGED <<file, generated>>
  BY DEF Config!RemoveMarker, Config!Stop, Config!TouchMarker, Config!Export, configVars
<1>2. Config!KeepsAdmin
  BY <1>1 DEF Config!KeepsAdmin
<1>3. CASE Config!RemoveMarker
  <2>1. \A p \in Handlers : Handling(p)'
    BY <1>3 DEF ConfigInv, Handling, Config!RemoveMarker
  <2> QED
    BY <1>2, <1>3, <2>1 DEF ConfigInv, Config!RemoveMarker, Usable, IsConfig
<1>4. CASE Config!Stop
  <2>1. job' = [p \in Handlers |-> Config!Idle]
    BY <1>4 DEF Config!Stop
  <2>2. \A p \in Handlers : Handling(p)'
    BY <2>1 DEF Handling, Config!Idle
  <2> QED
    BY <1>2, <1>4, <2>1, <2>2 DEF ConfigInv, Config!Stop, Usable, IsConfig
<1>5. CASE Config!Export
  <2>1. Usable(memory)
    BY <1>5 DEF Config!Export, Config!LoggedIn, ConfigInv, Usable
  <2>2. Usable(backup)'
    BY <1>5, <2>1 DEF Config!Export, Usable, IsConfig
  <2>3. \A p \in Handlers : Handling(p)'
    BY <1>5 DEF ConfigInv, Handling, Config!Export, Usable, IsConfig
  <2> QED
    BY <1>2, <1>5, <2>2, <2>3 DEF ConfigInv, Config!Export, IsConfig
<1>6. CASE Config!TouchMarker \/ UNCHANGED configVars
  <2>1. UNCHANGED <<file, memory, process, signingKey, job, backup, generated>>
    BY <1>6 DEF Config!TouchMarker, configVars
  <2>2. \A p \in Handlers : Handling(p)'
    BY <2>1 DEF ConfigInv, Handling, Usable, IsConfig
  <2> QED
    BY <1>2, <2>1, <2>2 DEF ConfigInv, Usable, IsConfig
<1> QED
  BY <1>3, <1>4, <1>5, <1>6

LEMMA ConfigNext == ConfigInv /\ [Config!Next]_configVars => ConfigInv' /\ Config!KeepsAdmin
BY LoadStep, ResetStep, SecretStep, RequestStep, WriteFileStep, PublishStep, ApplyStep,
   OtherSteps DEF Config!Next

LEMMA ConfigSafe == ConfigInv => Config!Loadable
<1> SUFFICES ASSUME ConfigInv PROVE Config!Loadable
  OBVIOUS
<1>1. generated <= 1
  BY DEF ConfigInv
<1> QED
  BY <1>1 DEF ConfigInv, Config!Loadable, Valid, IsConfig, Secrets


(* Whatever the handlers save, import or undo, and whenever the process     *)
(* starts, stops or a write fails, the file can be loaded again, holds an   *)
(* administrator with a password and one secret, and no save takes them     *)
(* away (Load, EnsureSecret, WriteFileAtomic, the handlers' rollbacks).     *)
THEOREM ConfigHolds == Spec => AdminKeepsAccess
<1>1. Init => ConfigInv
  BY ConfigInit DEF Init
<1>2. ConfigInv /\ [Next]_allVars => ConfigInv' /\ [Config!KeepsAdmin]_configVars
  <2>1. [Next]_allVars => [Config!Next]_configVars
    BY DEF Next, allVars, configVars
  <2> QED
    BY <2>1, ConfigNext
<1>3. ConfigInv /\ [Next]_allVars
        => [service = "config" => Config!KeepsAdmin]_configVars
  BY <1>2
<1>4. ConfigInv => (service = "config" => Config!Loadable)
  BY ConfigSafe
<1> QED
  BY <1>1, <1>2, <1>3, <1>4, PTL DEF Spec, AdminKeepsAccess


----------------------------------------------------------------------------
(* The tables of the business configuration. Identifiers are finitely many   *)
(* and 0 is no provider's; a file may hold upstreams beside a scope "all",   *)
(* which was read before them.                                               *)
RuleRecord(r) == r = [scope |-> r.scope, on |-> r.on] /\ r.scope \in {"all", "upstreams"}
KeyRecord(k) == k = [mode |-> k.mode, on |-> k.on] /\ k.mode \in {"all", "selected"}

UpstreamTable(f) == IsFiniteSet(DOMAIN f)
ProviderTable(f) == IsFiniteSet(DOMAIN f) /\ 0 \notin DOMAIN f
RuleTable(f) == \A r \in DOMAIN f : RuleRecord(f[r])
KeyTable(f) == \A k \in DOMAIN f : KeyRecord(f[k])

Configuration(c) ==
    /\ DOMAIN c = Exchange!Tables \cup {"next"}
    /\ UpstreamTable(c.upstream) /\ ProviderTable(c.provider)
    /\ RuleTable(c.rule) /\ KeyTable(c.key)
    /\ c.next \in Nat \ {0}

(* What an export has read so far, and the file it leaves.                   *)
HasTable(f, t) ==
    /\ t \in DOMAIN f
    /\ t = "upstream" => UpstreamTable(f[t])
    /\ t = "rule" => RuleTable(f[t])
    /\ t = "key" => KeyTable(f[t])
    /\ t = "provider" => ProviderTable(f[t])
ReadBy(at) ==
    CASE at = "none" -> {}
      [] at = "upstream" -> {"upstream"}
      [] at = "rule" -> {"upstream", "rule"}
      [] at = "key" -> {"upstream", "rule", "key"}
      [] at = "provider" -> {"upstream", "rule", "key", "provider"}
IsExport(f) == \A t \in Exchange!Tables : HasTable(f, t)
Exported ==
    /\ export.at \in {"none", "upstream", "rule", "key", "provider"}
    /\ export = [at |-> export.at, left |-> export.left, read |-> export.read]
    /\ export.left # {} => /\ export.at \in {"rule", "key"}
                           /\ export.left \subseteq DOMAIN export.read[export.at]
    /\ \A t \in ReadBy(export.at) : HasTable(export.read, t)

ExchangeInv ==
    /\ Configuration(config) /\ Exported
    /\ imported = Exchange!Empty \/ IsExport(imported)
    /\ imports \in Nat

LEMMA ExchangeInit == Exchange!Init => ExchangeInv
<1> SUFFICES ASSUME Exchange!Init PROVE ExchangeInv
  OBVIOUS
<1>1. DOMAIN Exchange!Empty = {}
  BY DEF Exchange!Empty
<1>2. Configuration(config)
  BY <1>1, FS_EmptySet DEF Exchange!Init, Configuration, UpstreamTable, ProviderTable, RuleTable,
     KeyTable, Exchange!Tables
<1>3. Exported
  BY DEF Exchange!Init, Exchange!NoExport, Exported, ReadBy
<1> QED
  BY <1>2, <1>3 DEF Exchange!Init, ExchangeInv

(* A write changes the tables only.                                          *)
LEMMA WriteStep ==
    ASSUME ExchangeInv, NEW c, Exchange!Becomes(c), Configuration(c)
    PROVE  ExchangeInv' /\ Exchange!Restored
<1>1. /\ config' = c /\ UNCHANGED <<export, imported, imports>>
  BY DEF Exchange!Becomes
<1>2. Exported'
  BY <1>1 DEF ExchangeInv, Exported, ReadBy, HasTable, UpstreamTable, RuleTable, KeyTable,
     ProviderTable
<1>3. Configuration(config)'
  BY <1>1 DEF Configuration, UpstreamTable, ProviderTable, RuleTable, KeyTable
<1>4. (imported = Exchange!Empty \/ IsExport(imported))' /\ (imports \in Nat)'
  BY <1>1 DEF ExchangeInv, IsExport, HasTable, UpstreamTable, RuleTable, KeyTable,
     ProviderTable, Exchange!Empty
<1> QED
  BY <1>1, <1>2, <1>3, <1>4 DEF ExchangeInv, Exchange!Restored

LEMMA WithIs ==
    ASSUME NEW f, NEW x, NEW v
    PROVE  /\ DOMAIN Exchange!With(f, x, v) = DOMAIN f \cup {x}
           /\ Exchange!With(f, x, v)[x] = v
           /\ \A y \in DOMAIN f : y # x => Exchange!With(f, x, v)[y] = f[y]
BY DEF Exchange!With

LEMMA WithoutIs ==
    ASSUME NEW f, NEW x
    PROVE  /\ DOMAIN Exchange!Without(f, x) = DOMAIN f \ {x}
           /\ \A y \in DOMAIN f \ {x} : Exchange!Without(f, x)[y] = f[y]
BY DEF Exchange!Without

LEMMA FiniteTables ==
    ASSUME NEW f, IsFiniteSet(DOMAIN f), NEW x, NEW v
    PROVE  /\ IsFiniteSet(DOMAIN Exchange!With(f, x, v))
           /\ IsFiniteSet(DOMAIN Exchange!Without(f, x))
<1>1. IsFiniteSet(DOMAIN f \cup {x}) /\ IsFiniteSet(DOMAIN f \ {x})
  BY FS_AddElement, FS_RemoveElement
<1> QED
  BY <1>1, WithIs, WithoutIs

LEMMA CreationSteps ==
    ASSUME ExchangeInv, NEW n, Exchange!CreateUpstream(n) \/ Exchange!CreateProvider(n)
    PROVE  ExchangeInv' /\ Exchange!Restored
<1>0. Configuration(config)
  BY DEF ExchangeInv
<1>1. CASE Exchange!CreateUpstream(n)
  <2> DEFINE f == Exchange!With(config.upstream, config.next, n)
             c == [config EXCEPT !.upstream = f, !.next = config.next + 1]
  <2>1. Exchange!Becomes(c)
    BY <1>1 DEF Exchange!CreateUpstream
  <2>2. UpstreamTable(f)
    BY <1>0, FiniteTables DEF Configuration, UpstreamTable
  <2> HIDE DEF f
  <2>3. Configuration(c)
    BY <1>0, <2>2 DEF Configuration, Exchange!Tables
  <2> QED
    BY <2>1, <2>3, WriteStep
<1>2. CASE Exchange!CreateProvider(n)
  <2> DEFINE f == Exchange!With(config.provider, config.next, n)
             c == [config EXCEPT !.provider = f, !.next = config.next + 1]
  <2>1. Exchange!Becomes(c)
    BY <1>2 DEF Exchange!CreateProvider
  <2>2. ProviderTable(f)
    <3>1. IsFiniteSet(DOMAIN f)
      BY <1>0, FiniteTables DEF Configuration, ProviderTable
    <3>2. DOMAIN f = DOMAIN config.provider \cup {config.next}
      BY DEF Exchange!With
    <3> HIDE DEF f
    <3> QED
      BY <1>0, <3>1, <3>2 DEF Configuration, ProviderTable
  <2> HIDE DEF f
  <2>3. Configuration(c)
    BY <1>0, <2>2 DEF Configuration, Exchange!Tables
  <2> QED
    BY <2>1, <2>3, WriteStep
<1> QED
  BY <1>1, <1>2

LEMMA DeleteUpstreamStep ==
    ASSUME ExchangeInv, NEW u, Exchange!DeleteUpstream(u)
    PROVE  ExchangeInv' /\ Exchange!Restored
<1>0. Configuration(config)
  BY DEF ExchangeInv
<1> DEFINE f == Exchange!Without(config.upstream, u)
           g == Exchange!Without(config.risk, u)
           rs == [r \in DOMAIN config.rule |-> Exchange!Unbound(config.rule[r], u)]
           ks == [k \in DOMAIN config.key |-> Exchange!Unbound(config.key[k], u)]
           c == [config EXCEPT !.upstream = f, !.risk = g, !.rule = rs, !.key = ks]
<1>1. Exchange!Becomes(c)
  BY <1>0 DEF Exchange!DeleteUpstream, Configuration, Exchange!Tables
<1>2. UpstreamTable(f)
  BY <1>0, FiniteTables DEF Configuration, UpstreamTable
<1>3. RuleTable(rs)
  <2> SUFFICES ASSUME NEW r \in DOMAIN config.rule PROVE RuleRecord(rs[r])
    BY DEF RuleTable
  <2>1. RuleRecord(config.rule[r])
    BY <1>0 DEF Configuration, RuleTable
  <2>2. rs[r] = [scope |-> config.rule[r].scope, on |-> config.rule[r].on \ {u}]
    BY <2>1 DEF RuleRecord, Exchange!Unbound
  <2> QED
    BY <2>1, <2>2 DEF RuleRecord
<1>4. KeyTable(ks)
  <2> SUFFICES ASSUME NEW k \in DOMAIN config.key PROVE KeyRecord(ks[k])
    BY DEF KeyTable
  <2>1. KeyRecord(config.key[k])
    BY <1>0 DEF Configuration, KeyTable
  <2>2. ks[k] = [mode |-> config.key[k].mode, on |-> config.key[k].on \ {u}]
    BY <2>1 DEF KeyRecord, Exchange!Unbound
  <2> QED
    BY <2>1, <2>2 DEF KeyRecord
<1> HIDE DEF f, g, rs, ks
<1>5. Configuration(c)
  BY <1>0, <1>2, <1>3, <1>4 DEF Configuration, Exchange!Tables
<1> QED
  BY <1>1, <1>5, WriteStep

LEMMA RuleSteps ==
    ASSUME ExchangeInv, NEW r,
           \/ \E scope \in {"all", "upstreams"}, on \in SUBSET DOMAIN config.upstream :
                 Exchange!SaveRule(r, scope, on)
           \/ Exchange!DeleteRule(r)
    PROVE  ExchangeInv' /\ Exchange!Restored
<1>0. Configuration(config)
  BY DEF ExchangeInv
<1>1. ASSUME NEW scope \in {"all", "upstreams"}, NEW on \in SUBSET DOMAIN config.upstream,
             Exchange!SaveRule(r, scope, on)
      PROVE  ExchangeInv' /\ Exchange!Restored
  <2> DEFINE n == Exchange!NormalizeRuleScope(scope, on)
             f == Exchange!With(config.rule, r, n)
             c == [config EXCEPT !.rule = f]
  <2>1. Exchange!Becomes(c)
    BY <1>1 DEF Exchange!SaveRule
  <2>2. RuleRecord(n)
    BY DEF Exchange!NormalizeRuleScope, RuleRecord
  <2> HIDE DEF n
  <2>3. RuleTable(f)
    BY <1>0, <2>2 DEF Configuration, RuleTable, Exchange!With
  <2> HIDE DEF f
  <2>4. Configuration(c)
    BY <1>0, <2>3 DEF Configuration, Exchange!Tables
  <2> QED
    BY <2>1, <2>4, WriteStep
<1>2. CASE Exchange!DeleteRule(r)
  <2> DEFINE f == Exchange!Without(config.rule, r)
             c == [config EXCEPT !.rule = f]
  <2>1. Exchange!Becomes(c)
    BY <1>2 DEF Exchange!DeleteRule
  <2>2. RuleTable(f)
    BY <1>0 DEF Configuration, RuleTable, Exchange!Without
  <2> HIDE DEF f
  <2>3. Configuration(c)
    BY <1>0, <2>2 DEF Configuration, Exchange!Tables
  <2> QED
    BY <2>1, <2>3, WriteStep
<1> QED
  BY <1>1, <1>2

LEMMA KeySteps ==
    ASSUME ExchangeInv, NEW k,
           \/ Exchange!CreateKey(k) \/ Exchange!DeleteKey(k)
           \/ \E m \in {"all", "selected"}, on \in SUBSET DOMAIN config.upstream :
                 Exchange!SetAccess(k, m, on)
    PROVE  ExchangeInv' /\ Exchange!Restored
<1>0. Configuration(config)
  BY DEF ExchangeInv
<1>1. CASE Exchange!CreateKey(k)
  <2> DEFINE n == [mode |-> "all", on |-> {}]
             f == Exchange!With(config.key, k, n)
             c == [config EXCEPT !.key = f]
  <2>1. Exchange!Becomes(c)
    BY <1>1 DEF Exchange!CreateKey
  <2>2. KeyRecord(n)
    BY DEF KeyRecord
  <2> HIDE DEF n
  <2>3. KeyTable(f)
    BY <1>0, <2>2 DEF Configuration, KeyTable, Exchange!With
  <2> HIDE DEF f
  <2>4. Configuration(c)
    BY <1>0, <2>3 DEF Configuration, Exchange!Tables
  <2> QED
    BY <2>1, <2>4, WriteStep
<1>2. CASE Exchange!DeleteKey(k)
  <2> DEFINE f == Exchange!Without(config.key, k)
             c == [config EXCEPT !.key = f]
  <2>1. Exchange!Becomes(c)
    BY <1>2 DEF Exchange!DeleteKey
  <2>2. KeyTable(f)
    BY <1>0 DEF Configuration, KeyTable, Exchange!Without
  <2> HIDE DEF f
  <2>3. Configuration(c)
    BY <1>0, <2>2 DEF Configuration, Exchange!Tables
  <2> QED
    BY <2>1, <2>3, WriteStep
<1>3. ASSUME NEW m \in {"all", "selected"}, NEW on \in SUBSET DOMAIN config.upstream,
             Exchange!SetAccess(k, m, on)
      PROVE  ExchangeInv' /\ Exchange!Restored
  <2> DEFINE n == Exchange!Replace(m, on)
             f == [config.key EXCEPT ![k] = n]
             c == [config EXCEPT !.key = f]
  <2>1. Exchange!Becomes(c)
    BY <1>3 DEF Exchange!SetAccess
  <2>2. KeyRecord(n)
    BY DEF Exchange!Replace, KeyRecord
  <2> HIDE DEF n
  <2>3. KeyTable(f)
    BY <1>0, <2>2 DEF Configuration, KeyTable
  <2> HIDE DEF f
  <2>4. Configuration(c)
    BY <1>0, <2>3 DEF Configuration, Exchange!Tables
  <2> QED
    BY <2>1, <2>4, WriteStep
<1> QED
  BY <1>1, <1>2, <1>3

LEMMA RatingSteps ==
    ASSUME ExchangeInv, NEW p, NEW u, Exchange!DeleteProvider(p) \/ Exchange!Rate(u, p)
    PROVE  ExchangeInv' /\ Exchange!Restored
<1>0. Configuration(config)
  BY DEF ExchangeInv
<1>1. CASE Exchange!DeleteProvider(p)
  <2> DEFINE f == Exchange!Without(config.provider, p)
             g == [v \in DOMAIN config.risk |->
                     IF config.risk[v] = p THEN Exchange!None ELSE config.risk[v]]
             c == [config EXCEPT !.provider = f, !.risk = g]
  <2>1. Exchange!Becomes(c)
    BY <1>0, <1>1 DEF Exchange!DeleteProvider, Configuration, Exchange!Tables
  <2>2. ProviderTable(f)
    <3>1. IsFiniteSet(DOMAIN f)
      BY <1>0, FiniteTables DEF Configuration, ProviderTable
    <3>2. DOMAIN f = DOMAIN config.provider \ {p}
      BY DEF Exchange!Without
    <3> HIDE DEF f
    <3> QED
      BY <1>0, <3>1, <3>2 DEF Configuration, ProviderTable
  <2> HIDE DEF f, g
  <2>3. Configuration(c)
    BY <1>0, <2>2 DEF Configuration, Exchange!Tables
  <2> QED
    BY <2>1, <2>3, WriteStep
<1>2. CASE Exchange!Rate(u, p)
  <2> DEFINE g == Exchange!With(config.risk, u, p)
             c == [config EXCEPT !.risk = g]
  <2>1. Exchange!Becomes(c)
    BY <1>2 DEF Exchange!Rate
  <2> HIDE DEF g
  <2>2. Configuration(c)
    BY <1>0 DEF Configuration, Exchange!Tables
  <2> QED
    BY <2>1, <2>2, WriteStep
<1> QED
  BY <1>1, <1>2

LEMMA WritesStep ==
    ASSUME ExchangeInv, Exchange!Writes
    PROVE  ExchangeInv' /\ Exchange!Restored
BY CreationSteps, DeleteUpstreamStep, RuleSteps, KeySteps, RatingSteps DEF Exchange!Writes

----------------------------------------------------------------------------
(* A table that is read is one of the configuration's, the relations of its  *)
(* rows apart.                                                               *)
LEMMA ListedIs ==
    ASSUME Configuration(config), NEW t \in Exchange!Tables
    PROVE  /\ t = "upstream" => UpstreamTable(Exchange!Listed(t))
           /\ t = "rule" => RuleTable(Exchange!Listed(t))
           /\ t = "key" => KeyTable(Exchange!Listed(t))
           /\ t = "provider" => ProviderTable(Exchange!Listed(t))
           /\ t \in {"rule", "key"} => DOMAIN Exchange!Listed(t) = DOMAIN config[t]
<1>1. CASE t \in {"upstream", "provider", "risk"}
  BY <1>1 DEF Exchange!Listed, Configuration
<1>2. CASE t = "rule"
  <2>1. /\ DOMAIN Exchange!Listed(t) = DOMAIN config.rule
        /\ \A x \in DOMAIN config.rule :
              Exchange!Listed(t)[x] = [config.rule[x] EXCEPT !.on = {}]
    BY <1>2 DEF Exchange!Listed
  <2>2. \A x \in DOMAIN config.rule : RuleRecord(config.rule[x])
    BY DEF Configuration, RuleTable
  <2>3. \A x \in DOMAIN config.rule : RuleRecord(Exchange!Listed(t)[x])
    BY <2>1, <2>2 DEF RuleRecord
  <2> QED
    BY <1>2, <2>1, <2>3 DEF RuleTable
<1>3. CASE t = "key"
  <2>1. /\ DOMAIN Exchange!Listed(t) = DOMAIN config.key
        /\ \A x \in DOMAIN config.key :
              Exchange!Listed(t)[x] = [config.key[x] EXCEPT !.on = {}]
    BY <1>3 DEF Exchange!Listed
  <2>2. \A x \in DOMAIN config.key : KeyRecord(config.key[x])
    BY DEF Configuration, KeyTable
  <2>3. \A x \in DOMAIN config.key : KeyRecord(Exchange!Listed(t)[x])
    BY <2>1, <2>2 DEF KeyRecord
  <2> QED
    BY <1>3, <2>1, <2>3 DEF KeyTable
<1> QED
  BY <1>1, <1>2, <1>3 DEF Exchange!Tables

LEMMA ReadIs ==
    ASSUME Configuration(config), NEW f, NEW t \in Exchange!Tables
    PROVE  /\ HasTable(Exchange!With(f, t, Exchange!Listed(t)), t)
           /\ \A s \in DOMAIN f : s # t /\ HasTable(f, s) =>
                  HasTable(Exchange!With(f, t, Exchange!Listed(t)), s)
           /\ t \in {"rule", "key"} =>
                  DOMAIN Exchange!With(f, t, Exchange!Listed(t))[t] = DOMAIN config[t]
<1> DEFINE g == Exchange!With(f, t, Exchange!Listed(t))
<1>1. /\ DOMAIN g = DOMAIN f \cup {t} /\ g[t] = Exchange!Listed(t)
      /\ \A s \in DOMAIN f : s # t => g[s] = f[s]
  BY DEF Exchange!With
<1> HIDE DEF g
<1>2. HasTable(g, t) /\ (t \in {"rule", "key"} => DOMAIN g[t] = DOMAIN config[t])
  BY <1>1, ListedIs DEF HasTable
<1>3. \A s \in DOMAIN f : s # t /\ HasTable(f, s) => HasTable(g, s)
  BY <1>1 DEF HasTable
<1> QED
  BY <1>2, <1>3 DEF g

LEMMA ReadTableStep ==
    ASSUME ExchangeInv, Exchange!ReadTable
    PROVE  ExchangeInv' /\ Exchange!Restored
<1> DEFINE t == Exchange!ReadAfter[export.at]
           r == Exchange!With(export.read, t, Exchange!Listed(t))
           left == IF t \in {"rule", "key"} THEN DOMAIN config[t] ELSE {}
<1>1. /\ Configuration(config) /\ Exported
      /\ imported = Exchange!Empty \/ IsExport(imported)
  BY DEF ExchangeInv
<1>2. Configuration(config)' /\ (imports \in Nat)' /\ imports' = imports
  BY DEF ExchangeInv, Exchange!ReadTable, Configuration, UpstreamTable, RuleTable, KeyTable,
     ProviderTable
<1>3. t \in Exchange!Tables
  BY <1>1 DEF Exported, Exchange!ReadAfter, Exchange!Tables
<1>4. HasTable(r, t) /\ (t \in {"rule", "key"} => DOMAIN r[t] = DOMAIN config[t])
  BY <1>1, <1>3, ReadIs
<1>5. \A s \in ReadBy(export.at) : s # t /\ HasTable(r, s)
  <2>1. \A s \in ReadBy(export.at) : s \in DOMAIN export.read /\ HasTable(export.read, s)
    BY <1>1 DEF Exported, HasTable
  <2>2. \A s \in ReadBy(export.at) : s # t
    BY <1>1 DEF Exported, ReadBy, Exchange!ReadAfter
  <2> QED
    BY <1>1, <1>3, <2>1, <2>2, ReadIs
<1>6. /\ export' = IF t = "risk" THEN Exchange!NoExport
                   ELSE [at |-> t, read |-> r, left |-> left]
      /\ imported' = IF t = "risk" THEN r ELSE imported
  BY DEF Exchange!ReadTable
<1>7. left # {} => t \in {"rule", "key"} /\ left \subseteq DOMAIN r[t]
  BY <1>4
<1> HIDE DEF r, left
<1>8. Exported'
  <2>1. CASE t = "risk"
    BY <1>6, <2>1 DEF Exported, ReadBy, Exchange!NoExport
  <2>2. CASE t # "risk"
    <3>1. /\ export' = [at |-> t, left |-> left, read |-> r]
          /\ export'.at = t /\ export'.left = left /\ export'.read = r
      BY <1>6, <2>2
    <3>2. /\ ReadBy(t) = ReadBy(export.at) \cup {t}
          /\ t \in {"upstream", "rule", "key", "provider"}
      BY <1>1, <2>2 DEF Exported, ReadBy, Exchange!ReadAfter
    <3>3. \A s \in ReadBy(t) : HasTable(r, s)
      BY <1>4, <1>5, <3>2
    <3> HIDE DEF t
    <3> QED
      BY <1>7, <3>1, <3>2, <3>3 DEF Exported, ReadBy, HasTable, UpstreamTable, RuleTable, KeyTable,
         ProviderTable
  <2> QED
    BY <2>1, <2>2
<1>9. (imported = Exchange!Empty \/ IsExport(imported))'
  <2>1. CASE t = "risk"
    <3>1. export.at = "provider"
      BY <1>1, <2>1 DEF Exported, Exchange!ReadAfter
    <3>2. \A s \in Exchange!Tables : HasTable(r, s)
      BY <1>4, <1>5, <2>1, <3>1 DEF Exchange!Tables, ReadBy
    <3> QED
      BY <1>6, <2>1, <3>2 DEF IsExport, HasTable, UpstreamTable, RuleTable, KeyTable,
         ProviderTable
  <2>2. CASE t # "risk"
    BY <1>1, <1>6, <2>2 DEF IsExport, HasTable, UpstreamTable, RuleTable, KeyTable,
       ProviderTable, Exchange!Empty
  <2> QED
    BY <2>1, <2>2
<1> QED
  BY <1>2, <1>8, <1>9 DEF ExchangeInv, Exchange!Restored

(* The relations of one row, as they are when they are read.                 *)
LEMMA ReadRelationsStep ==
    ASSUME ExchangeInv, NEW x \in export.left, Exchange!ReadRelations(x)
    PROVE  ExchangeInv' /\ Exchange!Restored
<1> DEFINE t == export.at
           old == export.read
<1>1. /\ Configuration(config) /\ Exported
      /\ imported = Exchange!Empty \/ IsExport(imported)
  BY DEF ExchangeInv
<1>2. /\ Configuration(config)' /\ (imports \in Nat)' /\ imports' = imports
      /\ (imported = Exchange!Empty \/ IsExport(imported))'
  BY DEF ExchangeInv, Exchange!ReadRelations, Configuration, UpstreamTable, RuleTable, KeyTable,
     ProviderTable, IsExport, HasTable, Exchange!Empty
<1>3. PICK on : export' = [at |-> t, left |-> export.left \ {x},
                           read |-> [old EXCEPT ![t][x].on = on]]
  BY DEF Exchange!ReadRelations
<1> DEFINE new == [old EXCEPT ![t][x].on = on]
<1>4. t \in {"rule", "key"} /\ export.left \subseteq DOMAIN old[t]
  BY <1>1 DEF Exported
<1>5. t \in ReadBy(t) /\ \A s \in ReadBy(t) : HasTable(old, s)
  BY <1>1, <1>4 DEF Exported, ReadBy
<1>6. /\ DOMAIN new = DOMAIN old /\ \A s \in DOMAIN old : s # t => new[s] = old[s]
      /\ DOMAIN new[t] = DOMAIN old[t]
      /\ new[t][x] = [old[t][x] EXCEPT !.on = on]
      /\ \A y \in DOMAIN old[t] : y # x => new[t][y] = old[t][y]
  BY <1>4, <1>5 DEF HasTable
<1>7. export' = [at |-> t, left |-> export.left \ {x}, read |-> new]
  BY <1>3
<1> HIDE DEF new
<1>8. HasTable(new, t)
  <2>1. CASE t = "rule"
    <3>1. \A y \in DOMAIN old[t] : RuleRecord(old[t][y])
      BY <1>5, <2>1 DEF HasTable, RuleTable
    <3>2. RuleRecord(new[t][x])
      BY <1>4, <1>6, <3>1 DEF RuleRecord
    <3>3. \A y \in DOMAIN new[t] : RuleRecord(new[t][y])
      BY <1>6, <3>1, <3>2
    <3> QED
      BY <1>5, <1>6, <2>1, <3>3 DEF HasTable, RuleTable
  <2>2. CASE t = "key"
    <3>1. \A y \in DOMAIN old[t] : KeyRecord(old[t][y])
      BY <1>5, <2>2 DEF HasTable, KeyTable
    <3>2. KeyRecord(new[t][x])
      BY <1>4, <1>6, <3>1 DEF KeyRecord
    <3>3. \A y \in DOMAIN new[t] : KeyRecord(new[t][y])
      BY <1>6, <3>1, <3>2
    <3> QED
      BY <1>5, <1>6, <2>2, <3>3 DEF HasTable, KeyTable
  <2> QED
    BY <1>4, <2>1, <2>2
<1>9. \A s \in ReadBy(t) : HasTable(new, s)
  <2> SUFFICES ASSUME NEW s \in ReadBy(t), s # t PROVE HasTable(new, s)
    BY <1>8
  <2> QED
    BY <1>5, <1>6 DEF HasTable
<1>10. Exported'
  <2>1. export'.at = t /\ export'.left = export.left \ {x} /\ export'.read = new
    BY <1>7
  <2> HIDE DEF t
  <2>2. (\A s \in ReadBy(t) : HasTable(new, s)) => \A s \in ReadBy(export'.at) : HasTable(export'.read, s)
    BY <2>1
  <2> QED
    BY <1>4, <1>6, <1>7, <1>9, <2>1, <2>2 DEF Exported, ReadBy, HasTable, UpstreamTable, RuleTable,
       KeyTable, ProviderTable
<1> QED
  BY <1>2, <1>10 DEF ExchangeInv, Exchange!Restored

LEMMA ExportFailsStep ==
    ASSUME ExchangeInv, Exchange!ExportFails
    PROVE  ExchangeInv' /\ Exchange!Restored
<1>1. Configuration(config)' /\ (imports \in Nat)'
  BY DEF ExchangeInv, Exchange!ExportFails, Configuration, UpstreamTable, RuleTable, KeyTable,
     ProviderTable
<1>2. (imported = Exchange!Empty \/ IsExport(imported))'
  BY DEF ExchangeInv, Exchange!ExportFails, IsExport, HasTable, UpstreamTable, RuleTable,
     KeyTable, ProviderTable, Exchange!Empty
<1>3. Exported'
  BY DEF Exchange!ExportFails, Exchange!NoExport, Exported, ReadBy
<1> QED
  BY <1>1, <1>2, <1>3 DEF ExchangeInv, Exchange!Restored, Exchange!ExportFails

----------------------------------------------------------------------------
(* New identifiers: as many as rows, none twice, none below the next one.    *)
LEMMA FreshIs ==
    ASSUME NEW S, IsFiniteSet(S), NEW n \in Nat \ {0}
    PROVE  /\ DOMAIN Exchange!Fresh(S, n) = S
           /\ \A a, b \in S : Exchange!Fresh(S, n)[a] = Exchange!Fresh(S, n)[b] => a = b
           /\ \A a \in S : Exchange!Fresh(S, n)[a] \in Nat \ {0}
           /\ IsFiniteSet(Exchange!Range(Exchange!Fresh(S, n)))
<1> DEFINE c == Cardinality(S)
           ids == n..(n + c - 1)
<1>1. c \in Nat /\ ExistsBijection(1..c, S)
  BY FS_CardinalityType
<1> HIDE DEF c
<1>2. PICK b \in [1..c -> S] : /\ \A i, j \in 1..c : b[i] = b[j] => i = j
                               /\ \A s \in S : \E i \in 1..c : b[i] = s
  BY <1>1 DEF ExistsBijection, Bijection, Injection, Surjection, IsInjective
<1> DEFINE place(s) == CHOOSE i \in 1..c : b[i] = s
           m == [s \in S |-> n + place(s) - 1]
<1>3. \A s \in S : place(s) \in 1..c /\ b[place(s)] = s
  BY <1>2
<1>4. \A s \in S : n + place(s) - 1 \in ids
  <2> SUFFICES ASSUME NEW s \in S PROVE n + place(s) - 1 \in ids
    OBVIOUS
  <2>1. place(s) \in 1..c
    BY <1>3
  <2> HIDE DEF place
  <2> QED
    BY <2>1, <1>1
<1>5. m \in [S -> ids]
  BY <1>4
<1>6. \A s, t \in S : m[s] = m[t] => s = t
  <2> SUFFICES ASSUME NEW s \in S, NEW t \in S, m[s] = m[t] PROVE s = t
    OBVIOUS
  <2>1. place(s) \in 1..c /\ place(t) \in 1..c /\ b[place(s)] = s /\ b[place(t)] = t
    BY <1>3
  <2>2. n + place(s) - 1 = n + place(t) - 1
    OBVIOUS
  <2> HIDE DEF place, m
  <2>3. place(s) = place(t)
    BY <2>1, <2>2, <1>1
  <2> QED
    BY <2>1, <2>3
<1> HIDE DEF m
<1>7. DOMAIN m = S
  BY <1>5
<1>8. Exchange!IsInjective(m)
  BY <1>6, <1>7 DEF Exchange!IsInjective
<1>9. \E f \in [S -> n..(n + Cardinality(S) - 1)] : Exchange!IsInjective(f)
  BY <1>5, <1>8 DEF c
<1> DEFINE f == Exchange!Fresh(S, n)
<1>10. f \in [S -> ids] /\ Exchange!IsInjective(f)
  <2>1. f = CHOOSE g \in [S -> n..(n + Cardinality(S) - 1)] : Exchange!IsInjective(g)
    <3>1. Exchange!Cardinality(S) = Cardinality(S)
      BY DEF Exchange!Cardinality, Cardinality
    <3> QED
      BY <3>1, Zenon DEF Exchange!Fresh
  <2> HIDE DEF f
  <2>2. f \in [S -> n..(n + Cardinality(S) - 1)] /\ Exchange!IsInjective(f)
    BY <1>9, <2>1
  <2> QED
    BY <2>2 DEF c
<1> HIDE DEF f
<1>11. IsFiniteSet(ids) /\ ids \subseteq Nat \ {0}
  <2>1. n \in Int /\ n + c - 1 \in Int
    BY <1>1
  <2>2. IsFiniteSet(ids)
    BY <2>1, FS_Interval DEF ids
  <2> QED
    BY <2>1, <2>2 DEF ids
<1>12. IsFiniteSet(Exchange!Range(f))
  <2>1. Exchange!Range(f) \subseteq ids
    BY <1>10 DEF Exchange!Range
  <2> QED
    BY <2>1, <1>11, FS_Subset
<1> HIDE DEF ids
<1>13. /\ DOMAIN f = S /\ \A a \in S : f[a] \in Nat \ {0}
       /\ \A a, b2 \in S : f[a] = f[b2] => a = b2
  BY <1>10, <1>11 DEF Exchange!IsInjective
<1> QED
  BY <1>12, <1>13 DEF f

(* Rows keep their contents under the new identifiers.                       *)
Renames(m) == \A a, b \in DOMAIN m : m[a] = m[b] => a = b
LEMMA MovedIs ==
    ASSUME NEW m, NEW f, Renames(m)
    PROVE  /\ DOMAIN Exchange!Moved(m, f) = Exchange!Range(m)
           /\ \A o \in DOMAIN m : Exchange!Moved(m, f)[m[o]] = f[o]
<1>1. \A o \in DOMAIN m : (CHOOSE p \in DOMAIN m : m[p] = m[o]) = o
  BY DEF Renames
<1>2. \A o \in DOMAIN m : m[o] \in Exchange!Range(m)
  BY DEF Exchange!Range
<1> QED
  BY <1>1, <1>2 DEF Exchange!Moved

LEMMA MovedRange ==
    ASSUME NEW m, NEW f, Renames(m), DOMAIN m = DOMAIN f
    PROVE  Exchange!Range(Exchange!Moved(m, f)) = Exchange!Range(f)
<1> DEFINE g == Exchange!Moved(m, f)
<1>1. DOMAIN g = Exchange!Range(m) /\ \A o \in DOMAIN m : g[m[o]] = f[o]
  BY MovedIs
<1> HIDE DEF g
<1>2. {g[i] : i \in {m[o] : o \in DOMAIN m}} = {f[o] : o \in DOMAIN f}
  <2>1. {g[i] : i \in {m[o] : o \in DOMAIN m}} \subseteq {f[o] : o \in DOMAIN f}
    BY <1>1
  <2>2. {f[o] : o \in DOMAIN f} \subseteq {g[i] : i \in {m[o] : o \in DOMAIN m}}
    BY <1>1
  <2> QED
    BY <2>1, <2>2
<1> QED
  BY <1>1, <1>2 DEF Exchange!Range, g

NamesOf(f, ids) == {f[i] : i \in ids}
Reached(f, scope, ids) == IF scope = "all" THEN {} ELSE NamesOf(f, ids)
LEMMA NamesKept ==
    ASSUME NEW m, NEW f, Renames(m), NEW ids, ids \subseteq DOMAIN m
    PROVE  NamesOf(Exchange!Moved(m, f), Exchange!RemapIDs(ids, m)) = NamesOf(f, ids)
<1> DEFINE g == Exchange!Moved(m, f)
<1>1. \A o \in DOMAIN m : g[m[o]] = f[o]
  BY MovedIs
<1> HIDE DEF g
<1>2. Exchange!RemapIDs(ids, m) = {m[i] : i \in ids}
  BY DEF Exchange!RemapIDs
<1>3. {g[i] : i \in {m[j] : j \in ids}} = {f[i] : i \in ids}
  <2>1. {g[i] : i \in {m[j] : j \in ids}} \subseteq {f[i] : i \in ids}
    BY <1>1
  <2>2. {f[i] : i \in ids} \subseteq {g[i] : i \in {m[j] : j \in ids}}
    BY <1>1
  <2> QED
    BY <2>1, <2>2
<1> QED
  BY <1>2, <1>3 DEF g, NamesOf

(* The scopes and accesses of a file that was validated, renamed.            *)
LEMMA ScopesKept ==
    ASSUME NEW m, NEW u, Renames(m), DOMAIN m = DOMAIN u, NEW r, RuleRecord(r),
           r.scope = "upstreams" => r.on # {} /\ r.on \subseteq DOMAIN u,
           NEW n, n = Exchange!NormalizeRuleScope(r.scope, Exchange!RemapIDs(r.on, m))
    PROVE  /\ RuleRecord(n) /\ n.scope = r.scope
           /\ Reached(Exchange!Moved(m, u), n.scope, n.on) = Reached(u, r.scope, r.on)
<1> DEFINE ids == Exchange!RemapIDs(r.on, m)
<1>1. CASE r.scope = "all"
  BY <1>1 DEF RuleRecord, Exchange!NormalizeRuleScope, Reached
<1>2. CASE r.scope = "upstreams"
  <2>1. r.on \subseteq DOMAIN m /\ r.on # {}
    BY <1>2
  <2>2. ids = {m[i] : i \in r.on}
    BY <2>1 DEF Exchange!RemapIDs
  <2>3. NamesOf(Exchange!Moved(m, u), ids) = NamesOf(u, r.on)
    BY <2>1, NamesKept
  <2>4. ids # {}
    BY <2>1, <2>2
  <2> HIDE DEF ids
  <2>5. n = [scope |-> "upstreams", on |-> ids]
    BY <1>2, <2>4 DEF Exchange!NormalizeRuleScope, ids
  <2> QED
    BY <1>2, <2>3, <2>5 DEF RuleRecord, Reached
<1> QED
  BY <1>1, <1>2 DEF RuleRecord

LEMMA AccessKept ==
    ASSUME NEW m, NEW u, Renames(m), DOMAIN m = DOMAIN u, NEW k, KeyRecord(k),
           k.on \subseteq DOMAIN u,
           NEW n, n = Exchange!Replace(k.mode, Exchange!RemapIDs(k.on, m))
    PROVE  /\ KeyRecord(n) /\ n.mode = k.mode
           /\ Reached(Exchange!Moved(m, u), n.mode, n.on) = Reached(u, k.mode, k.on)
<1> DEFINE ids == Exchange!RemapIDs(k.on, m)
<1>1. NamesOf(Exchange!Moved(m, u), ids) = NamesOf(u, k.on)
  BY NamesKept
<1>2. n = [mode |-> k.mode, on |-> IF k.mode = "selected" THEN ids ELSE {}]
  BY DEF Exchange!Replace
<1> HIDE DEF ids
<1> QED
  BY <1>1, <1>2 DEF KeyRecord, Reached

(* The ratings, under the new identifiers of upstream and provider.          *)
RatingsOf(u, p, risk) == {<<u[i], IF risk[i] = 0 THEN "none" ELSE p[risk[i]]>> : i \in DOMAIN risk}
LEMMA RatingsKept ==
    ASSUME NEW m, NEW u, Renames(m), DOMAIN m = DOMAIN u,
           NEW q, NEW p, Renames(q), DOMAIN q = DOMAIN p,
           0 \notin DOMAIN p, \A i \in DOMAIN q : q[i] \in Nat \ {0},
           NEW risk, DOMAIN risk \subseteq DOMAIN u,
           \A i \in DOMAIN risk : risk[i] \in DOMAIN p \cup {0},
           NEW moved, moved = [i \in DOMAIN risk |->
                                 IF risk[i] \in DOMAIN q THEN q[risk[i]] ELSE 0],
           NEW g, g = Exchange!Moved([i \in DOMAIN moved |-> m[i]], moved)
    PROVE  RatingsOf(Exchange!Moved(m, u), Exchange!Moved(q, p), g) = RatingsOf(u, p, risk)
<1> DEFINE k == [i \in DOMAIN moved |-> m[i]]
           mu == Exchange!Moved(m, u)
           qp == Exchange!Moved(q, p)
           New(i) == <<mu[i], IF g[i] = 0 THEN "none" ELSE qp[g[i]]>>
           Old(i) == <<u[i], IF risk[i] = 0 THEN "none" ELSE p[risk[i]]>>
<1>1. DOMAIN moved = DOMAIN risk
  OBVIOUS
<1>2. Renames(k)
  BY <1>1 DEF Renames
<1>3. DOMAIN g = Exchange!Range(k) /\ \A o \in DOMAIN k : g[k[o]] = moved[o]
  BY <1>2, MovedIs
<1>4. \A i \in DOMAIN risk : g[m[i]] = moved[i]
  BY <1>1, <1>3
<1>5. DOMAIN g = {m[i] : i \in DOMAIN risk}
  BY <1>1, <1>3 DEF Exchange!Range
<1>6. \A o \in DOMAIN m : mu[m[o]] = u[o]
  BY MovedIs
<1>7. \A o \in DOMAIN q : qp[q[o]] = p[o]
  BY MovedIs
<1> HIDE DEF mu, qp, k
<1>8. \A i \in DOMAIN risk : New(m[i]) = Old(i)
  <2> SUFFICES ASSUME NEW i \in DOMAIN risk PROVE New(m[i]) = Old(i)
    OBVIOUS
  <2>1. mu[m[i]] = u[i]
    BY <1>6
  <2>2. CASE risk[i] = 0
    <3>1. g[m[i]] = 0
      BY <1>4, <2>2
    <3> QED
      BY <2>1, <2>2, <3>1
  <2>3. CASE risk[i] # 0
    <3>1. risk[i] \in DOMAIN q
      BY <2>3
    <3>2. g[m[i]] = q[risk[i]] /\ q[risk[i]] # 0
      BY <1>4, <3>1
    <3>3. qp[q[risk[i]]] = p[risk[i]]
      BY <1>7, <3>1
    <3> QED
      BY <2>1, <2>3, <3>2, <3>3
  <2> QED
    BY <2>2, <2>3
<1> HIDE DEF New, Old
<1>9. {New(i) : i \in DOMAIN g} = {Old(i) : i \in DOMAIN risk}
  <2>1. {New(i) : i \in DOMAIN g} \subseteq {Old(i) : i \in DOMAIN risk}
    BY <1>5, <1>8
  <2>2. {Old(i) : i \in DOMAIN risk} \subseteq {New(i) : i \in DOMAIN g}
    BY <1>5, <1>8
  <2> QED
    BY <2>1, <2>2
<1> QED
  BY <1>9 DEF New, Old, mu, qp, RatingsOf

LEMMA ImportStep ==
    ASSUME ExchangeInv, Exchange!Import
    PROVE  ExchangeInv' /\ Exchange!Restored
<1> DEFINE ups == Exchange!Fresh(DOMAIN imported.upstream, config.next)
           n == config.next + Exchange!Cardinality(DOMAIN ups)
           provs == Exchange!Fresh(DOMAIN imported.provider, n)
           risk == [u \in DOMAIN imported.risk |->
                      IF imported.risk[u] \in DOMAIN provs THEN provs[imported.risk[u]]
                      ELSE Exchange!None]
           us == Exchange!Moved(ups, imported.upstream)
           ps == Exchange!Moved(provs, imported.provider)
           rs == [r \in DOMAIN imported.rule |->
                    Exchange!NormalizeRuleScope(imported.rule[r].scope,
                                                Exchange!RemapIDs(imported.rule[r].on, ups))]
           ks == [k \in DOMAIN imported.key |->
                    Exchange!Replace(imported.key[k].mode,
                                     Exchange!RemapIDs(imported.key[k].on, ups))]
           ratings == Exchange!Moved([u \in DOMAIN risk |-> ups[u]], risk)
           last == n + Exchange!Cardinality(DOMAIN provs)
<1>1. /\ IsExport(imported) /\ Exchange!ValidateBusiness(imported)
      /\ config.next \in Nat \ {0} /\ imports \in Nat
  BY DEF ExchangeInv, Configuration, Exchange!Import
<1>2. /\ UpstreamTable(imported.upstream) /\ ProviderTable(imported.provider)
      /\ RuleTable(imported.rule) /\ KeyTable(imported.key)
  BY <1>1 DEF IsExport, HasTable, Exchange!Tables
<1>3. /\ config' = [upstream |-> us, provider |-> ps, rule |-> rs, key |-> ks,
                    risk |-> ratings, next |-> last]
      /\ imports' = imports + 1 /\ imported' = imported
      /\ export' = Exchange!NoExport
  BY DEF Exchange!Import
<1>4. /\ DOMAIN ups = DOMAIN imported.upstream /\ Renames(ups)
      /\ IsFiniteSet(Exchange!Range(ups))
  BY <1>1, <1>2, FreshIs DEF UpstreamTable, Renames
<1> HIDE DEF ups
<1>5. n \in Nat \ {0}
  <2>1. Exchange!Cardinality(DOMAIN ups) \in Nat
    <3>1. Exchange!Cardinality(DOMAIN ups) = Cardinality(DOMAIN ups)
      BY DEF Exchange!Cardinality, Cardinality
    <3> QED
      BY <1>2, <1>4, <3>1, FS_CardinalityType DEF UpstreamTable
  <2> QED
    BY <1>1, <2>1
<1> HIDE DEF n
<1>6. /\ DOMAIN provs = DOMAIN imported.provider /\ Renames(provs)
      /\ IsFiniteSet(Exchange!Range(provs))
      /\ \A p \in DOMAIN provs : provs[p] \in Nat \ {0}
  BY <1>2, <1>5, FreshIs DEF ProviderTable, Renames
<1> HIDE DEF provs
<1>7. last \in Nat \ {0}
  <2>1. Exchange!Cardinality(DOMAIN provs) \in Nat
    <3>1. Exchange!Cardinality(DOMAIN provs) = Cardinality(DOMAIN provs)
      BY DEF Exchange!Cardinality, Cardinality
    <3> QED
      BY <1>2, <1>6, <3>1, FS_CardinalityType DEF ProviderTable
  <2> QED
    BY <1>5, <2>1
<1>8. UpstreamTable(us) /\ Exchange!Range(us) = Exchange!Range(imported.upstream)
  BY <1>4, MovedIs, MovedRange DEF UpstreamTable
<1>9. ProviderTable(ps) /\ Exchange!Range(ps) = Exchange!Range(imported.provider)
  <2>1. DOMAIN ps = Exchange!Range(provs)
    BY <1>6, MovedIs
  <2>2. 0 \notin Exchange!Range(provs)
    BY <1>6 DEF Exchange!Range
  <2> QED
    BY <1>6, <2>1, <2>2, MovedRange DEF ProviderTable
<1>10. \A r \in DOMAIN imported.rule :
          /\ RuleRecord(rs[r]) /\ rs[r].scope = imported.rule[r].scope
          /\ Reached(us, rs[r].scope, rs[r].on)
             = Reached(imported.upstream, imported.rule[r].scope, imported.rule[r].on)
  <2> SUFFICES ASSUME NEW r \in DOMAIN imported.rule
               PROVE  /\ RuleRecord(rs[r]) /\ rs[r].scope = imported.rule[r].scope
                      /\ Reached(us, rs[r].scope, rs[r].on)
                         = Reached(imported.upstream, imported.rule[r].scope, imported.rule[r].on)
    OBVIOUS
  <2>1. RuleRecord(imported.rule[r])
    BY <1>2 DEF RuleTable
  <2>2. imported.rule[r].scope = "upstreams" =>
          imported.rule[r].on # {} /\ imported.rule[r].on \subseteq DOMAIN imported.upstream
    BY <1>1 DEF Exchange!ValidateBusiness, Exchange!ValidateRuleScope
  <2>3. rs[r] = Exchange!NormalizeRuleScope(imported.rule[r].scope,
                                            Exchange!RemapIDs(imported.rule[r].on, ups))
    OBVIOUS
  <2> HIDE DEF rs
  <2> QED
    BY <1>4, <2>1, <2>2, <2>3, ScopesKept
<1>11. \A k \in DOMAIN imported.key :
          /\ KeyRecord(ks[k]) /\ ks[k].mode = imported.key[k].mode
          /\ Reached(us, ks[k].mode, ks[k].on)
             = Reached(imported.upstream, imported.key[k].mode, imported.key[k].on)
  <2> SUFFICES ASSUME NEW k \in DOMAIN imported.key
               PROVE  /\ KeyRecord(ks[k]) /\ ks[k].mode = imported.key[k].mode
                      /\ Reached(us, ks[k].mode, ks[k].on)
                         = Reached(imported.upstream, imported.key[k].mode, imported.key[k].on)
    OBVIOUS
  <2>1. KeyRecord(imported.key[k]) /\ imported.key[k].on \subseteq DOMAIN imported.upstream
    BY <1>1, <1>2 DEF KeyTable, Exchange!ValidateBusiness
  <2>2. ks[k] = Exchange!Replace(imported.key[k].mode,
                                 Exchange!RemapIDs(imported.key[k].on, ups))
    OBVIOUS
  <2> HIDE DEF ks
  <2> QED
    BY <1>4, <2>1, <2>2, AccessKept
<1>12. RatingsOf(us, ps, ratings)
       = RatingsOf(imported.upstream, imported.provider, imported.risk)
  <2>1. 0 \notin DOMAIN imported.provider
    BY <1>2 DEF ProviderTable
  <2>2. /\ DOMAIN imported.risk \subseteq DOMAIN imported.upstream
        /\ \A u \in DOMAIN imported.risk : imported.risk[u] \in DOMAIN imported.provider \cup {0}
    BY <1>1 DEF Exchange!ValidateBusiness, Exchange!None
  <2>3. risk = [u \in DOMAIN imported.risk |->
                  IF imported.risk[u] \in DOMAIN provs THEN provs[imported.risk[u]] ELSE 0]
    BY DEF Exchange!None
  <2> HIDE DEF risk
  <2> QED
    BY <1>4, <1>6, <2>1, <2>2, <2>3, RatingsKept
<1> HIDE DEF us, ps, risk, ratings, last
<1>13. Configuration(config)'
  <2>1. RuleTable(rs) /\ KeyTable(ks)
    BY <1>10, <1>11 DEF RuleTable, KeyTable
  <2> HIDE DEF rs, ks
  <2> QED
    BY <1>3, <1>7, <1>8, <1>9, <2>1 DEF Configuration, UpstreamTable, ProviderTable, RuleTable,
       KeyTable, Exchange!Tables
<1>14. ExchangeInv'
  <2>1. Exported'
    BY <1>3 DEF Exported, ReadBy, Exchange!NoExport
  <2>2. (imported = Exchange!Empty \/ IsExport(imported))'
    BY <1>1, <1>3 DEF IsExport, HasTable, UpstreamTable, RuleTable, KeyTable, ProviderTable
  <2> QED
    BY <1>1, <1>3, <1>13, <2>1, <2>2 DEF ExchangeInv
<1>15. Exchange!Meaning(config') = Exchange!Meaning(imported)
  <2>1. /\ config'.upstream = us /\ config'.provider = ps /\ config'.rule = rs
        /\ config'.key = ks /\ config'.risk = ratings
    BY <1>3
  <2>2. [r \in DOMAIN rs |-> [scope |-> rs[r].scope, on |-> Reached(us, rs[r].scope, rs[r].on)]]
        = [r \in DOMAIN imported.rule |->
             [scope |-> imported.rule[r].scope,
              on |-> Reached(imported.upstream, imported.rule[r].scope, imported.rule[r].on)]]
    <3>1. DOMAIN rs = DOMAIN imported.rule
      OBVIOUS
    <3> HIDE DEF rs
    <3> QED
      BY <1>10, <3>1
  <2>3. [k \in DOMAIN ks |-> [mode |-> ks[k].mode, on |-> Reached(us, ks[k].mode, ks[k].on)]]
        = [k \in DOMAIN imported.key |->
             [mode |-> imported.key[k].mode,
              on |-> Reached(imported.upstream, imported.key[k].mode, imported.key[k].on)]]
    <3>1. DOMAIN ks = DOMAIN imported.key
      OBVIOUS
    <3> HIDE DEF ks
    <3> QED
      BY <1>11, <3>1
  <2> HIDE DEF rs, ks
  <2>4. Exchange!Meaning(config') =
          [upstreams |-> Exchange!Range(us), providers |-> Exchange!Range(ps),
           rules |-> [r \in DOMAIN rs |-> [scope |-> rs[r].scope, on |-> Reached(us, rs[r].scope, rs[r].on)]],
           keys |-> [k \in DOMAIN ks |-> [mode |-> ks[k].mode, on |-> Reached(us, ks[k].mode, ks[k].on)]],
           risks |-> RatingsOf(us, ps, ratings)]
    BY <2>1 DEF Exchange!Meaning, Exchange!Named, Exchange!None, NamesOf, Reached, RatingsOf
  <2>5. Exchange!Meaning(imported) =
          [upstreams |-> Exchange!Range(imported.upstream),
           providers |-> Exchange!Range(imported.provider),
           rules |-> [r \in DOMAIN imported.rule |->
                        [scope |-> imported.rule[r].scope,
                         on |-> Reached(imported.upstream, imported.rule[r].scope, imported.rule[r].on)]],
           keys |-> [k \in DOMAIN imported.key |->
                       [mode |-> imported.key[k].mode,
                        on |-> Reached(imported.upstream, imported.key[k].mode, imported.key[k].on)]],
           risks |-> RatingsOf(imported.upstream, imported.provider, imported.risk)]
    BY DEF Exchange!Meaning, Exchange!Named, Exchange!None, NamesOf, Reached, RatingsOf
  <2> QED
    BY <1>8, <1>9, <1>12, <2>2, <2>3, <2>4, <2>5
<1> QED
  BY <1>14, <1>15, <1>3 DEF Exchange!Restored


(* After an import every rule, key and rating reaches, by name, what it      *)
(* reached in the file, whatever was written, read and imported before       *)
(* (importBusiness, remapIDs, validateBusiness, normalizeRuleScope).         *)
THEOREM ImportsRestore == Spec => ImportRestores
<1>1. Init => ExchangeInv
  BY ExchangeInit DEF Init
<1>2. ExchangeInv /\ [Next]_allVars => ExchangeInv' /\ [service = "backup" => Exchange!Restored]_backupVars
  <2> SUFFICES ASSUME ExchangeInv, [Next]_allVars
               PROVE  ExchangeInv' /\ [service = "backup" => Exchange!Restored]_backupVars
    OBVIOUS
  <2>1. CASE UNCHANGED backupVars
    <3>1. ExchangeInv'
      BY <2>1 DEF backupVars, ExchangeInv, Configuration, UpstreamTable, ProviderTable, RuleTable,
         KeyTable, RuleRecord, KeyRecord, Exported, ReadBy, IsExport, HasTable, Exchange!Empty,
         Exchange!Tables
    <3> QED
      BY <2>1, <3>1
  <2>2. CASE Exchange!Next
    BY <2>2, WritesStep, ReadTableStep, ReadRelationsStep, ExportFailsStep, ImportStep DEF Exchange!Next
  <2> QED
    BY <2>1, <2>2 DEF Next, allVars, backupVars
<1> QED
  BY <1>1, <1>2, PTL DEF Spec, ImportRestores

----------------------------------------------------------------------------
(* The audit log: AuditLog.                                                  *)

Events == 1 .. NEvents
Held(q) == {q[i] : i \in 1 .. Len(q)}
NoTwice(q) == \A i, j \in 1 .. Len(q) : q[i] = q[j] => i = j

LEMMA HeldAppend ==
    ASSUME NEW q \in Seq(Events), NEW e \in Events
    PROVE  /\ Append(q, e) \in Seq(Events) /\ Held(Append(q, e)) = Held(q) \cup {e}
           /\ NoTwice(q) /\ e \notin Held(q) => NoTwice(Append(q, e))
<1> DEFINE p == Append(q, e)
<1>1. /\ p \in Seq(Events) /\ Len(q) \in Nat /\ Len(p) = Len(q) + 1 /\ p[Len(q) + 1] = e
      /\ \A i \in 1 .. Len(q) : p[i] = q[i]
  OBVIOUS
<1> HIDE DEF p
<1>2. \A i \in 1 .. Len(p) : i \in 1 .. Len(q) \/ i = Len(q) + 1
  BY <1>1
<1>3. \A i \in 1 .. Len(q) : i \in 1 .. Len(p)
  BY <1>1
<1>4. Len(q) + 1 \in 1 .. Len(p)
  BY <1>1
<1>5. Held(p) = Held(q) \cup {e}
  <2>1. ASSUME NEW x \in Held(p) PROVE x \in Held(q) \cup {e}
    <3>1. PICK i \in 1 .. Len(p) : x = p[i]
      BY <2>1 DEF Held
    <3>2. CASE i \in 1 .. Len(q)
      BY <3>1, <3>2, <1>1 DEF Held
    <3>3. CASE i = Len(q) + 1
      BY <3>1, <3>3, <1>1
    <3> QED
      BY <1>2, <3>1, <3>2, <3>3
  <2>2. ASSUME NEW x \in Held(q) PROVE x \in Held(p)
    <3>1. PICK i \in 1 .. Len(q) : x = q[i]
      BY <2>2 DEF Held
    <3> QED
      BY <1>1, <1>3, <3>1 DEF Held
  <2>3. e \in Held(p)
    BY <1>1, <1>4 DEF Held
  <2> QED
    BY <2>1, <2>2, <2>3
<1>6. ASSUME NoTwice(q), e \notin Held(q) PROVE NoTwice(p)
  BY <1>1, <1>2, <1>6 DEF NoTwice, Held
<1> QED
  BY <1>1, <1>5, <1>6 DEF p

LEMMA HeldTail ==
    ASSUME NEW q \in Seq(Events), q # <<>>, NoTwice(q)
    PROVE  /\ Head(q) \in Events /\ Tail(q) \in Seq(Events) /\ NoTwice(Tail(q))
           /\ Held(q) = Held(Tail(q)) \cup {Head(q)} /\ Head(q) \notin Held(Tail(q))
<1> DEFINE p == Tail(q)
           e == Head(q)
<1>1. /\ p \in Seq(Events) /\ Len(q) \in Nat /\ Len(q) >= 1 /\ Len(p) = Len(q) - 1
      /\ e = q[1] /\ e \in Events /\ \A i \in 1 .. Len(p) : p[i] = q[i + 1]
  OBVIOUS
<1> HIDE DEF p, e
<1>2. \A i \in 1 .. Len(p) : i + 1 \in 1 .. Len(q) /\ i + 1 # 1
  BY <1>1
<1>3. \A i \in 1 .. Len(q) : i = 1 \/ (i - 1 \in 1 .. Len(p) /\ q[i] = p[i - 1])
  <2> TAKE i \in 1 .. Len(q)
  <2>1. CASE i # 1
    <3>1. i - 1 \in 1 .. Len(p) /\ (i - 1) + 1 = i
      BY <2>1, <1>1
    <3> QED
      BY <3>1, <1>1
  <2> QED
    BY <2>1
<1>4. 1 \in 1 .. Len(q)
  BY <1>1
<1>5. Held(q) = Held(p) \cup {e}
  <2>1. ASSUME NEW x \in Held(q) PROVE x \in Held(p) \cup {e}
    <3>1. PICK i \in 1 .. Len(q) : x = q[i]
      BY <2>1 DEF Held
    <3>2. CASE i = 1
      BY <3>1, <3>2, <1>1
    <3>3. CASE i - 1 \in 1 .. Len(p) /\ q[i] = p[i - 1]
      BY <3>1, <3>3 DEF Held
    <3> QED
      BY <1>3, <3>1, <3>2, <3>3
  <2>2. ASSUME NEW x \in Held(p) PROVE x \in Held(q)
    <3>1. PICK i \in 1 .. Len(p) : x = p[i]
      BY <2>2 DEF Held
    <3>2. i + 1 \in 1 .. Len(q) /\ p[i] = q[i + 1]
      BY <1>1, <1>2
    <3> QED
      BY <3>1, <3>2 DEF Held
  <2>3. e \in Held(q)
    BY <1>1, <1>4 DEF Held
  <2> QED
    BY <2>1, <2>2, <2>3
<1>6. e \notin Held(p)
  BY <1>1, <1>2, <1>4 DEF Held, NoTwice
<1>7. NoTwice(p)
  <2> SUFFICES ASSUME NEW i \in 1 .. Len(p), NEW j \in 1 .. Len(p), p[i] = p[j] PROVE i = j
    BY DEF NoTwice
  <2>1. i + 1 = j + 1
    BY <1>1, <1>2 DEF NoTwice
  <2> QED
    BY <2>1, <1>1
<1> QED
  BY <1>1, <1>5, <1>6, <1>7 DEF p, e

LEMMA HeldConcat ==
    ASSUME NEW p \in Seq(Events), NEW q \in Seq(Events), NoTwice(p), NoTwice(q),
           Held(p) \cap Held(q) = {}
    PROVE  /\ p \o q \in Seq(Events) /\ Held(p \o q) = Held(p) \cup Held(q) /\ NoTwice(p \o q)
<1> DEFINE r == p \o q
<1>1. /\ r \in Seq(Events) /\ Len(p) \in Nat /\ Len(q) \in Nat /\ Len(r) = Len(p) + Len(q)
      /\ \A i \in 1 .. Len(r) : r[i] = IF i <= Len(p) THEN p[i] ELSE q[i - Len(p)]
  BY ConcatProperties
<1> HIDE DEF r
<1>2. \A i \in 1 .. Len(r) : \/ i \in 1 .. Len(p) /\ r[i] = p[i]
                             \/ i - Len(p) \in 1 .. Len(q) /\ r[i] = q[i - Len(p)]
  BY <1>1
<1>3. \A i \in 1 .. Len(p) : i \in 1 .. Len(r) /\ r[i] = p[i]
  BY <1>1
<1>4. \A i \in 1 .. Len(q) : i + Len(p) \in 1 .. Len(r) /\ r[i + Len(p)] = q[i]
  <2> TAKE i \in 1 .. Len(q)
  <2>1. i + Len(p) \in 1 .. Len(r) /\ ~(i + Len(p) <= Len(p)) /\ (i + Len(p)) - Len(p) = i
    BY <1>1
  <2> QED
    BY <1>1, <2>1
<1>5. Held(r) = Held(p) \cup Held(q)
  <2>1. ASSUME NEW x \in Held(r) PROVE x \in Held(p) \cup Held(q)
    <3>1. PICK i \in 1 .. Len(r) : x = r[i]
      BY <2>1 DEF Held
    <3>2. CASE i \in 1 .. Len(p) /\ r[i] = p[i]
      BY <3>1, <3>2 DEF Held
    <3>3. CASE i - Len(p) \in 1 .. Len(q) /\ r[i] = q[i - Len(p)]
      BY <3>1, <3>3 DEF Held
    <3> QED
      BY <1>2, <3>1, <3>2, <3>3
  <2>2. ASSUME NEW x \in Held(p) PROVE x \in Held(r)
    <3>1. PICK i \in 1 .. Len(p) : x = p[i]
      BY <2>2 DEF Held
    <3> QED
      BY <1>3, <3>1 DEF Held
  <2>3. ASSUME NEW x \in Held(q) PROVE x \in Held(r)
    <3>1. PICK i \in 1 .. Len(q) : x = q[i]
      BY <2>3 DEF Held
    <3>2. i + Len(p) \in 1 .. Len(r) /\ r[i + Len(p)] = q[i]
      BY <1>4
    <3> QED
      BY <3>1, <3>2 DEF Held
  <2> QED
    BY <2>1, <2>2, <2>3
<1>6. NoTwice(r)
  <2> SUFFICES ASSUME NEW i \in 1 .. Len(r), NEW j \in 1 .. Len(r), r[i] = r[j] PROVE i = j
    BY DEF NoTwice
  <2>1. CASE i \in 1 .. Len(p) /\ r[i] = p[i] /\ j \in 1 .. Len(p) /\ r[j] = p[j]
    BY <2>1 DEF NoTwice
  <2>2. CASE /\ i - Len(p) \in 1 .. Len(q) /\ r[i] = q[i - Len(p)]
             /\ j - Len(p) \in 1 .. Len(q) /\ r[j] = q[j - Len(p)]
    <3>1. i - Len(p) = j - Len(p)
      BY <2>2 DEF NoTwice
    <3> QED
      BY <3>1, <1>1
  <2>3. ASSUME NEW k \in 1 .. Len(p), NEW m \in 1 .. Len(q) PROVE p[k] # q[m]
    BY DEF Held
  <2> QED
    BY <1>2, <2>1, <2>2, <2>3
<1> QED
  BY <1>1, <1>5, <1>6 DEF r

(* An event is in one place at a time: on its way to the queue, in it, with  *)
(* the worker, or in the table once; and what was accepted is in one of      *)
(* them, failed or expired.                                                  *)
AuditTypes ==
    /\ occurred \in 0 .. NEvents /\ submitting \subseteq 1 .. occurred
    /\ accepted \subseteq 1 .. occurred /\ expired \in Nat
    /\ auditQueue \in Seq(Events) /\ auditPending \in Seq(Events)
    /\ Held(auditQueue) \subseteq 1 .. occurred /\ Held(auditPending) \subseteq 1 .. occurred
    /\ auditLog \in [Events -> 0 .. 1] /\ \A e \in Events : auditLog[e] = 1 => e <= occurred

OnePlace ==
    /\ NoTwice(auditQueue) /\ NoTwice(auditPending)
    /\ Held(auditQueue) \cap Held(auditPending) = {}
    /\ submitting \cap (Held(auditQueue) \cup Held(auditPending) \cup accepted) = {}
    /\ \A e \in Events : auditLog[e] = 1 =>
          e \notin submitting /\ e \notin Held(auditQueue) /\ e \notin Held(auditPending)

Traced ==
    \A e \in accepted : \/ e \in Held(auditQueue) \/ e \in Held(auditPending)
                        \/ auditLog[e] = 1 \/ e \in auditLost \/ e < expired

Drained ==
    /\ draining => auditStop /\ auditor \in {"flush", "stopped"}
                   /\ accepted \cap Held(auditQueue) = {}
    /\ auditor = "stopped" => draining /\ auditPending = <<>>

AuditInv == AuditTypes /\ OnePlace /\ Traced /\ Drained

LEMMA NoneHeld == Held(<<>>) = {} /\ NoTwice(<<>>) /\ <<>> \in Seq(Events)
BY DEF Held, NoTwice

LEMMA AuditInit == Audit!Init => AuditInv
BY NoneHeld, EventsAreNumbered
   DEF Audit!Init, AuditInv, AuditTypes, OnePlace, Traced, Drained, Events

LEMMA AuditNext == AuditInv /\ [Audit!Next]_auditVars => AuditInv'
<1> SUFFICES ASSUME AuditInv, [Audit!Next]_auditVars PROVE AuditInv'
  OBVIOUS
<1>0. /\ AuditTypes /\ OnePlace /\ Traced /\ Drained
  BY DEF AuditInv
<1>1. ASSUME Audit!Record PROVE AuditInv'
  <2>1. /\ occurred' = occurred + 1 /\ submitting' = submitting \cup {occurred + 1}
        /\ occurred + 1 \in Events /\ occurred \in Nat
        /\ UNCHANGED <<auditQueue, auditPending, auditor, auditStop, draining, auditLog,
                       accepted, auditLost, expired>>
    BY <1>0, <1>1, EventsAreNumbered DEF Audit!Record, AuditTypes, Events
  <2>2. occurred + 1 \notin 1 .. occurred
    BY <2>1
  <2>3. AuditTypes'
    BY <1>0, <2>1, EventsAreNumbered DEF AuditTypes, Events
  <2>4. OnePlace'
    <3>1. occurred + 1 \notin Held(auditQueue) /\ occurred + 1 \notin Held(auditPending)
          /\ occurred + 1 \notin accepted /\ auditLog[occurred + 1] # 1
      BY <1>0, <2>1, <2>2 DEF AuditTypes
    <3> QED
      BY <1>0, <2>1, <3>1 DEF OnePlace
  <2>5. Traced' /\ Drained'
    BY <1>0, <2>1 DEF Traced, Drained
  <2> QED
    BY <2>3, <2>4, <2>5 DEF AuditInv
<1>2. ASSUME NEW e \in submitting, Audit!Submit(e) PROVE AuditInv'
  <2>1. /\ submitting' = submitting \ {e} /\ e \in Events /\ e \in 1 .. occurred
        /\ UNCHANGED <<occurred, auditPending, auditor, auditStop, draining, auditLog,
                       auditLost, expired>>
    BY <1>0, <1>2, EventsAreNumbered DEF Audit!Submit, AuditTypes, Events
  <2>2. /\ e \notin Held(auditQueue) /\ e \notin Held(auditPending) /\ e \notin accepted
        /\ auditLog[e] # 1
    BY <1>0, <2>1 DEF OnePlace
  <2>3. CASE UNCHANGED <<auditQueue, accepted>>
    BY <1>0, <2>1, <2>3 DEF AuditInv, AuditTypes, OnePlace, Traced, Drained
  <2>4. CASE /\ auditQueue' = Append(auditQueue, e)
             /\ accepted' = IF auditStop THEN accepted ELSE accepted \cup {e}
    <3>1. /\ auditQueue' \in Seq(Events) /\ Held(auditQueue') = Held(auditQueue) \cup {e}
          /\ NoTwice(auditQueue')
      BY <1>0, <2>1, <2>2, <2>4, HeldAppend DEF AuditTypes, OnePlace
    <3>2. accepted' \subseteq accepted \cup {e} /\ (auditStop => accepted' = accepted)
      BY <2>4
    <3>3. AuditTypes'
      BY <1>0, <2>1, <3>1, <3>2 DEF AuditTypes
    <3>4. OnePlace'
      BY <1>0, <2>1, <2>2, <3>1, <3>2 DEF OnePlace
    <3>5. Traced'
      BY <1>0, <2>1, <3>1, <3>2 DEF Traced
    <3>6. Drained'
      BY <1>0, <2>1, <2>2, <3>1, <3>2 DEF Drained
    <3> QED
      BY <3>3, <3>4, <3>5, <3>6 DEF AuditInv
  <2> QED
    BY <1>2, <2>3, <2>4 DEF Audit!Submit
<1>3. ASSUME Audit!Take PROVE AuditInv'
  <2> DEFINE e == Head(auditQueue)
  <2>1. /\ auditor = "select" /\ auditQueue # <<>> /\ auditQueue' = Tail(auditQueue)
        /\ auditPending' = Append(auditPending, e) /\ auditor' \in {"select", "flush"}
        /\ UNCHANGED <<occurred, submitting, auditStop, draining, auditLog, accepted,
                       auditLost, expired>>
    BY <1>3 DEF Audit!Take
  <2>2. /\ e \in Events /\ auditQueue' \in Seq(Events) /\ NoTwice(auditQueue')
        /\ Held(auditQueue) = Held(auditQueue') \cup {e} /\ e \notin Held(auditQueue')
    BY <1>0, <2>1, HeldTail DEF AuditTypes, OnePlace
  <2> HIDE DEF e
  <2>3. e \notin Held(auditPending)
    BY <1>0, <2>2 DEF OnePlace
  <2>4. /\ auditPending' \in Seq(Events) /\ NoTwice(auditPending')
        /\ Held(auditPending') = Held(auditPending) \cup {e}
    BY <1>0, <2>1, <2>2, <2>3, HeldAppend DEF AuditTypes, OnePlace
  <2>5. ~draining /\ auditor' # "stopped"
    BY <1>0, <2>1 DEF Drained
  <2>6. AuditTypes'
    BY <1>0, <2>1, <2>2, <2>4 DEF AuditTypes
  <2>7. OnePlace'
    BY <1>0, <2>1, <2>2, <2>3, <2>4 DEF OnePlace
  <2>8. Traced' /\ Drained'
    BY <1>0, <2>1, <2>2, <2>4, <2>5 DEF Traced, Drained
  <2> QED
    BY <2>6, <2>7, <2>8 DEF AuditInv
<1>4. ASSUME Audit!Tick PROVE AuditInv'
  BY <1>0, <1>4 DEF Audit!Tick, AuditInv, AuditTypes, OnePlace, Traced, Drained
<1>5. ASSUME Audit!Shutdown PROVE AuditInv'
  <2>1. /\ auditor = "select" /\ auditStop /\ auditPending' = auditPending \o auditQueue
        /\ auditQueue' = <<>> /\ draining' = TRUE /\ auditor' = "flush"
        /\ UNCHANGED <<occurred, submitting, auditStop, auditLog, accepted, auditLost, expired>>
    BY <1>5 DEF Audit!Shutdown
  <2>2. /\ auditPending' \in Seq(Events) /\ NoTwice(auditPending')
        /\ Held(auditPending') = Held(auditPending) \cup Held(auditQueue)
    BY <1>0, <2>1, HeldConcat DEF AuditTypes, OnePlace
  <2>3. Held(auditQueue') = {} /\ NoTwice(auditQueue') /\ auditQueue' \in Seq(Events)
    BY <2>1, NoneHeld
  <2>4. AuditTypes'
    BY <1>0, <2>1, <2>2, <2>3 DEF AuditTypes
  <2>5. OnePlace'
    BY <1>0, <2>1, <2>2, <2>3 DEF OnePlace
  <2>6. Traced' /\ Drained'
    BY <1>0, <2>1, <2>2, <2>3 DEF Traced, Drained
  <2> QED
    BY <2>4, <2>5, <2>6 DEF AuditInv
<1>6. ASSUME Audit!Flush PROVE AuditInv'
  <2>1. /\ auditor = "flush"
        /\ UNCHANGED <<occurred, submitting, auditQueue, auditStop, draining, accepted, expired>>
    BY <1>6 DEF Audit!Flush
  <2>2. CASE auditPending = <<>>
    <3>1. /\ auditor' = IF draining THEN "stopped" ELSE "select"
          /\ UNCHANGED <<auditPending, auditLog, auditLost>>
      BY <1>6, <2>2 DEF Audit!Flush
    <3> QED
      BY <1>0, <2>1, <2>2, <3>1 DEF AuditInv, AuditTypes, OnePlace, Traced, Drained
  <2>3. CASE auditPending # <<>>
    <3> DEFINE e == Head(auditPending)
    <3>1. /\ auditor' = auditor /\ auditPending' = Tail(auditPending)
          /\ \/ auditLog' = [auditLog EXCEPT ![e] = @ + 1] /\ auditLost' = auditLost
             \/ auditLog' = auditLog /\ auditLost' = auditLost \cup {e}
      BY <1>6, <2>3 DEF Audit!Flush
    <3>2. /\ e \in Events /\ auditPending' \in Seq(Events) /\ NoTwice(auditPending')
          /\ Held(auditPending) = Held(auditPending') \cup {e} /\ e \notin Held(auditPending')
      BY <1>0, <2>3, <3>1, HeldTail DEF AuditTypes, OnePlace
    <3> HIDE DEF e
    <3>3. /\ e \in 1 .. occurred /\ auditLog[e] = 0 /\ e \notin Held(auditQueue)
          /\ e \notin submitting
      BY <1>0, <3>2 DEF AuditTypes, OnePlace
    <3>4. /\ auditLog' \in [Events -> 0 .. 1]
          /\ \A d \in Events : d # e => auditLog'[d] = auditLog[d]
          /\ auditLog'[e] = 1 \/ (e \in auditLost' /\ auditLog' = auditLog)
          /\ auditLost \subseteq auditLost'
      BY <1>0, <3>1, <3>2, <3>3 DEF AuditTypes
    <3>5. AuditTypes'
      BY <1>0, <2>1, <3>2, <3>3, <3>4 DEF AuditTypes
    <3>6. OnePlace'
      BY <1>0, <2>1, <3>2, <3>3, <3>4 DEF OnePlace
    <3>7. Traced'
      <4> SUFFICES ASSUME NEW d \in accepted
                   PROVE  \/ d \in Held(auditQueue) \/ d \in Held(auditPending')
                          \/ auditLog'[d] = 1 \/ d \in auditLost' \/ d < expired
        BY <2>1 DEF Traced
      <4>1. d \in Events
        BY <1>0, EventsAreNumbered DEF AuditTypes, Events
      <4> QED
        BY <1>0, <4>1, <3>2, <3>4 DEF Traced
    <3>8. Drained'
      BY <1>0, <2>1, <3>1 DEF Drained
    <3> QED
      BY <3>5, <3>6, <3>7, <3>8 DEF AuditInv
  <2> QED
    BY <2>2, <2>3
<1>7. ASSUME Audit!Cleanup PROVE AuditInv'
  <2>1. PICK cutoff \in expired + 1 .. occurred :
          /\ auditLog' = [e \in 1 .. NEvents |-> IF e < cutoff THEN 0 ELSE auditLog[e]]
          /\ expired' = cutoff
    BY <1>7 DEF Audit!Cleanup
  <2>2. UNCHANGED <<occurred, submitting, auditQueue, auditPending, auditor, auditStop,
                    draining, accepted, auditLost>>
    BY <1>7 DEF Audit!Cleanup
  <2>3. /\ occurred \in Nat /\ expired \in Nat /\ cutoff \in Nat /\ cutoff > expired
        /\ \A e \in accepted : e \in Events /\ e \in Nat
    BY <1>0, <2>1, EventsAreNumbered DEF AuditTypes, Events
  <2>4. /\ auditLog' \in [Events -> 0 .. 1]
        /\ \A e \in Events : auditLog'[e] = auditLog[e] \/ (auditLog'[e] = 0 /\ e < cutoff)
    BY <1>0, <2>1 DEF AuditTypes, Events
  <2>5. AuditTypes'
    BY <1>0, <2>1, <2>2, <2>3, <2>4 DEF AuditTypes
  <2>6. OnePlace' /\ Drained'
    BY <1>0, <2>2, <2>4 DEF OnePlace, Drained
  <2>7. Traced'
    BY <1>0, <2>1, <2>2, <2>3, <2>4 DEF Traced
  <2> QED
    BY <2>5, <2>6, <2>7 DEF AuditInv
<1>8. ASSUME Audit!Stop PROVE AuditInv'
  BY <1>0, <1>8 DEF Audit!Stop, AuditInv, AuditTypes, OnePlace, Traced, Drained
<1>9. ASSUME UNCHANGED auditVars PROVE AuditInv'
  BY <1>0, <1>9 DEF auditVars, AuditInv, AuditTypes, OnePlace, Traced, Drained
<1> QED
  BY <1>1, <1>2, <1>3, <1>4, <1>5, <1>6, <1>7, <1>8, <1>9 DEF Audit!Next

(* However handlers, the worker, cleanups and the stop interleave, a worker  *)
(* that has stopped has written once what the queue took before it was told  *)
(* to, but for failed inserts and expired rows (run, flush, shutdown).       *)
THEOREM AuditWrittenOnce ==
    Spec => [](service = "audit" => Audit!WrittenOnce)
<1>1. Init => AuditInv
  BY AuditInit DEF Init
<1>2. AuditInv /\ [Next]_allVars => AuditInv'
  <2>1. [Next]_allVars => [Audit!Next]_auditVars
    BY DEF Next, allVars, auditVars
  <2> QED
    BY <2>1, AuditNext
<1>3. AuditInv => (service = "audit" => Audit!WrittenOnce)
  <2> SUFFICES ASSUME AuditInv PROVE Audit!WrittenOnce
    OBVIOUS
  <2>1. \A e \in Events : auditLog[e] <= 1 /\ (auditLog[e] = 1 => auditLog[e] > 0)
    BY DEF AuditInv, AuditTypes
  <2>2. ASSUME auditor = "stopped", NEW e \in accepted \ auditLost
        PROVE  e \in Audit!Logged \/ e < expired
    <3>1. e \in Events
      BY EventsAreNumbered DEF AuditInv, AuditTypes, Events
    <3>2. e \notin Held(auditQueue) /\ e \notin Held(auditPending)
      BY <2>2, NoneHeld DEF AuditInv, Drained
    <3> QED
      BY <2>1, <3>1, <3>2 DEF AuditInv, Traced, Audit!Logged, Events
  <2> QED
    BY <2>1, <2>2 DEF Audit!WrittenOnce, Events
<1> QED
  BY <1>1, <1>2, <1>3, PTL DEF Spec

-----------------------------------------------------------------------------
-----------------------------------------------------------------------------
(* The pages of the audit log. *)
LEMMA RowsCount == \A S : Audit!Cardinality(S) = Cardinality(S)
BY DEF Audit!Cardinality, Cardinality

NewerIn(S, e) == {x \in S : x > e}

(* Of n rows every one has fewer than n newer ones, an older one more than  *)
(* a newer one, and some row has k, for each k below n.                     *)
LEMMA NewestFirst ==
    ASSUME NEW S, S \subseteq Nat, IsFiniteSet(S)
    PROVE  /\ Cardinality(S) \in Nat
           /\ \A e \in S : Cardinality(NewerIn(S, e)) \in 0 .. (Cardinality(S) - 1)
           /\ \A e, f \in S : e < f => Cardinality(NewerIn(S, f)) < Cardinality(NewerIn(S, e))
           /\ \A k \in 0 .. (Cardinality(S) - 1) :
                 \E e \in S : Cardinality(NewerIn(S, e)) = k
<1> DEFINE n == Cardinality(S)
           rank == [e \in S |-> Cardinality(NewerIn(S, e))]
<1>1. n \in Nat
  BY FS_CardinalityType
<1>2. ASSUME NEW e \in S
      PROVE  IsFiniteSet(NewerIn(S, e)) /\ Cardinality(NewerIn(S, e)) \in 0 .. (n - 1)
  <2>1. NewerIn(S, e) \in SUBSET (S \ {e})
    BY DEF NewerIn
  <2>2. IsFiniteSet(S \ {e}) /\ Cardinality(S \ {e}) = n - 1
    BY FS_RemoveElement
  <2> HIDE DEF n
  <2>3. IsFiniteSet(NewerIn(S, e)) /\ Cardinality(NewerIn(S, e)) <= Cardinality(S \ {e})
    BY <2>1, <2>2, FS_Subset
  <2>4. Cardinality(NewerIn(S, e)) \in Nat
    BY <2>3, FS_CardinalityType
  <2> QED
    BY <1>1, <2>2, <2>3, <2>4
<1>3. ASSUME NEW e \in S, NEW f \in S, e < f
      PROVE  Cardinality(NewerIn(S, f)) < Cardinality(NewerIn(S, e))
  <2> HIDE DEF n, rank
  <2>0. e \in Nat /\ f \in Nat /\ e < f /\ ~(f > f)
    BY <1>3
  <2>1. NewerIn(S, f) \in SUBSET NewerIn(S, e) /\ f \in NewerIn(S, e) /\ f \notin NewerIn(S, f)
    <3>1. ASSUME NEW x \in NewerIn(S, f) PROVE x \in NewerIn(S, e)
      <4>1. x \in S /\ x \in Nat /\ x > f
        BY <3>1 DEF NewerIn
      <4>2. x > e
        BY <2>0, <4>1
      <4> QED
        BY <4>1, <4>2 DEF NewerIn
    <3> QED
      BY <2>0, <3>1 DEF NewerIn
  <2> HIDE DEF n
  <2>2. /\ IsFiniteSet(NewerIn(S, e)) /\ Cardinality(NewerIn(S, e)) \in Nat
        /\ Cardinality(NewerIn(S, f)) \in Nat
    BY <1>1, <1>2
  <2>3. /\ Cardinality(NewerIn(S, f)) <= Cardinality(NewerIn(S, e))
        /\ Cardinality(NewerIn(S, e)) = Cardinality(NewerIn(S, f)) => NewerIn(S, e) = NewerIn(S, f)
    BY <2>1, <2>2, FS_Subset
  <2> QED
    BY <2>1, <2>2, <2>3
<1>4. rank \in [S -> 0 .. (n - 1)]
  BY <1>2
<1>5. ASSUME NEW e \in S, NEW f \in S, e # f PROVE rank[e] # rank[f]
  <2>1. rank[e] = Cardinality(NewerIn(S, e)) /\ rank[f] = Cardinality(NewerIn(S, f))
    OBVIOUS
  <2>2. rank[e] \in 0 .. (n - 1) /\ rank[f] \in 0 .. (n - 1)
    BY <1>4
  <2> HIDE DEF rank, n
  <2>3. e < f \/ f < e
    BY <1>5
  <2>4. rank[f] < rank[e] \/ rank[e] < rank[f]
    BY <1>3, <2>1, <2>3
  <2> QED
    BY <1>1, <2>2, <2>4
<1>6. rank \in Injection(S, 0 .. (n - 1))
  BY <1>4, <1>5 DEF Injection, IsInjective
<1>7. IsFiniteSet(0 .. (n - 1)) /\ Cardinality(0 .. (n - 1)) = n
  <2> HIDE DEF n
  <2>1. 0 \in Int /\ n - 1 \in Int
    BY <1>1
  <2>2. IsFiniteSet(0 .. (n - 1)) /\ Cardinality(0 .. (n - 1)) = IF 0 > n - 1 THEN 0 ELSE n - 1 - 0 + 1
    BY <2>1, FS_Interval
  <2> QED
    BY <1>1, <2>2
<1>8. rank \in Surjection(S, 0 .. (n - 1))
  <2> HIDE DEF rank
  <2> QED
    BY <1>6, <1>7, FS_Injection
<1>9. \A k \in 0 .. (n - 1) : \E e \in S : rank[e] = k
  <2> HIDE DEF rank, n
  <2> QED
    BY <1>8 DEF Surjection
<1> QED
  BY <1>1, <1>2, <1>3, <1>9

(* A row at every place below the number of rows, and every row at its own. *)
LEMMA RowsInOrder ==
    ASSUME NEvents \in Nat
    PROVE  /\ Audit!Cardinality(Audit!Logged) \in 0 .. NEvents
           /\ \A k \in 0 .. (Audit!Cardinality(Audit!Logged) - 1) : Audit!Row(k) \in Audit!Logged
           /\ \A e \in Audit!Logged : \E k \in 0 .. (Audit!Cardinality(Audit!Logged) - 1) :
                 Audit!Row(k) = e
           /\ \A k, l \in 0 .. (Audit!Cardinality(Audit!Logged) - 1) :
                 k < l => Audit!Row(k) > Audit!Row(l)
<1> DEFINE L == Audit!Logged
           n == Cardinality(L)
<1>1. L \subseteq 1 .. NEvents /\ L \subseteq Nat
  BY DEF Audit!Logged
<1>2. IsFiniteSet(L) /\ n \in 0 .. NEvents
  <2> HIDE DEF L
  <2>1. IsFiniteSet(1 .. NEvents) /\ Cardinality(1 .. NEvents) = NEvents
    <3>1. 1 \in Int /\ NEvents \in Int
      OBVIOUS
    <3>2. /\ IsFiniteSet(1 .. NEvents)
          /\ Cardinality(1 .. NEvents) = IF 1 > NEvents THEN 0 ELSE NEvents - 1 + 1
      BY <3>1, FS_Interval
    <3> QED
      BY <3>2
  <2>2. IsFiniteSet(L) /\ Cardinality(L) <= Cardinality(1 .. NEvents)
    BY <1>1, <2>1, FS_Subset
  <2>3. Cardinality(L) \in Nat
    BY <2>2, FS_CardinalityType
  <2> QED
    BY <2>1, <2>2, <2>3
<1>3. \A e : Audit!Newer(e) = Cardinality(NewerIn(L, e))
  BY RowsCount DEF Audit!Newer, NewerIn
<1>4. Audit!Cardinality(L) = n
  BY RowsCount
<1> HIDE DEF L
<1>5. /\ \A e \in L : Cardinality(NewerIn(L, e)) \in 0 .. (n - 1)
      /\ \A e, f \in L : e < f => Cardinality(NewerIn(L, f)) < Cardinality(NewerIn(L, e))
      /\ \A k \in 0 .. (n - 1) : \E e \in L : Cardinality(NewerIn(L, e)) = k
  BY <1>1, <1>2, NewestFirst
<1> HIDE DEF n
<1>6. ASSUME NEW k \in 0 .. (n - 1) PROVE Audit!Row(k) \in L /\ Cardinality(NewerIn(L, Audit!Row(k))) = k
  <2>1. Audit!Row(k) = CHOOSE e \in L : Cardinality(NewerIn(L, e)) = k
    BY <1>3 DEF Audit!Row, L
  <2> QED
    BY <1>5, <2>1
<1>7. ASSUME NEW k \in 0 .. (n - 1), NEW l \in 0 .. (n - 1), k < l PROVE Audit!Row(k) > Audit!Row(l)
  <2>1. PICK e \in L : e = Audit!Row(k) /\ Cardinality(NewerIn(L, e)) = k
    BY <1>6
  <2>2. PICK f \in L : f = Audit!Row(l) /\ Cardinality(NewerIn(L, f)) = l
    BY <1>6
  <2>3. ~ (e < f) /\ e # f
    BY <1>2, <1>5, <1>7, <2>1, <2>2
  <2>4. e \in Nat /\ f \in Nat
    BY <1>1
  <2> QED
    BY <2>1, <2>2, <2>3, <2>4
<1>8. ASSUME NEW e \in L PROVE \E k \in 0 .. (n - 1) : Audit!Row(k) = e
  <2>1. PICK k \in 0 .. (n - 1) : Cardinality(NewerIn(L, e)) = k
    BY <1>5
  <2>2. PICK f \in L : f = Audit!Row(k) /\ Cardinality(NewerIn(L, f)) = k
    BY <1>6
  <2>3. ~ (e < f) /\ ~ (f < e)
    BY <1>2, <1>5, <2>1, <2>2
  <2>4. e \in Nat /\ f \in Nat
    BY <1>1
  <2> QED
    BY <2>2, <2>3, <2>4
<1> QED
  BY <1>2, <1>4, <1>6, <1>7, <1>8 DEF L

Place(x, n) == (x[1] - 1) * n + x[2] - 1

(* Pages of one row or of two: each place shows the row of its rank.        *)
LEMMA PlacesOfPages ==
    ASSUME NEvents \in Nat, NEW n \in 1 .. 2
    PROVE  LET N == Audit!Cardinality(Audit!Logged) IN
           /\ \A x \in Audit!Shown(n) :
                 Place(x, n) \in 0 .. (N - 1) /\ Audit!At(x, n) = Audit!Row(Place(x, n))
           /\ \A k \in 0 .. (N - 1) : \E x \in Audit!Shown(n) : Place(x, n) = k
           /\ \A x, y \in Audit!Shown(n) :
                 x[1] < y[1] \/ (x[1] = y[1] /\ x[2] < y[2]) => Place(x, n) < Place(y, n)
<1> DEFINE N == Audit!Cardinality(Audit!Logged)
<1>1. N \in 0 .. NEvents
  BY RowsInOrder
<1> HIDE DEF N
<1>2. ASSUME NEW p \in 1 .. NEvents
      PROVE  Audit!List(p, n) = [i \in {j \in 1 .. n : (p - 1) * n + j <= N} |->
                                    Audit!Row((p - 1) * n + i - 1)]
  <2>1. (IF n <= 0 THEN 1 ELSE n) = n /\ (IF p <= 0 THEN 1 ELSE p) = p
    OBVIOUS
  <2> QED
    BY <2>1 DEF Audit!List, N
<1>3. Audit!Shown(n) = {x \in (1 .. NEvents) \X (1 .. n) : (x[1] - 1) * n + x[2] <= N}
  <2>1. ASSUME NEW x \in (1 .. NEvents) \X (1 .. n)
        PROVE  x[2] \in DOMAIN Audit!List(x[1], n) <=> (x[1] - 1) * n + x[2] <= N
    <3>1. x[1] \in 1 .. NEvents /\ x[2] \in 1 .. n
      OBVIOUS
    <3>2. DOMAIN Audit!List(x[1], n) = {j \in 1 .. n : (x[1] - 1) * n + j <= N}
      BY <1>2, <3>1
    <3> QED
      BY <3>1, <3>2
  <2> QED
    BY <2>1 DEF Audit!Shown
<1>4. ASSUME NEW x \in Audit!Shown(n)
      PROVE  /\ x[1] \in 1 .. NEvents /\ x[2] \in 1 .. n /\ Place(x, n) \in 0 .. (N - 1)
             /\ Audit!At(x, n) = Audit!Row(Place(x, n))
  <2>1. x[1] \in 1 .. NEvents /\ x[2] \in 1 .. n /\ (x[1] - 1) * n + x[2] <= N
    BY <1>3
  <2>2. Audit!At(x, n) = Audit!Row((x[1] - 1) * n + x[2] - 1)
    BY <1>2, <2>1 DEF Audit!At
  <2>3. n = 1 \/ n = 2
    OBVIOUS
  <2>4. (x[1] - 1) * n + x[2] - 1 \in 0 .. (N - 1)
    <3>1. CASE n = 1
      BY <1>1, <2>1, <3>1
    <3>2. CASE n = 2
      BY <1>1, <2>1, <3>2
    <3> QED
      BY <2>3, <3>1, <3>2
  <2> QED
    BY <2>1, <2>2, <2>4 DEF Place
<1>5. ASSUME NEW k \in 0 .. (N - 1) PROVE \E x \in Audit!Shown(n) : Place(x, n) = k
  <2>1. \E p \in 1 .. NEvents, i \in 1 .. n : (p - 1) * n + i - 1 = k
    <3>1. CASE n = 1
      BY <1>1, <3>1
    <3>2. CASE n = 2
      <4>1. PICK m \in Nat : k = 2 * m \/ k = 2 * m + 1
        <5>1. k \in Nat /\ k \div 2 \in Nat /\ (k = 2 * (k \div 2) \/ k = 2 * (k \div 2) + 1)
          BY <1>1
        <5> QED
          BY <5>1
      <4>2. k \in Nat /\ m <= k /\ k < N /\ N <= NEvents
        BY <1>1, <4>1
      <4>3. m + 1 \in 1 .. NEvents /\ (m + 1) - 1 = m
        BY <1>1, <4>1, <4>2
      <4>4. 1 \in 1 .. n /\ 2 \in 1 .. n
        BY <3>2
      <4>5. CASE k = 2 * m
        <5>1. ((m + 1) - 1) * n + 1 - 1 = k
          BY <3>2, <4>3, <4>5
        <5> QED
          BY <4>3, <4>4, <5>1
      <4>6. CASE k = 2 * m + 1
        <5>1. ((m + 1) - 1) * n + 2 - 1 = k
          BY <3>2, <4>3, <4>6
        <5> QED
          BY <4>3, <4>4, <5>1
      <4> QED
        BY <4>1, <4>5, <4>6
    <3> QED
      BY <3>1, <3>2
  <2>2. PICK p \in 1 .. NEvents : \E i \in 1 .. n : (p - 1) * n + i - 1 = k
    BY <2>1
  <2>3. PICK i \in 1 .. n : (p - 1) * n + i - 1 = k
    BY <2>2
  <2>4. (p - 1) * n + i <= N
    <3>1. CASE n = 1
      BY <1>1, <2>3, <3>1
    <3>2. CASE n = 2
      BY <1>1, <2>3, <3>2
    <3> QED
      BY <3>1, <3>2
  <2>5. <<p, i>> \in Audit!Shown(n)
    BY <1>3, <2>4
  <2> QED
    BY <2>3, <2>5 DEF Place
<1>6. ASSUME NEW x \in Audit!Shown(n), NEW y \in Audit!Shown(n),
             x[1] < y[1] \/ (x[1] = y[1] /\ x[2] < y[2])
      PROVE  Place(x, n) < Place(y, n)
  <2>1. /\ x[1] \in 1 .. NEvents /\ x[2] \in 1 .. n
        /\ y[1] \in 1 .. NEvents /\ y[2] \in 1 .. n
    BY <1>4
  <2>2. CASE n = 1
    BY <1>6, <2>1, <2>2 DEF Place
  <2>3. CASE n = 2
    BY <1>6, <2>1, <2>3 DEF Place
  <2> QED
    BY <2>2, <2>3
<1> QED
  BY <1>4, <1>5, <1>6 DEF N

LEMMA PagesShowTheLog ==
    ASSUME NEvents \in Nat, NEW n \in 1 .. 2
    PROVE  /\ {Audit!At(x, n) : x \in Audit!Shown(n)} = Audit!Logged
           /\ \A x, y \in Audit!Shown(n) :
                 x[1] < y[1] \/ (x[1] = y[1] /\ x[2] < y[2])
                    => Audit!At(x, n) > Audit!At(y, n)
<1> DEFINE N == Audit!Cardinality(Audit!Logged)
<1>1. /\ \A x \in Audit!Shown(n) :
            Place(x, n) \in 0 .. (N - 1) /\ Audit!At(x, n) = Audit!Row(Place(x, n))
      /\ \A k \in 0 .. (N - 1) : \E x \in Audit!Shown(n) : Place(x, n) = k
      /\ \A x, y \in Audit!Shown(n) :
            x[1] < y[1] \/ (x[1] = y[1] /\ x[2] < y[2]) => Place(x, n) < Place(y, n)
  BY PlacesOfPages
<1>2. /\ \A k \in 0 .. (N - 1) : Audit!Row(k) \in Audit!Logged
      /\ \A e \in Audit!Logged : \E k \in 0 .. (N - 1) : Audit!Row(k) = e
      /\ \A k, l \in 0 .. (N - 1) : k < l => Audit!Row(k) > Audit!Row(l)
  BY RowsInOrder
<1> HIDE DEF N
<1>3. \A x \in Audit!Shown(n) : Audit!At(x, n) \in Audit!Logged
  BY <1>1, <1>2
<1>4. ASSUME NEW e \in Audit!Logged PROVE \E x \in Audit!Shown(n) : Audit!At(x, n) = e
  <2>1. PICK k \in 0 .. (N - 1) : Audit!Row(k) = e
    BY <1>2
  <2>2. PICK x \in Audit!Shown(n) : Place(x, n) = k
    BY <1>1
  <2> QED
    BY <1>1, <2>1, <2>2
<1> QED
  BY <1>1, <1>2, <1>3, <1>4

(* At every moment the pages of the list, of one row or of two, show every  *)
(* row of the log once and the newest first, and the log itself is complete *)
(* (AuditWrittenOnce).                                                      *)
THEOREM AuditShowsAll ==
    Spec => []AuditIsComplete
<1>1. Spec => [](service = "audit" => Audit!WrittenOnce)
  BY AuditWrittenOnce
<1>2. (service = "audit" => Audit!WrittenOnce) => AuditIsComplete
  BY PagesShowTheLog, EventsAreNumbered DEF AuditIsComplete, Audit!AuditIsComplete
<1> QED
  BY <1>1, <1>2, PTL

===============================================================================
