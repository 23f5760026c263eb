------------------------ MODULE ConnLifecycle_proofs ------------------------
(***************************************************************************)
(* Proofs about ConnLifecycle for every number of operations, waiters,      *)
(* Connection objects and loops, with nothing serialising the operations.   *)
(***************************************************************************)
EXTENDS ConnLifecycle, FiniteSetTheorems, TLAPS

(* Every goroutine that is past its lookup holds a Connection.              *)
WithConn == {"check", "wake", "stop", "cancel", "join", "setConfig", "start"}

HoldsConn ==
    /\ \A l \in Loops : Live(l) => loop[l].conn \in Conns
    /\ \A a \in Admins :
         admin[a].pc \in WithConn => admin[a].conn \in Conns
    /\ \A w \in Waiters : waiter[w].pc # "idle" => waiter[w].conn \in Conns

(* The converse of LoopOwnership: the loop a Connection points to is alive, *)
(* is its own and has not been told to stop.                                *)
PointsToOwnLoop ==
    \A o \in Conns :
        obj[o].loop # NoLoop =>
            LET l == obj[o].loop IN
            Live(l) /\ loop[l].conn = o /\ ~loop[l].cancelled

(* Only an operation between detaching a loop and joining it holds one, and *)
(* no Connection points to that loop any more.                              *)
HoldsLoopToJoin ==
    \A a \in Admins :
        admin[a].loop # NoLoop <=> admin[a].pc \in {"cancel", "join"}

Detached ==
    \A a \in Admins, o \in Conns :
        admin[a].loop # NoLoop => obj[o].loop # admin[a].loop

(* The part of the invariant that relates Connections and loops.            *)
Linked ==
    /\ \A l \in Loops : Live(l) => loop[l].conn \in Conns
    /\ LoopOwnership /\ PointsToOwnLoop

(* The part about operations and waiters.                                   *)
Held ==
    /\ \A a \in Admins :
         admin[a].pc \in WithConn => admin[a].conn \in Conns
    /\ \A w \in Waiters : waiter[w].pc # "idle" => waiter[w].conn \in Conns
    /\ HoldsLoopToJoin /\ Detached /\ JoinsCancelledLoop

OwnInv == TypeOK /\ Linked /\ Held

(* A session is open only between its dial and its close, and after         *)
(* Shutdown a loop is at most started and on its way out.                   *)
ShutdownInv ==
    /\ \A l \in Loops : loop[l].open => loop[l].pc \in {"dialed", "wait", "close"}
    /\ base = "down" => \A l \in Loops : loop[l].pc \in {"idle", "top", "exit"}

----------------------------------------------------------------------------

LEMMA IdleRecords ==
    /\ newConnection \in Connection
    /\ idleLoop \in LoopRecord
    /\ idleAdmin \in AdminRecord
    /\ idleWaiter \in WaiterRecord
<1>1. (CHOOSE v \in Versions : TRUE) \in Versions
  BY ConstantsAssumption
<1> QED
  BY <1>1, ConstantsAssumption
  DEF newConnection, Connection, Config, ConnState, idleLoop, LoopRecord,
      LoopPC, idleAdmin, AdminRecord, AdminPC, Op, idleWaiter, WaiterRecord

(* Assigning fields of a record keeps it in its type.                       *)
LEMMA ConfigFields ==
    \A c \in Config, e \in BOOLEAN :
        c.enabled \in BOOLEAN /\ [c EXCEPT !.enabled = e] \in Config
BY DEF Config

LEMMA WaiterFields ==
    \A r \in WaiterRecord, b \in BOOLEAN,
       p \in {"idle", "snapshot", "demand", "blocked"} :
        /\ [r EXCEPT !.notified = b] \in WaiterRecord
        /\ [r EXCEPT !.pc = p] \in WaiterRecord
        /\ [r EXCEPT !.notified = b, !.pc = p] \in WaiterRecord
BY DEF WaiterRecord

LEMMA ZeroFailures == 0 \in 0..FailureThreshold
BY ConstantsAssumption

LEMMA Published ==
    ASSUME waiter \in [Waiters -> WaiterRecord], NEW o, publish(o)
    PROVE  waiter' \in [Waiters -> WaiterRecord]
<1>1. \A w \in Waiters :
        [waiter[w] EXCEPT !.notified = TRUE] \in WaiterRecord
  BY WaiterFields
<1> QED
  BY <1>1 DEF publish

LEMMA Assigned ==
    ASSUME obj \in [Conns -> Connection], NEW o \in Conns,
           NEW fields \in Connection, Assign(o, fields)
    PROVE  obj' \in [Conns -> Connection]
BY DEF Assign

LEMMA InitOwn == Init => OwnInv /\ ShutdownInv
<1>1. Init => TypeOK
  BY IdleRecords DEF Init, TypeOK
<1>2. Init => Linked /\ ShutdownInv
  BY DEF Init, Linked, LoopOwnership, PointsToOwnLoop, ShutdownInv, Live,
         newConnection, idleLoop, idleAdmin, idleWaiter
<1>3. Init => Held
  BY DEF Init, Held, HoldsLoopToJoin, Detached, JoinsCancelledLoop, WithConn,
         idleAdmin, idleWaiter
<1> QED
  BY <1>1, <1>2, <1>3 DEF OwnInv

(* One lemma per group of actions: the type invariant.                      *)
LEMMA TypeBegin ==
    ASSUME TypeOK, NEW a \in Admins, BeginOperation(a)
    PROVE  TypeOK'
<1> USE IdleRecords
<1>1. ASSUME NEW op \in Op, NEW pc \in AdminPC, NEW cfg \in Config,
             Begin(a, op, pc, cfg)
      PROVE  TypeOK'
  BY <1>1 DEF TypeOK, Begin, AdminRecord, idleAdmin
<1>2. CASE RestoreConnections(a)
  <2>1. row.cfg \in Config
    BY DEF TypeOK, Row
  <2>2. [idleAdmin EXCEPT !.pc = "rebuild", !.op = "restore", !.cfg = row.cfg]
          \in AdminRecord
    BY <2>1 DEF AdminRecord, AdminPC, Op
  <2> QED
    BY <1>2, <2>2 DEF TypeOK, RestoreConnections
<1>3. idleAdmin.cfg \in Config
  BY DEF AdminRecord
<1> QED
  BY <1>1, <1>2, <1>3
  DEF BeginOperation, BeginCreate, BeginUpdate, BeginDelete, BeginSetEnabled,
      BeginReconnect, BeginRetry, AdminPC, Op

LEMMA TypeAdmin ==
    ASSUME TypeOK, HoldsConn, NEW a \in Admins, AdminStep(a)
    PROVE  TypeOK'
<1> USE IdleRecords DEF TypeOK, AdminRecord, AdminPC, Goto, Return, WithConn
<1>1. CASE StoreCreate(a)
  BY <1>1 DEF StoreCreate, Row
<1>2. CASE StoreUpdate(a)
  BY <1>2 DEF StoreUpdate, Row
<1>3. CASE StoreSetEnabled(a)
  <2>1. row.cfg \in Config /\ admin[a].cfg.enabled \in BOOLEAN
    BY ConfigFields DEF Row
  <2>2. [row EXCEPT !.cfg.enabled = admin[a].cfg.enabled] \in Row
    BY <2>1, ConfigFields DEF Row
  <2>3. UNCHANGED <<conns, obj, loop, waiter, base, booted>>
    BY <1>3 DEF StoreSetEnabled
  <2>4. row' \in Row
    BY <1>3, <2>2 DEF StoreSetEnabled
  <2>5. admin' \in [Admins -> AdminRecord]
    BY <1>3 DEF StoreSetEnabled
  <2> QED
    BY <2>3, <2>4, <2>5
<1>4. CASE StoreDelete(a)
  BY <1>4 DEF StoreDelete, Row
<1>5. CASE LookupSetEnabled(a)
  <2>1. row.cfg \in Config /\ (conns # NoConn => obj[conns].cfg \in Config)
    BY DEF Row, Connection
  <2>2. \A c \in Config :
          [c EXCEPT !.enabled = admin[a].op = "enable"] \in Config
    BY ConfigFields
  <2>3. UNCHANGED <<row, conns, obj, loop, waiter, base, booted>>
    BY <1>5 DEF LookupSetEnabled
  <2>4. admin' \in [Admins -> AdminRecord]
    BY <1>5, <2>1, <2>2 DEF LookupSetEnabled
  <2> QED
    BY <2>3, <2>4
<1>6. CASE LookupReconnect(a)
  <2>1. row.cfg \in Config /\ (conns # NoConn => obj[conns].cfg \in Config)
    BY DEF Row, Connection
  <2>2. [row.cfg EXCEPT !.enabled = TRUE] \in Config
    BY <2>1, ConfigFields
  <2>3. UNCHANGED <<row, conns, obj, loop, waiter, base, booted>>
    BY <1>6 DEF LookupReconnect
  <2>4. admin' \in [Admins -> AdminRecord]
    BY <1>6, <2>1, <2>2 DEF LookupReconnect
  <2> QED
    BY <2>3, <2>4
<1>7. CASE CheckReconnect(a)
  BY <1>7 DEF CheckReconnect
<1>8. CASE LookupRetry(a)
  BY <1>8 DEF LookupRetry
<1>9. CASE SignalWake(a)
  BY <1>9 DEF SignalWake, Connection
<1>10. CASE RebuildLookup(a)
  <2>1. UNCHANGED <<row, loop, waiter, base, booted>>
    BY <1>10 DEF RebuildLookup
  <2>2. conns' \in Conns \cup {NoConn} /\ obj' \in [Conns -> Connection]
    BY <1>10 DEF RebuildLookup
  <2>3. admin' \in [Admins -> AdminRecord]
    BY <1>10 DEF RebuildLookup
  <2> QED
    BY <2>1, <2>2, <2>3
<1>11. CASE RemoveLookup(a)
  BY <1>11 DEF RemoveLookup
<1>12. CASE StopLoop(a)
  <2> DEFINE o == admin[a].conn
  <2>1. o \in Conns
    BY <1>12 DEF StopLoop, HoldsConn
  <2>2. CASE obj[o].loop = NoLoop
    BY <1>12, <2>2 DEF StopLoop, AfterStop
  <2>3. CASE obj[o].loop # NoLoop
    <3>1. obj' = [obj EXCEPT ![o] = [obj[o] EXCEPT !.loop = NoLoop, !.retryAt = FALSE]]
      BY <1>12, <2>3 DEF StopLoop, Assign
    <3>2. obj' \in [Conns -> Connection]
      BY <2>1, <3>1, ZenonT(40) DEF Connection
    <3>3. waiter' \in [Waiters -> WaiterRecord]
      BY <1>12, <2>3, Published DEF StopLoop
    <3>4. obj[o].loop \in Loops
      BY <2>1, <2>3 DEF Connection
    <3>5. admin' \in [Admins -> AdminRecord]
      BY <1>12, <2>3, <3>4 DEF StopLoop
    <3> QED
      BY <1>12, <3>2, <3>3, <3>5 DEF StopLoop
  <2> QED
    BY <2>2, <2>3
<1>17. CASE CancelLoop(a)
  <2>1. loop' \in [Loops -> LoopRecord]
    BY <1>17 DEF CancelLoop, LoopRecord
  <2> QED
    BY <1>17, <2>1 DEF CancelLoop
<1>13. CASE JoinLoop(a)
  BY <1>13 DEF JoinLoop, AfterStop
<1>14. CASE SetConfig(a)
  BY <1>14, ZenonT(40) DEF SetConfig, Connection
<1>15. CASE StartLoop(a)
  <2> DEFINE o == admin[a].conn
  <2>1. o \in Conns
    BY <1>15 DEF StartLoop, HoldsConn
  <2>2. CASE obj[o].loop # NoLoop
    BY <1>15, <2>2 DEF StartLoop
  <2>3. CASE obj[o].loop = NoLoop
    <3>1. PICK l \in Loops :
            /\ Assign(o, [obj[o] EXCEPT
                            !.loop = l, !.state = "connecting", !.failures = 0,
                            !.retryAt = FALSE, !.cooling = FALSE])
            /\ loop' = [loop EXCEPT ![l] =
                          [idleLoop EXCEPT !.pc = "top", !.conn = o]]
      BY <1>15, <2>3 DEF StartLoop
    <3>2. [obj[o] EXCEPT !.loop = l, !.state = "connecting", !.failures = 0,
                         !.retryAt = FALSE, !.cooling = FALSE] \in Connection
      BY <2>1, ZeroFailures DEF Connection, ConnState
    <3>3. obj' \in [Conns -> Connection]
      BY <2>1, <3>1, <3>2, Assigned
    <3>4. loop' \in [Loops -> LoopRecord]
      <4>1. [idleLoop EXCEPT !.pc = "top", !.conn = o] \in LoopRecord
        BY <2>1, IdleRecords DEF LoopRecord, LoopPC
      <4> QED
        BY <3>1, <4>1
    <3>5. waiter' \in [Waiters -> WaiterRecord]
      BY <1>15, <2>3, Published DEF StartLoop
    <3> QED
      BY <1>15, <3>3, <3>4, <3>5 DEF StartLoop
  <2> QED
    BY <2>2, <2>3
<1>16. CASE SetUnavailable(a)
  <2> DEFINE o == admin[a].conn
  <2>1. o \in Conns
    BY <1>16 DEF SetUnavailable, HoldsConn
  <2>2. [obj[o] EXCEPT !.state = "unavailable", !.retryAt = FALSE] \in Connection
    BY <2>1 DEF Connection, ConnState
  <2>3. obj' \in [Conns -> Connection]
    BY <1>16, <2>1, <2>2, Assigned DEF SetUnavailable
  <2>4. waiter' \in [Waiters -> WaiterRecord]
    BY <1>16, Published DEF SetUnavailable
  <2> QED
    BY <1>16, <2>3, <2>4 DEF SetUnavailable
<1> QED
  BY <1>1, <1>2, <1>3, <1>4, <1>5, <1>6, <1>7, <1>8, <1>9, <1>10, <1>11,
     <1>12, <1>13, <1>14, <1>15, <1>16, <1>17 DEF AdminStep

(* A loop step assigns its own slot and fields of its own Connection.       *)
LEMMA TypeLoop ==
    ASSUME TypeOK, HoldsConn, NEW l \in Loops, LoopStep(l) \/ SessionLost(l)
    PROVE  TypeOK'
<1> DEFINE o == loop[l].conn
<1> USE DEF TypeOK
<1>1. loop[l].pc # "idle" => o \in Conns /\ obj[o] \in Connection
  BY DEF HoldsConn, Live
<1>2. ASSUME loop' \in [Loops -> LoopRecord], obj' \in [Conns -> Connection],
             waiter' \in [Waiters -> WaiterRecord],
             UNCHANGED <<row, conns, admin, base, booted>>
      PROVE  TypeOK'
  BY <1>2
<1> USE DEF LoopGoto, LoopPC, LoopRecord
<1>5. CASE BeginConnecting(l)
  <2>1. o \in Conns /\ obj[o] \in Connection
    BY <1>1, <1>5 DEF BeginConnecting
  <2>2. [obj[o] EXCEPT !.state = "connecting", !.retryAt = FALSE] \in Connection
    BY <2>1 DEF Connection, ConnState
  <2>3. obj[o].cfg.ver \in Versions
    BY <2>1 DEF Connection, Config
  <2>4. loop' \in [Loops -> LoopRecord]
    <3> DEFINE v == obj[o].cfg.ver
    <3>1. loop' = [loop EXCEPT ![l].pc = "dial", ![l].ver = v]
      BY <1>5 DEF BeginConnecting
    <3>2. v \in Versions
      BY <2>3
    <3> HIDE DEF v
    <3>3. loop[l] \in LoopRecord /\ loop \in [Loops -> LoopRecord]
      OBVIOUS
    <3>4. [loop[l] EXCEPT !.pc = "dial", !.ver = v] \in LoopRecord
      BY <3>2, <3>3
    <3>5. loop' = [loop EXCEPT ![l] = [loop[l] EXCEPT !.pc = "dial", !.ver = v]]
      BY <3>1, <3>3
    <3> QED
      BY <3>3, <3>4, <3>5
  <2> QED
    BY <1>2, <1>5, <2>1, <2>2, <2>4, Published, Assigned DEF BeginConnecting
<1>6. CASE Dial(l)
  BY <1>2, <1>6 DEF Dial
<1>7. CASE DiscardSession(l)
  BY <1>2, <1>7, ZenonT(40) DEF DiscardSession
<1>8. CASE Succeed(l)
  <2>1. o \in Conns /\ obj[o] \in Connection
    BY <1>1, <1>8 DEF Succeed
  <2>2. [obj[o] EXCEPT !.state = "available", !.failures = 0, !.retryAt = FALSE,
                       !.cooling = FALSE] \in Connection
    BY <2>1, ZeroFailures DEF Connection, ConnState
  <2> QED
    BY <1>2, <1>8, <2>1, <2>2, Published, Assigned DEF Succeed
<1>9. CASE SessionLost(l) \/ WaitCancelled(l) \/ BackoffCancelled(l)
            \/ LoopReturns(l)
  BY <1>2, <1>9
  DEF SessionLost, WaitCancelled, BackoffCancelled, LoopReturns
<1>10. CASE CloseSession(l)
  BY <1>2, <1>10, ZenonT(40) DEF CloseSession
<1>11. CASE RecordFailure(l)
  <2>1. o \in Conns /\ obj[o] \in Connection
    BY <1>1, <1>11 DEF RecordFailure
  <2>2. CASE Cancelled(l)
    BY <1>2, <1>11, <2>2 DEF RecordFailure
  <2>3. CASE ~Cancelled(l)
    <3> DEFINE s == obj[o].failures + 1 >= FailureThreshold
               n == IF s THEN FailureThreshold ELSE obj[o].failures + 1
               st == IF s THEN "suspended" ELSE "unavailable"
    <3>1. obj[o].failures \in Nat /\ FailureThreshold \in Nat
      BY <2>1, ConstantsAssumption DEF Connection
    <3>2. n \in 0..FailureThreshold /\ st \in ConnState
      BY <3>1 DEF ConnState
    <3>3. [obj[o] EXCEPT !.failures = n, !.state = st, !.retryAt = FALSE]
            \in Connection
      BY <2>1, <3>2 DEF Connection
    <3>4. Assign(o, [obj[o] EXCEPT !.failures = n, !.state = st,
                                   !.retryAt = FALSE])
      BY <1>11, <2>3 DEF RecordFailure
    <3> HIDE DEF s, n, st
    <3> QED
      BY <1>2, <1>11, <2>1, <2>3, <3>3, <3>4, Published, Assigned
      DEF RecordFailure
  <2> QED
    BY <2>2, <2>3
<1>12. CASE ScheduleRetry(l)
  <2>1. o \in Conns /\ obj[o] \in Connection
    BY <1>1, <1>12 DEF ScheduleRetry
  <2>2. [obj[o] EXCEPT !.retryAt = TRUE] \in Connection
    BY <2>1 DEF Connection
  <2> QED
    BY <1>2, <1>12, <2>1, <2>2, Published, Assigned DEF ScheduleRetry
<1>13. CASE BackoffEnds(l)
  <2>1. o \in Conns /\ obj[o] \in Connection
    BY <1>1, <1>13 DEF BackoffEnds
  <2>2. PICK woken \in {obj[o].wake, FALSE} :
          Assign(o, [obj[o] EXCEPT !.retryAt = FALSE,
                                   !.wake = IF woken THEN FALSE ELSE @])
    BY <1>13 DEF BackoffEnds
  <2>3. [obj[o] EXCEPT !.retryAt = FALSE, !.wake = IF woken THEN FALSE ELSE @]
          \in Connection
    BY <2>1 DEF Connection
  <2>4. waiter' \in [Waiters -> WaiterRecord]
    BY <1>13, Published DEF BackoffEnds
  <2> QED
    BY <1>2, <1>13, <2>1, <2>2, <2>3, <2>4, Assigned DEF BackoffEnds
<1>14. CASE LoopExit(l)
  <2>1. o \in Conns /\ obj[o] \in Connection
    BY <1>1, <1>14 DEF LoopExit
  <2>2. [obj[o] EXCEPT !.loop = NoLoop] \in Connection
    BY <2>1 DEF Connection
  <2>3. waiter' \in [Waiters -> WaiterRecord] /\ obj' \in [Conns -> Connection]
    BY <1>14, <2>1, <2>2, Published, Assigned DEF LoopExit
  <2>4. loop' \in [Loops -> LoopRecord]
    BY <1>14, IdleRecords DEF LoopExit
  <2> QED
    BY <1>2, <1>14, <2>3, <2>4 DEF LoopExit
<1> QED
  BY <1>5, <1>6, <1>7, <1>8, <1>9, <1>10, <1>11, <1>12, <1>13, <1>14
  DEF LoopStep

LEMMA TypeRest ==
    ASSUME TypeOK, HoldsConn,
           \/ \E w \in Waiters : BeginWait(w) \/ WaiterStep(w)
           \/ \E o \in Conns : CooldownExpires(o)
           \/ ShutdownCancel \/ ShutdownDone
    PROVE  TypeOK'
<1> USE DEF TypeOK
<1>1. ASSUME NEW w \in Waiters, BeginWait(w) \/ WaiterStep(w)
      PROVE  TypeOK'
  <2> USE DEF WaitReturn
  <2>1. CASE BeginWait(w)
    <3>1. [idleWaiter EXCEPT !.pc = "snapshot", !.conn = conns] \in WaiterRecord
      BY IdleRecords DEF WaiterRecord
    <3> QED
      BY <2>1, <3>1 DEF BeginWait
  <2>2. CASE WaitSnapshot(w) \/ WaitNotified(w) \/ WaitGivesUp(w)
    BY <2>2, IdleRecords, SMTT(30)
    DEF WaitSnapshot, WaitNotified, WaitGivesUp, WaiterRecord
  <2>3. CASE RequestDemand(w)
    <3> DEFINE o == waiter[w].conn
    <3>1. o \in Conns
      BY <2>3 DEF RequestDemand, HoldsConn
    <3>2. [obj EXCEPT ![o].cooling = TRUE, ![o].wake = TRUE]
            \in [Conns -> Connection]
      BY <3>1, ZenonT(40) DEF Connection
    <3> QED
      BY <2>3, <3>2, WaiterFields DEF RequestDemand
  <2> QED
    BY <1>1, <2>1, <2>2, <2>3 DEF WaiterStep
<1>2. ASSUME NEW o \in Conns, CooldownExpires(o)
      PROVE  TypeOK'
  BY <1>2 DEF CooldownExpires, Connection
<1>3. CASE ShutdownCancel
  BY <1>3 DEF ShutdownCancel
<1>4. CASE ShutdownDone
  BY <1>4, Published DEF ShutdownDone
<1> QED
  BY <1>1, <1>2, <1>3, <1>4

LEMMA Holding == Linked /\ Held => HoldsConn
BY DEF Linked, Held, HoldsConn

LEMMA TypeStep == TypeOK /\ HoldsConn /\ [Next]_vars => TypeOK'
<1>1. ASSUME TypeOK, HoldsConn, UNCHANGED vars PROVE TypeOK'
  BY <1>1 DEF TypeOK, vars
<1> QED
  BY <1>1, TypeBegin, TypeAdmin, TypeLoop, TypeRest DEF Next

----------------------------------------------------------------------------
(* A step that keeps every done channel and starts, ends, cancels no loop.  *)
LEMMA LinkedFrame ==
    ASSUME Linked, TypeOK, TypeOK',
           \A o \in Conns : obj'[o].loop = obj[o].loop,
           \A l \in Loops : /\ Live(l)' <=> Live(l)
                            /\ loop'[l].conn = loop[l].conn
                            /\ loop'[l].cancelled = loop[l].cancelled,
           \A a \in Admins : admin[a].pc = "cancel" =>
               admin'[a].pc = "cancel" /\ admin'[a].loop = admin[a].loop
    PROVE  Linked'
<1>1. \A l \in Loops : Live(l)' => loop'[l].conn \in Conns
  BY DEF Linked
<1>2. LoopOwnership'
  BY DEF Linked, LoopOwnership, Live
<1>3. PointsToOwnLoop'
  BY DEF Linked, PointsToOwnLoop, Live, TypeOK, Connection
<1> QED
  BY <1>1, <1>2, <1>3 DEF Linked

(* publish changes no waiter's position.                                    *)
LEMMA PublishKeeps ==
    ASSUME TypeOK, NEW o, publish(o)
    PROVE  \A w \in Waiters : /\ waiter'[w].pc = waiter[w].pc
                             /\ waiter'[w].conn = waiter[w].conn
BY DEF publish, TypeOK, WaiterRecord

(* A step that moves no operation and no waiter keeps Held if it only       *)
(* cancels loops or ends them.                                              *)
LEMMA HeldFrame ==
    ASSUME Held, TypeOK,
           UNCHANGED admin,
           \A o \in Conns : obj'[o].loop \in {obj[o].loop, NoLoop},
           \A w \in Waiters : /\ waiter'[w].pc = waiter[w].pc
                             /\ waiter'[w].conn = waiter[w].conn,
           \A l \in Loops : Live(l)' =>
                /\ Live(l)
                /\ loop[l].cancelled => loop'[l].cancelled
    PROVE  Held'
<1>1. \A a \in Admins : admin[a].loop # NoLoop => admin[a].loop \in Loops
  BY DEF TypeOK, AdminRecord
<1>2. HoldsLoopToJoin'
  BY DEF Held, HoldsLoopToJoin
<1>3. JoinsCancelledLoop'
  BY <1>1 DEF Held, HoldsLoopToJoin, JoinsCancelledLoop, Live
<1>4. Detached'
  BY DEF Held, Detached
<1> QED
  BY <1>2, <1>3, <1>4 DEF Held

LEMMA OwnBegin ==
    ASSUME OwnInv, TypeOK', NEW a \in Admins, BeginOperation(a)
    PROVE  OwnInv'
<1> USE DEF OwnInv
<1>1. UNCHANGED <<obj, loop, waiter>>
  BY DEF BeginOperation, RestoreConnections, BeginCreate, BeginUpdate,
         BeginDelete, BeginSetEnabled, BeginReconnect, BeginRetry, Begin
<1>2. \/ UNCHANGED admin
      \/ /\ admin' = [admin EXCEPT ![a] = admin'[a]]
         /\ admin'[a].pc \in {"store", "lookup", "rebuild"}
         /\ admin'[a].loop = NoLoop
  <2>1. ASSUME NEW op, NEW pc \in {"store", "lookup"}, NEW cfg,
               Begin(a, op, pc, cfg)
        PROVE  /\ admin' = [admin EXCEPT ![a] = admin'[a]]
               /\ admin'[a].pc \in {"store", "lookup", "rebuild"}
               /\ admin'[a].loop = NoLoop
    BY <2>1 DEF Begin, idleAdmin, TypeOK
  <2>2. CASE RestoreConnections(a)
    BY <2>2 DEF RestoreConnections, idleAdmin, TypeOK
  <2> QED
    BY <2>1, <2>2
    DEF BeginOperation, BeginCreate, BeginUpdate, BeginDelete,
        BeginSetEnabled, BeginReconnect, BeginRetry
<1>3. admin[a].pc = "idle"
  BY DEF BeginOperation, RestoreConnections, BeginCreate, BeginUpdate,
         BeginDelete, BeginSetEnabled, BeginReconnect, BeginRetry, Begin
<1>4. Linked'
  BY <1>1, <1>2, <1>3, LinkedFrame DEF Live, TypeOK
<1>5. Held'
  BY <1>1, <1>2
  DEF Held, HoldsLoopToJoin, Detached, JoinsCancelledLoop, WithConn, TypeOK, Live
<1> QED
  BY <1>4, <1>5

(* A step of operation a that does not end up inside <-done.                *)
LEMMA HeldAdmin ==
    ASSUME Held, TypeOK, TypeOK', NEW a \in Admins,
           \A b \in Admins \ {a} : admin'[b] = admin[b],
           admin'[a].loop = NoLoop, admin'[a].pc \notin {"cancel", "join"},
           admin'[a].pc \in WithConn => admin'[a].conn \in Conns,
           \A b \in Admins \ {a}, o \in Conns :
               obj'[o].loop \in {obj[o].loop, NoLoop} \/ obj'[o].loop # admin[b].loop,
           \A w \in Waiters : /\ waiter'[w].pc = waiter[w].pc
                             /\ waiter'[w].conn = waiter[w].conn,
           \A l \in Loops : (\E b \in Admins \ {a} : admin[b].loop = l) =>
                /\ Live(l)' => Live(l)
                /\ loop[l].cancelled => loop'[l].cancelled
    PROVE  Held'
<1>1. \A b \in Admins : admin[b].loop # NoLoop => admin[b].loop \in Loops
  BY DEF TypeOK, AdminRecord
<1>2. HoldsLoopToJoin'
  BY DEF Held, HoldsLoopToJoin
<1>3. JoinsCancelledLoop'
  BY <1>1 DEF Held, HoldsLoopToJoin, JoinsCancelledLoop, Live
<1>4. \A b \in Admins : admin'[b].pc \in WithConn => admin'[b].conn \in Conns
  BY DEF Held
<1>6. Detached'
  BY DEF Held, Detached
<1>5. \A w \in Waiters : waiter'[w].pc # "idle" => waiter'[w].conn \in Conns
  BY DEF Held
<1> QED
  BY <1>2, <1>3, <1>4, <1>5, <1>6 DEF Held

(* Operations that touch neither done channels nor loops.                   *)
LEMMA OwnAdminQuiet ==
    ASSUME OwnInv, TypeOK', NEW a \in Admins,
           \/ StoreCreate(a) \/ StoreUpdate(a) \/ StoreSetEnabled(a)
           \/ StoreDelete(a) \/ LookupSetEnabled(a) \/ LookupReconnect(a)
           \/ CheckReconnect(a) \/ LookupRetry(a) \/ SignalWake(a)
           \/ RemoveLookup(a) \/ JoinLoop(a) \/ SetConfig(a)
           \/ SetUnavailable(a)
    PROVE  OwnInv'
<1> USE DEF OwnInv
<1> DEFINE keeps == \A w \in Waiters : /\ waiter'[w].pc = waiter[w].pc
                                      /\ waiter'[w].conn = waiter[w].conn
           moves == /\ \A b \in Admins \ {a} : admin'[b] = admin[b]
                    /\ admin'[a].loop = NoLoop
                    /\ admin'[a].pc \notin {"cancel", "join"}
                    /\ admin'[a].pc \in WithConn => admin'[a].conn \in Conns
           frame == \A o \in Conns : obj'[o].loop = obj[o].loop
<1>1. /\ admin[a].pc \notin {"cancel", "join"} => admin[a].loop = NoLoop
      /\ admin[a].pc # "cancel"
  BY DEF Held, HoldsLoopToJoin, StoreCreate, StoreUpdate, StoreSetEnabled, StoreDelete,
         LookupSetEnabled, LookupReconnect, CheckReconnect, LookupRetry, SignalWake,
         RemoveLookup, JoinLoop, SetConfig, SetUnavailable
<1>2. admin[a].pc \in WithConn => admin[a].conn \in Conns
  BY DEF Held
<1>3. loop' = loop /\ frame /\ keeps
  <2>1. CASE SetUnavailable(a)
    <3>1. frame
      BY <2>1 DEF SetUnavailable, Assign, TypeOK, Connection
    <3> QED
      BY <2>1, <3>1, PublishKeeps DEF SetUnavailable
  <2>2. CASE SignalWake(a) \/ SetConfig(a)
    BY <2>2 DEF SignalWake, SetConfig, TypeOK, Connection
  <2> QED
    BY <2>1, <2>2
    DEF StoreCreate, StoreUpdate, StoreSetEnabled, StoreDelete,
        LookupSetEnabled, LookupReconnect, CheckReconnect, LookupRetry,
        RemoveLookup, JoinLoop
<1>4. moves
  <2> USE <1>1, <1>2 DEF TypeOK, AdminRecord, Goto, Return, idleAdmin, WithConn
  <2>1. CASE StoreCreate(a) \/ StoreUpdate(a) \/ StoreSetEnabled(a)
               \/ StoreDelete(a)
    BY <2>1 DEF StoreCreate, StoreUpdate, StoreSetEnabled, StoreDelete
  <2>2. CASE LookupSetEnabled(a)
    BY <2>2 DEF LookupSetEnabled
  <2>3. CASE LookupReconnect(a) \/ LookupRetry(a)
    BY <2>3 DEF LookupReconnect, LookupRetry
  <2>4. CASE CheckReconnect(a) \/ SignalWake(a) \/ SetUnavailable(a)
    BY <2>4 DEF CheckReconnect, SignalWake, SetUnavailable
  <2>5. CASE RemoveLookup(a) \/ JoinLoop(a) \/ SetConfig(a)
    BY <2>5 DEF RemoveLookup, JoinLoop, SetConfig, AfterStop
  <2> QED
    BY <2>1, <2>2, <2>3, <2>4, <2>5
<1>5. Linked'
  BY <1>1, <1>3, <1>4, LinkedFrame DEF Live
<1>6. Held'
  BY <1>3, <1>4, HeldAdmin DEF Live
<1> QED
  BY <1>5, <1>6

(* A fresh Connection: nothing refers to the object it is put in.           *)
LEMMA OwnRebuild ==
    ASSUME OwnInv, TypeOK', NEW a \in Admins, RebuildLookup(a)
    PROVE  OwnInv'
<1> USE DEF OwnInv
<1>1. admin[a].pc = "rebuild" /\ UNCHANGED <<loop, waiter>>
  BY DEF RebuildLookup
<1>2. admin[a].loop = NoLoop
  BY <1>1 DEF Held, HoldsLoopToJoin
<1>3. PICK o \in Conns :
        /\ admin' = [admin EXCEPT ![a].pc = "stop", ![a].conn = o]
        /\ \/ UNCHANGED obj
           \/ Unreferenced(o) /\ obj' = [obj EXCEPT ![o] = newConnection]
  BY DEF RebuildLookup, TypeOK
<1>7. /\ \A b \in Admins \ {a} : admin'[b] = admin[b]
      /\ admin'[a].pc = "stop" /\ admin'[a].loop = NoLoop /\ admin'[a].conn = o
  BY <1>2, <1>3 DEF TypeOK, AdminRecord
<1>8. \A p \in Conns : obj'[p].loop \in {obj[p].loop, NoLoop}
  BY <1>3 DEF TypeOK, newConnection
<1>4. Held'
  BY <1>1, <1>7, <1>8, HeldAdmin DEF Live
<1>5. CASE UNCHANGED obj
  BY <1>1, <1>4, <1>5, <1>7, LinkedFrame DEF Live
<1>6. CASE Unreferenced(o) /\ obj' = [obj EXCEPT ![o] = newConnection]
  <2>1. obj'[o].loop = NoLoop /\ \A p \in Conns \ {o} : obj'[p] = obj[p]
    BY <1>6 DEF TypeOK, newConnection
  <2>2. \A l \in Loops : loop[l].conn # o
    BY <1>6 DEF Unreferenced
  <2>3. Linked'
    BY <1>1, <1>7, <2>1, <2>2
    DEF Linked, LoopOwnership, PointsToOwnLoop, Live
  <2> QED
    BY <1>4, <2>3
<1> QED
  BY <1>3, <1>5, <1>6

(* stopLoop detaches the loop in one critical section, so no other          *)
(* operation can be holding it already.                                     *)
LEMMA OwnStop ==
    ASSUME OwnInv, TypeOK', NEW a \in Admins, StopLoop(a)
    PROVE  OwnInv'
<1> USE DEF OwnInv
<1> DEFINE o == admin[a].conn
           l == obj[o].loop
<1>1. /\ admin[a].pc = "stop" /\ o \in Conns /\ admin[a].loop = NoLoop
      /\ UNCHANGED loop
  BY DEF StopLoop, Held, HoldsLoopToJoin, WithConn
<1>2. CASE l = NoLoop
  <2>1. AfterStop(a) /\ UNCHANGED <<obj, loop, waiter>>
    BY <1>1, <1>2 DEF StopLoop
  <2>2. /\ \A b \in Admins \ {a} : admin'[b] = admin[b]
        /\ admin'[a].loop = NoLoop
        /\ admin'[a].pc \notin {"cancel", "join"}
        /\ admin'[a].pc \in WithConn => admin'[a].conn \in Conns
    BY <1>1, <2>1 DEF AfterStop, Return, idleAdmin, TypeOK, AdminRecord, WithConn
  <2>3. Held'
    BY <2>1, <2>2, HeldAdmin DEF Live
  <2>4. Linked'
    BY <1>1, <2>1, <2>2, LinkedFrame DEF Live
  <2> QED
    BY <2>3, <2>4
<1>3. CASE l # NoLoop
  <2>1. /\ obj' = [obj EXCEPT ![o] = [obj[o] EXCEPT !.loop = NoLoop,
                                                    !.retryAt = FALSE]]
        /\ admin' = [admin EXCEPT ![a].pc = "cancel", ![a].loop = l]
        /\ publish(o)
    BY <1>3 DEF StopLoop, Assign
  <2>2. l \in Loops
    BY <1>1, <1>3 DEF TypeOK, Connection
  <2>3. Live(l) /\ loop[l].conn = o /\ ~loop[l].cancelled
    BY <1>1, <1>3 DEF Linked, PointsToOwnLoop
  <2>4. \A p \in Conns \ {o} : obj'[p] = obj[p] /\ obj[p].loop # l
    BY <1>1, <1>3, <2>1, <2>3 DEF TypeOK, Linked, PointsToOwnLoop
  <2>5. obj'[o].loop = NoLoop
    BY <1>1, <2>1, SMTT(30) DEF TypeOK, Connection
  <2>8. \A b \in Admins : admin[b].loop # l
    BY <1>1, <1>3 DEF Held, Detached
  <2>9. /\ admin'[a].pc = "cancel" /\ admin'[a].loop = l /\ admin'[a].conn = o
        /\ \A b \in Admins \ {a} : admin'[b] = admin[b]
    BY <2>1 DEF TypeOK, AdminRecord
  <2>7. Linked'
    <3>4. obj[o].loop = l
      OBVIOUS
    <3> HIDE DEF o, l
    <3>1. \A k \in Loops : Live(k)' => loop'[k].conn \in Conns
      BY <1>1 DEF Linked, Live
    <3>2. LoopOwnership'
      <4> SUFFICES ASSUME NEW k \in Loops, k # l, Live(k), ~loop[k].cancelled
                   PROVE  \/ obj'[loop[k].conn].loop = k
                          \/ \E b \in Admins : admin'[b].pc = "cancel" /\ admin'[b].loop = k
        BY <1>1, <2>9 DEF LoopOwnership, Live
      <4>1. CASE obj[loop[k].conn].loop = k
        <5>1. loop[k].conn \in Conns \ {o}
          BY <3>4, <4>1 DEF Linked
        <5> QED
          BY <2>4, <4>1, <5>1
      <4>2. CASE \E b \in Admins : admin[b].pc = "cancel" /\ admin[b].loop = k
        BY <1>1, <2>9, <4>2
      <4> QED
        BY <4>1, <4>2 DEF Linked, LoopOwnership
    <3>3. PointsToOwnLoop'
      BY <1>1, <2>4, <2>5 DEF Linked, PointsToOwnLoop, Live
    <3> QED
      BY <3>1, <3>2, <3>3 DEF Linked
  <2>10. \A w \in Waiters : waiter'[w].pc = waiter[w].pc /\ waiter'[w].conn = waiter[w].conn
    BY <2>1, PublishKeeps
  <2>11. Held'
    <3>1. HoldsLoopToJoin'
      BY <1>3, <2>9 DEF Held, HoldsLoopToJoin
    <3> HIDE DEF o, l
    <3>3. JoinsCancelledLoop'
      BY <1>1, <2>8, <2>9
      DEF Held, HoldsLoopToJoin, JoinsCancelledLoop, Live
    <3>4. Detached'
      BY <1>3, <2>4, <2>5, <2>9 DEF Held, Detached
    <3> QED
      BY <1>1, <2>9, <2>10, <3>1, <3>3, <3>4, SMTT(30) DEF Held, WithConn
  <2> QED
    BY <2>7, <2>11
<1> QED
  BY <1>2, <1>3

(* cancel() reaches the loop the operation holds, which no Connection and   *)
(* no other operation refers to.                                            *)
LEMMA OwnCancel ==
    ASSUME OwnInv, TypeOK', NEW a \in Admins, CancelLoop(a)
    PROVE  OwnInv'
<1> USE DEF OwnInv
<1>1. PICK l \in Loops : l = admin[a].loop /\ l # NoLoop
  BY DEF CancelLoop, Held, HoldsLoopToJoin, TypeOK, AdminRecord
<1>2. /\ admin[a].pc = "cancel" /\ UNCHANGED <<obj, waiter>>
      /\ admin' = [admin EXCEPT ![a].pc = "join"]
      /\ loop' = [loop EXCEPT ![l].cancelled = TRUE]
  BY <1>1 DEF CancelLoop, Goto
<1>3. /\ admin'[a].pc = "join" /\ admin'[a].loop = l /\ admin'[a].conn = admin[a].conn
      /\ \A b \in Admins \ {a} : admin'[b] = admin[b]
  BY <1>1, <1>2 DEF TypeOK, AdminRecord
<1>4. /\ loop'[l].cancelled
      /\ \A k \in Loops : loop'[k].pc = loop[k].pc /\ loop'[k].conn = loop[k].conn
      /\ \A k \in Loops \ {l} : loop'[k] = loop[k]
  BY <1>2, ZenonT(40) DEF TypeOK, LoopRecord
<1>5. /\ \A b \in Admins \ {a} : admin[b].loop # l
      /\ \A o \in Conns : obj[o].loop # l
  BY <1>1, <1>2 DEF Held, Detached, JoinsCancelledLoop
<1>6. Linked'
  <2>1. \A k \in Loops : Live(k)' => loop'[k].conn \in Conns
    BY <1>4 DEF Linked, Live
  <2>2. LoopOwnership'
    <3> SUFFICES ASSUME NEW k \in Loops, k # l, Live(k), ~loop[k].cancelled
                 PROVE  \/ obj[loop[k].conn].loop = k
                        \/ \E b \in Admins : admin'[b].pc = "cancel" /\ admin'[b].loop = k
      BY <1>2, <1>4 DEF LoopOwnership, Live
    <3> QED
      BY <1>1, <1>3 DEF Linked, LoopOwnership
  <2>3. PointsToOwnLoop'
    BY <1>2, <1>4, <1>5 DEF Linked, PointsToOwnLoop, Live, TypeOK, Connection
  <2> QED
    BY <2>1, <2>2, <2>3 DEF Linked
<1>7. Held'
  <2>1. HoldsLoopToJoin' /\ Detached'
    BY <1>1, <1>2, <1>3 DEF Held, HoldsLoopToJoin, Detached
  <2>2. JoinsCancelledLoop'
    <3>1. \A b \in Admins : admin[b].loop # NoLoop => admin[b].loop \in Loops
      BY DEF TypeOK, AdminRecord
    <3> QED
      BY <1>1, <1>3, <1>4, <1>5, <3>1 DEF Held, HoldsLoopToJoin, JoinsCancelledLoop, Live
  <2> QED
    BY <1>2, <1>3, <2>1, <2>2, SMTT(30) DEF Held, WithConn
<1> QED
  BY <1>6, <1>7

(* startLoop starts a loop only for a Connection that runs none, in a slot  *)
(* no operation still waits for.                                            *)
LEMMA OwnStart ==
    ASSUME OwnInv, TypeOK', NEW a \in Admins, StartLoop(a)
    PROVE  OwnInv'
<1> USE DEF OwnInv
<1> DEFINE o == admin[a].conn
<1>1. admin[a].pc = "start" /\ o \in Conns /\ admin' = [admin EXCEPT ![a] = idleAdmin]
  BY DEF StartLoop, Return, Held, WithConn
<1>2. /\ \A b \in Admins \ {a} : admin'[b] = admin[b]
      /\ admin'[a].loop = NoLoop /\ admin'[a].pc = "idle"
  BY <1>1 DEF TypeOK, idleAdmin
<1>3. CASE obj[o].loop # NoLoop
  <2>1. UNCHANGED <<obj, loop, waiter>>
    BY <1>3 DEF StartLoop
  <2> QED
    BY <1>1, <1>2, <2>1, HeldAdmin, LinkedFrame DEF Live, WithConn
<1>4. CASE obj[o].loop = NoLoop
  <2>1. PICK l \in Loops :
          /\ ~Live(l)
          /\ \A b \in Admins : admin[b].loop # l
          /\ Assign(o, [obj[o] EXCEPT
                          !.loop = l, !.state = "connecting", !.failures = 0,
                          !.retryAt = FALSE, !.cooling = FALSE])
          /\ loop' = [loop EXCEPT ![l] =
                        [idleLoop EXCEPT !.pc = "top", !.conn = o]]
    BY <1>4 DEF StartLoop
  <2>2. /\ loop'[l].pc = "top" /\ loop'[l].conn = o /\ ~loop'[l].cancelled
        /\ \A k \in Loops \ {l} : loop'[k] = loop[k]
    BY <2>1 DEF TypeOK, idleLoop
  <2>3. obj'[o].loop = l /\ \A p \in Conns \ {o} : obj'[p] = obj[p]
    BY <1>1, <2>1 DEF TypeOK, Connection, Assign
  <2>4. \A p \in Conns : obj[p].loop # l
    BY <2>1, ConstantsAssumption DEF Linked, PointsToOwnLoop
  <2>5. l # NoLoop /\ l \in Loops
    BY ConstantsAssumption
  <2>6. Linked'
    <3> HIDE DEF o
    <3>1. \A k \in Loops : Live(k)' => loop'[k].conn \in Conns
      BY <1>1, <2>2 DEF Linked, Live
    <3>2. LoopOwnership'
      <4> SUFFICES ASSUME NEW k \in Loops, k # l, Live(k), ~loop[k].cancelled
                   PROVE  \/ obj'[loop[k].conn].loop = k
                          \/ \E b \in Admins : admin'[b].pc = "cancel" /\ admin'[b].loop = k
        BY <2>2, <2>3 DEF LoopOwnership, Live
      <4>1. CASE obj[loop[k].conn].loop = k
        <5>1. loop[k].conn \in Conns \ {o}
          BY <1>4, <4>1, ConstantsAssumption DEF Linked
        <5> QED
          BY <2>3, <4>1, <5>1
      <4>2. CASE \E b \in Admins : admin[b].pc = "cancel" /\ admin[b].loop = k
        BY <1>1, <1>2, <4>2
      <4> QED
        BY <4>1, <4>2 DEF Linked, LoopOwnership
    <3>3. PointsToOwnLoop'
      <4>1. \A p \in Conns : obj[p].loop # NoLoop => obj[p].loop \in Loops \ {l}
        BY <2>4 DEF TypeOK, Connection
      <4> QED
        BY <1>1, <2>2, <2>3, <4>1 DEF Linked, PointsToOwnLoop, Live
    <3> QED
      BY <3>1, <3>2, <3>3 DEF Linked
  <2>7. \A w \in Waiters : waiter'[w].pc = waiter[w].pc /\ waiter'[w].conn = waiter[w].conn
    BY <1>4, PublishKeeps DEF StartLoop
  <2>8. Held'
    <3>1. admin'[a].pc \notin {"cancel", "join"} /\ admin'[a].pc \notin WithConn
      BY <1>2 DEF WithConn
    <3>2. \A b \in Admins \ {a}, p \in Conns :
              obj'[p].loop \in {obj[p].loop, NoLoop} \/ obj'[p].loop # admin[b].loop
      BY <2>1, <2>3
    <3> QED
      BY <1>2, <2>1, <2>2, <2>7, <3>1, <3>2, HeldAdmin DEF Live
  <2> QED
    BY <2>6, <2>8
<1> QED
  BY <1>3, <1>4

(* A loop that ends by itself gives its done channel back first.            *)
LEMMA OwnLoop ==
    ASSUME OwnInv, TypeOK', NEW l \in Loops, LoopStep(l) \/ SessionLost(l)
    PROVE  OwnInv'
<1> USE DEF OwnInv
<1> DEFINE o == loop[l].conn
<1>1. UNCHANGED admin
  BY DEF LoopStep, BeginConnecting, Dial, DiscardSession, Succeed, SessionLost,
         WaitCancelled, CloseSession, RecordFailure, ScheduleRetry,
         BackoffCancelled, BackoffEnds, LoopReturns, LoopExit
<1>2. \A w \in Waiters : waiter'[w].pc = waiter[w].pc /\ waiter'[w].conn = waiter[w].conn
  <2>1. UNCHANGED waiter \/ publish(o)
    BY DEF LoopStep, BeginConnecting, Dial, DiscardSession, Succeed, SessionLost,
           WaitCancelled, CloseSession, RecordFailure, ScheduleRetry,
           BackoffCancelled, BackoffEnds, LoopReturns, LoopExit
  <2> QED
    BY <2>1, PublishKeeps
<1>3. Live(l)
  BY DEF LoopStep, BeginConnecting, Dial, DiscardSession, Succeed, SessionLost,
         WaitCancelled, CloseSession, RecordFailure, ScheduleRetry,
         BackoffCancelled, BackoffEnds, LoopReturns, LoopExit, Live
<1>4. o \in Conns /\ obj[o] \in Connection
  BY <1>3 DEF Linked, TypeOK
<1>5. CASE LoopExit(l)
  <2>1. /\ loop'[l].pc = "idle" /\ \A k \in Loops \ {l} : loop'[k] = loop[k]
    BY <1>5 DEF LoopExit, TypeOK, idleLoop
  <2>2. /\ \A p \in Conns \ {o} : obj'[p] = obj[p]
        /\ obj'[o].loop = IF obj[o].loop = l THEN NoLoop ELSE obj[o].loop
    BY <1>4, <1>5 DEF LoopExit, Assign, TypeOK, Connection
  <2>3. \A p \in Conns \ {o} : obj[p].loop # l
    BY ConstantsAssumption DEF Linked, PointsToOwnLoop
  <2>4. Linked'
    <3>1. \A k \in Loops : Live(k)' => loop'[k].conn \in Conns
      BY <2>1 DEF Linked, Live
    <3>2. LoopOwnership'
      <4>1. \A k \in Loops \ {l} : Live(k) /\ obj[loop[k].conn].loop = k =>
               obj'[loop[k].conn].loop = k
        BY <2>2 DEF Linked
      <4> QED
        BY <1>1, <2>1, <4>1 DEF Linked, LoopOwnership, Live
    <3>3. PointsToOwnLoop'
      <4>1. \A p \in Conns : obj'[p].loop # NoLoop =>
               obj'[p].loop = obj[p].loop /\ obj[p].loop \in Loops \ {l}
        BY <2>2, <2>3 DEF TypeOK, Connection
      <4> QED
        BY <2>1, <4>1 DEF Linked, PointsToOwnLoop, Live
    <3> QED
      BY <3>1, <3>2, <3>3 DEF Linked
  <2>5. Held'
    BY <1>1, <1>2, <1>3, <2>1, <2>2, HeldFrame DEF Live
  <2> QED
    BY <2>4, <2>5
<1>6. CASE ~LoopExit(l)
  <2>1. /\ \A k \in Loops \ {l} : loop'[k] = loop[k]
        /\ loop'[l].pc # "idle"
        /\ loop'[l].conn = loop[l].conn
        /\ loop'[l].cancelled = loop[l].cancelled
    BY <1>6
    DEF LoopStep, BeginConnecting, Dial, DiscardSession, Succeed, SessionLost,
        WaitCancelled, CloseSession, RecordFailure, ScheduleRetry,
        BackoffCancelled, BackoffEnds, LoopReturns, LoopGoto, TypeOK, LoopRecord
  <2>2. obj'[o].loop = obj[o].loop /\ \A p \in Conns \ {o} : obj'[p] = obj[p]
    <3>1. ASSUME NEW f, Assign(o, f), f.loop = obj[o].loop
          PROVE  obj'[o].loop = obj[o].loop
                 /\ \A p \in Conns \ {o} : obj'[p] = obj[p]
      BY <1>4, <3>1 DEF Assign, TypeOK
    <3>2. CASE BeginConnecting(l)
      BY <1>4, <3>1, <3>2 DEF BeginConnecting, Connection
    <3>3. CASE Succeed(l)
      BY <1>4, <3>1, <3>3 DEF Succeed, Connection
    <3>4. CASE ScheduleRetry(l)
      BY <1>4, <3>1, <3>4 DEF ScheduleRetry, Connection
    <3>5. CASE RecordFailure(l)
      <4>1. CASE Cancelled(l)
        BY <3>5, <4>1 DEF RecordFailure
      <4>2. CASE ~Cancelled(l)
        BY <1>4, <3>1, <3>5, <4>2 DEF RecordFailure, Connection
      <4> QED
        BY <4>1, <4>2
    <3>6. CASE BackoffEnds(l)
      BY <1>4, <3>1, <3>6 DEF BackoffEnds, Connection
    <3>7. CASE Dial(l) \/ DiscardSession(l) \/ SessionLost(l)
                 \/ WaitCancelled(l) \/ CloseSession(l)
                 \/ BackoffCancelled(l) \/ LoopReturns(l)
      BY <3>7
      DEF Dial, DiscardSession, SessionLost, WaitCancelled, CloseSession,
          BackoffCancelled, LoopReturns
    <3> QED
      BY <1>6, <3>2, <3>3, <3>4, <3>5, <3>6, <3>7 DEF LoopStep
  <2>3. Linked'
    BY <1>1, <1>3, <2>1, <2>2, LinkedFrame DEF Live
  <2>4. Held'
    BY <1>1, <1>2, <1>3, <2>1, <2>2, HeldFrame DEF Live
  <2> QED
    BY <2>3, <2>4
<1> QED
  BY <1>5, <1>6

LEMMA OwnRest ==
    ASSUME OwnInv, TypeOK',
           \/ \E w \in Waiters : BeginWait(w) \/ WaiterStep(w)
           \/ \E o \in Conns : CooldownExpires(o)
           \/ ShutdownCancel \/ ShutdownDone
    PROVE  OwnInv'
<1> USE DEF OwnInv
<1>1. UNCHANGED <<loop, admin>>
  BY DEF BeginWait, WaiterStep, WaitSnapshot, RequestDemand, WaitNotified,
         WaitGivesUp, CooldownExpires, ShutdownCancel, ShutdownDone
<1>2. \A o \in Conns : obj'[o].loop = obj[o].loop
  <2>1. CASE \E w \in Waiters : RequestDemand(w)
    BY <2>1 DEF RequestDemand, TypeOK, Connection
  <2>2. CASE \E o \in Conns : CooldownExpires(o)
    BY <2>2 DEF CooldownExpires, TypeOK, Connection
  <2> QED
    BY <2>1, <2>2
    DEF BeginWait, WaiterStep, WaitSnapshot, WaitNotified, WaitGivesUp,
        ShutdownCancel, ShutdownDone
<1>3. Linked'
  BY <1>1, <1>2, LinkedFrame DEF Live
<1>4. \A w \in Waiters : waiter'[w].pc # "idle" => waiter'[w].conn \in Conns
  <2>1. ASSUME NEW v \in Waiters, BeginWait(v)
        PROVE  \A w \in Waiters : waiter'[w].pc # "idle" => waiter'[w].conn \in Conns
    BY <2>1 DEF BeginWait, TypeOK, Held, idleWaiter
  <2>2. ASSUME NEW v \in Waiters, WaiterStep(v)
        PROVE  \A w \in Waiters : waiter'[w].pc # "idle" => waiter'[w].conn \in Conns
    <3>1. waiter[v].conn \in Conns
      BY <2>2
      DEF WaiterStep, WaitSnapshot, RequestDemand, WaitNotified, WaitGivesUp, Held
    <3>2. /\ \A w \in Waiters \ {v} : waiter'[w] = waiter[w]
          /\ waiter'[v].pc # "idle" => waiter'[v].conn = waiter[v].conn
      <4> USE DEF WaitReturn, TypeOK, WaiterRecord, idleWaiter
      <4>1. CASE WaitSnapshot(v)
        BY <4>1 DEF WaitSnapshot
      <4>2. CASE RequestDemand(v) \/ WaitNotified(v) \/ WaitGivesUp(v)
        BY <4>2 DEF RequestDemand, WaitNotified, WaitGivesUp
      <4> QED
        BY <2>2, <4>1, <4>2 DEF WaiterStep
    <3> QED
      BY <3>1, <3>2, SMTT(30) DEF Held
  <2>3. CASE UNCHANGED waiter \/ \E o \in Conns : publish(o)
    BY <2>3, PublishKeeps DEF Held
  <2> QED
    BY <2>1, <2>2, <2>3 DEF CooldownExpires, ShutdownCancel, ShutdownDone, TypeOK
<1>5. Held'
  BY <1>1, <1>2, <1>4 DEF Held, HoldsLoopToJoin, Detached, JoinsCancelledLoop, Live
<1> QED
  BY <1>3, <1>5, SMTT(30)

LEMMA OwnStep == OwnInv /\ [Next]_vars => OwnInv'
<1> SUFFICES ASSUME OwnInv, [Next]_vars PROVE OwnInv'
  OBVIOUS
<1>1. TypeOK'
  BY TypeStep, Holding DEF OwnInv
<1>2. CASE UNCHANGED vars
  BY <1>2
  DEF vars, OwnInv, TypeOK, Linked, LoopOwnership, PointsToOwnLoop, Held,
      HoldsLoopToJoin, Detached, JoinsCancelledLoop, Live
<1>3. ASSUME NEW a \in Admins, AdminStep(a) PROVE OwnInv'
  BY <1>1, <1>3, OwnAdminQuiet, OwnRebuild, OwnStop, OwnCancel, OwnStart DEF AdminStep
<1> QED
  BY <1>1, <1>2, <1>3, OwnBegin, OwnLoop, OwnRest DEF Next

(* Every variable keeps its type in every reachable state: no operation     *)
(* dereferences a nil Connection and failures never exceeds the threshold.  *)
THEOREM TypeCorrect == Spec => []TypeOK
<1>1. OwnInv => TypeOK
  BY DEF OwnInv
<1> QED
  BY InitOwn, OwnStep, <1>1, PTL DEF Spec

(* However operations on an upstream overlap, a loop that nobody has        *)
(* cancelled is the one its Connection runs, where stopLoop can always      *)
(* reach it, or the one an operation has detached and is about to cancel.   *)
THEOREM Ownership == Spec => []LoopOwnership
<1>1. OwnInv => LoopOwnership
  BY DEF OwnInv, Linked
<1> QED
  BY InitOwn, OwnStep, <1>1, PTL DEF Spec

(* However operations overlap, stopLoop waits only for a loop it cancelled, *)
(* and no two operations wait for the same loop.                            *)
THEOREM JoinsCancelled == Spec => []JoinsCancelledLoop
<1>1. OwnInv => JoinsCancelledLoop
  BY DEF OwnInv, Held
<1> QED
  BY InitOwn, OwnStep, <1>1, PTL DEF Spec

----------------------------------------------------------------------------

LEMMA ShutdownStep ==
    ASSUME OwnInv, ShutdownInv, [Next]_vars
    PROVE  ShutdownInv'
<1> USE DEF ShutdownInv
<1>1. CASE UNCHANGED <<loop, base>>
  BY <1>1
<1>2. ASSUME NEW a \in Admins, BeginOperation(a)
      PROVE  ShutdownInv'
  BY <1>1, <1>2
  DEF BeginOperation, RestoreConnections, BeginCreate, BeginUpdate,
      BeginDelete, BeginSetEnabled, BeginReconnect, BeginRetry, Begin
<1>3. ASSUME NEW a \in Admins, AdminStep(a)
      PROVE  ShutdownInv'
  <2>1. CASE CancelLoop(a)
    <3>1. \A l \in Loops : loop'[l].pc = loop[l].pc /\ loop'[l].open = loop[l].open
      BY <2>1 DEF CancelLoop, OwnInv, TypeOK, LoopRecord
    <3>2. UNCHANGED base
      BY <2>1 DEF CancelLoop
    <3> QED
      BY <3>1, <3>2
  <2>2. CASE StartLoop(a)
    <3>1. \A l \in Loops : \/ loop'[l] = loop[l]
                           \/ loop'[l].pc = "top" /\ ~loop'[l].open
      <4>1. PICK k \in Loops :
              \/ UNCHANGED loop
              \/ loop' = [loop EXCEPT ![k] =
                            [idleLoop EXCEPT !.pc = "top",
                                             !.conn = admin[a].conn]]
        <5>1. CASE obj[admin[a].conn].loop = NoLoop
          BY <2>2, <5>1 DEF StartLoop
        <5>3. CASE UNCHANGED loop
          <6>1. admin[a].conn \in Conns /\ obj[admin[a].conn].loop # NoLoop
                  => obj[admin[a].conn].loop \in Loops
            BY DEF OwnInv, TypeOK, Connection
          <6>2. admin[a].conn \in Conns
            BY <2>2 DEF StartLoop, OwnInv, Held, WithConn
          <6> QED
            BY <5>1, <5>3, <6>1, <6>2
        <5> QED
          BY <2>2, <5>1, <5>3 DEF StartLoop
      <4>2. /\ [idleLoop EXCEPT !.pc = "top", !.conn = admin[a].conn].pc = "top"
            /\ ~[idleLoop EXCEPT !.pc = "top", !.conn = admin[a].conn].open
        BY DEF idleLoop
      <4> QED
        BY <4>1, <4>2 DEF OwnInv, TypeOK
    <3>2. UNCHANGED base
      BY <2>2 DEF StartLoop
    <3> QED
      BY <3>1, <3>2
  <2> QED
    BY <1>1, <1>3, <2>1, <2>2
    DEF AdminStep, StoreCreate, StoreUpdate, StoreSetEnabled, StoreDelete,
        LookupSetEnabled, LookupReconnect, CheckReconnect, LookupRetry,
        SignalWake, RebuildLookup, RemoveLookup, StopLoop, JoinLoop, SetConfig,
        SetUnavailable
<1>4. ASSUME NEW l \in Loops, LoopStep(l) \/ SessionLost(l)
      PROVE  ShutdownInv'
  <2>1. UNCHANGED base
    BY <1>4
    DEF LoopStep, BeginConnecting, Dial, DiscardSession, Succeed, SessionLost,
        WaitCancelled, CloseSession, RecordFailure, ScheduleRetry,
        BackoffCancelled, BackoffEnds, LoopReturns, LoopExit
  <2>2. \A k \in Loops \ {l} : loop'[k] = loop[k]
    BY <1>4
    DEF LoopStep, BeginConnecting, Dial, DiscardSession, Succeed, SessionLost,
        WaitCancelled, CloseSession, RecordFailure, ScheduleRetry,
        BackoffCancelled, BackoffEnds, LoopReturns, LoopExit, LoopGoto,
        OwnInv, TypeOK
  <2>3. loop'[l].open => loop'[l].pc \in {"dialed", "wait", "close"}
    BY <1>4
    DEF LoopStep, BeginConnecting, Dial, DiscardSession, Succeed, SessionLost,
        WaitCancelled, CloseSession, RecordFailure, ScheduleRetry,
        BackoffCancelled, BackoffEnds, LoopReturns, LoopExit, LoopGoto,
        OwnInv, TypeOK, LoopRecord, idleLoop
  <2>4. base = "down" => loop'[l].pc \in {"idle", "top", "exit"}
    BY <1>4
    DEF LoopStep, BeginConnecting, Dial, DiscardSession, Succeed, SessionLost,
        WaitCancelled, CloseSession, RecordFailure, ScheduleRetry,
        BackoffCancelled, BackoffEnds, LoopReturns, LoopExit, LoopGoto,
        OwnInv, TypeOK, LoopRecord, idleLoop, Cancelled
  <2> QED
    BY <2>1, <2>2, <2>3, <2>4
<1>5. ASSUME NEW w \in Waiters, BeginWait(w) \/ WaiterStep(w)
      PROVE  ShutdownInv'
  BY <1>1, <1>5
  DEF BeginWait, WaiterStep, WaitSnapshot, RequestDemand, WaitNotified,
      WaitGivesUp
<1>6. ASSUME NEW o \in Conns, CooldownExpires(o)
      PROVE  ShutdownInv'
  BY <1>1, <1>6 DEF CooldownExpires
<1>7. CASE ShutdownCancel
  BY <1>7 DEF ShutdownCancel
<1>8. CASE ShutdownDone
  BY <1>8 DEF ShutdownDone, Live
<1> QED
  BY <1>1, <1>2, <1>3, <1>4, <1>5, <1>6, <1>7, <1>8 DEF Next, vars

(* Once Shutdown has returned no session is open, whatever operation was    *)
(* still in flight when it was called.                                      *)
THEOREM ShutdownQuiesces == Spec => []ShutdownReleasesAll
<1>1. ShutdownInv => ShutdownReleasesAll
  BY DEF ShutdownInv, ShutdownReleasesAll
<1> QED
  BY InitOwn, OwnStep, ShutdownStep, <1>1, PTL DEF Spec

(* No Connection becomes available, and a publication reaches everybody who *)
(* has taken the channel.                                                   *)
LEMMA MissFrame ==
    ASSUME OwnInv, NoMissedAvailable,
           \A o \in Conns : obj'[o].state = "available" => obj[o].state = "available",
           UNCHANGED waiter \/ \E o \in Conns : publish(o)
    PROVE  NoMissedAvailable'
<1> SUFFICES ASSUME NEW w \in Waiters,
                    waiter'[w].pc \in {"demand", "blocked"}, ~waiter'[w].notified
             PROVE  obj'[waiter'[w].conn].state # "available"
  BY DEF NoMissedAvailable
<1>1. waiter'[w] = waiter[w]
  BY DEF publish, OwnInv, TypeOK, WaiterRecord
<1>2. waiter[w].conn \in Conns
  BY <1>1 DEF OwnInv, Held
<1> QED
  BY <1>1, <1>2 DEF NoMissedAvailable

LEMMA MissStep == OwnInv /\ NoMissedAvailable /\ [Next]_vars => NoMissedAvailable'
<1> SUFFICES ASSUME OwnInv, NoMissedAvailable, [Next]_vars
             PROVE  NoMissedAvailable'
  OBVIOUS
<1> USE DEF OwnInv, TypeOK
<1>1. CASE UNCHANGED <<obj, waiter>>
  BY <1>1 DEF NoMissedAvailable
<1>2. ASSUME NEW a \in Admins, AdminStep(a)
      PROVE  NoMissedAvailable'
  <2>1. \A o \in Conns : obj'[o].state = "available" => obj[o].state = "available"
    <3> USE DEF Connection
    <3>1. CASE SignalWake(a) \/ SetConfig(a)
      BY <3>1 DEF SignalWake, SetConfig
    <3>2. CASE RebuildLookup(a)
      BY <3>2 DEF RebuildLookup, newConnection
    <3>3. CASE StopLoop(a)
      <4>1. CASE UNCHANGED obj
        BY <4>1
      <4>2. CASE obj' = [obj EXCEPT ![admin[a].conn] =
                           [obj[admin[a].conn] EXCEPT !.loop = NoLoop, !.retryAt = FALSE]]
        BY <4>2
      <4> QED
        BY <3>3, <4>1, <4>2 DEF StopLoop, Assign
    <3>4. CASE StartLoop(a)
      <4>1. CASE UNCHANGED obj
        BY <4>1
      <4>2. ASSUME NEW l \in Loops,
                   obj' = [obj EXCEPT ![admin[a].conn] =
                             [obj[admin[a].conn] EXCEPT
                               !.loop = l, !.state = "connecting",
                               !.failures = 0, !.retryAt = FALSE,
                               !.cooling = FALSE]]
            PROVE  \A o \in Conns :
                       obj'[o].state = "available" => obj[o].state = "available"
        BY <4>2
      <4> QED
        BY <3>4, <4>1, <4>2 DEF StartLoop, Assign
    <3>5. CASE SetUnavailable(a)
      BY <3>5 DEF SetUnavailable, Assign
    <3> QED
      BY <1>2, <3>1, <3>2, <3>3, <3>4, <3>5
      DEF AdminStep, StoreCreate, StoreUpdate, StoreSetEnabled, StoreDelete,
          LookupSetEnabled, LookupReconnect, CheckReconnect, LookupRetry,
          RemoveLookup, CancelLoop, JoinLoop
  <2>2. admin[a].pc \in {"stop", "start"} => admin[a].conn \in Conns
    BY SMTT(30) DEF Held, WithConn
  <2>3. UNCHANGED waiter \/ \E o \in Conns : publish(o)
    BY <1>2, <2>2
    DEF AdminStep, StoreCreate, StoreUpdate, StoreSetEnabled, StoreDelete,
        LookupSetEnabled, LookupReconnect, CheckReconnect, LookupRetry, SignalWake,
        RebuildLookup, RemoveLookup, StopLoop, CancelLoop, JoinLoop, SetConfig,
        StartLoop, SetUnavailable
  <2> QED
    BY <2>1, <2>3, MissFrame
<1>3. ASSUME NEW l \in Loops, LoopStep(l), ~Succeed(l)
      PROVE  NoMissedAvailable'
  <2>1. \A o \in Conns : obj'[o].state = "available" => obj[o].state = "available"
    <3> USE DEF Assign, Connection
    <3>1. CASE BeginConnecting(l)
      BY <3>1, SMTT(30) DEF BeginConnecting
    <3>2. CASE RecordFailure(l)
      <4>1. CASE UNCHANGED obj
        BY <4>1
      <4>2. ASSUME NEW n, NEW to \in {"suspended", "unavailable"},
                   obj' = [obj EXCEPT ![loop[l].conn] =
                             [obj[loop[l].conn] EXCEPT
                               !.failures = n, !.state = to, !.retryAt = FALSE]]
            PROVE  \A o \in Conns :
                       obj'[o].state = "available" => obj[o].state = "available"
        BY <4>2
      <4> QED
        BY <3>2, <4>1, <4>2 DEF RecordFailure
    <3>3. CASE ScheduleRetry(l)
      BY <3>3 DEF ScheduleRetry
    <3>4. CASE BackoffEnds(l)
      <4> DEFINE o == loop[l].conn
      <4>1. PICK woken \in {obj[o].wake, FALSE} :
               obj' = [obj EXCEPT ![o] = [obj[o] EXCEPT !.retryAt = FALSE,
                                            !.wake = IF woken THEN FALSE ELSE @]]
        BY <3>4 DEF BackoffEnds
      <4> QED
        BY <4>1
    <3>5. CASE LoopExit(l)
      BY <3>5 DEF LoopExit
    <3> QED
      BY <1>3, <3>1, <3>2, <3>3, <3>4, <3>5
      DEF LoopStep, Dial, DiscardSession, WaitCancelled, CloseSession,
          BackoffCancelled, LoopReturns
  <2>2. loop[l].pc # "idle" => loop[l].conn \in Conns
    BY DEF Linked, Live
  <2>3. UNCHANGED waiter \/ \E o \in Conns : publish(o)
    BY <1>3, <2>2
    DEF LoopStep, BeginConnecting, Dial, DiscardSession, WaitCancelled, CloseSession,
        RecordFailure, ScheduleRetry, BackoffCancelled, BackoffEnds, LoopReturns,
        LoopExit
  <2> QED
    BY <2>1, <2>3, MissFrame
<1>4. ASSUME NEW l \in Loops, Succeed(l)
      PROVE  NoMissedAvailable'
  <2> SUFFICES ASSUME NEW w \in Waiters,
                      waiter'[w].pc \in {"demand", "blocked"}, ~waiter'[w].notified
               PROVE  obj'[waiter'[w].conn].state # "available"
    BY DEF NoMissedAvailable
  <2>1. waiter'[w] = waiter[w] /\ waiter[w].conn # loop[l].conn
    BY <1>4 DEF Succeed, publish, WaiterRecord
  <2>2. obj'[waiter[w].conn] = obj[waiter[w].conn]
    BY <1>4, <2>1 DEF Succeed, Assign, Held
  <2> QED
    BY <2>1, <2>2 DEF NoMissedAvailable
<1>5. ASSUME NEW w \in Waiters, BeginWait(w) \/ WaiterStep(w)
      PROVE  NoMissedAvailable'
  <2>1. \A o \in Conns : obj'[o].state = obj[o].state
    BY <1>5
    DEF BeginWait, WaiterStep, WaitSnapshot, RequestDemand, WaitNotified, WaitGivesUp,
        Connection
  <2>2. \A v \in Waiters \ {w} : waiter'[v] = waiter[v]
    BY <1>5
    DEF BeginWait, WaiterStep, WaitSnapshot, RequestDemand, WaitNotified, WaitGivesUp,
        WaitReturn
  <2>3. waiter'[w].pc \in {"demand", "blocked"} /\ ~waiter'[w].notified =>
            /\ waiter'[w].conn = waiter[w].conn /\ waiter[w].conn \in Conns
            /\ obj[waiter[w].conn].state # "available"
    <3> USE DEF WaiterRecord, Held
    <3>1. CASE BeginWait(w)
      BY <3>1 DEF BeginWait, idleWaiter
    <3>2. CASE WaitSnapshot(w)
      BY <3>2 DEF WaitSnapshot, WaitReturn, idleWaiter
    <3>3. CASE RequestDemand(w)
      BY <3>3 DEF RequestDemand, NoMissedAvailable
    <3>4. CASE WaitNotified(w)
      BY <3>4 DEF WaitNotified
    <3>5. CASE WaitGivesUp(w)
      BY <3>5 DEF WaitGivesUp, WaitReturn, idleWaiter
    <3> QED
      BY <1>5, <3>1, <3>2, <3>3, <3>4, <3>5 DEF WaiterStep
  <2>4. \A v \in Waiters : waiter[v].pc # "idle" => waiter[v].conn \in Conns
    BY DEF Held
  <2> QED
    BY <2>1, <2>2, <2>3, <2>4 DEF NoMissedAvailable
<1>6. ASSUME NEW o \in Conns, CooldownExpires(o)
      PROVE  NoMissedAvailable'
  BY <1>6, MissFrame DEF CooldownExpires, Connection
<1>7. CASE ShutdownDone
  BY <1>7, MissFrame DEF ShutdownDone
<1>8. CASE ShutdownCancel
  BY <1>1, <1>8 DEF ShutdownCancel
<1>9. ASSUME NEW a \in Admins, BeginOperation(a)
      PROVE  NoMissedAvailable'
  BY <1>1, <1>9
  DEF BeginOperation, RestoreConnections, BeginCreate, BeginUpdate, BeginDelete,
      BeginSetEnabled, BeginReconnect, BeginRetry, Begin
<1>10. ASSUME NEW l \in Loops, SessionLost(l)
       PROVE  NoMissedAvailable'
  BY <1>1, <1>10 DEF SessionLost
<1> QED
  BY <1>1, <1>2, <1>3, <1>4, <1>5, <1>6, <1>7, <1>8, <1>9, <1>10 DEF Next, vars

(* waitSnapshot takes the channel and the state under one lock, and every   *)
(* recovery publishes: no caller sleeps through one, however many           *)
(* operations overlap.                                                      *)
THEOREM NoMissed == Spec => []NoMissedAvailable
<1>1. Init => NoMissedAvailable
  BY DEF Init, NoMissedAvailable, idleWaiter
<1> QED
  BY InitOwn, OwnStep, MissStep, <1>1, PTL DEF Spec

----------------------------------------------------------------------------
(* One administrative operation at a time.  What an operation changes first *)
(* in the row and then in memory agrees again when it returns; the parts of *)
(* the invariant say how far it has come.                                   *)

NoneRuns == \A l \in Loops : ~Live(l)

(* The row and memory agree: while the operation only reads, and between    *)
(* operations once RestoreConnections has run.                              *)
Agreed ==
    /\ conns # NoConn <=> Present
    /\ conns # NoConn => obj[conns].cfg = row.cfg
    /\ ~Present \/ ~row.cfg.enabled => NoneRuns
    /\ base = "up" /\ conns # NoConn =>
         IF row.cfg.enabled THEN obj[conns].loop # NoLoop
         ELSE obj[conns].state = "unavailable" /\ ~obj[conns].retryAt

(* How far the operation of a has come.                                     *)
Progress(a) ==
    LET pc == admin[a].pc
        deletes == admin[a].op = "delete"
    IN
    /\ ~booted => pc = "idle"
    /\ booted /\ pc \in {"idle", "lookup", "store", "check", "wake"} => Agreed
    /\ pc = "store" /\ admin[a].op \in {"enable", "disable"} =>
         admin[a].cfg = [row.cfg EXCEPT !.enabled = admin[a].cfg.enabled]
    /\ pc \in {"check", "rebuild", "stop", "cancel", "join", "setConfig", "start"} /\ ~deletes =>
         Present /\ admin[a].cfg = row.cfg
    /\ pc \in {"check", "rebuild", "setConfig", "start"} => ~deletes
    /\ pc = "remove" => deletes
    /\ pc \in {"remove", "stop", "cancel", "join"} /\ deletes => ~Present
    /\ pc \in {"stop", "cancel", "join", "setConfig", "start"} =>
         conns = IF deletes THEN NoConn ELSE admin[a].conn
    /\ pc \in {"cancel", "join", "setConfig", "start"} =>
         \A o \in Conns : obj[o].loop = NoLoop
    /\ pc \in {"setConfig", "start"} => NoneRuns
    /\ pc = "start" => obj[admin[a].conn].cfg = row.cfg

(* A loop that was told to stop is waited for.                              *)
CancelledIsJoined ==
    \A l \in Loops : Live(l) /\ loop[l].cancelled =>
        \E a \in Admins : admin[a].pc = "join" /\ admin[a].loop = l

(* Only the registered Connection runs a loop, or the one being deleted.    *)
OnlyRegisteredRuns ==
    \A o \in Conns : obj[o].loop # NoLoop =>
        \/ o = conns
        \/ \E a \in Admins :
             admin[a].pc = "stop" /\ admin[a].op = "delete" /\ admin[a].conn = o

(* A loop dialled with the configuration its Connection still has.          *)
DialledAsConfigured ==
    \A l \in Loops :
        loop[l].pc \in {"dial", "dialed", "wait", "close"} /\ ~loop[l].cancelled =>
            loop[l].ver = obj[loop[l].conn].cfg.ver

(* StateMatchesLoop, of every Connection and during every operation; a loop *)
(* that nothing stops does not end.                                         *)
Fits(c, pc) ==
    /\ pc # "exit"
    /\ c.retryAt <=> pc = "backoff"
    /\ c.state = "available" <=> pc \in {"wait", "close", "closed"}
    /\ c.state \in {"unavailable", "suspended"} => pc \in {"schedule", "backoff", "top"}
    /\ c.state = "suspended" => c.failures = FailureThreshold

Matches(o) == Fits(obj[o], loop[obj[o].loop].pc)

UpMatches == base = "up" => \A o \in Conns : obj[o].loop # NoLoop => Matches(o)

StartsEmpty == ~booted => base = "up" /\ conns = NoConn /\ NoneRuns

SerialInv ==
    /\ \A a \in Admins : Progress(a)
    /\ CancelledIsJoined /\ OnlyRegisteredRuns /\ DialledAsConfigured
    /\ UpMatches /\ StartsEmpty

Serial == Admins # {} /\ (\A a, b \in Admins : a = b) /\ ~RestoreMayFail

(* What readers of a Connection see stays, whatever is woken or cools down. *)
KeepsObjects ==
    \A o \in Conns :
        /\ obj'[o].cfg = obj[o].cfg /\ obj'[o].state = obj[o].state
        /\ obj'[o].failures = obj[o].failures /\ obj'[o].loop = obj[o].loop
        /\ obj'[o].retryAt = obj[o].retryAt

LEMMA SerialInit == Init => SerialInv
<1> SUFFICES ASSUME Init PROVE SerialInv
  OBVIOUS
<1>1. /\ ~booted /\ base = "up" /\ conns = NoConn
      /\ \A l \in Loops : loop[l].pc = "idle"
      /\ \A o \in Conns : obj[o].loop = NoLoop
      /\ \A a \in Admins : admin[a].pc = "idle"
  BY DEF Init, idleLoop, newConnection, idleAdmin
<1> QED
  BY <1>1 DEF SerialInv, Progress, CancelledIsJoined, OnlyRegisteredRuns,
      DialledAsConfigured, UpMatches, StartsEmpty, NoneRuns, Live

(* While no operation is stopping a loop, each loop is the one its Connection *)
(* runs.                                                                    *)
LEMMA LoopsOwned ==
    ASSUME OwnInv, SerialInv, \A a \in Admins : admin[a].pc \notin {"cancel", "join"},
           NEW l \in Loops, Live(l)
    PROVE  /\ ~loop[l].cancelled /\ loop[l].conn \in Conns
           /\ obj[loop[l].conn].loop = l /\ l # NoLoop
BY ConstantsAssumption DEF SerialInv, CancelledIsJoined, OwnInv, Linked, LoopOwnership

LEMMA NothingOwnedRuns ==
    ASSUME OwnInv, SerialInv, \A a \in Admins : admin[a].pc \notin {"cancel", "join"},
           \A o \in Conns : obj[o].loop = NoLoop
    PROVE  NoneRuns
BY LoopsOwned DEF NoneRuns

LEMMA KeepsParts ==
    ASSUME OwnInv, SerialInv, KeepsObjects, UNCHANGED <<conns, loop, base>>
    PROVE  /\ DialledAsConfigured' /\ UpMatches' /\ (NoneRuns' <=> NoneRuns)
           /\ UNCHANGED row /\ Agreed => Agreed'
<1>1. NoneRuns' <=> NoneRuns
  BY DEF NoneRuns, Live
<1>2. DialledAsConfigured'
  <2> SUFFICES ASSUME NEW l \in Loops, loop[l].pc \in {"dial", "dialed", "wait", "close"},
                      ~loop[l].cancelled
               PROVE  loop[l].ver = obj'[loop[l].conn].cfg.ver
    BY DEF DialledAsConfigured
  <2>1. loop[l].conn \in Conns
    BY DEF OwnInv, Linked, Live
  <2>2. loop[l].ver = obj[loop[l].conn].cfg.ver
    BY DEF SerialInv, DialledAsConfigured
  <2> QED
    BY <2>1, <2>2 DEF KeepsObjects
<1>3. UpMatches'
  <2> SUFFICES ASSUME base = "up", NEW o \in Conns, obj'[o].loop # NoLoop
               PROVE  Matches(o)'
    BY DEF UpMatches
  <2>1. Matches(o)
    BY DEF KeepsObjects, SerialInv, UpMatches
  <2> QED
    BY <2>1 DEF Matches, Fits, KeepsObjects
<1>4. ASSUME UNCHANGED row, Agreed PROVE Agreed'
  <2>1. conns # NoConn => conns \in Conns
    BY DEF OwnInv, TypeOK
  <2> QED
    BY <1>1, <1>4, <2>1 DEF Agreed, KeepsObjects, Present
<1> QED
  BY <1>1, <1>2, <1>3, <1>4

(* A step of the operation outside stopLoop, startLoop and the waiting.     *)
LEMMA AdminQuiet ==
    ASSUME Serial, OwnInv, SerialInv, NEW a \in Admins, KeepsObjects,
           UNCHANGED <<conns, loop, base>>, booted',
           admin[a].pc \notin {"stop", "cancel", "join"}, Progress(a)'
    PROVE  SerialInv'
<1>1. \A b \in Admins : Progress(b)'
  BY DEF Serial
<1>2. CancelledIsJoined'
  BY DEF SerialInv, CancelledIsJoined, Serial, Live
<1>3. OnlyRegisteredRuns'
  BY DEF SerialInv, OnlyRegisteredRuns, Serial, KeepsObjects
<1> QED
  BY <1>1, <1>2, <1>3, KeepsParts DEF SerialInv, StartsEmpty

LEMMA SerialBegin ==
    ASSUME Serial, OwnInv, SerialInv, NEW a \in Admins, BeginOperation(a)
    PROVE  SerialInv'
<1>1. CASE RestoreConnections(a)
  <2>1. /\ ~booted /\ booted' /\ UNCHANGED <<row, conns, obj, loop, base>>
        /\ admin[a].pc = "idle"
    BY <1>1 DEF RestoreConnections
  <2>2. conns = NoConn /\ NoneRuns
    BY <2>1 DEF SerialInv, StartsEmpty
  <2>3. KeepsObjects
    BY <2>1 DEF KeepsObjects
  <2>4. CASE Present /\ admin' = [admin EXCEPT ![a] =
                 [idleAdmin EXCEPT !.pc = "rebuild", !.op = "restore", !.cfg = row.cfg]]
    <3>1. admin'[a].pc = "rebuild" /\ admin'[a].op = "restore" /\ admin'[a].cfg = row.cfg
      BY <2>4 DEF OwnInv, TypeOK, idleAdmin
    <3>2. Progress(a)'
      BY <2>1, <2>4, <3>1 DEF Progress, Present
    <3> QED
      BY <2>1, <2>3, <3>2, AdminQuiet
  <2>5. CASE ~Present /\ UNCHANGED admin
    <3>1. Agreed'
      BY <2>1, <2>2, <2>5 DEF Agreed, Present, NoneRuns, Live
    <3>2. Progress(a)'
      BY <2>1, <2>5, <3>1 DEF Progress, Present
    <3> QED
      BY <2>1, <2>3, <3>2, AdminQuiet
  <2> QED
    BY <1>1, <2>4, <2>5 DEF RestoreConnections, Serial
<1>2. ASSUME NEW op, NEW pc \in {"store", "lookup"}, NEW cfg, Begin(a, op, pc, cfg),
             pc = "store" => op \notin {"enable", "disable"}
      PROVE  SerialInv'
  <2>1. /\ admin[a].pc = "idle" /\ booted /\ booted'
        /\ admin'[a].pc = pc /\ admin'[a].op = op
        /\ UNCHANGED <<row, conns, obj, loop, base>>
    BY <1>2 DEF Begin, Serving, OwnInv, TypeOK, idleAdmin
  <2>2. KeepsObjects
    BY <2>1 DEF KeepsObjects
  <2>3. Agreed'
    BY <2>1, <2>2, KeepsParts DEF SerialInv, Progress
  <2>4. Progress(a)'
    BY <1>2, <2>1, <2>3 DEF Progress
  <2> QED
    BY <2>1, <2>2, <2>4, AdminQuiet
<1> QED
  BY <1>1, <1>2
  DEF BeginOperation, BeginCreate, BeginUpdate, BeginDelete, BeginSetEnabled,
      BeginReconnect, BeginRetry

(* Writes to the row and the look-ups before them.                          *)
LEMMA SerialStore ==
    ASSUME Serial, OwnInv, SerialInv, NEW a \in Admins,
           \/ StoreCreate(a) \/ StoreUpdate(a) \/ StoreSetEnabled(a) \/ StoreDelete(a)
    PROVE  SerialInv'
<1>1. /\ admin[a].pc = "store" /\ UNCHANGED <<conns, obj, loop, base, booted>>
      /\ admin \in [Admins -> AdminRecord] /\ row \in Row
  BY DEF StoreCreate, StoreUpdate, StoreSetEnabled, StoreDelete, OwnInv, TypeOK
<1>2. booted /\ Agreed /\ KeepsObjects
  BY <1>1 DEF SerialInv, Progress, KeepsObjects
<1>3. CASE UNCHANGED row /\ Return(a)
  <2>1. admin'[a].pc = "idle"
    BY <1>1, <1>3 DEF Return, idleAdmin
  <2>2. Agreed'
    BY <1>1, <1>2, <1>3, KeepsParts
  <2>3. Progress(a)'
    BY <1>1, <1>2, <2>1, <2>2 DEF Progress
  <2> QED
    BY <1>1, <1>2, <2>3, AdminQuiet
<1>4. ASSUME admin[a].op # "delete", Goto(a, "rebuild"), row'.status = "present",
             row'.cfg = admin[a].cfg
      PROVE  SerialInv'
  <2>1. admin'[a].pc = "rebuild" /\ admin'[a].op = admin[a].op /\ admin'[a].cfg = admin[a].cfg
    BY <1>1, <1>4 DEF Goto, AdminRecord
  <2>2. Progress(a)'
    BY <1>1, <1>2, <1>4, <2>1 DEF Progress, Present
  <2> QED
    BY <1>1, <1>2, <2>2, AdminQuiet
<1>5. CASE StoreCreate(a)
  BY <1>4, <1>5 DEF StoreCreate
<1>6. CASE StoreUpdate(a)
  <2>1. CASE Present /\ row' = [row EXCEPT !.cfg = admin[a].cfg] /\ Goto(a, "rebuild")
    BY <1>1, <1>4, <1>6, <2>1 DEF StoreUpdate, Present, Row
  <2> QED
    BY <1>3, <1>6, <2>1 DEF StoreUpdate
<1>7. CASE StoreSetEnabled(a)
  <2>1. CASE Present /\ row' = [row EXCEPT !.cfg.enabled = admin[a].cfg.enabled]
             /\ Goto(a, "rebuild")
    <3>1. admin[a].op \in {"enable", "disable"}
      BY <1>7 DEF StoreSetEnabled
    <3>2. admin[a].cfg = [row.cfg EXCEPT !.enabled = admin[a].cfg.enabled]
      BY <1>1, <3>1 DEF SerialInv, Progress
    <3>3. row'.status = "present" /\ row'.cfg = [row.cfg EXCEPT !.enabled = admin[a].cfg.enabled]
      BY <1>1, <2>1 DEF Present, Row, Config
    <3> QED
      BY <1>4, <2>1, <3>1, <3>2, <3>3
  <2> QED
    BY <1>3, <1>7, <2>1 DEF StoreSetEnabled
<1>8. CASE StoreDelete(a)
  <2>1. CASE Present /\ row' = [row EXCEPT !.status = "deleted"] /\ Goto(a, "remove")
    <3>1. /\ admin'[a].pc = "remove" /\ admin'[a].op = "delete"
          /\ row'.status = "deleted"
      BY <1>1, <1>8, <2>1 DEF StoreDelete, Goto, AdminRecord, Row
    <3>2. Progress(a)'
      BY <1>1, <1>2, <3>1 DEF Progress, Present
    <3> QED
      BY <1>1, <1>2, <3>2, AdminQuiet
  <2> QED
    BY <1>3, <1>8, <2>1 DEF StoreDelete
<1> QED
  BY <1>5, <1>6, <1>7, <1>8

LEMMA SerialLookup ==
    ASSUME Serial, OwnInv, SerialInv, NEW a \in Admins,
           \/ LookupSetEnabled(a) \/ LookupReconnect(a) \/ CheckReconnect(a)
           \/ LookupRetry(a) \/ SignalWake(a)
    PROVE  SerialInv'
<1>1. /\ admin[a].pc \in {"lookup", "check", "wake"}
      /\ UNCHANGED <<row, conns, loop, base, booted>>
      /\ admin \in [Admins -> AdminRecord] /\ row \in Row /\ row.cfg \in Config
  BY DEF LookupSetEnabled, LookupReconnect, CheckReconnect, LookupRetry, SignalWake,
         OwnInv, TypeOK, Row
<1>2. KeepsObjects
  <2>1. CASE UNCHANGED obj
    BY <2>1 DEF KeepsObjects
  <2>2. CASE SignalWake(a)
    <3>1. obj' = [obj EXCEPT ![admin[a].conn] = [obj[admin[a].conn] EXCEPT !.wake = TRUE]]
      BY <2>2 DEF SignalWake
    <3>2. obj \in [Conns -> Connection]
      BY DEF OwnInv, TypeOK
    <3> QED
      BY <3>1, <3>2 DEF KeepsObjects, Connection
  <2> QED
    BY <2>1, <2>2 DEF LookupSetEnabled, LookupReconnect, CheckReconnect, LookupRetry
<1>3. booted /\ Agreed /\ Agreed'
  BY <1>1, <1>2, KeepsParts DEF SerialInv, Progress
<1>4. Present \/ conns = NoConn
  BY <1>3 DEF Agreed
<1>5. ASSUME admin'[a].pc \in {"idle", "wake"} PROVE SerialInv'
  <2>1. Progress(a)'
    BY <1>1, <1>3, <1>5 DEF Progress
  <2> QED
    BY <1>1, <1>2, <1>3, <2>1, AdminQuiet
<1>6. ASSUME Return(a) PROVE SerialInv'
  <2>1. admin'[a].pc = "idle"
    BY <1>1, <1>6 DEF Return, idleAdmin
  <2> QED
    BY <1>5, <2>1
<1>7. ASSUME admin'[a].pc \in {"check", "rebuild"}, admin'[a].op # "delete", Present,
             admin'[a].cfg = row.cfg
      PROVE  SerialInv'
  <2>1. Progress(a)'
    BY <1>1, <1>3, <1>7 DEF Progress, Present
  <2> QED
    BY <1>1, <1>2, <1>3, <2>1, AdminQuiet
<1>8. CASE LookupSetEnabled(a)
  <2>1. PICK c \in Config, e \in BOOLEAN :
            \/ Return(a)
            \/ /\ c = row.cfg
               /\ admin' = [admin EXCEPT ![a].pc = "store", ![a].cfg = [c EXCEPT !.enabled = e]]
    <3>1. conns # NoConn => obj[conns].cfg = row.cfg
      BY <1>3 DEF Agreed
    <3>2. (admin[a].op = "enable") \in BOOLEAN
      OBVIOUS
    <3> QED
      BY <1>1, <1>8, <3>1, <3>2 DEF LookupSetEnabled
  <2>2. CASE c = row.cfg /\ admin' = [admin EXCEPT ![a].pc = "store",
                                                ![a].cfg = [c EXCEPT !.enabled = e]]
    <3>1. admin'[a].pc = "store" /\ admin'[a].cfg = [row.cfg EXCEPT !.enabled = e]
      BY <1>1, <2>2 DEF AdminRecord
    <3>2. admin'[a].cfg = [row.cfg EXCEPT !.enabled = admin'[a].cfg.enabled]
      BY <1>1, <3>1 DEF Config
    <3>3. Progress(a)'
      BY <1>1, <1>3, <3>1, <3>2 DEF Progress
    <3> QED
      BY <1>1, <1>2, <1>3, <3>3, AdminQuiet
  <2> QED
    BY <1>6, <2>1, <2>2
<1>9. CASE LookupReconnect(a)
  <2>1. admin[a].op = "reconnect" /\ admin[a].pc = "lookup"
    BY <1>9 DEF LookupReconnect
  <2>2. CASE conns # NoConn
    <3>1. admin' = [admin EXCEPT ![a].pc = "check", ![a].conn = conns,
                                 ![a].cfg = obj[conns].cfg]
      BY <1>9, <2>2 DEF LookupReconnect
    <3>2. obj[conns].cfg = row.cfg
      BY <1>3, <2>2 DEF Agreed
    <3>3. /\ admin'[a].pc = "check" /\ admin'[a].op = "reconnect"
          /\ admin'[a].cfg = row.cfg
      BY <1>1, <2>1, <3>1, <3>2 DEF AdminRecord
    <3> QED
      BY <1>4, <1>7, <2>2, <3>3
  <2>3. CASE conns = NoConn
    BY <1>3, <1>6, <1>9, <2>3 DEF LookupReconnect, Agreed
  <2> QED
    BY <2>2, <2>3
<1>10. CASE CheckReconnect(a)
  <2>1. CASE Return(a)
    BY <1>6, <2>1
  <2>2. CASE Goto(a, "wake")
    <3>1. admin'[a].pc = "wake"
      BY <1>1, <2>2 DEF Goto, AdminRecord
    <3> QED
      BY <1>5, <3>1
  <2>3. CASE admin' = [admin EXCEPT ![a].pc = "rebuild", ![a].conn = NoConn]
    <3>1. /\ admin'[a].pc = "rebuild" /\ admin'[a].op = admin[a].op
          /\ admin'[a].cfg = admin[a].cfg
      BY <1>1, <2>3 DEF AdminRecord
    <3>2. Present /\ admin[a].op # "delete" /\ admin[a].cfg = row.cfg
      BY <1>10 DEF CheckReconnect, SerialInv, Progress
    <3> QED
      BY <1>7, <3>1, <3>2
  <2> QED
    BY <1>10, <2>1, <2>2, <2>3 DEF CheckReconnect
<1>11. CASE LookupRetry(a)
  <2>1. CASE admin' = [admin EXCEPT ![a].pc = "wake", ![a].conn = conns]
    <3>1. admin'[a].pc = "wake"
      BY <1>1, <2>1 DEF AdminRecord
    <3> QED
      BY <1>5, <3>1
  <2> QED
    BY <1>6, <1>11, <2>1 DEF LookupRetry
<1>12. CASE SignalWake(a)
  BY <1>6, <1>12 DEF SignalWake
<1> QED
  BY <1>8, <1>9, <1>10, <1>11, <1>12

(* While the operation of a works on the Connection the others are idle, so *)
(* that the parts of the invariant follow from what holds of a.             *)
LEMMA SerialRebuild ==
    ASSUME Serial, OwnInv, SerialInv, NEW a \in Admins, RebuildLookup(a)
    PROVE  SerialInv'
<1>1. /\ admin[a].pc = "rebuild" /\ UNCHANGED <<row, loop, base, booted>>
      /\ admin \in [Admins -> AdminRecord]
  BY DEF RebuildLookup, OwnInv, TypeOK
<1>2. booted /\ admin[a].op # "delete" /\ Present /\ admin[a].cfg = row.cfg
  BY <1>1 DEF SerialInv, Progress
<1>3. CASE conns # NoConn
  <2>1. /\ UNCHANGED <<conns, obj>>
        /\ admin' = [admin EXCEPT ![a].pc = "stop", ![a].conn = conns]
    BY <1>3 DEF RebuildLookup
  <2>2. /\ admin'[a].pc = "stop" /\ admin'[a].conn = conns
        /\ admin'[a].op = admin[a].op /\ admin'[a].cfg = admin[a].cfg
    BY <1>1, <2>1 DEF AdminRecord
  <2>3. Progress(a)'
    BY <1>1, <1>2, <2>1, <2>2 DEF Progress, Present
  <2>4. KeepsObjects
    BY <2>1 DEF KeepsObjects
  <2> QED
    BY <1>1, <1>2, <2>1, <2>3, <2>4, AdminQuiet
<1>4. CASE conns = NoConn
  <2>1. PICK o \in Conns :
            /\ Unreferenced(o) /\ conns' = o
            /\ obj' = [obj EXCEPT ![o] = newConnection]
            /\ admin' = [admin EXCEPT ![a].pc = "stop", ![a].conn = o]
    BY <1>4 DEF RebuildLookup
  <2>2. /\ admin'[a].pc = "stop" /\ admin'[a].conn = o
        /\ admin'[a].op = admin[a].op /\ admin'[a].cfg = admin[a].cfg
    BY <1>1, <2>1 DEF AdminRecord
  <2>3. \A b \in Admins : admin[b].pc = "rebuild" /\ Progress(b)'
    BY <1>1, <1>2, <2>1, <2>2 DEF Progress, Present, Serial
  <2>4. \A p \in Conns : obj[p].loop = NoLoop
    BY <1>4, <2>3, ConstantsAssumption DEF SerialInv, OnlyRegisteredRuns
  <2>5. NoneRuns
    BY <2>3, <2>4, NothingOwnedRuns
  <2>6. \A p \in Conns : obj'[p].loop = NoLoop
    BY <2>1, <2>4 DEF newConnection, OwnInv, TypeOK
  <2>7. \A l \in Loops : loop'[l].pc = "idle" /\ ~Live(l)'
    BY <1>1, <2>5 DEF NoneRuns, Live
  <2> QED
    BY <1>1, <1>2, <2>3, <2>6, <2>7
    DEF SerialInv, CancelledIsJoined, OnlyRegisteredRuns, DialledAsConfigured,
        UpMatches, StartsEmpty
<1> QED
  BY <1>3, <1>4

LEMMA SerialRemove ==
    ASSUME Serial, OwnInv, SerialInv, NEW a \in Admins, RemoveLookup(a)
    PROVE  SerialInv'
<1>1. /\ admin[a].pc = "remove" /\ UNCHANGED <<row, obj, loop, base, booted>>
      /\ admin \in [Admins -> AdminRecord] /\ conns' = NoConn
  BY DEF RemoveLookup, OwnInv, TypeOK
<1>2. booted /\ admin[a].op = "delete" /\ ~Present
  BY <1>1 DEF SerialInv, Progress
<1>3. \A b \in Admins : admin[b].pc = "remove"
  BY <1>1 DEF Serial
<1>4. /\ DialledAsConfigured' /\ UpMatches' /\ (NoneRuns' <=> NoneRuns)
      /\ \A l \in Loops : Live(l)' /\ loop'[l].cancelled => FALSE
  <2>1. \A l \in Loops : ~(Live(l) /\ loop[l].cancelled)
    BY <1>3, LoopsOwned
  <2> QED
    BY <1>1, <2>1
    DEF SerialInv, DialledAsConfigured, UpMatches, Matches, NoneRuns, Live
<1>5. CASE conns = NoConn
  <2>1. admin'[a].pc = "idle"
    BY <1>1, <1>5 DEF RemoveLookup, Return, idleAdmin
  <2>2. \A o \in Conns : obj[o].loop = NoLoop
    BY <1>3, <1>5, ConstantsAssumption DEF SerialInv, OnlyRegisteredRuns
  <2>3. NoneRuns'
    BY <1>3, <1>4, <2>2, NothingOwnedRuns
  <2>4. Agreed'
    BY <1>1, <1>2, <2>3 DEF Agreed, Present
  <2>5. \A b \in Admins : Progress(b)'
    BY <1>1, <1>2, <2>1, <2>4 DEF Progress, Serial
  <2> QED
    BY <1>1, <1>2, <1>4, <2>2, <2>5
    DEF SerialInv, CancelledIsJoined, OnlyRegisteredRuns, StartsEmpty
<1>6. CASE conns # NoConn
  <2>1. /\ admin'[a].pc = "stop" /\ admin'[a].conn = conns /\ admin'[a].op = "delete"
    BY <1>1, <1>2, <1>6 DEF RemoveLookup, AdminRecord
  <2>2. \A b \in Admins : Progress(b)'
    BY <1>1, <1>2, <2>1 DEF Progress, Present, Serial
  <2>3. OnlyRegisteredRuns'
    BY <1>1, <1>3, <2>1 DEF SerialInv, OnlyRegisteredRuns
  <2> QED
    BY <1>1, <1>2, <1>4, <2>2, <2>3 DEF SerialInv, CancelledIsJoined, StartsEmpty
<1> QED
  BY <1>5, <1>6

(* After stopLoop: a deletion returns, a rebuild sets the configuration.    *)
LEMMA SerialAfterStop ==
    ASSUME Serial, OwnInv, SerialInv, NEW a \in Admins, admin[a].pc \in {"stop", "join"},
           AfterStop(a), UNCHANGED <<row, conns, obj, loop, base, booted>>,
           \A o \in Conns : obj[o].loop = NoLoop, NoneRuns
    PROVE  SerialInv'
<1>1. admin \in [Admins -> AdminRecord] /\ booted
  BY DEF OwnInv, TypeOK, SerialInv, Progress
<1>2. /\ \A l \in Loops : loop'[l].pc = "idle" /\ ~Live(l)'
      /\ NoneRuns'
  BY DEF NoneRuns, Live
<1>3. Progress(a)'
  <2>1. CASE admin[a].op = "delete"
    <3>1. admin'[a].pc = "idle"
      BY <1>1, <2>1 DEF AfterStop, Return, idleAdmin
    <3>2. ~Present /\ conns = NoConn
      BY <2>1 DEF SerialInv, Progress
    <3>3. Agreed'
      BY <1>2, <3>2 DEF Agreed, Present
    <3> QED
      BY <1>1, <3>1, <3>3 DEF Progress
  <2>2. CASE admin[a].op # "delete"
    <3>1. /\ admin'[a].pc = "setConfig" /\ admin'[a].op = admin[a].op
          /\ admin'[a].cfg = admin[a].cfg /\ admin'[a].conn = admin[a].conn
      BY <1>1, <2>2 DEF AfterStop, AdminRecord
    <3>2. Present /\ admin[a].cfg = row.cfg /\ conns = admin[a].conn
      BY <2>2 DEF SerialInv, Progress
    <3> QED
      BY <1>1, <1>2, <2>2, <3>1, <3>2 DEF Progress, Present
  <2> QED
    BY <2>1, <2>2
<1> QED
  BY <1>1, <1>2, <1>3
  DEF SerialInv, CancelledIsJoined, OnlyRegisteredRuns, DialledAsConfigured,
      UpMatches, StartsEmpty, Serial

LEMMA SerialStop ==
    ASSUME Serial, OwnInv, SerialInv, NEW a \in Admins, StopLoop(a)
    PROVE  SerialInv'
<1> DEFINE o == admin[a].conn
           l == obj[o].loop
<1>1. /\ admin[a].pc = "stop" /\ o \in Conns /\ UNCHANGED <<row, conns, base, booted>>
      /\ admin \in [Admins -> AdminRecord]
      /\ \A b \in Admins : b = a /\ admin[b].pc \notin {"cancel", "join"}
      /\ UNCHANGED loop
  BY DEF StopLoop, OwnInv, TypeOK, Held, WithConn, Serial
<1>2. booted /\ conns = IF admin[a].op = "delete" THEN NoConn ELSE o
  BY <1>1 DEF SerialInv, Progress
<1>3. \A p \in Conns \ {o} : obj[p].loop = NoLoop
  BY <1>1, <1>2, ConstantsAssumption DEF SerialInv, OnlyRegisteredRuns
<1>4. CASE l = NoLoop
  <2>1. AfterStop(a) /\ UNCHANGED <<obj, loop>>
    BY <1>4 DEF StopLoop
  <2>2. \A p \in Conns : obj[p].loop = NoLoop
    BY <1>3, <1>4
  <2>3. NoneRuns
    BY <1>1, <2>2, NothingOwnedRuns
  <2> QED
    BY <1>1, <2>1, <2>2, <2>3, SerialAfterStop
<1>5. CASE l # NoLoop
  <2>1. /\ obj' = [obj EXCEPT ![o] = [obj[o] EXCEPT !.loop = NoLoop,
                                                    !.retryAt = FALSE]]
        /\ admin' = [admin EXCEPT ![a].pc = "cancel", ![a].loop = l]
    BY <1>5 DEF StopLoop, Assign
  <2>2. l \in Loops /\ obj[o] \in Connection /\ obj \in [Conns -> Connection]
    BY <1>1, <1>5 DEF OwnInv, TypeOK, Connection
  <2>3. /\ admin'[a].pc = "cancel" /\ admin'[a].loop = l /\ admin'[a].conn = o
        /\ admin'[a].op = admin[a].op /\ admin'[a].cfg = admin[a].cfg
    BY <1>1, <2>1 DEF AdminRecord
  <2>4. \A p \in Conns : obj'[p].loop = NoLoop /\ obj'[p].cfg = obj[p].cfg
    <3>1. obj'[o].loop = NoLoop /\ obj'[o].cfg = obj[o].cfg
      BY <1>1, <2>1, <2>2 DEF Connection
    <3>2. \A p \in Conns \ {o} : obj'[p] = obj[p]
      BY <1>1, <2>1, <2>2
    <3> QED
      BY <1>3, <3>1, <3>2
  <2> HIDE DEF l
  <2>6. Progress(a)'
    <3>1. admin[a].op # "delete" => Present /\ admin[a].cfg = row.cfg
      BY <1>1 DEF SerialInv, Progress
    <3>2. admin[a].op = "delete" => ~Present
      BY <1>1 DEF SerialInv, Progress
    <3> QED
      BY <1>1, <1>2, <2>3, <2>4, <3>1, <3>2 DEF Progress, Present
  <2>7. CancelledIsJoined'
    BY <1>1, LoopsOwned DEF CancelledIsJoined, Live
  <2>8. DialledAsConfigured'
    <3> SUFFICES ASSUME NEW k \in Loops,
                        loop[k].pc \in {"dial", "dialed", "wait", "close"}, ~loop[k].cancelled
                 PROVE  loop[k].ver = obj'[loop[k].conn].cfg.ver
      BY <1>1 DEF DialledAsConfigured
    <3>1. loop[k].conn \in Conns
      BY DEF OwnInv, Linked, Live
    <3> QED
      BY <2>4, <3>1 DEF SerialInv, DialledAsConfigured
  <2> QED
    BY <1>1, <1>2, <2>4, <2>6, <2>7, <2>8
    DEF SerialInv, OnlyRegisteredRuns, UpMatches, StartsEmpty
<1> QED
  BY <1>4, <1>5

LEMMA SerialCancel ==
    ASSUME Serial, OwnInv, SerialInv, NEW a \in Admins, CancelLoop(a)
    PROVE  SerialInv'
<1>1. /\ admin[a].pc = "cancel" /\ UNCHANGED <<row, conns, obj, base, booted>>
      /\ admin' = [admin EXCEPT ![a].pc = "join"]
      /\ loop' = [loop EXCEPT ![admin[a].loop].cancelled = TRUE]
      /\ admin \in [Admins -> AdminRecord] /\ loop \in [Loops -> LoopRecord]
  BY DEF CancelLoop, Goto, OwnInv, TypeOK
<1>2. /\ admin'[a].pc = "join" /\ admin'[a].loop = admin[a].loop
      /\ admin'[a].conn = admin[a].conn /\ admin'[a].op = admin[a].op
      /\ admin'[a].cfg = admin[a].cfg
  BY <1>1 DEF AdminRecord
<1>3. \A k \in Loops :
         /\ loop'[k].pc = loop[k].pc /\ loop'[k].conn = loop[k].conn
         /\ loop'[k].ver = loop[k].ver
         /\ loop'[k].cancelled => loop[k].cancelled \/ k = admin[a].loop
         /\ loop[k].cancelled => loop'[k].cancelled
  BY <1>1 DEF LoopRecord
<1>4. booted /\ \A o \in Conns : obj[o].loop = NoLoop
  BY <1>1 DEF SerialInv, Progress
<1>5. Progress(a)'
  BY <1>1, <1>2, <1>4 DEF SerialInv, Progress, Present
<1>6. CancelledIsJoined'
  BY <1>1, <1>2, <1>3 DEF SerialInv, CancelledIsJoined, Serial, Live
<1>7. DialledAsConfigured'
  BY <1>1, <1>3 DEF SerialInv, DialledAsConfigured
<1> QED
  BY <1>1, <1>4, <1>5, <1>6, <1>7
  DEF SerialInv, OnlyRegisteredRuns, UpMatches, StartsEmpty, Serial

LEMMA SerialJoin ==
    ASSUME Serial, OwnInv, SerialInv, NEW a \in Admins, JoinLoop(a)
    PROVE  SerialInv'
<1>1. /\ admin[a].pc = "join" /\ ~Live(admin[a].loop) /\ AfterStop(a)
      /\ UNCHANGED <<row, conns, obj, loop, base, booted>>
  BY DEF JoinLoop
<1>2. \A o \in Conns : obj[o].loop = NoLoop
  BY <1>1 DEF SerialInv, Progress
<1>3. NoneRuns
  <2> SUFFICES ASSUME NEW l \in Loops, Live(l) PROVE FALSE
    BY DEF NoneRuns
  <2>1. CASE loop[l].cancelled
    BY <1>1, <2>1 DEF SerialInv, CancelledIsJoined, Serial
  <2>2. CASE ~loop[l].cancelled
    BY <1>1, <1>2, <2>2, ConstantsAssumption DEF OwnInv, Linked, LoopOwnership, Serial
  <2> QED
    BY <2>1, <2>2
<1> QED
  BY <1>1, <1>2, <1>3, SerialAfterStop

LEMMA SerialStart ==
    ASSUME Serial, OwnInv, SerialInv, NEW a \in Admins,
           SetConfig(a) \/ StartLoop(a) \/ SetUnavailable(a)
    PROVE  SerialInv'
<1> DEFINE o == admin[a].conn
<1>1. /\ admin[a].pc \in {"setConfig", "start"} /\ UNCHANGED <<row, conns, base, booted>>
      /\ admin \in [Admins -> AdminRecord] /\ obj \in [Conns -> Connection]
      /\ o \in Conns /\ obj[o] \in Connection
  BY DEF SetConfig, StartLoop, SetUnavailable, OwnInv, TypeOK, Held, WithConn
<1>2. /\ booted /\ conns = o /\ Present /\ admin[a].cfg = row.cfg /\ admin[a].op # "delete"
      /\ \A p \in Conns : obj[p].loop = NoLoop
      /\ \A l \in Loops : loop[l].pc = "idle"
      /\ NoneRuns
  BY <1>1 DEF SerialInv, Progress, NoneRuns, Live
<1>3. \A b \in Admins : b = a
  BY DEF Serial
<1>4. ASSUME UNCHANGED loop, \A p \in Conns : obj'[p].loop = NoLoop, Progress(a)'
      PROVE  SerialInv'
  BY <1>1, <1>2, <1>3, <1>4
  DEF SerialInv, CancelledIsJoined, OnlyRegisteredRuns, DialledAsConfigured,
      UpMatches, StartsEmpty, Live
<1>5. CASE SetConfig(a)
  <2>1. /\ obj' = [obj EXCEPT ![o] = [obj[o] EXCEPT !.cfg = admin[a].cfg]]
        /\ UNCHANGED loop /\ Goto(a, "start")
    BY <1>5 DEF SetConfig
  <2>2. obj'[o].cfg = row.cfg /\ \A p \in Conns : obj'[p].loop = NoLoop
    BY <1>1, <1>2, <2>1 DEF Connection
  <2>3. /\ admin'[a].pc = "start" /\ admin'[a].conn = o /\ admin'[a].cfg = row.cfg
        /\ admin'[a].op # "delete"
    BY <1>1, <1>2, <2>1 DEF Goto, AdminRecord
  <2>4. Progress(a)'
    BY <1>1, <1>2, <2>1, <2>2, <2>3 DEF Progress, Present, NoneRuns, Live
  <2> QED
    BY <1>4, <2>1, <2>2, <2>4
<1>6. ASSUME Return(a), Agreed' PROVE Progress(a)'
  <2>1. admin'[a].pc = "idle"
    BY <1>1, <1>6 DEF Return, idleAdmin
  <2> QED
    BY <1>1, <1>2, <1>6, <2>1 DEF Progress
<1>7. admin[a].pc = "start" => obj[o].cfg = row.cfg
  BY DEF SerialInv, Progress
<1>8. CASE SetUnavailable(a)
  <2>1. /\ obj' = [obj EXCEPT ![o] = [obj[o] EXCEPT !.state = "unavailable", !.retryAt = FALSE]]
        /\ UNCHANGED loop /\ Return(a) /\ admin[a].pc = "start" /\ ~row.cfg.enabled
    BY <1>2, <1>8 DEF SetUnavailable, Assign
  <2>2. /\ obj'[o].cfg = obj[o].cfg /\ obj'[o].state = "unavailable" /\ ~obj'[o].retryAt
        /\ obj'[o].loop = obj[o].loop
    BY <1>1, <2>1 DEF Connection
  <2>3. \A p \in Conns : obj'[p].loop = NoLoop
    BY <1>1, <1>2, <2>1, <2>2
  <2>4. Agreed'
    BY <1>1, <1>2, <1>7, <2>1, <2>2, ConstantsAssumption
    DEF Agreed, Present, NoneRuns, Live
  <2> QED
    BY <1>4, <1>6, <2>1, <2>3, <2>4
<1>9. CASE StartLoop(a)
  <2>1. admin[a].pc = "start" /\ row.cfg.enabled /\ Return(a) /\ obj[o].cfg = row.cfg
    BY <1>2, <1>7, <1>9 DEF StartLoop
  <2>2. PICK l \in Loops :
            /\ obj' = [obj EXCEPT ![o] = [obj[o] EXCEPT
                          !.loop = l, !.state = "connecting", !.failures = 0,
                          !.retryAt = FALSE, !.cooling = FALSE]]
            /\ loop' = [loop EXCEPT ![l] = [idleLoop EXCEPT !.pc = "top", !.conn = o]]
    BY <1>1, <1>2, <1>9 DEF StartLoop, Assign
  <2>3. /\ obj'[o].loop = l /\ obj'[o].state = "connecting" /\ ~obj'[o].retryAt
        /\ obj'[o].cfg = obj[o].cfg
    BY <1>1, <2>2 DEF Connection
  <2>4. \A p \in Conns \ {o} : obj'[p].loop = NoLoop
    BY <1>1, <1>2, <2>2
  <2>5. /\ loop'[l].pc = "top" /\ ~loop'[l].cancelled
        /\ \A k \in Loops \ {l} : loop'[k].pc = "idle"
    BY <1>2, <2>2 DEF OwnInv, TypeOK, idleLoop
  <2> HIDE DEF o
  <2>6. Agreed'
    BY <1>1, <1>2, <2>1, <2>3, ConstantsAssumption DEF Agreed, Present
  <2>7. UpMatches'
    BY <2>3, <2>4, <2>5 DEF UpMatches, Matches, Fits
  <2>8. CancelledIsJoined' /\ DialledAsConfigured' /\ OnlyRegisteredRuns'
    BY <1>1, <1>2, <2>4, <2>5
    DEF CancelledIsJoined, DialledAsConfigured, OnlyRegisteredRuns, Live
  <2> QED
    BY <1>1, <1>2, <1>3, <1>6, <2>1, <2>6, <2>7, <2>8 DEF SerialInv, StartsEmpty
<1> QED
  BY <1>5, <1>8, <1>9

(* A step of a loop: it touches its own Connection only, and the loop a     *)
(* Connection runs goes on while the process is up.                         *)
LEMMA LoopFrame ==
    ASSUME Serial, OwnInv, OwnInv', SerialInv, NEW l \in Loops, Live(l),
           NEW o \in Conns, o = loop[l].conn,
           UNCHANGED <<row, conns, admin, base, booted>>,
           \A k \in Loops \ {l} : loop'[k] = loop[k],
           loop'[l].cancelled => loop[l].cancelled \/ ~Live(l)',
           \A p \in Conns \ {o} : obj'[p] = obj[p],
           obj'[o].cfg = obj[o].cfg,
           obj'[o].loop \in {obj[o].loop, NoLoop},
           loop'[l].pc \in {"dial", "dialed", "wait", "close"} /\ ~loop'[l].cancelled =>
              loop'[l].ver = obj'[loop'[l].conn].cfg.ver,
           base = "up" /\ obj[o].loop = l => obj'[o].loop = l /\ Matches(o)'
    PROVE  SerialInv'
<1>1. booted /\ ~NoneRuns
  BY DEF OwnInv, Linked, SerialInv, StartsEmpty, NoneRuns
<1>2. \A p \in Conns : /\ obj'[p].cfg = obj[p].cfg
                       /\ obj'[p].loop = obj[p].loop \/ obj'[p].loop = NoLoop
  BY <1>1
<1>3. \A k \in Loops : Live(k)' => Live(k)
  BY DEF Live
<1>4. \/ \A a \in Admins : admin[a].pc \in {"cancel", "join"}
      \/ obj[o].loop = l
  <2>1. CASE loop[l].cancelled
    BY <2>1 DEF SerialInv, CancelledIsJoined, Serial
  <2>2. CASE ~loop[l].cancelled
    BY <2>2 DEF OwnInv, Linked, LoopOwnership, Serial
  <2> QED
    BY <2>1, <2>2
<1>5. ASSUME NEW a \in Admins PROVE Progress(a)'
  <2>1. ASSUME admin[a].pc \in {"idle", "lookup", "store", "check", "wake"}
        PROVE  Agreed'
    <3>1. Agreed
      BY <1>1, <2>1 DEF SerialInv, Progress
    <3>2. obj[o].loop = l /\ l # NoLoop
      BY <1>4, <2>1, ConstantsAssumption
    <3>3. o = conns
      BY <1>1, <2>1, <3>2 DEF SerialInv, OnlyRegisteredRuns, Serial
    <3>4. Present /\ row.cfg.enabled
      BY <1>1, <3>1 DEF Agreed
    <3>5. base = "up" => obj'[o].loop = l
      BY <3>2
    <3> QED
      BY <1>1, <1>2, <3>1, <3>2, <3>3, <3>4, <3>5 DEF Agreed, Present
  <2>2. Progress(a)
    BY DEF SerialInv
  <2>3. admin[a].pc \in {"cancel", "join", "setConfig", "start"} => \A p \in Conns : obj'[p].loop = NoLoop
    BY <1>2, <2>2 DEF Progress
  <2>4. admin[a].pc \notin {"setConfig", "start"}
    BY <1>1, <2>2 DEF Progress
  <2> QED
    BY <2>1, <2>2, <2>3, <2>4 DEF Progress, Present
<1>6. CancelledIsJoined'
  BY <1>3 DEF SerialInv, CancelledIsJoined
<1>7. OnlyRegisteredRuns'
  BY <1>2 DEF SerialInv, OnlyRegisteredRuns
<1>8. DialledAsConfigured'
  <2> SUFFICES ASSUME NEW k \in Loops, k # l,
                      loop[k].pc \in {"dial", "dialed", "wait", "close"}, ~loop[k].cancelled
               PROVE  loop[k].ver = obj'[loop[k].conn].cfg.ver
    BY DEF DialledAsConfigured
  <2>1. loop[k].conn \in Conns
    BY DEF OwnInv, Linked, Live
  <2> QED
    BY <1>2, <2>1 DEF SerialInv, DialledAsConfigured
<1>9. UpMatches'
  <2> SUFFICES ASSUME base = "up", NEW p \in Conns, obj'[p].loop # NoLoop
               PROVE  Matches(p)'
    BY DEF UpMatches
  <2>1. CASE p = o
    <3>1. CASE obj[o].loop # l
      <4>0. PICK a \in Admins : admin[a].pc \in {"cancel", "join"}
        BY <1>4, <3>1 DEF Serial
      <4>1. \A q \in Conns : obj[q].loop = NoLoop
        BY <4>0 DEF SerialInv, Progress
      <4> QED
        BY <1>2, <4>1
    <3> QED
      BY <2>1, <3>1
  <2>2. CASE p # o
    <3>1. obj'[p] = obj[p] /\ Matches(p)
      BY <2>2 DEF SerialInv, UpMatches
    <3>2. obj[p].loop \in Loops \ {l}
      BY <2>2, <3>1 DEF OwnInv, TypeOK, Connection, Linked, PointsToOwnLoop
    <3> QED
      BY <3>1, <3>2 DEF Matches
  <2> QED
    BY <2>1, <2>2
<1>10. StartsEmpty'
  BY <1>1 DEF StartsEmpty
<1> QED
  BY <1>5, <1>6, <1>7, <1>8, <1>9, <1>10 DEF SerialInv

LEMMA SerialLoop ==
    ASSUME Serial, OwnInv, OwnInv', SerialInv, NEW l \in Loops, LoopStep(l) \/ SessionLost(l)
    PROVE  SerialInv'
<1>1. /\ UNCHANGED <<row, conns, admin, base, booted>> /\ Live(l)
  BY DEF LoopStep, BeginConnecting, Dial, DiscardSession, Succeed, SessionLost,
         WaitCancelled, CloseSession, RecordFailure, ScheduleRetry,
         BackoffCancelled, BackoffEnds, LoopReturns, LoopExit, Live
<1>0. PICK o \in Conns : o = loop[l].conn
  BY <1>1 DEF OwnInv, Linked
<1>2. /\ o = loop[l].conn /\ o \in Conns /\ obj[o] \in Connection /\ obj \in [Conns -> Connection]
      /\ loop \in [Loops -> LoopRecord] /\ FailureThreshold \in Nat \ {0}
  BY <1>0, ConstantsAssumption DEF OwnInv, TypeOK
<1>3. obj[o].loop = l => ~loop[l].cancelled
  BY <1>2, ConstantsAssumption DEF OwnInv, Linked, PointsToOwnLoop
<1>4. base = "up" /\ obj[o].loop = l => Matches(o) /\ ~Cancelled(l)
  BY <1>2, <1>3, ConstantsAssumption DEF SerialInv, UpMatches, Cancelled
<1>5. loop[l].pc \in {"dial", "dialed", "wait", "close"} /\ ~loop[l].cancelled =>
          loop[l].ver = obj[o].cfg.ver
  BY <1>2 DEF SerialInv, DialledAsConfigured
<1>6. CASE LoopExit(l)
  <2>1. /\ loop'[l].pc = "idle" /\ ~loop'[l].cancelled
        /\ \A k \in Loops \ {l} : loop'[k] = loop[k]
    BY <1>2, <1>6 DEF LoopExit, idleLoop
  <2>2. /\ \A p \in Conns \ {o} : obj'[p] = obj[p]
        /\ obj'[o].cfg = obj[o].cfg /\ obj'[o].loop \in {obj[o].loop, NoLoop}
    <3>1. CASE obj[o].loop = l
      BY <1>2, <1>6, <3>1 DEF LoopExit, Assign, Connection
    <3> QED
      BY <1>2, <1>6, <3>1 DEF LoopExit
  <2>3. ~(base = "up" /\ obj[o].loop = l)
    BY <1>3, <1>4, <1>6 DEF LoopExit, Matches, Fits
  <2> QED
    BY <1>2, <1>1, <2>1, <2>2, <2>3, LoopFrame
<1>7. ASSUME NEW pc \in LoopPC \ {"idle"}, NEW f, obj' = [obj EXCEPT ![o] = f],
             f.cfg = obj[o].cfg, f.loop = obj[o].loop,
             loop' = [loop EXCEPT ![l].pc = pc],
             pc \in {"dial", "dialed", "wait", "close"} =>
                loop[l].pc \in {"dial", "dialed", "wait", "close"},
             base = "up" /\ obj[o].loop = l => Fits(f, pc)
      PROVE  SerialInv'
  <2>1. /\ loop'[l].pc = pc /\ loop'[l].cancelled = loop[l].cancelled
        /\ loop'[l].conn = o /\ loop'[l].ver = loop[l].ver
        /\ \A k \in Loops \ {l} : loop'[k] = loop[k]
    BY <1>2, <1>7 DEF LoopRecord
  <2>2. obj'[o] = f /\ \A p \in Conns \ {o} : obj'[p] = obj[p]
    BY <1>2, <1>7
  <2>3. base = "up" /\ obj[o].loop = l => obj'[o].loop = l /\ Matches(o)'
    BY <1>3, <1>7, <2>1, <2>2 DEF Matches
  <2>4. pc \in {"dial", "dialed", "wait", "close"} /\ ~loop[l].cancelled =>
           loop'[l].ver = obj'[loop'[l].conn].cfg.ver
    BY <1>5, <1>7, <2>1, <2>2
  <2> QED
    BY <1>2, <1>1, <1>7, <2>1, <2>2, <2>3, <2>4, LoopFrame
<1>8. CASE BeginConnecting(l)
  <2> DEFINE f == [obj[o] EXCEPT !.state = "connecting", !.retryAt = FALSE]
  <2>1. /\ loop[l].pc = "top" /\ obj' = [obj EXCEPT ![o] = f]
        /\ loop' = [loop EXCEPT ![l] = [loop[l] EXCEPT !.pc = "dial", !.ver = obj[o].cfg.ver]]
    BY <1>2, <1>8 DEF BeginConnecting, Assign
  <2>2. /\ f.cfg = obj[o].cfg /\ f.loop = obj[o].loop
        /\ f.state = "connecting" /\ ~f.retryAt
    BY <1>2 DEF Connection
  <2> HIDE DEF f
  <2>3. /\ loop'[l].pc = "dial" /\ loop'[l].cancelled = loop[l].cancelled
        /\ loop'[l].conn = o /\ loop'[l].ver = obj[o].cfg.ver
        /\ \A k \in Loops \ {l} : loop'[k] = loop[k]
    BY <1>2, <2>1 DEF LoopRecord
  <2>4. obj'[o] = f /\ \A p \in Conns \ {o} : obj'[p] = obj[p]
    BY <1>2, <2>1
  <2>5. base = "up" /\ obj[o].loop = l => obj'[o].loop = l /\ Matches(o)'
    BY <1>3, <2>2, <2>3, <2>4 DEF Matches, Fits
  <2> QED
    BY <1>2, <1>1, <2>2, <2>3, <2>4, <2>5, LoopFrame
<1>9. CASE Succeed(l)
  <2> DEFINE f == [obj[o] EXCEPT !.state = "available", !.failures = 0,
                                 !.retryAt = FALSE, !.cooling = FALSE]
  <2>1. /\ loop[l].pc = "dialed" /\ obj' = [obj EXCEPT ![o] = f]
        /\ loop' = [loop EXCEPT ![l].pc = "wait"]
    BY <1>2, <1>9 DEF Succeed, Assign, LoopGoto
  <2>2. /\ f.cfg = obj[o].cfg /\ f.loop = obj[o].loop
        /\ f.state = "available" /\ ~f.retryAt
    BY <1>2 DEF Connection
  <2> HIDE DEF f
  <2>3. Fits(f, "wait")
    BY <2>2 DEF Fits
  <2> QED
    BY <1>7, <2>1, <2>2, <2>3 DEF LoopPC
<1>10. CASE ScheduleRetry(l)
  <2> DEFINE f == [obj[o] EXCEPT !.retryAt = TRUE]
  <2>1. /\ loop[l].pc = "schedule" /\ obj' = [obj EXCEPT ![o] = f]
        /\ loop' = [loop EXCEPT ![l].pc = "backoff"]
    BY <1>2, <1>10 DEF ScheduleRetry, Assign, LoopGoto
  <2>2. /\ f.cfg = obj[o].cfg /\ f.loop = obj[o].loop /\ f.retryAt
        /\ f.state = obj[o].state /\ f.failures = obj[o].failures
    BY <1>2 DEF Connection
  <2> HIDE DEF f
  <2>3. base = "up" /\ obj[o].loop = l => Fits(f, "backoff")
    BY <1>3, <1>4, <2>1, <2>2 DEF Matches, Fits
  <2> QED
    BY <1>7, <2>1, <2>2, <2>3 DEF LoopPC
<1>11. CASE BackoffEnds(l)
  <2>1. PICK woken \in {obj[o].wake, FALSE} :
            obj' = [obj EXCEPT ![o] = [obj[o] EXCEPT !.retryAt = FALSE,
                                  !.wake = IF woken THEN FALSE ELSE @]]
    BY <1>2, <1>11 DEF BackoffEnds, Assign
  <2> DEFINE f == [obj[o] EXCEPT !.retryAt = FALSE, !.wake = IF woken THEN FALSE ELSE @]
  <2>2. /\ f.cfg = obj[o].cfg /\ f.loop = obj[o].loop /\ ~f.retryAt
        /\ f.state = obj[o].state /\ f.failures = obj[o].failures
    BY <1>2 DEF Connection
  <2>3. obj' = [obj EXCEPT ![o] = f]
    BY <2>1
  <2>4. loop[l].pc = "backoff" /\ loop' = [loop EXCEPT ![l].pc = "top"]
    BY <1>2, <1>11 DEF BackoffEnds, LoopGoto
  <2> HIDE DEF f
  <2>5. base = "up" /\ obj[o].loop = l => Fits(f, "top")
    BY <1>3, <1>4, <2>2, <2>4 DEF Matches, Fits
  <2> QED
    BY <1>7, <2>2, <2>3, <2>4, <2>5 DEF LoopPC
<1>12. CASE RecordFailure(l) /\ ~Cancelled(l)
  <2> DEFINE suspended == obj[o].failures + 1 >= FailureThreshold
             f == [obj[o] EXCEPT
                     !.failures = IF suspended THEN FailureThreshold ELSE @ + 1,
                     !.state = IF suspended THEN "suspended" ELSE "unavailable",
                     !.retryAt = FALSE]
  <2>1. /\ loop[l].pc \in {"failed", "closed"} /\ obj' = [obj EXCEPT ![o] = f]
        /\ loop' = [loop EXCEPT ![l].pc = "schedule"]
    BY <1>2, <1>12 DEF RecordFailure, Assign, LoopGoto
  <2>2. /\ f.cfg = obj[o].cfg /\ f.loop = obj[o].loop /\ ~f.retryAt
        /\ f.state \in {"unavailable", "suspended"}
        /\ f.state = "suspended" => f.failures = FailureThreshold
    BY <1>2 DEF Connection
  <2> HIDE DEF suspended, f
  <2>3. Fits(f, "schedule")
    BY <2>2 DEF Fits
  <2> QED
    BY <1>7, <2>1, <2>2, <2>3 DEF LoopPC
<1>13. ASSUME NEW pc \in LoopPC \ {"idle"}, UNCHANGED obj,
              loop' = [loop EXCEPT ![l].pc = pc],
              pc \in {"dial", "dialed", "wait", "close"} =>
                 loop[l].pc \in {"dial", "dialed", "wait", "close"},
              base = "up" /\ obj[o].loop = l /\ Fits(obj[o], loop[l].pc) => Fits(obj[o], pc)
       PROVE  SerialInv'
  <2>1. obj' = [obj EXCEPT ![o] = obj[o]]
    BY <1>2, <1>13
  <2>2. base = "up" /\ obj[o].loop = l => Fits(obj[o], pc)
    BY <1>3, <1>4, <1>13 DEF Matches
  <2> QED
    BY <1>7, <1>13, <2>1, <2>2
<1>14. CASE Dial(l)
  <2>1. CASE loop' = [loop EXCEPT ![l] = [loop[l] EXCEPT !.pc = "dialed", !.open = TRUE]]
    <3>1. loop[l].pc = "dial" /\ UNCHANGED obj
      BY <1>2, <1>14 DEF Dial
    <3>2. /\ loop'[l].pc = "dialed" /\ loop'[l].cancelled = loop[l].cancelled
          /\ loop'[l].conn = o /\ loop'[l].ver = loop[l].ver
          /\ \A k \in Loops \ {l} : loop'[k] = loop[k]
      BY <1>2, <2>1 DEF LoopRecord
    <3>3. base = "up" /\ obj[o].loop = l => obj'[o].loop = l /\ Matches(o)'
      BY <1>3, <1>4, <3>1, <3>2 DEF Matches, Fits
    <3> QED
      BY <1>2, <1>1, <1>5, <3>1, <3>2, <3>3, LoopFrame
  <2>2. CASE LoopGoto(l, "failed")
    BY <1>13, <1>14, <2>2 DEF Dial, LoopGoto, LoopPC, Fits
  <2> QED
    BY <1>14, <2>1, <2>2 DEF Dial
<1>15. CASE CloseSession(l)
  <2>1. /\ loop[l].pc = "close" /\ UNCHANGED obj
        /\ loop' = [loop EXCEPT ![l] = [loop[l] EXCEPT !.pc = "closed", !.open = FALSE]]
    BY <1>2, <1>15 DEF CloseSession
  <2>2. /\ loop'[l].pc = "closed" /\ loop'[l].cancelled = loop[l].cancelled
        /\ loop'[l].conn = o /\ loop'[l].ver = loop[l].ver
        /\ \A k \in Loops \ {l} : loop'[k] = loop[k]
    BY <1>2, <2>1 DEF LoopRecord
  <2>3. base = "up" /\ obj[o].loop = l => obj'[o].loop = l /\ Matches(o)'
    BY <1>3, <1>4, <2>1, <2>2 DEF Matches, Fits
  <2> QED
    BY <1>2, <1>1, <1>5, <2>1, <2>2, <2>3, LoopFrame
<1>16. CASE DiscardSession(l)
  <2>1. /\ Cancelled(l) /\ UNCHANGED obj
        /\ loop' = [loop EXCEPT ![l] = [loop[l] EXCEPT !.pc = "exit", !.open = FALSE]]
    BY <1>2, <1>16 DEF DiscardSession
  <2>2. /\ loop'[l].pc = "exit" /\ loop'[l].cancelled = loop[l].cancelled
        /\ loop'[l].conn = o /\ loop'[l].ver = loop[l].ver
        /\ \A k \in Loops \ {l} : loop'[k] = loop[k]
    BY <1>2, <2>1 DEF LoopRecord
  <2>3. ~(base = "up" /\ obj[o].loop = l)
    BY <1>4, <2>1
  <2> QED
    BY <1>2, <1>1, <2>1, <2>2, <2>3, LoopFrame
<1>17. CASE SessionLost(l) \/ WaitCancelled(l)
  BY <1>13, <1>17 DEF SessionLost, WaitCancelled, LoopGoto, LoopPC, Fits
<1>18. CASE \/ RecordFailure(l) /\ Cancelled(l)
            \/ BackoffCancelled(l) \/ LoopReturns(l)
  <2>1. Cancelled(l) /\ UNCHANGED obj /\ loop' = [loop EXCEPT ![l].pc = "exit"]
    BY <1>2, <1>18 DEF RecordFailure, BackoffCancelled, LoopReturns, LoopGoto
  <2> QED
    BY <1>4, <1>13, <2>1 DEF LoopPC
<1> QED
  BY <1>6, <1>8, <1>9, <1>10, <1>11, <1>12, <1>14, <1>15, <1>16, <1>17, <1>18 DEF LoopStep

(* Callers, timers and the shutdown.                                        *)
LEMMA SerialRest ==
    ASSUME Serial, OwnInv, SerialInv,
           \/ \E w \in Waiters : BeginWait(w) \/ WaiterStep(w)
           \/ \E o \in Conns : CooldownExpires(o)
           \/ ShutdownCancel \/ ShutdownDone \/ UNCHANGED vars
    PROVE  SerialInv'
<1>1. ASSUME KeepsObjects, UNCHANGED <<row, conns, loop, admin, booted>>,
             base' = base \/ (booted /\ base' # "up")
      PROVE  SerialInv'
  <2>1. conns # NoConn => conns \in Conns
    BY DEF OwnInv, TypeOK
  <2>2. Agreed => Agreed'
    BY <1>1, <2>1 DEF Agreed, KeepsObjects, Present, NoneRuns, Live
  <2>3. ASSUME NEW a \in Admins PROVE Progress(a)'
    <3>1. Progress(a)
      BY DEF SerialInv
    <3>2. admin[a].pc = "start" => admin[a].conn \in Conns
      BY DEF OwnInv, Held, WithConn
    <3>3. NoneRuns => NoneRuns'
      BY <1>1 DEF NoneRuns, Live
    <3> QED
      BY <1>1, <2>2, <3>1, <3>2, <3>3 DEF Progress, Present, KeepsObjects
  <2>4. CancelledIsJoined' /\ OnlyRegisteredRuns' /\ StartsEmpty'
    BY <1>1 DEF SerialInv, CancelledIsJoined, OnlyRegisteredRuns, StartsEmpty,
       KeepsObjects, NoneRuns, Live
  <2>5. DialledAsConfigured'
    <3> SUFFICES ASSUME NEW l \in Loops, loop[l].pc \in {"dial", "dialed", "wait", "close"},
                        ~loop[l].cancelled
                 PROVE  loop[l].ver = obj'[loop[l].conn].cfg.ver
      BY <1>1 DEF DialledAsConfigured
    <3>1. loop[l].conn \in Conns
      BY DEF OwnInv, Linked, Live
    <3> QED
      BY <1>1, <3>1 DEF SerialInv, DialledAsConfigured, KeepsObjects
  <2>6. UpMatches'
    <3> SUFFICES ASSUME base' = "up", NEW o \in Conns, obj'[o].loop # NoLoop
                 PROVE  Matches(o)'
      BY DEF UpMatches
    <3>1. Matches(o)
      BY <1>1 DEF KeepsObjects, SerialInv, UpMatches
    <3> QED
      BY <1>1, <3>1 DEF Matches, Fits, KeepsObjects
  <2> QED
    BY <2>3, <2>4, <2>5, <2>6 DEF SerialInv
<1>2. obj \in [Conns -> Connection]
  BY DEF OwnInv, TypeOK
<1>3. ASSUME NEW w \in Waiters, RequestDemand(w) PROVE SerialInv'
  <2>1. waiter[w].conn \in Conns
    BY <1>3 DEF RequestDemand, OwnInv, Held
  <2>2. UNCHANGED obj \/ obj' = [obj EXCEPT ![waiter[w].conn] =
            [obj[waiter[w].conn] EXCEPT !.cooling = TRUE, !.wake = TRUE]]
    BY <1>3 DEF RequestDemand
  <2>3. KeepsObjects
    <3> DEFINE c == obj[waiter[w].conn]
               f == [c EXCEPT !.cooling = TRUE, !.wake = TRUE]
    <3>1. c \in Connection
      BY <1>2, <2>1
    <3>2. /\ f.cfg = c.cfg /\ f.state = c.state /\ f.failures = c.failures
          /\ f.loop = c.loop /\ f.retryAt = c.retryAt
      BY <3>1 DEF Connection
    <3>3. UNCHANGED obj \/ obj' = [obj EXCEPT ![waiter[w].conn] = f]
      BY <2>2
    <3> HIDE DEF f
    <3> QED
      BY <1>2, <2>1, <3>2, <3>3 DEF KeepsObjects
  <2> QED
    BY <1>1, <1>3, <2>3 DEF RequestDemand
<1>4. ASSUME NEW o \in Conns, CooldownExpires(o) PROVE SerialInv'
  <2>1. obj' = [obj EXCEPT ![o] = [obj[o] EXCEPT !.cooling = FALSE]]
    BY <1>4 DEF CooldownExpires
  <2>2. KeepsObjects
    BY <1>2, <2>1 DEF KeepsObjects, Connection
  <2> QED
    BY <1>1, <1>4, <2>2 DEF CooldownExpires
<1>5. UNCHANGED obj => KeepsObjects
  BY DEF KeepsObjects
<1>6. ASSUME NEW w \in Waiters,
             \/ BeginWait(w) \/ WaitSnapshot(w) \/ WaitNotified(w) \/ WaitGivesUp(w)
      PROVE  SerialInv'
  BY <1>1, <1>5, <1>6 DEF BeginWait, WaitSnapshot, WaitNotified, WaitGivesUp
<1>7. CASE ShutdownCancel \/ ShutdownDone \/ UNCHANGED vars
  <2>1. base # "up" => booted
    BY DEF SerialInv, StartsEmpty
  <2> QED
    BY <1>1, <1>5, <1>7, <2>1 DEF ShutdownCancel, ShutdownDone, vars
<1> QED
  BY <1>3, <1>4, <1>6, <1>7 DEF WaiterStep

LEMMA SerialStep ==
    ASSUME Serial, OwnInv, OwnInv', SerialInv, [Next]_vars
    PROVE  SerialInv'
BY SerialBegin, SerialStore, SerialLookup, SerialRebuild, SerialRemove, SerialStop,
   SerialCancel, SerialJoin, SerialStart, SerialLoop, SerialRest
DEF Next, AdminStep

LEMMA SerialSafe ==
    ASSUME Serial, OwnInv, ShutdownInv, SerialInv
    PROVE  ViewsAgree
<1>1. OneLoop
  <2>1. ASSUME NEW l \in Loops, NEW k \in Loops, Live(l), Live(k) PROVE l = k
    <3>1. CASE \A a \in Admins : admin[a].pc \notin {"cancel", "join"}
      <4>1. /\ obj[loop[l].conn].loop = l /\ obj[loop[k].conn].loop = k
            /\ loop[l].conn \in Conns /\ loop[k].conn \in Conns
            /\ l # NoLoop /\ k # NoLoop
        BY <2>1, <3>1, LoopsOwned
      <4>2. PICK a \in Admins : \A b \in Admins : b = a
        BY DEF Serial
      <4>3. Progress(a)
        BY DEF SerialInv
      <4>4. \A p \in Conns : obj[p].loop # NoLoop =>
               p = conns \/ (admin[a].pc = "stop" /\ admin[a].op = "delete" /\ admin[a].conn = p)
        BY <4>2 DEF SerialInv, OnlyRegisteredRuns
      <4>5. admin[a].pc = "stop" /\ admin[a].op = "delete" => conns = NoConn
        BY <4>3 DEF Progress
      <4>6. loop[l].conn = loop[k].conn
        BY <4>1, <4>4, <4>5, ConstantsAssumption
      <4> QED
        BY <4>1, <4>6
    <3>2. CASE \E a \in Admins : admin[a].pc \in {"cancel", "join"}
      <4>1. PICK a \in Admins : admin[a].pc \in {"cancel", "join"}
        BY <3>2
      <4>2. \A o \in Conns : obj[o].loop = NoLoop
        BY <4>1 DEF SerialInv, Progress
      <4>3. ASSUME NEW k1 \in {l, k}
            PROVE  \E b \in Admins : admin[b].loop = k1
        <5>1. CASE loop[k1].cancelled
          BY <2>1, <5>1 DEF SerialInv, CancelledIsJoined
        <5>2. CASE ~loop[k1].cancelled
          BY <2>1, <4>2, <5>2, ConstantsAssumption DEF OwnInv, Linked, LoopOwnership
        <5> QED
          BY <5>1, <5>2
      <4> QED
        BY <4>3 DEF Serial
    <3> QED
      BY <3>1, <3>2
  <2>2. CASE Running = {}
    BY <2>2, FS_EmptySet DEF OneLoop
  <2>3. CASE Running # {}
    <3>1. PICK l \in Running : TRUE
      BY <2>3
    <3>2. Running = {l}
      BY <2>1, <3>1 DEF Running
    <3> QED
      BY <3>2, FS_Singleton DEF OneLoop
  <2> QED
    BY <2>2, <2>3
<1>2. ASSUME Quiet
      PROVE  /\ Agreed
             /\ \A l \in Loops : Live(l) =>
                    /\ ~loop[l].cancelled /\ loop[l].conn = conns
                    /\ conns \in Conns /\ obj[conns].loop = l
  <2>1. Agreed
    BY <1>2 DEF Quiet, SerialInv, Progress, Serial
  <2>2. ASSUME NEW l \in Loops, Live(l)
        PROVE  /\ ~loop[l].cancelled /\ loop[l].conn = conns
               /\ conns \in Conns /\ obj[conns].loop = l
    <3>1. /\ ~loop[l].cancelled /\ loop[l].conn \in Conns
          /\ obj[loop[l].conn].loop = l /\ l # NoLoop
      BY <1>2, <2>2, LoopsOwned DEF Quiet
    <3>2. loop[l].conn = conns
      BY <1>2, <3>1 DEF Quiet, SerialInv, OnlyRegisteredRuns
    <3> QED
      BY <3>1, <3>2
  <2> QED
    BY <2>1, <2>2
<1>3. StoreDecides
  BY <1>2 DEF StoreDecides, Agreed, NoneRuns, Running, Present
<1>4. ServesStoredParameters
  <2> SUFFICES ASSUME NEW l \in Loops, Quiet, base = "up", loop[l].open
               PROVE  loop[l].ver = row.cfg.ver
    BY DEF ServesStoredParameters
  <2>1. loop[l].pc \in {"dialed", "wait", "close"} /\ Live(l)
    BY DEF ShutdownInv, Live
  <2>2. /\ ~loop[l].cancelled /\ loop[l].conn = conns /\ conns # NoConn
        /\ obj[conns].cfg = row.cfg
    BY <1>2, <2>1, ConstantsAssumption DEF Agreed
  <2> QED
    BY <2>1, <2>2 DEF SerialInv, DialledAsConfigured
<1>5. StateMatchesLoop
  <2> SUFFICES ASSUME Quiet, base = "up", conns # NoConn
               PROVE  LET c == obj[conns] IN
                      IF c.loop = NoLoop THEN c.state = "unavailable" /\ ~c.retryAt
                      ELSE Fits(c, loop[c.loop].pc)
    BY DEF StateMatchesLoop, Fits
  <2>1. conns \in Conns
    BY DEF OwnInv, TypeOK
  <2>2. CASE obj[conns].loop = NoLoop
    BY <1>2, <2>2 DEF Agreed
  <2>3. CASE obj[conns].loop # NoLoop
    BY <2>1, <2>3 DEF SerialInv, UpMatches, Matches
  <2> QED
    BY <2>2, <2>3
<1> QED
  BY <1>1, <1>3, <1>4, <1>5 DEF ViewsAgree

(* With one administrative operation at a time, and a list of upstreams     *)
(* that is read at start-up, the row, the Connection and its goroutine      *)
(* agree whenever no operation is under way, and there is never a second    *)
(* loop, whatever the loops, timers, callers and the shutdown do meanwhile. *)
THEOREM Agreement == ASSUME Serial PROVE Spec => []ViewsAgree
<1>1. Init => OwnInv /\ ShutdownInv /\ SerialInv
  BY InitOwn, SerialInit
<1>2. OwnInv /\ ShutdownInv /\ SerialInv /\ [Next]_vars
          => (OwnInv /\ ShutdownInv /\ SerialInv)'
  BY OwnStep, ShutdownStep, SerialStep
<1>3. OwnInv /\ ShutdownInv /\ SerialInv => ViewsAgree
  BY SerialSafe
<1> QED
  BY <1>1, <1>2, <1>3, PTL DEF Spec
============================================================================
