--------------------------- MODULE ConnLifecycle ---------------------------
(***************************************************************************)
(* The life cycle of the connection to ONE upstream MCP server, as kept by  *)
(* internal/manager: the manager's operations (manager.go), the Connection  *)
(* state machine with its background loop, and the callers that wait for a  *)
(* recovery (lifecycle.go).                                                 *)
(*                                                                          *)
(* Upstreams share only the root context, so one upstream stands for each.  *)
(* Operations run in the goroutines of HTTP handlers and nothing serialises *)
(* two operations on the same upstream: every critical section of c.mu or   *)
(* connsMu, every repository call and every channel wait is a step of its   *)
(* own.  Adjacent reads of a context and writes that commute with its       *)
(* cancellation are one step.                                               *)
(*                                                                          *)
(* Abstractions.  Time: a timer may fire whenever it is armed.  failures    *)
(* saturates at FailureThreshold, the only value it is compared with.       *)
(* stateCh: a waiter keeps whether the channel it took has been closed.     *)
(* Slots of Loops and Conns are reused once nothing refers to them.         *)
(* Panics of Dial, Wait and Close are turned into errors by the safe*       *)
(* wrappers and are the failure outcomes here.  A repository call that      *)
(* fails ends its operation before anything changed: as if it never began.  *)
(*                                                                          *)
(* Definitions X_Y next to X are mutations of X that a check substitutes    *)
(* to see a property fail; nothing else uses them.                          *)
(***************************************************************************)
EXTENDS Naturals, FiniteSets

CONSTANTS
    Admins,            \* goroutines that run manager operations
    Waiters,           \* tool calls inside WaitForAvailable
    Conns,             \* slots for *Connection objects
    Loops,             \* slots for background loop goroutines
    Versions,          \* connection parameters, told apart by a version
    FailureThreshold,  \* policy.FailureThreshold
    RestoreMayFail,    \* may RestoreConnections fail at start-up
    NoConn, NoLoop     \* the nil *Connection and the nil done channel

ASSUME ConstantsAssumption ==
    /\ NoConn \notin Conns
    /\ NoLoop \notin Loops
    /\ FailureThreshold \in Nat \ {0}
    /\ RestoreMayFail \in BOOLEAN
    /\ Versions # {}

VARIABLES
    row,     \* the upstream's row in PostgreSQL: a config, or absent
    conns,   \* Manager.conns[id]
    obj,     \* the fields of each *Connection
    loop,    \* the loop goroutines, with the session each one holds
    admin,   \* the operation each admin goroutine is in
    waiter,  \* the callers of WaitForAvailable
    base,    \* the root context and Shutdown
    booted   \* has startBackground reached RestoreConnections

vars == <<row, conns, obj, loop, admin, waiter, base, booted>>

Config == [ver : Versions, enabled : BOOLEAN]
ConnState == {"connecting", "available", "unavailable", "suspended"}
(* An upstream that was never created, that exists, that was deleted:       *)
(* identifiers are not used again.                                          *)
Row == [status : {"absent", "present", "deleted"}, cfg : Config]

(* What a *Connection holds.  loop is the loop its done channel belongs to; *)
(* c.running is TRUE exactly when done is not nil.                          *)
Connection ==
    [cfg : Config, state : ConnState, failures : 0..FailureThreshold,
     loop : Loops \cup {NoLoop}, wake : BOOLEAN, retryAt : BOOLEAN,
     cooling : BOOLEAN]

newConnection ==
    [cfg |-> [ver |-> CHOOSE v \in Versions : TRUE, enabled |-> FALSE],
     state |-> "unavailable", failures |-> 0, loop |-> NoLoop,
     wake |-> FALSE, retryAt |-> FALSE, cooling |-> FALSE]

LoopPC == {"idle", "top", "dial", "dialed", "failed", "wait", "close",
           "closed", "schedule", "backoff", "exit"}
LoopRecord ==
    [pc : LoopPC, conn : Conns \cup {NoConn}, cancelled : BOOLEAN,
     open : BOOLEAN, ver : Versions]
idleLoop ==
    [pc |-> "idle", conn |-> NoConn, cancelled |-> FALSE, open |-> FALSE,
     ver |-> CHOOSE v \in Versions : TRUE]

AdminPC == {"idle", "store", "lookup", "rebuild", "remove", "stop", "cancel",
            "join", "setConfig", "start", "check", "wake"}
Op == {"none", "create", "update", "enable", "disable", "delete",
       "reconnect", "retry", "restore"}
AdminRecord ==
    [pc : AdminPC, op : Op, conn : Conns \cup {NoConn}, cfg : Config,
     loop : Loops \cup {NoLoop}]
idleAdmin ==
    [pc |-> "idle", op |-> "none", conn |-> NoConn,
     cfg |-> newConnection.cfg, loop |-> NoLoop]

WaiterRecord ==
    [pc : {"idle", "snapshot", "demand", "blocked"},
     conn : Conns \cup {NoConn}, notified : BOOLEAN]
idleWaiter == [pc |-> "idle", conn |-> NoConn, notified |-> FALSE]

TypeOK ==
    /\ row \in Row
    /\ conns \in Conns \cup {NoConn}
    /\ obj \in [Conns -> Connection]
    /\ loop \in [Loops -> LoopRecord]
    /\ admin \in [Admins -> AdminRecord]
    /\ waiter \in [Waiters -> WaiterRecord]
    /\ base \in {"up", "cancelled", "down"}
    /\ booted \in BOOLEAN

Init ==
    /\ row \in Row /\ row.status # "deleted"
    /\ conns = NoConn
    /\ obj = [o \in Conns |-> newConnection]
    /\ loop = [l \in Loops |-> idleLoop]
    /\ admin = [a \in Admins |-> idleAdmin]
    /\ waiter = [w \in Waiters |-> idleWaiter]
    /\ base = "up"
    /\ booted = FALSE

----------------------------------------------------------------------------
(* Helpers                                                                  *)

Present == row.status = "present"

Live(l) == loop[l].pc # "idle"
(* ctx.Err() # nil for the context of loop l, a child of baseCtx.           *)
Cancelled(l) == loop[l].cancelled \/ base # "up"

(* publishLocked: close stateCh; every caller that took it is released.     *)
publish(o) ==
    waiter' = [w \in Waiters |->
                 IF waiter[w].conn = o
                 THEN [waiter[w] EXCEPT !.notified = TRUE] ELSE waiter[w]]

(* Nothing refers to object o: its memory may be used again.                *)
Unreferenced(o) ==
    /\ o # conns
    /\ \A l \in Loops : loop[l].conn # o
    /\ \A a \in Admins : admin[a].conn # o
    /\ \A w \in Waiters : waiter[w].conn # o

(* A critical section of c.mu that assigns fields of o and publishes.       *)
Assign(o, fields) == obj' = [obj EXCEPT ![o] = fields]

Goto(a, pc) == admin' = [admin EXCEPT ![a].pc = pc]
Return(a) == admin' = [admin EXCEPT ![a] = idleAdmin]

----------------------------------------------------------------------------
(* Operations: entry and repository calls                                   *)

(* HTTP is served once RestoreConnections has returned, and until Shutdown. *)
Serving ==
    /\ base = "up"
    /\ booted
    /\ \A a \in Admins : admin[a].op # "restore"

Begin(a, op, pc, cfg) ==
    /\ admin[a].pc = "idle"
    /\ Serving
    /\ admin' = [admin EXCEPT ![a] = [idleAdmin EXCEPT !.pc = pc, !.op = op,
                                                       !.cfg = cfg]]
    /\ UNCHANGED <<row, conns, obj, loop, waiter, base, booted>>

(* startBackground calls RestoreConnections; a failed List is only logged.  *)
RestoreConnections(a) ==
    /\ ~booted
    /\ admin[a].pc = "idle"
    /\ base = "up"
    /\ booted' = TRUE
    /\ \/ /\ Present
          /\ admin' = [admin EXCEPT ![a] =
                         [idleAdmin EXCEPT !.pc = "rebuild", !.op = "restore",
                                           !.cfg = row.cfg]]
       \/ /\ ~Present \/ RestoreMayFail
          /\ UNCHANGED admin
    /\ UNCHANGED <<row, conns, obj, loop, waiter, base>>

(* Create, Update: validate, then write the row; NOT_FOUND ends Update.     *)
(* The store gives every Create an identifier of its own: one per upstream. *)
BeginCreate(a) ==
    /\ row.status = "absent"
    /\ \A b \in Admins : admin[b].op # "create"
    /\ \E c \in Config : Begin(a, "create", "store", c)
BeginUpdate(a) == \E c \in Config : Begin(a, "update", "store", c)
BeginDelete(a) == Begin(a, "delete", "store", idleAdmin.cfg)
(* SetEnabled, Reconnect and RetryUnavailable look the Connection up first. *)
BeginSetEnabled(a) ==
    \E op \in {"enable", "disable"} : Begin(a, op, "lookup", idleAdmin.cfg)
BeginReconnect(a) == Begin(a, "reconnect", "lookup", idleAdmin.cfg)
BeginRetry(a) == Begin(a, "retry", "lookup", idleAdmin.cfg)

StoreCreate(a) ==
    /\ admin[a].pc = "store" /\ admin[a].op = "create"
    /\ row' = [status |-> "present", cfg |-> admin[a].cfg]
    /\ Goto(a, "rebuild")
    /\ UNCHANGED <<conns, obj, loop, waiter, base, booted>>

StoreUpdate(a) ==
    /\ admin[a].pc = "store" /\ admin[a].op = "update"
    /\ \/ Present /\ row' = [row EXCEPT !.cfg = admin[a].cfg] /\ Goto(a, "rebuild")
       \/ ~Present /\ UNCHANGED row /\ Return(a)
    /\ UNCHANGED <<conns, obj, loop, waiter, base, booted>>

StoreSetEnabled(a) ==
    /\ admin[a].pc = "store" /\ admin[a].op \in {"enable", "disable"}
    /\ \/ /\ Present
          /\ row' = [row EXCEPT !.cfg.enabled = admin[a].cfg.enabled]
          /\ Goto(a, "rebuild")
       \/ ~Present /\ UNCHANGED row /\ Return(a)
    /\ UNCHANGED <<conns, obj, loop, waiter, base, booted>>

StoreDelete(a) ==
    /\ admin[a].pc = "store" /\ admin[a].op = "delete"
    /\ \/ Present /\ row' = [row EXCEPT !.status = "deleted"] /\ Goto(a, "remove")
       \/ ~Present /\ UNCHANGED row /\ Return(a)
    /\ UNCHANGED <<conns, obj, loop, waiter, base, booted>>

(* SetEnabled: cfg comes from the Connection in memory, or from the row.    *)
LookupSetEnabled(a) ==
    /\ admin[a].pc = "lookup" /\ admin[a].op \in {"enable", "disable"}
    /\ \/ /\ conns # NoConn
          /\ admin' = [admin EXCEPT
                         ![a].pc = "store",
                         ![a].cfg = [obj[conns].cfg EXCEPT
                                       !.enabled = admin[a].op = "enable"]]
       \/ /\ conns = NoConn /\ Present
          /\ admin' = [admin EXCEPT
                         ![a].pc = "store",
                         ![a].cfg = [row.cfg EXCEPT
                                       !.enabled = admin[a].op = "enable"]]
       \/ /\ conns = NoConn /\ ~Present
          /\ Return(a)
    /\ UNCHANGED <<row, conns, obj, loop, waiter, base, booted>>

(* Reconnect: without a Connection, rebuild from the row as enabled.        *)
LookupReconnect(a) ==
    /\ admin[a].pc = "lookup" /\ admin[a].op = "reconnect"
    /\ \/ /\ conns # NoConn
          /\ admin' = [admin EXCEPT ![a].pc = "check", ![a].conn = conns,
                                    ![a].cfg = obj[conns].cfg]
       \/ /\ conns = NoConn /\ Present
          /\ admin' = [admin EXCEPT ![a].pc = "rebuild",
                                    ![a].cfg = [row.cfg EXCEPT !.enabled = TRUE]]
       \/ /\ conns = NoConn /\ ~Present
          /\ Return(a)
    /\ UNCHANGED <<row, conns, obj, loop, waiter, base, booted>>

(* A failed upstream is only woken; any other enabled one is rebuilt.       *)
CheckReconnect(a) ==
    /\ admin[a].pc = "check"
    /\ \/ ~admin[a].cfg.enabled /\ Return(a)
       \/ /\ admin[a].cfg.enabled
          /\ obj[admin[a].conn].state \in {"unavailable", "suspended"}
          /\ Goto(a, "wake")
       \/ /\ admin[a].cfg.enabled
          /\ obj[admin[a].conn].state \in {"connecting", "available"}
          /\ admin' = [admin EXCEPT ![a].pc = "rebuild", ![a].conn = NoConn]
    /\ UNCHANGED <<row, conns, obj, loop, waiter, base, booted>>

(* RetryUnavailable: wake the Connection only if enabled and failing.       *)
LookupRetry(a) ==
    /\ admin[a].pc = "lookup" /\ admin[a].op = "retry"
    /\ IF /\ conns # NoConn
          /\ obj[conns].cfg.enabled
          /\ obj[conns].state \in {"unavailable", "suspended"}
       THEN admin' = [admin EXCEPT ![a].pc = "wake", ![a].conn = conns]
       ELSE Return(a)
    /\ UNCHANGED <<row, conns, obj, loop, waiter, base, booted>>

SignalWake(a) ==
    /\ admin[a].pc = "wake"
    /\ obj' = [obj EXCEPT ![admin[a].conn].wake = TRUE]
    /\ Return(a)
    /\ UNCHANGED <<row, conns, loop, waiter, base, booted>>

----------------------------------------------------------------------------
(* rebuildConnection, removeConnection, stopLoop, startLoop                 *)

RebuildLookup(a) ==
    /\ admin[a].pc = "rebuild"
    /\ \/ /\ conns # NoConn
          /\ admin' = [admin EXCEPT ![a].pc = "stop", ![a].conn = conns]
          /\ UNCHANGED <<conns, obj>>
       \/ /\ conns = NoConn
          /\ \E o \in Conns :
               /\ Unreferenced(o)
               /\ conns' = o
               /\ obj' = [obj EXCEPT ![o] = newConnection]
               /\ admin' = [admin EXCEPT ![a].pc = "stop", ![a].conn = o]
    /\ UNCHANGED <<row, loop, waiter, base, booted>>

(* Mutation: the Connection is unregistered but its loop is not stopped.    *)
RemoveLookup_NoStop(a) ==
    /\ admin[a].pc = "remove"
    /\ conns' = NoConn
    /\ Return(a)
    /\ UNCHANGED <<row, obj, loop, waiter, base, booted>>

RemoveLookup(a) ==
    /\ admin[a].pc = "remove"
    /\ conns' = NoConn
    /\ IF conns = NoConn
       THEN Return(a)
       ELSE admin' = [admin EXCEPT ![a].pc = "stop", ![a].conn = conns]
    /\ UNCHANGED <<row, obj, loop, waiter, base, booted>>

(* After stopLoop, Delete is done with the Connection, a rebuild goes on.   *)
AfterStop(a) ==
    IF admin[a].op = "delete" THEN Return(a) ELSE
        admin' = [admin EXCEPT ![a].pc = "setConfig", ![a].loop = NoLoop]

(* stopLoop: not running is taken as stopped; otherwise detach the loop     *)
(* under c.mu, then cancel it and wait for its done channel.                *)
StopLoop(a) ==
    LET o == admin[a].conn
        l == obj[o].loop
    IN
    /\ admin[a].pc = "stop"
    /\ \/ /\ l = NoLoop
          /\ AfterStop(a)
          /\ UNCHANGED <<obj, waiter>>
       \/ /\ l # NoLoop
          /\ Assign(o, [obj[o] EXCEPT !.loop = NoLoop, !.retryAt = FALSE])
          /\ publish(o)
          /\ admin' = [admin EXCEPT ![a].pc = "cancel", ![a].loop = l]
    /\ UNCHANGED <<row, conns, loop, base, booted>>

(* Mutation: waiting for a loop that was not cancelled.                     *)
CancelLoop_Skipped(a) ==
    /\ admin[a].pc = "cancel"
    /\ Goto(a, "join")
    /\ UNCHANGED <<row, conns, obj, loop, waiter, base, booted>>

(* cancel() comes after c.mu is released: until then the detached loop goes *)
(* on, and others may start a loop of their own on the Connection.          *)
CancelLoop(a) ==
    /\ admin[a].pc = "cancel"
    /\ loop' = [loop EXCEPT ![admin[a].loop].cancelled = TRUE]
    /\ Goto(a, "join")
    /\ UNCHANGED <<row, conns, obj, waiter, base, booted>>

(* <-done.  A slot is not reused before its loop is joined.                 *)
JoinLoop(a) ==
    /\ admin[a].pc = "join"
    /\ ~Live(admin[a].loop)
    /\ AfterStop(a)
    /\ UNCHANGED <<row, conns, obj, loop, waiter, base, booted>>

SetConfig(a) ==
    /\ admin[a].pc = "setConfig"
    /\ obj' = [obj EXCEPT ![admin[a].conn].cfg = admin[a].cfg]
    /\ Goto(a, "start")
    /\ UNCHANGED <<row, conns, loop, waiter, base, booted>>

(* startLoop: nothing if running, else reset the Connection and spawn.      *)
StartLoop(a) ==
    LET o == admin[a].conn IN
    /\ admin[a].pc = "start"
    /\ admin[a].cfg.enabled
    /\ \/ /\ obj[o].loop # NoLoop
          /\ UNCHANGED <<obj, loop, waiter>>
       \/ /\ obj[o].loop = NoLoop
          /\ \E l \in Loops :
               /\ ~Live(l)
               /\ \A b \in Admins : admin[b].loop # l
               /\ Assign(o, [obj[o] EXCEPT
                               !.loop = l, !.state = "connecting",
                               !.failures = 0, !.retryAt = FALSE,
                               !.cooling = FALSE])
               /\ loop' = [loop EXCEPT ![l] =
                             [idleLoop EXCEPT !.pc = "top", !.conn = o]]
          /\ publish(o)
    /\ Return(a)
    /\ UNCHANGED <<row, conns, base, booted>>

SetUnavailable(a) ==
    LET o == admin[a].conn IN
    /\ admin[a].pc = "start"
    /\ ~admin[a].cfg.enabled
    /\ Assign(o, [obj[o] EXCEPT !.state = "unavailable", !.retryAt = FALSE])
    /\ publish(o)
    /\ Return(a)
    /\ UNCHANGED <<row, conns, loop, base, booted>>

----------------------------------------------------------------------------
(* runLoop                                                                  *)

LoopGoto(l, pc) == loop' = [loop EXCEPT ![l].pc = pc]

(* Top of the loop: a cancelled context ends it before another dial.        *)
(* beginConnecting, then Dial is called with the configuration of now.      *)
BeginConnecting(l) ==
    LET o == loop[l].conn IN
    /\ loop[l].pc = "top"
    /\ ~Cancelled(l)
    /\ Assign(o, [obj[o] EXCEPT !.state = "connecting", !.retryAt = FALSE])
    /\ publish(o)
    /\ loop' = [loop EXCEPT ![l].pc = "dial", ![l].ver = obj[o].cfg.ver]
    /\ UNCHANGED <<row, conns, admin, base, booted>>

(* Dial may return a session even though its context is cancelled.          *)
Dial(l) ==
    /\ loop[l].pc = "dial"
    /\ \/ loop' = [loop EXCEPT ![l].pc = "dialed", ![l].open = TRUE]
       \/ LoopGoto(l, "failed")
    /\ UNCHANGED <<row, conns, obj, admin, waiter, base, booted>>

(* Dialed although cancelled: close the session and return.                 *)
DiscardSession(l) ==
    /\ loop[l].pc = "dialed"
    /\ Cancelled(l)
    /\ loop' = [loop EXCEPT ![l].pc = "exit", ![l].open = FALSE]
    /\ UNCHANGED <<row, conns, obj, admin, waiter, base, booted>>

(* Mutation: the waiters are not told.                                      *)
Succeed_NoPublish(l) ==
    LET o == loop[l].conn IN
    /\ loop[l].pc = "dialed"
    /\ ~Cancelled(l)
    /\ Assign(o, [obj[o] EXCEPT !.state = "available", !.failures = 0,
                                !.retryAt = FALSE, !.cooling = FALSE])
    /\ LoopGoto(l, "wait")
    /\ UNCHANGED <<row, conns, admin, waiter, base, booted>>

Succeed(l) ==
    LET o == loop[l].conn IN
    /\ loop[l].pc = "dialed"
    /\ ~Cancelled(l)
    /\ Assign(o, [obj[o] EXCEPT !.state = "available", !.failures = 0,
                                !.retryAt = FALSE, !.cooling = FALSE])
    /\ publish(o)
    /\ LoopGoto(l, "wait")
    /\ UNCHANGED <<row, conns, admin, base, booted>>

(* Wait returns: the session broke, or the context was cancelled.           *)
SessionLost(l) ==
    /\ loop[l].pc = "wait"
    /\ ~Cancelled(l)
    /\ LoopGoto(l, "close")
    /\ UNCHANGED <<row, conns, obj, admin, waiter, base, booted>>

WaitCancelled(l) ==
    /\ loop[l].pc = "wait"
    /\ Cancelled(l)
    /\ LoopGoto(l, "close")
    /\ UNCHANGED <<row, conns, obj, admin, waiter, base, booted>>

CloseSession(l) ==
    /\ loop[l].pc = "close"
    /\ loop' = [loop EXCEPT ![l].pc = "closed", ![l].open = FALSE]
    /\ UNCHANGED <<row, conns, obj, admin, waiter, base, booted>>

(* After a failed dial or a closed session: return if cancelled, or record  *)
(* the failure (recordFailure) and go on to the backoff.                    *)
RecordFailure(l) ==
    LET o == loop[l].conn
        suspended == obj[o].failures + 1 >= FailureThreshold
    IN
    /\ loop[l].pc \in {"failed", "closed"}
    /\ \/ /\ Cancelled(l)
          /\ LoopGoto(l, "exit")
          /\ UNCHANGED <<obj, waiter>>
       \/ /\ ~Cancelled(l)
          /\ Assign(o, [obj[o] EXCEPT
                !.failures = IF suspended THEN FailureThreshold ELSE @ + 1,
                !.state = IF suspended THEN "suspended" ELSE "unavailable",
                !.retryAt = FALSE])
          /\ publish(o)
          /\ LoopGoto(l, "schedule")
    /\ UNCHANGED <<row, conns, admin, base, booted>>

(* Mutation: suspended ends the loop.                                       *)
ScheduleRetry_GivesUp(l) ==
    /\ loop[l].pc = "schedule"
    /\ LoopGoto(l, IF obj[loop[l].conn].state = "suspended"
                   THEN "exit" ELSE "backoff")
    /\ UNCHANGED <<row, conns, obj, admin, waiter, base, booted>>

(* waitBackoff: scheduleRetry, then select on ctx, wake and the timer.      *)
ScheduleRetry(l) ==
    LET o == loop[l].conn IN
    /\ loop[l].pc = "schedule"
    /\ Assign(o, [obj[o] EXCEPT !.retryAt = TRUE])
    /\ publish(o)
    /\ LoopGoto(l, "backoff")
    /\ UNCHANGED <<row, conns, admin, base, booted>>

BackoffCancelled(l) ==
    /\ loop[l].pc = "backoff"
    /\ Cancelled(l)
    /\ LoopGoto(l, "exit")
    /\ UNCHANGED <<row, conns, obj, admin, waiter, base, booted>>

(* wake or timer: select picks any ready case, even when ctx is done too.   *)
BackoffEnds(l) ==
    LET o == loop[l].conn IN
    /\ loop[l].pc = "backoff"
    /\ \E woken \in {obj[o].wake, FALSE} :
         Assign(o, [obj[o] EXCEPT !.retryAt = FALSE,
                                  !.wake = IF woken THEN FALSE ELSE @])
    /\ IF obj[o].retryAt THEN publish(o) ELSE UNCHANGED waiter
    /\ LoopGoto(l, "top")
    /\ UNCHANGED <<row, conns, admin, base, booted>>

LoopReturns(l) ==
    /\ loop[l].pc = "top"
    /\ Cancelled(l)
    /\ LoopGoto(l, "exit")
    /\ UNCHANGED <<row, conns, obj, admin, waiter, base, booted>>

(* Mutation: a loop clears running although another loop took its place.    *)
LoopExit_Unchecked(l) ==
    LET o == loop[l].conn IN
    /\ loop[l].pc = "exit"
    /\ Assign(o, [obj[o] EXCEPT !.loop = NoLoop])
    /\ publish(o)
    /\ loop' = [loop EXCEPT ![l] = idleLoop]
    /\ UNCHANGED <<row, conns, admin, base, booted>>

(* Deferred: a loop not stopped by stopLoop clears running itself, then its *)
(* done channel is closed.                                                  *)
LoopExit(l) ==
    LET o == loop[l].conn IN
    /\ loop[l].pc = "exit"
    /\ IF obj[o].loop = l
       THEN Assign(o, [obj[o] EXCEPT !.loop = NoLoop]) /\ publish(o)
       ELSE UNCHANGED <<obj, waiter>>
    /\ loop' = [loop EXCEPT ![l] = idleLoop]
    /\ UNCHANGED <<row, conns, admin, base, booted>>

----------------------------------------------------------------------------
(* WaitForAvailable                                                         *)

WaitReturn(w) == waiter' = [waiter EXCEPT ![w] = idleWaiter]

BeginWait(w) ==
    /\ waiter[w].pc = "idle"
    /\ base = "up"
    /\ conns # NoConn
    /\ waiter' = [waiter EXCEPT ![w] = [idleWaiter EXCEPT !.pc = "snapshot",
                                                          !.conn = conns]]
    /\ UNCHANGED <<row, conns, obj, loop, admin, base, booted>>

(* waitSnapshot: state, enabled and the current stateCh under one lock.     *)
WaitSnapshot(w) ==
    LET c == obj[waiter[w].conn] IN
    /\ waiter[w].pc = "snapshot"
    /\ \/ (c.state = "available" \/ ~c.cfg.enabled) /\ WaitReturn(w)
       \/ /\ c.state # "available" /\ c.cfg.enabled
          /\ waiter' = [waiter EXCEPT
                          ![w].notified = FALSE,
                          ![w].pc = IF c.state = "connecting"
                                    THEN "blocked" ELSE "demand"]
    /\ UNCHANGED <<row, conns, obj, loop, admin, base, booted>>

(* requestDemandReconnect: one early probe per cooldown window.             *)
RequestDemand(w) ==
    LET o == waiter[w].conn
        c == obj[o]
    IN
    /\ waiter[w].pc = "demand"
    /\ IF /\ c.cfg.enabled
          /\ c.state \in {"unavailable", "suspended"}
          /\ ~c.cooling
       THEN obj' = [obj EXCEPT ![o].cooling = TRUE, ![o].wake = TRUE]
       ELSE UNCHANGED obj
    /\ waiter' = [waiter EXCEPT ![w].pc = "blocked"]
    /\ UNCHANGED <<row, conns, loop, admin, base, booted>>

WaitNotified(w) ==
    /\ waiter[w].pc = "blocked"
    /\ waiter[w].notified
    /\ waiter' = [waiter EXCEPT ![w].pc = "snapshot"]
    /\ UNCHANGED <<row, conns, obj, loop, admin, base, booted>>

(* DemandReconnectWait, the caller's context or the root context ends it.   *)
WaitGivesUp(w) ==
    /\ waiter[w].pc = "blocked"
    /\ WaitReturn(w)
    /\ UNCHANGED <<row, conns, obj, loop, admin, base, booted>>

CooldownExpires(o) ==
    /\ obj[o].cooling
    /\ obj' = [obj EXCEPT ![o].cooling = FALSE]
    /\ UNCHANGED <<row, conns, loop, admin, waiter, base, booted>>

----------------------------------------------------------------------------
(* Shutdown: cancel the root, wait for the loops, release the waiters.      *)

ShutdownCancel ==
    /\ base = "up"
    /\ booted
    /\ base' = "cancelled"
    /\ UNCHANGED <<row, conns, obj, loop, admin, waiter, booted>>

(* Mutation: Shutdown does not wait for the loops.                          *)
ShutdownDone_NoWait ==
    /\ base = "cancelled"
    /\ base' = "down"
    /\ IF conns # NoConn THEN publish(conns) ELSE UNCHANGED waiter
    /\ UNCHANGED <<row, conns, obj, loop, admin, booted>>

ShutdownDone ==
    /\ base = "cancelled"
    /\ \A l \in Loops : ~Live(l)
    /\ base' = "down"
    /\ IF conns # NoConn THEN publish(conns) ELSE UNCHANGED waiter
    /\ UNCHANGED <<row, conns, obj, loop, admin, booted>>

----------------------------------------------------------------------------

BeginOperation(a) ==
    \/ RestoreConnections(a) \/ BeginCreate(a) \/ BeginUpdate(a)
    \/ BeginDelete(a) \/ BeginSetEnabled(a) \/ BeginReconnect(a)
    \/ BeginRetry(a)

AdminStep(a) ==
    \/ StoreCreate(a) \/ StoreUpdate(a) \/ StoreSetEnabled(a)
    \/ StoreDelete(a) \/ LookupSetEnabled(a) \/ LookupReconnect(a)
    \/ CheckReconnect(a) \/ LookupRetry(a) \/ SignalWake(a)
    \/ RebuildLookup(a) \/ RemoveLookup(a) \/ StopLoop(a) \/ CancelLoop(a)
    \/ JoinLoop(a) \/ SetConfig(a) \/ StartLoop(a) \/ SetUnavailable(a)

(* What the loop goroutine and its timer do on their own; whether a session *)
(* breaks is up to the upstream.                                            *)
LoopStep(l) ==
    \/ BeginConnecting(l) \/ Dial(l) \/ DiscardSession(l) \/ Succeed(l)
    \/ WaitCancelled(l) \/ CloseSession(l) \/ RecordFailure(l)
    \/ ScheduleRetry(l) \/ BackoffCancelled(l) \/ BackoffEnds(l)
    \/ LoopReturns(l) \/ LoopExit(l)

WaiterStep(w) ==
    \/ WaitSnapshot(w) \/ RequestDemand(w) \/ WaitNotified(w)
    \/ WaitGivesUp(w)

Next ==
    \/ \E a \in Admins : BeginOperation(a) \/ AdminStep(a)
    \/ \E l \in Loops : LoopStep(l) \/ SessionLost(l)
    \/ \E w \in Waiters : BeginWait(w) \/ WaiterStep(w)
    \/ \E o \in Conns : CooldownExpires(o)
    \/ ShutdownCancel
    \/ ShutdownDone

Spec == Init /\ [][Next]_vars

(* Goroutines that can run do run, and armed timers fire.  Operations are   *)
(* begun, sessions lost and the process stopped at will.                    *)
Fairness ==
    /\ \A a \in Admins : WF_vars(AdminStep(a))
    /\ \A l \in Loops : WF_vars(LoopStep(l))
    /\ WF_vars(ShutdownDone)

FairSpec == Spec /\ Fairness

----------------------------------------------------------------------------
(* Properties                                                               *)

Quiet == booted /\ \A a \in Admins : admin[a].pc = "idle"
Running == {l \in Loops : Live(l)}

(* lifecycle.go:16 promises one background loop per upstream, the only one  *)
(* that dials, closes and backs off: no second loop goroutine exists, not   *)
(* even one that is still winding down.                                     *)
OneLoop == Cardinality(Running) <= 1

(* Between operations the stored row decides what runs: a registered        *)
(* upstream has the row's configuration, an enabled one has its loop, and   *)
(* a disabled, deleted or absent one has no loop and no open session.       *)
StoreDecides ==
    Quiet /\ base = "up" =>
        /\ conns # NoConn => obj[conns].cfg = row.cfg
        /\ Present /\ row.cfg.enabled =>
             /\ conns # NoConn
             /\ obj[conns].loop # NoLoop
        /\ ~Present \/ ~row.cfg.enabled => Running = {}

(* Delete stops the retry loop and drops the live connection (manager.go,   *)
(* comment of Delete): once every operation is over nothing runs for a      *)
(* deleted upstream.                                                        *)
DeletedStaysStopped ==
    Quiet /\ base = "up" /\ row.status = "deleted" => Running = {}

(* Between operations a session in service was dialled with the connection  *)
(* parameters now stored (Update: the new parameters take effect at once).  *)
ServesStoredParameters ==
    \A l \in Loops :
        Quiet /\ base = "up" /\ loop[l].open => loop[l].ver = row.cfg.ver

(* Between operations the published state tells where the loop is: a failed *)
(* state is one the loop will leave by itself or on a wake, which is what   *)
(* Reconnect, RetryUnavailable and WaitForAvailable rely on when they only  *)
(* send a wake; suspended means the threshold was reached; nextRetryAt is   *)
(* set exactly while the loop awaits its next dial (lifecycle.go:54).       *)
StateMatchesLoop ==
    Quiet /\ base = "up" /\ conns # NoConn =>
        LET c == obj[conns] IN
        IF c.loop = NoLoop THEN c.state = "unavailable" /\ ~c.retryAt ELSE
        /\ c.retryAt <=> loop[c.loop].pc = "backoff"
        /\ c.state = "available" <=>
             loop[c.loop].pc \in {"wait", "close", "closed"}
        /\ c.state \in {"unavailable", "suspended"} =>
             loop[c.loop].pc \in {"schedule", "backoff", "top"}
        /\ c.state = "suspended" => c.failures = FailureThreshold

(* What the database stores, what the Connection publishes and what its     *)
(* goroutine does agree whenever no operation is under way, and there is    *)
(* never a second loop: the four statements above, of every interleaving of *)
(* an operation with the loop, its timers, callers and the shutdown.        *)
ViewsAgree == OneLoop /\ StoreDecides /\ ServesStoredParameters /\ StateMatchesLoop

(* Whatever the operations in flight, a loop whose own context has not been *)
(* cancelled is the loop its Connection runs, or the one a stopLoop has     *)
(* detached and is about to cancel: startLoop never leaves behind a loop    *)
(* that no stopLoop on that Connection can reach.                           *)
LoopOwnership ==
    \A l \in Loops :
        Live(l) /\ ~loop[l].cancelled =>
            \/ obj[loop[l].conn].loop = l
            \/ \E a \in Admins : admin[a].pc = "cancel" /\ admin[a].loop = l

(* stopLoop waits for a done channel only after the loop behind it has been *)
(* told to stop, so that no operation waits for a loop that serves on; and  *)
(* two operations never stop the same loop.                                 *)
JoinsCancelledLoop ==
    \A a \in Admins :
        /\ admin[a].pc = "join" /\ Live(admin[a].loop) => loop[admin[a].loop].cancelled
        /\ admin[a].pc \in {"cancel", "join"} =>
             \A b \in Admins \ {a} : admin[b].loop # admin[a].loop

(* A caller blocked on a channel that is still open has missed nothing: the *)
(* Connection it waits for has not become available.                        *)
NoMissedAvailable ==
    \A w \in Waiters :
        waiter[w].pc \in {"demand", "blocked"} /\ ~waiter[w].notified
            => obj[waiter[w].conn].state # "available"

(* When Shutdown has returned no session is open and none is opened again,  *)
(* although an operation still in flight may start a loop afterwards.       *)
ShutdownReleasesAll ==
    base = "down" => \A l \in Loops : ~loop[l].open

(* suspended is a slower probing rate and not a stop (lifecycle.go:17): a   *)
(* failed, enabled upstream is dialled again unless it is disabled, removed *)
(* or the gateway stops.                                                    *)
Failing ==
    /\ base = "up" /\ conns # NoConn
    /\ obj[conns].cfg.enabled
    /\ obj[conns].state \in {"unavailable", "suspended"}
KeepsProbing == Failing ~> ~Failing

============================================================================
