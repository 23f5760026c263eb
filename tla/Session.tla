------------------------------ MODULE Session -------------------------------
(***************************************************************************)
(* One upstream session of package transport: the states of baseSession    *)
(* (session.go), the handshake in a goroutine of its own with the          *)
(* connection timeout (connectWithTimeout in sdk_client.go), the snapshot  *)
(* of a verified script that a stdio child keeps (session_stdio.go), and   *)
(* Close, calls and the loss of the connection at any time.                *)
(***************************************************************************)
EXTENDS Naturals, FiniteSets

CONSTANTS
    Dials,       \* calls of Connect
    Closers,     \* calls of Close
    Stdio        \* the transport starts a child from a verified script

VARIABLES
    state,       \* of the session: idle, connecting, connected, closed
    conn,        \* s.conn: the dial whose connection the session owns, or None
    dial,        \* each call of Connect: where it is
    handshake,   \* the goroutine of each dial that runs client.Connect
    cleanup,     \* the goroutine that a timed-out dial leaves behind
    cancelled,   \* dials whose connCtx is cancelled
    open,        \* dials whose connection (child process, stream) is open
    snapshots,   \* dials whose script snapshot is open
    closer       \* each call of Close: where it is, and the connection it took

sessionVars == <<state, conn, dial, handshake, cleanup, cancelled, open, snapshots, closer>>

None == "none"

Init ==
    /\ state = "idle" /\ conn = None
    /\ dial = [d \in Dials |-> "no"] /\ handshake = [d \in Dials |-> "no"]
    /\ cleanup = [d \in Dials |-> "no"]
    /\ cancelled = {} /\ open = {} /\ snapshots = {}
    /\ closer = [c \in Closers |-> [at |-> "no", conn |-> None]]

Goes(d, at) == dial' = [dial EXCEPT ![d] = at]

----------------------------------------------------------------------------
(* establish: beginConnect, which refuses a session that is not idle. The    *)
(* dial of a stdio session checks the policy and the script first and        *)
(* returns an error before anything is open (abortConnect follows).          *)
BeginConnect(d) ==
    /\ dial[d] = "no"
    /\ IF state = "idle"
         THEN /\ state' = "connecting" /\ Goes(d, "begun")
         ELSE /\ state' = state /\ Goes(d, "over")
    /\ UNCHANGED <<conn, handshake, cleanup, cancelled, open, snapshots, closer>>

(* The checks before the start, prepareVerifiedScript last.                  *)
Prepare(d) ==
    /\ dial[d] = "begun"
    /\ \/ /\ Goes(d, "waiting")
          /\ handshake' = [handshake EXCEPT ![d] = "starts"]
          /\ snapshots' = IF Stdio THEN snapshots \cup {d} ELSE snapshots
       \/ /\ Goes(d, "abort")
          /\ UNCHANGED <<handshake, snapshots>>
    /\ UNCHANGED <<state, conn, cleanup, cancelled, open, closer>>

(* client.Connect in its goroutine: opens the connection, then initializes.  *)
(* The SDK closes it if the initialization fails, but not if the upstream    *)
(* speaks an unknown version; a panic leaves it open too.                    *)
Opens(d) ==
    /\ handshake[d] = "starts"
    /\ \/ handshake' = [handshake EXCEPT ![d] = "opened"] /\ open' = open \cup {d}
       \/ handshake' = [handshake EXCEPT ![d] = "failed"] /\ open' = open
    /\ UNCHANGED <<state, conn, dial, cleanup, cancelled, snapshots, closer>>

Initializes(d) ==
    /\ handshake[d] = "opened"
    /\ \/ handshake' = [handshake EXCEPT ![d] = "session"] /\ open' = open
       \/ handshake' = [handshake EXCEPT ![d] = "failed"] /\ open' \in {open, open \ {d}}
    /\ UNCHANGED <<state, conn, dial, cleanup, cancelled, snapshots, closer>>

(* The select of connectWithTimeout: the goroutine's result ...              *)
Result(d) ==
    /\ dial[d] = "waiting" /\ handshake[d] \in {"session", "failed"}
    /\ handshake' = [handshake EXCEPT ![d] = "received"]
    /\ IF handshake[d] = "session"
         THEN /\ Goes(d, "complete") /\ UNCHANGED <<cancelled, open, snapshots>>
         ELSE \* cancel(), closeIfOpen(), then the snapshot
              /\ Goes(d, "abort") /\ cancelled' = cancelled \cup {d}
              /\ open' = open \ {d} /\ snapshots' = snapshots \ {d}
    /\ UNCHANGED <<state, conn, cleanup, closer>>

(* ... or the end of the context: the timeout, or the caller's cancellation. *)
(* The handshake goes on; who waits for its result is a new goroutine.       *)
LeavesCleanup_None(d) == cleanup' = cleanup
LeavesCleanup(d) == cleanup' = [cleanup EXCEPT ![d] = "waiting"]

Timeout(d) ==
    /\ dial[d] = "waiting"
    /\ Goes(d, "abort") /\ cancelled' = cancelled \cup {d}
    /\ LeavesCleanup(d)
    /\ snapshots' = snapshots \ {d}
    /\ UNCHANGED <<state, conn, handshake, open, closer>>

Cleanup(d) ==
    /\ cleanup[d] = "waiting" /\ handshake[d] \in {"session", "failed"}
    /\ cleanup' = [cleanup EXCEPT ![d] = "over"]
    /\ handshake' = [handshake EXCEPT ![d] = "received"]
    /\ open' = open \ {d}
    /\ UNCHANGED <<state, conn, dial, cancelled, snapshots, closer>>

(* abortConnect: a session closed meanwhile stays closed.                    *)
AbortConnect(d) ==
    /\ dial[d] = "abort"
    /\ state' = IF state = "connecting" THEN "idle" ELSE state
    /\ Goes(d, "over")
    /\ UNCHANGED <<conn, handshake, cleanup, cancelled, open, snapshots, closer>>

(* completeConnect: in a session that is not connecting any more the new     *)
(* connection is closed, outside the lock.                                   *)
CompleteConnect_Always(d) ==
    /\ dial[d] = "complete"
    /\ Goes(d, "over") /\ conn' = d /\ state' = "connected"
    /\ UNCHANGED <<handshake, cleanup, cancelled, open, snapshots, closer>>

CompleteConnect(d) ==
    /\ dial[d] = "complete"
    /\ IF state = "connecting"
         THEN /\ conn' = d /\ state' = "connected" /\ Goes(d, "over")
         ELSE /\ Goes(d, "drop") /\ UNCHANGED <<conn, state>>
    /\ UNCHANGED <<handshake, cleanup, cancelled, open, snapshots, closer>>

(* close of a connection: the session, its context, the process tree and the *)
(* snapshot.                                                                 *)
CloseConn(d) ==
    /\ open' = open \ {d} /\ cancelled' = cancelled \cup {d}
    /\ snapshots' = snapshots \ {d}

Drop(d) ==
    /\ dial[d] = "drop" /\ CloseConn(d) /\ Goes(d, "over")
    /\ UNCHANGED <<state, conn, handshake, cleanup, closer>>

(* Close: takes the connection and the final state under the lock, closes    *)
(* after it; a second call finds the session closed.                         *)
Close(c) ==
    /\ closer[c].at = "no"
    /\ IF state = "closed"
         THEN closer' = [closer EXCEPT ![c].at = "over"] /\ UNCHANGED <<state, conn>>
         ELSE /\ closer' = [closer EXCEPT ![c] =
                    [at |-> IF conn = None THEN "over" ELSE "closing", conn |-> conn]]
              /\ state' = "closed" /\ conn' = None
    /\ UNCHANGED <<dial, handshake, cleanup, cancelled, open, snapshots>>

CloseTaken(c) ==
    /\ closer[c].at = "closing"
    /\ CloseConn(closer[c].conn)
    /\ closer' = [closer EXCEPT ![c].at = "over"]
    /\ UNCHANGED <<state, conn, dial, handshake, cleanup>>

(* The upstream ends the connection: Session.Wait returns and the manager    *)
(* hears of it (WaitClosed); the session keeps the dead connection until     *)
(* Close.                                                                    *)
Lost(d) ==
    /\ d \in open /\ handshake[d] = "received" /\ open' = open \ {d}
    /\ UNCHANGED <<state, conn, dial, handshake, cleanup, cancelled, snapshots, closer>>

Next ==
    \/ \E d \in Dials :
          \/ BeginConnect(d) \/ Prepare(d) \/ Opens(d) \/ Initializes(d) \/ Result(d)
          \/ Timeout(d) \/ Cleanup(d) \/ AbortConnect(d) \/ CompleteConnect(d)
          \/ Drop(d) \/ Lost(d)
    \/ \E c \in Closers : Close(c) \/ CloseTaken(c)

Spec == Init /\ [][Next]_sessionVars

----------------------------------------------------------------------------
(* Nobody works on the session: every call has returned and no goroutine of  *)
(* a dial runs.                                                              *)
Quiet ==
    /\ \A d \in Dials : /\ dial[d] \in {"no", "over"}
                        /\ handshake[d] \in {"no", "received"}
                        /\ cleanup[d] # "waiting"
    /\ \A c \in Closers : closer[c].at # "closing"

(* No interleaving of timeouts, late handshakes, Close and retries leaves a  *)
(* child process, a stream or a script snapshot that no session owns, nor    *)
(* any at all once Close was called; and an owned connection was not closed  *)
(* by the gateway (connectWithTimeout, completeConnect, Close).              *)
NothingLeaks ==
    /\ Quiet => open \cup snapshots \subseteq
                   IF \E c \in Closers : closer[c].at # "no" THEN {} ELSE {conn}
    /\ conn # None => state = "connected" /\ conn \notin cancelled
=============================================================================
