--------------------------- MODULE InvokeRouting ---------------------------
(***************************************************************************)
(* How a call of an aggregated tool finds its upstream: Service.InvokeTool  *)
(* (internal/aggregation) picks one of the sources that offer the tool,     *)
(* reserves the source's quota, authorises the choice and has               *)
(* SessionInvoker put the call to the source's session.  Sources whose      *)
(* connection is away are candidates for on-demand recovery: the call waits *)
(* for one of them, reserves its quota only when about to be sent, and      *)
(* falls back to the next if it could not be sent.                          *)
(*                                                                          *)
(* Sessions belong to the manager's connection loops and come and go at any *)
(* moment (internal/app's dialedConn); callers hold on to the session they  *)
(* looked up.  The order in which candidates are looked at (priority order  *)
(* or round robin) is left open, arguments and results are left out.        *)
(*                                                                          *)
(* Definitions X_Y next to X are mutations of X that a check substitutes    *)
(* to see a property fail; nothing else uses them.                          *)
(***************************************************************************)
EXTENDS Naturals, FiniteSets

CONSTANTS
    Callers,     \* requests under way
    Sources,     \* upstreams that offer the tool under one exposed name
    Limit,       \* calls a source admits per quota window; 0: any number
    Threshold,   \* consecutive failures that suspend a source
    Revocable,   \* bound: sources the key's access to changes
    RedisFails,  \* the reservation script may fail
    None

ASSUME RoutingAssumption ==
    /\ IsFiniteSet(Sources) /\ None \notin Sources
    /\ Limit \in [Sources -> Nat]
    /\ Threshold \in Nat \ {0}
    /\ Revocable \subseteq Sources
    /\ RedisFails \in BOOLEAN

VARIABLES
    link,      \* a source's connection: registered session and manager state
    used,      \* a source's quota counter in the current window
    failures,  \* sourceFailures: consecutive failures of a source
    cooling,   \* a source's SuspendedUntil is in the future
    allowed,   \* what the API key may use
    c          \* the callers

vars == <<link, used, failures, cooling, allowed, c>>

(* A session is unregistered before the manager says it is not available    *)
(* any more: "lost".  (It is also registered before the manager says it is  *)
(* available, which to callers is no different from "down".)                *)
Links == {"down", "up", "lost"}

PC == {"idle", "select", "reserve", "authorize", "connect", "await", "again",
       "lock", "reserveHeld", "call", "answer"}

(* choice: it has several candidates.  todo: those not yet looked at.        *)
(* recover: recovery candidates left.  deferred: deferQuotaReservation.     *)
(* session: what became of the session it holds.  locked: holds its callMu. *)
(* History: where it reserved a call (paid), or did not because the script  *)
(* failed (waived), and how often it was handed to a session (sent).        *)
Caller == [pc : PC, choice : BOOLEAN, todo : SUBSET Sources,
           recover : SUBSET Sources, source : Sources \cup {None},
           deferred : BOOLEAN, session : {"none", "open", "broken", "closed"},
           locked : BOOLEAN, paid : SUBSET Sources, waived : BOOLEAN, sent : 0..2]
idle == [pc |-> "idle", choice |-> FALSE, todo |-> {}, recover |-> {},
         source |-> None, deferred |-> FALSE, session |-> "none",
         locked |-> FALSE, paid |-> {}, waived |-> FALSE, sent |-> 0]

TypeOK ==
    /\ link \in [Sources -> Links]
    /\ used \in [Sources -> Nat]
    /\ failures \in [Sources -> 0..Threshold]
    /\ cooling \in [Sources -> BOOLEAN]
    /\ allowed \subseteq Sources
    /\ c \in [Callers -> Caller]

Init ==
    /\ link = [s \in Sources |-> "down"]
    /\ used = [s \in Sources |-> 0]
    /\ failures = [s \in Sources |-> 0]
    /\ cooling = [s \in Sources |-> FALSE]
    /\ allowed = Sources
    /\ c = [x \in Callers |-> idle]

At(x, pc) == c[x].pc = pc
Holds(x, s, session) == c[x].source = s /\ c[x].session = session
(* callMu of a source's registered session is free.                         *)
Free(s) == \A x \in Callers : ~(Holds(x, s, "open") /\ c[x].locked)

----------------------------------------------------------------------------
(* selectCandidate                                                          *)

(* The tool set the key sees names the candidates.                          *)
Begin(x) ==
    /\ At(x, "idle") /\ allowed # {}
    /\ c' = [c EXCEPT ![x] = [idle EXCEPT !.pc = "select", !.todo = allowed,
                                          !.choice = Cardinality(allowed) > 1]]
    /\ UNCHANGED <<link, used, failures, cooling, allowed>>

(* Only a caller that has a choice passes over a source that failed         *)
(* lately; a suspension that is over is forgotten, and its failures too.    *)
Suspended(s) == failures[s] = Threshold
Skips(x, s) == c[x].choice /\ Suspended(s) /\ cooling[s]

Look(x, s) ==
    /\ At(x, "select") /\ s \in c[x].todo
    /\ \/ /\ Skips(x, s)
          /\ c' = [c EXCEPT ![x].todo = @ \ {s}]
       \/ /\ ~Skips(x, s) /\ link[s] # "up"
          /\ c' = [c EXCEPT ![x].todo = @ \ {s}, ![x].recover = @ \cup {s}]
       \/ /\ ~Skips(x, s) /\ link[s] = "up"
          /\ c' = [c EXCEPT ![x].pc = "reserve", ![x].source = s]
    /\ failures' = IF c[x].choice /\ Suspended(s) /\ ~cooling[s]
                     THEN [failures EXCEPT ![s] = 0] ELSE failures
    /\ UNCHANGED <<link, used, cooling, allowed>>

(* Mutation: the count is compared after another caller's is added.         *)
Admits_OneMore(s) == Limit[s] = 0 \/ used[s] <= Limit[s]
(* QuotaManager.Allow: one script checks and counts; if it fails the call   *)
(* is let through uncounted.                                                *)
Admits(s) == Limit[s] = 0 \/ used[s] < Limit[s]

Reserved(x, s, pc) ==
    \/ /\ Limit[s] = 0
       /\ c' = [c EXCEPT ![x].pc = pc]
       /\ UNCHANGED used
    \/ /\ Limit[s] > 0 /\ Admits(s)
       /\ used' = [used EXCEPT ![s] = @ + 1]
       /\ c' = [c EXCEPT ![x].pc = pc, ![x].paid = @ \cup {s}]
    \/ /\ RedisFails /\ Limit[s] > 0
       /\ c' = [c EXCEPT ![x].pc = pc, ![x].waived = TRUE]
       /\ UNCHANGED used

Reserve(x) ==
    LET s == c[x].source IN
    /\ At(x, "reserve")
    /\ \/ Reserved(x, s, "authorize")
       \/ /\ ~Admits(s)
          /\ c' = [c EXCEPT ![x].pc = "select", ![x].source = None,
                            ![x].todo = @ \ {s}]
          /\ UNCHANGED used
    /\ UNCHANGED <<link, failures, cooling, allowed>>

(* No source is both available and within its quota: recover one, or give   *)
(* up without a trace.                                                      *)
Exhausted(x) ==
    /\ At(x, "select") /\ c[x].todo = {}
    /\ \/ /\ c[x].recover = {}
          /\ c' = [c EXCEPT ![x] = idle]
       \/ \E s \in c[x].recover :
            c' = [c EXCEPT ![x].pc = "authorize", ![x].source = s,
                           ![x].choice = FALSE, ![x].deferred = TRUE,
                           ![x].recover = @ \ {s}]
    /\ UNCHANGED <<link, used, failures, cooling, allowed>>

(* AuthorizeUpstream and AuthorizeSource: of the choice made.  Recovery     *)
(* candidates are of no use to a call whose source was available.           *)
Authorize(x) ==
    /\ At(x, "authorize")
    /\ \/ /\ c[x].source \notin allowed
          /\ c' = [c EXCEPT ![x] = idle]
       \/ /\ c[x].source \in allowed /\ c[x].deferred
          /\ c' = [c EXCEPT ![x].pc = "connect"]
       \/ /\ c[x].source \in allowed /\ ~c[x].deferred
          /\ c' = [c EXCEPT ![x].pc = "connect", ![x].choice = FALSE,
                            ![x].todo = {}, ![x].recover = {}]
    /\ UNCHANGED <<link, used, failures, cooling, allowed>>

----------------------------------------------------------------------------
(* callUpstream                                                             *)

(* recordSourceResult: every error of a connection counts against the       *)
(* source, an answer clears its record.                                     *)
RecordFailure(s) ==
    /\ failures' = [failures EXCEPT ![s] = IF @ < Threshold THEN @ + 1 ELSE @]
    /\ cooling' = [cooling EXCEPT ![s] = @ \/ failures[s] + 1 >= Threshold]

(* With a live session in hand a deferred call goes on under its callMu.    *)
Dispatch(x) ==
    /\ link[c[x].source] = "up"
    /\ c' = [c EXCEPT ![x].session = "open",
                      ![x].pc = IF c[x].deferred THEN "lock" ELSE "call"]
    /\ UNCHANGED <<link, used, failures, cooling, allowed>>

(* Nothing was sent.  A deferred call has not paid and tries the next       *)
(* recovery candidate (PreDispatchError), any other call has failed.        *)
Unsent(x) ==
    /\ IF c[x].deferred
         THEN /\ IF c[x].recover = {}
                   THEN c' = [c EXCEPT ![x] = idle]
                   ELSE \E s \in c[x].recover :
                          c' = [c EXCEPT ![x].pc = "connect", ![x].source = s,
                                         ![x].session = "none",
                                         ![x].locked = FALSE,
                                         ![x].recover = @ \ {s}]
              /\ UNCHANGED <<failures, cooling>>
         ELSE /\ RecordFailure(c[x].source)
              /\ c' = [c EXCEPT ![x] = idle]
    /\ UNCHANGED <<link, used, allowed>>

Connect(x) ==
    /\ At(x, "connect")
    /\ \/ Dispatch(x)
       \/ /\ link[c[x].source] # "up"
          /\ c' = [c EXCEPT ![x].pc = "await"]
          /\ UNCHANGED <<link, used, failures, cooling, allowed>>

(* WaitForAvailable watches the manager's state only, which is still        *)
(* "available" for a moment after the session is unregistered.              *)
Await(x) ==
    /\ At(x, "await") /\ link[c[x].source] \in {"up", "lost"}
    /\ c' = [c EXCEPT ![x].pc = "again"]
    /\ UNCHANGED <<link, used, failures, cooling, allowed>>

(* DemandReconnectWait or the call's timeout is over, the caller has left,  *)
(* or the upstream was disabled.                                            *)
GiveUp(x) == At(x, "await") /\ Unsent(x)

Again(x) ==
    /\ At(x, "again")
    /\ \/ Dispatch(x)
       \/ link[c[x].source] # "up" /\ Unsent(x)

(* CallToolWithPreDispatch: Close leaves broken alone, so a session closed  *)
(* before the lock is taken passes for a live one, unless another call has  *)
(* failed on it since.                                                      *)
Lock(x) ==
    /\ At(x, "lock")
    /\ \/ c[x].session \in {"broken", "closed"} /\ Unsent(x)
       \/ /\ c[x].session = "closed" \/ Free(c[x].source)
          /\ c[x].session # "broken"
          /\ c' = [c EXCEPT ![x].pc = "reserveHeld", ![x].locked = TRUE]
          /\ UNCHANGED <<link, used, failures, cooling, allowed>>

ReserveHeld(x) ==
    LET s == c[x].source IN
    /\ At(x, "reserveHeld")
    /\ \/ Reserved(x, s, "call") /\ UNCHANGED <<link, failures, cooling, allowed>>
       \/ ~Admits(s) /\ Unsent(x)

(* Mutation: a call the session refuses is taken for one not yet paid for.  *)
Call_FallsBack(x) ==
    /\ At(x, "call")
    /\ IF c[x].session = "open"
         THEN /\ c' = [c EXCEPT ![x].pc = "answer", ![x].sent = @ + 1]
              /\ UNCHANGED <<link, used, allowed, failures, cooling>>
         ELSE Unsent(x)
(* A session that is broken or closed refuses the call.                     *)
Call(x) ==
    /\ At(x, "call")
    /\ IF c[x].session = "open"
         THEN /\ c' = [c EXCEPT ![x].pc = "answer", ![x].sent = @ + 1]
              /\ UNCHANGED <<failures, cooling>>
         ELSE /\ c' = [c EXCEPT ![x] = idle]
              /\ RecordFailure(c[x].source)
    /\ UNCHANGED <<link, used, allowed>>

Cleared(s) ==
    /\ failures' = [failures EXCEPT ![s] = 0]
    /\ cooling' = [cooling EXCEPT ![s] = FALSE]

(* The session everybody holds goes: markBroken and Close unregister it.    *)
Gone(s, session) ==
    /\ link' = [link EXCEPT ![s] = "lost"]
    /\ c' = [x \in Callers |-> IF Holds(x, s, "open")
                               THEN [c[x] EXCEPT !.session = session] ELSE c[x]]

(* Mutation: a call that was sent and failed is tried elsewhere.            *)
Answer_Retries(x) ==
    /\ At(x, "answer")
    /\ \/ Unsent(x)
       \/ /\ c' = [c EXCEPT ![x] = idle] /\ Cleared(c[x].source)
          /\ UNCHANGED <<link, used, allowed>>
(* An answer, a failure the session survives, a timeout among them, or one  *)
(* that is not the connection's; the call is over in any case.              *)
Answer(x) ==
    /\ At(x, "answer")
    /\ c' = [c EXCEPT ![x] = idle]
    /\ \/ Cleared(c[x].source)
       \/ RecordFailure(c[x].source)
       \/ UNCHANGED <<failures, cooling>>
    /\ UNCHANGED <<link, used, allowed>>

(* The call finds the session lost, and marks it so under its callMu.       *)
FindLost(x) ==
    LET s == c[x].source IN
    /\ At(x, "answer") /\ c[x].session = "open"
    /\ c[x].locked \/ Free(s)
    /\ link' = [link EXCEPT ![s] = "lost"]
    /\ c' = [y \in Callers |->
               CASE y = x -> idle
                 [] y # x /\ Holds(y, s, "open") -> [c[y] EXCEPT !.session = "broken"]
                 [] OTHER -> c[y]]
    /\ RecordFailure(s)
    /\ UNCHANGED <<used, allowed>>

----------------------------------------------------------------------------
(* The environment: connection loops, time, and the administrator           *)

Loop(s) ==
    /\ \/ link[s] = "down" /\ link' = [link EXCEPT ![s] = "up"] /\ UNCHANGED c
       \/ link[s] = "up" /\ Free(s) /\ Gone(s, "broken")
       \/ link[s] = "up" /\ Free(s) /\ Gone(s, "closed")
       \/ link[s] = "lost" /\ link' = [link EXCEPT ![s] = "down"] /\ UNCHANGED c
    /\ UNCHANGED <<used, failures, cooling, allowed>>

NewWindow(s) ==
    /\ used[s] > 0
    /\ used' = [used EXCEPT ![s] = 0]
    /\ UNCHANGED <<link, failures, cooling, allowed, c>>

(* An administrator who opens the tool's details has the end of a           *)
(* suspension noticed, too.                                                 *)
CoolDown(s) ==
    /\ cooling[s]
    /\ cooling' = [cooling EXCEPT ![s] = FALSE]
    /\ failures' \in {failures, [failures EXCEPT ![s] = 0]}
    /\ UNCHANGED <<link, used, allowed, c>>

SetAccess ==
    /\ \E s \in Revocable : allowed' \in {allowed \cup {s}, allowed \ {s}} \ {allowed}
    /\ UNCHANGED <<link, used, failures, cooling, c>>

Step(x) ==
    \/ \E s \in Sources : Look(x, s)
    \/ Reserve(x) \/ Exhausted(x) \/ Authorize(x)
    \/ Connect(x) \/ Await(x) \/ GiveUp(x) \/ Again(x)
    \/ Lock(x) \/ ReserveHeld(x) \/ Call(x) \/ Answer(x) \/ FindLost(x)

Next ==
    \/ \E x \in Callers : Begin(x) \/ Step(x)
    \/ \E s \in Sources : Loop(s) \/ NewWindow(s) \/ CoolDown(s)
    \/ SetAccess

Spec == Init /\ [][Next]_vars

----------------------------------------------------------------------------
(* Properties                                                               *)

(* Whatever happens to sessions, a call is handed to at most one of them    *)
(* once: fallbacks are for calls that were not sent (the tool may have      *)
(* side effects).                                                           *)
SentOnce == \A x \in Callers : c[x].sent <= 1

(* Falling back costs nothing: a call never holds a reservation of a source *)
(* it has left, and is not sent without one of the source it is sent to.    *)
PaidOnce ==
    \A x \in Callers :
      /\ c[x].paid \subseteq {c[x].source}
      /\ c[x].sent > 0 /\ ~c[x].waived /\ Limit[c[x].source] > 0
           => c[x].paid = {c[x].source}

(* However many requests race, a window admits no more than the limit.      *)
QuotaHeld == \A s \in Sources : Limit[s] > 0 => used[s] <= Limit[s]

(* The lease of callMu: between a recovered call's reservation and its      *)
(* dispatch nobody closes or breaks a session that was open before.         *)
LeaseHolds ==
    [][\A x \in Callers : c[x].locked /\ c[x].session = "open" /\ c'[x].locked
          => c'[x].session = "open"]_vars

============================================================================
