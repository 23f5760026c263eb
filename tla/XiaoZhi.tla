------------------------------ MODULE XiaoZhi -------------------------------
(***************************************************************************)
(* The outgoing connection to a XiaoZhi endpoint: Start, Stop and           *)
(* Reconfigure of xiaozhi/connector.go, its loop with the delays of         *)
(* backoff.go, and who calls them: the start and the end of the             *)
(* application and ApplySettings of every saved setting (app/run.go).       *)
(***************************************************************************)
EXTENDS Naturals, FiniteSets

CONSTANTS
    Updates,    \* requests that save settings
    Endpoints, Modes,
    MaxRuns, MaxUpdates, MaxAttempts \* bounds

VARIABLES
    saved,      \* the settings: [endpoint, enabled, mode]
    connector,  \* [endpoint, enabled, mode, started, cancel]: cancel is the
                \* loop whose context c.cancel cancels, or 0
    loops,      \* each loop: where it is, its context, what it serves
    attempt,    \* of the backoff
    caller,     \* where each request, and the application, is
    overlapped, \* history: two callers were at work at one time
    updates     \* history: saved settings

xiaozhiVars == <<saved, connector, loops, attempt, caller, overlapped, updates>>

App == "app"
Callers == Updates \cup {App}
Settings == [endpoint : Endpoints, enabled : BOOLEAN, mode : Modes]
Idle == [at |-> "idle", set |-> CHOOSE s \in Settings : ~s.enabled,
            start |-> FALSE, stops |-> 0]
NoLoop == [at |-> "none", live |-> FALSE, own |-> FALSE, serves |-> <<>>]

Unset == "unset"    \* the mode of a connector that nothing has configured
(* BuildServerWithSource: every mode but one is served as the smart one.     *)
ServedMode(mode) == IF mode = "full" THEN "full" ELSE "smart"

(* NewConnector, with the endpoint the application was built with, which     *)
(* may be enabled, and without the mode: only Reconfigure sets it.           *)
Init ==
    /\ saved \in Settings
    /\ connector = [endpoint |-> saved.endpoint, enabled |-> saved.enabled, mode |-> Unset,
                    started |-> FALSE, cancel |-> 0]
    /\ loops = [r \in 1..MaxRuns |-> NoLoop] /\ attempt = 0
    /\ caller = [c \in Callers |-> IF c = App THEN [Idle EXCEPT !.at = "start"]
                                              ELSE Idle]
    /\ overlapped = FALSE /\ updates = 0

Alive(r) == loops[r].at \notin {"none", "done"}

Goes(c, at) == caller' = [caller EXCEPT ![c].at = at]

----------------------------------------------------------------------------
(* Save, with the same check of the endpoint as Reconfigure has, while the   *)
(* HTTP servers run.                                                         *)
Save(c) ==
    /\ c # App /\ caller[c].at = "idle" /\ updates < MaxUpdates
    /\ caller[App].at \in {"start", "idle"}
    /\ \E s \in Settings :
         /\ saved' = s
         /\ caller' = [caller EXCEPT ![c] = [Idle EXCEPT !.at = "apply", !.set = s]]
    /\ updates' = updates + 1
    /\ overlapped' = (overlapped \/ \E d \in Callers : caller[d].at \notin {"idle", "over"})
    /\ UNCHANGED <<connector, loops, attempt>>

(* Mutation: another mode is no reason to connect again.                     *)
ApplySettings_NoMode(c) ==
    LET s == caller[c].set
        changed == s.endpoint # connector.endpoint
        stop == connector.started /\ (~s.enabled \/ changed)
    IN /\ caller[c].at = "apply"
       /\ caller' = [caller EXCEPT
              ![c].at = IF stop THEN "stop" ELSE "reconfigure",
              ![c].start = s.enabled /\ (stop \/ ~connector.started \/
                                         ~connector.enabled \/ changed)]
       /\ UNCHANGED <<saved, connector, loops, attempt, overlapped, updates>>
(* ApplySettings: what has changed decides what it calls.                    *)
ApplySettings(c) ==
    LET s == caller[c].set
        changed == s.endpoint # connector.endpoint \/ s.mode # connector.mode
        stop == connector.started /\ (~s.enabled \/ changed)
    IN /\ caller[c].at = "apply"
       /\ caller' = [caller EXCEPT
              ![c].at = IF stop THEN "stop" ELSE "reconfigure",
              ![c].start = s.enabled /\ (stop \/ ~connector.started \/
                                         ~connector.enabled)]
       /\ UNCHANGED <<saved, connector, loops, attempt, overlapped, updates>>

(* Stop: the connector is free again, then the loop is cancelled, ...        *)
StopLock(c) ==
    /\ caller[c].at = "stop"
    /\ connector' = [connector EXCEPT !.started = FALSE, !.cancel = 0]
    /\ caller' = [caller EXCEPT ![c].at = IF connector.started THEN "cancel" ELSE "stopped",
                                ![c].stops = connector.cancel]
    /\ UNCHANGED <<saved, loops, attempt, overlapped, updates>>

Cancelled(r) == IF r = 0 THEN loops ELSE [loops EXCEPT ![r].live = FALSE]

StopCancel(c) ==
    /\ caller[c].at = "cancel" /\ loops' = Cancelled(caller[c].stops)
    /\ caller' = [caller EXCEPT ![c].at = "wait", ![c].stops = 0]
    /\ UNCHANGED <<saved, connector, attempt, overlapped, updates>>

(* ... and it waits for the end of every loop.                               *)
StopWait(c) ==
    /\ caller[c].at = "wait" /\ \A r \in 1..MaxRuns : ~Alive(r)
    /\ Goes(c, "stopped")
    /\ UNCHANGED <<saved, connector, loops, attempt, overlapped, updates>>

Reconfigure(c) ==
    /\ caller[c].at = "reconfigure" \/ (caller[c].at = "stopped" /\ c # App)
    /\ connector' = [connector EXCEPT !.endpoint = caller[c].set.endpoint,
            !.enabled = caller[c].set.enabled, !.mode = caller[c].set.mode]
    /\ Goes(c, IF caller[c].start THEN "start" ELSE "idle")
    /\ UNCHANGED <<saved, loops, attempt, overlapped, updates>>

(* Start: not when it is disabled or started already.                        *)
Start(c) ==
    /\ caller[c].at = "start" /\ Goes(c, "idle")
    /\ IF connector.enabled /\ ~connector.started
       THEN \E r \in 1..MaxRuns :
              /\ loops[r].at = "none" /\ \A q \in 1..r - 1 : loops[q].at # "none"
              /\ loops' = [loops EXCEPT ![r] = [at |-> "check", live |-> TRUE,
                                                own |-> c = App, serves |-> <<>>]]
              /\ connector' = [connector EXCEPT !.started = TRUE, !.cancel = r]
              /\ attempt' = 0
       ELSE UNCHANGED <<connector, loops, attempt>>
    /\ UNCHANGED <<saved, overlapped, updates>>

(* The end of the application: the context of the loop it has started itself *)
(* ends, then Stop.                                                          *)
Shutdown ==
    /\ caller[App].at = "idle" /\ Goes(App, "stop")
    /\ loops' = [r \in 1..MaxRuns |-> [loops[r] EXCEPT !.live = @ /\ ~loops[r].own]]
    /\ overlapped' = (overlapped \/ \E d \in Updates : caller[d].at # "idle")
    /\ UNCHANGED <<saved, connector, attempt, updates>>

Closed ==
    /\ caller[App].at = "stopped" /\ Goes(App, "over")
    /\ UNCHANGED <<saved, connector, loops, attempt, overlapped, updates>>

----------------------------------------------------------------------------
Moves(r, at, serves) == loops' = [loops EXCEPT ![r].at = at, ![r].serves = serves]

(* run: the endpoint and the mode are read without the lock.                 *)
Connect(r) ==
    /\ loops[r].at = "check"
    /\ IF loops[r].live THEN Moves(r, "serve", <<connector.endpoint, ServedMode(connector.mode)>>)
                        ELSE Moves(r, "exit", <<>>)
    /\ UNCHANGED <<saved, connector, attempt, caller, overlapped, updates>>

(* The session ends, was never made, or is closed because of the context.    *)
SessionEnds(r) ==
    /\ loops[r].at = "serve"
    /\ IF loops[r].live
       THEN /\ attempt < MaxAttempts /\ attempt' = attempt + 1
            /\ Moves(r, "delay", <<>>)
       ELSE attempt' = attempt /\ Moves(r, "exit", <<>>)
    /\ UNCHANGED <<saved, connector, caller, overlapped, updates>>

Delay(r) ==
    /\ loops[r].at = "delay"
    /\ Moves(r, IF loops[r].live THEN "check" ELSE "exit", <<>>)
    /\ UNCHANGED <<saved, connector, attempt, caller, overlapped, updates>>

(* markStopped: if the connector is started, by whichever loop, ...          *)
MarkStopped(r) ==
    /\ loops[r].at = "exit"
    /\ loops' = [(IF connector.started THEN Cancelled(connector.cancel) ELSE loops)
                 EXCEPT ![r].at = "marked"]
    /\ connector' = [connector EXCEPT !.started = FALSE, !.cancel = 0]
    /\ UNCHANGED <<saved, attempt, caller, overlapped, updates>>

(* ... and only then Stop may go on.                                         *)
Done(r) ==
    /\ loops[r].at = "marked" /\ Moves(r, "done", <<>>)
    /\ UNCHANGED <<saved, connector, attempt, caller, overlapped, updates>>

Next ==
    \/ \E c \in Callers : \/ Save(c) \/ ApplySettings(c) \/ StopLock(c)
                          \/ StopCancel(c) \/ StopWait(c) \/ Reconfigure(c) \/ Start(c)
    \/ Shutdown \/ Closed
    \/ \E r \in 1..MaxRuns : \/ Connect(r) \/ SessionEnds(r) \/ Delay(r)
                             \/ MarkStopped(r) \/ Done(r)

Spec == Init /\ [][Next]_xiaozhiVars

(* What the gateway should serve.  Until settings are saved for the first    *)
(* time, that is the smart mode, whatever mode the file has.                 *)
Configured == IF updates = 0 THEN Unset ELSE saved.mode

(* No loop escapes Stop: one with a living context is the one the connector  *)
(* would cancel, or a Stop is about to cancel it, however requests overlap.  *)
(* And where they do not, the connection is what the settings say: there is  *)
(* a loop if and only if it is enabled, and what it serves is the saved      *)
(* endpoint, in the saved mode once settings have been saved in this         *)
(* process; none is left when the application has ended.                     *)
ConnectorFollowsSettings ==
    /\ \A r \in 1..MaxRuns : Alive(r) /\ loops[r].live =>
           \/ connector.started /\ connector.cancel = r
           \/ \E c \in Callers : caller[c].at = "cancel" /\ caller[c].stops = r
    /\ ~overlapped /\ (\A c \in Callers : caller[c].at = "idle") =>
           /\ connector.started = saved.enabled
           /\ {loops[r].serves : r \in {r \in 1..MaxRuns : Alive(r)}} \subseteq
              (IF saved.enabled THEN {<<>>, <<saved.endpoint, ServedMode(Configured)>>}
               ELSE {})
           /\ Cardinality({r \in 1..MaxRuns : Alive(r)}) <= 1
    /\ ~overlapped /\ caller[App].at = "over" =>
           \A r \in 1..MaxRuns : loops[r].at \in {"none", "marked", "done"}
=============================================================================
