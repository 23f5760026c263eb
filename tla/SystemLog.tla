----------------------------- MODULE SystemLog -----------------------------
(***************************************************************************)
(* The system log: a bounded buffer of numbered entries that every log     *)
(* record of the process enters (src/internal/syslog, its handlers in      *)
(* src/internal/httpapi/systemlog.go), and the pages that follow it by     *)
(* polling (src/web/src/views/SystemLogsView.vue).  Requests of a page are *)
(* answered, lost and received in any order.  Entries are their number and *)
(* level; the text, the console output and the export are left out. A log  *)
(* always lies in the order of its numbers: it is the set of its entries.  *)
(***************************************************************************)
EXTENDS Integers, FiniteSets, FiniteSetsExt

CONSTANTS
    Views,          \* pages that are open
    Levels,         \* levels of entries; All is a view's filter for every level
    All,
    Capacity,       \* entries the store keeps
    PageLimit,      \* entries in an answer
    MaxLocalLogs,   \* entries a page keeps
    MaxEntries, MaxSwitches, MaxRestarts,   \* bounds
    MaxAsked        \* bounds the requests of a page under way

VARIABLES
    entries, nextID,    \* the store
    view,               \* of each page: its level, entries, requests under way
    switches, restarts

logVars == <<entries, nextID, view, switches, restarts>>

Newest(log, n) == {x \in log : Cardinality({y \in log : y.id > x.id}) < n}
Oldest(log, n) == {x \in log : Cardinality({y \in log : y.id < x.id}) < n}

Matches(level, filter) == filter \in {All, level}

After(id, filter) == {x \in entries : x.id > id /\ Matches(x.level, filter)}

(* Store.List: after an entry the oldest of the rest, else the newest *)
List_Newest(id, filter) == Newest(After(id, filter), PageLimit)

List(id, filter) ==
    IF id = 0 THEN Newest(After(id, filter), PageLimit) ELSE Oldest(After(id, filter), PageLimit)

Ids(log) == {x.id : x \in log}

LatestId(log) == IF log = {} THEN 0 ELSE Max(Ids(log))

Load(level) == [kind |-> "load", level |-> level, after |-> 0, answered |-> FALSE, reply |-> {}]

Opened == [level |-> All, logs |-> {}, asked |-> {Load(All)}, undisturbed |-> TRUE]

Init ==
    /\ entries = {} /\ nextID = 0
    /\ view = [v \in Views |-> Opened]
    /\ switches = 0 /\ restarts = 0

-----------------------------------------------------------------------------
(* The process *)

(* Handler.Handle, Store.Add *)
Add(level) ==
    /\ nextID < MaxEntries
    /\ nextID' = nextID + 1
    /\ entries' = Newest(entries \cup {[id |-> nextID + 1, level |-> level]}, Capacity)
    /\ UNCHANGED <<view, switches, restarts>>

(* The pages stay open; what they hold and the new numbers have nothing in common *)
Restart ==
    /\ restarts < MaxRestarts /\ restarts' = restarts + 1
    /\ entries' = {} /\ nextID' = 0
    /\ view' = [v \in Views |-> [view[v] EXCEPT !.undisturbed = FALSE]]
    /\ UNCHANGED switches

Replace(v, request, with) == (view[v].asked \ {request}) \cup with

(* querySystemLogs *)
Answer(v, request) ==
    /\ request.kind # "clear" /\ ~request.answered
    /\ LET found == [request EXCEPT !.answered = TRUE, !.reply = List(request.after, request.level)]
       IN view' = [view EXCEPT ![v].asked = Replace(v, request, {found})]
    /\ UNCHANGED <<entries, nextID, switches, restarts>>

(* clearSystemLogs *)
Clear(v, request) ==
    /\ request.kind = "clear" /\ ~request.answered
    /\ entries' = {}
    /\ view' = [view EXCEPT ![v].asked = Replace(v, request, {[request EXCEPT !.answered = TRUE]})]
    /\ UNCHANGED <<nextID, switches, restarts>>

-----------------------------------------------------------------------------
(* A page *)

Asking(v, kinds) == \E r \in view[v].asked : r.kind \in kinds

Ask(v, request) ==
    view' = [view EXCEPT
        ![v].asked = @ \cup {request},
        ![v].undisturbed = @ /\ ~(request.kind # "clear" /\ Asking(v, {"load", "refresh", "reload"}))]

(* refreshNow: the timer, the button or the switch of the timer *)
Refresh(v) ==
    /\ ~Asking(v, {"refresh", "reload"}) /\ Cardinality(view[v].asked) < MaxAsked
    /\ Ask(v, [kind |-> "refresh", level |-> view[v].level,
               after |-> LatestId(view[v].logs),
               answered |-> FALSE, reply |-> {}])
    /\ UNCHANGED <<entries, nextID, switches, restarts>>

(* watch(level): loadInitial, whatever is still under way *)
SwitchLevel(v, level) ==
    /\ level # view[v].level
    /\ switches < MaxSwitches /\ Cardinality(view[v].asked) < MaxAsked
    /\ switches' = switches + 1
    /\ view' = [view EXCEPT
        ![v].level = level,
        ![v].asked = @ \cup {Load(level)},
        ![v].undisturbed = @ /\ ~Asking(v, {"load", "refresh", "reload"})]
    /\ UNCHANGED <<entries, nextID, restarts>>

AskClear(v) ==
    /\ ~Asking(v, {"clear"}) /\ Cardinality(view[v].asked) < MaxAsked
    /\ Ask(v, [kind |-> "clear", level |-> All, after |-> 0, answered |-> FALSE, reply |-> {}])
    /\ UNCHANGED <<entries, nextID, switches, restarts>>

(* mergeLatest *)
Merge(old, new) ==
    Newest(old \cup {x \in new : x.id \notin Ids(old)}, MaxLocalLogs)

Receive(v, request) ==
    /\ request.answered
    /\ LET logs == view[v].logs
           rest == view[v].asked \ {request}
       IN view' = [view EXCEPT ![v] =
            CASE request.kind = "refresh" /\ request.reply = {} /\ logs = {} ->
                   [@ EXCEPT !.asked = rest \cup {[Load(view[v].level) EXCEPT !.kind = "reload"]}]
              [] request.kind = "refresh" /\ (request.reply # {} \/ logs # {}) ->
                   [@ EXCEPT !.asked = rest, !.logs = Merge(logs, request.reply)]
              [] OTHER -> [@ EXCEPT !.asked = rest, !.logs = request.reply]]
    /\ UNCHANGED <<entries, nextID, switches, restarts>>

(* A request or its answer is lost; entries of another level stay after a lost load *)
Lose(v, request) ==
    /\ view' = [view EXCEPT
        ![v].asked = @ \ {request},
        ![v].undisturbed = @ /\ ~(request.kind = "load" /\ view[v].logs # {})]
    /\ UNCHANGED <<entries, nextID, switches, restarts>>

Next ==
    \/ \E level \in Levels : Add(level)
    \/ Restart
    \/ \E v \in Views :
        \/ Refresh(v) \/ AskClear(v)
        \/ \E level \in Levels \cup {All} : SwitchLevel(v, level)
        \/ \E request \in view[v].asked :
            Answer(v, request) \/ Clear(v, request) \/ Receive(v, request) \/ Lose(v, request)

Spec == Init /\ [][Next]_logVars

-----------------------------------------------------------------------------
(* Between the oldest and the newest entry of a page nothing is missing:   *)
(* however entries, answers and clearings interleave, and however many     *)
(* entries come between two polls, a page shows every entry of its level   *)
(* that the store still has.  (A page whose loads and polls overlapped,    *)
(* whose change of level failed, or which outlived the process may have    *)
(* holes.)                                                                 *)
PagesHaveNoHoles ==
    \A v \in Views : LET logs == view[v].logs IN
        view[v].undisturbed /\ ~Asking(v, {"load"}) =>
            \A x \in entries :
                /\ \E a, b \in logs : a.id < x.id /\ x.id < b.id
                /\ Matches(x.level, view[v].level)
                => x \in logs
=============================================================================
