----------------------------- MODULE ApiAccess ------------------------------
(***************************************************************************)
(* One API key and the calls that carry it: the chain of middlewares of    *)
(* the outgoing MCP endpoints (app/router.go: authentication, the list of  *)
(* permitted sources, the limits; package apikey) and the administrators'  *)
(* requests of httpapi/apikey.go, of which the update of the limits reads  *)
(* the row and then writes all of it.                                      *)
(***************************************************************************)
EXTENDS Naturals, FiniteSets

CONSTANTS
    Calls, Admins,     \* requests under way
    Sources,           \* addresses calls come from
    LimitChoices,      \* what an administrator may set: the limit of each window,
                       \* 0 is none, and the length of the window of the rate
    Period,            \* the quotas, each with the length of its period
    Expires,           \* the time at which the key expires
    MaxFilters,        \* domain.MaxFilterRulesPerScope
    MaxTime, MaxOps    \* bounds

VARIABLES
    key,        \* the row: [enabled, limits, rateWindowS, profile], or Gone
    acl,        \* the sources on its list
    filters,    \* how many filter rules it has
    counters,   \* Redis: [window, start of the window] -> count
    expiry,     \* Redis: when each counter vanishes
    clock,
    call,       \* each call: where it is, and the metadata authentication read
    admin,      \* each administrator's request
    admitted,   \* history: calls charged to a counter and admitted
    applied,    \* history: the largest limit one of them was admitted under
    lengths,    \* history: the lengths of the window they were charged for
    adminOps    \* history: administrators' requests

accessVars == <<key, acl, filters, counters, expiry, clock, call, admin, admitted, applied,
                lengths, adminOps>>
reserveVars == <<counters, expiry, admitted, applied, lengths>>

Windows == {"rate"} \cup DOMAIN Period
Profiles == {"standard", "readonly"}
Gone == [enabled |-> FALSE, limits |-> [w \in Windows |-> 0], rateWindowS |-> 1,
         profile |-> "gone"]
Slots == Windows \X (0..MaxTime)
Idle == [at |-> "idle", meta |-> Gone]

(* Manager.Create: enabled, without limits, list or filters.                 *)
Init ==
    /\ key = [Gone EXCEPT !.enabled = TRUE, !.profile = "standard"]
    /\ acl = {} /\ filters = 0
    /\ counters = [s \in Slots |-> 0] /\ expiry = [s \in Slots |-> 0] /\ clock = 0
    /\ call = [c \in Calls |-> Idle] /\ admin = [a \in Admins |-> Idle]
    /\ admitted = [s \in Slots |-> 0] /\ applied = [s \in Slots |-> 0]
    /\ lengths = [s \in Slots |-> {}] /\ adminOps = 0

Moves(c, at) == call' = [call EXCEPT ![c].at = at]

----------------------------------------------------------------------------
(* Authenticator.Middleware: GetByHash, then Usable. A failed look-up is a   *)
(* refusal, as a missing, disabled or expired key. The metadata goes into    *)
(* the context of the call.                                                  *)
Usable(meta) == meta.enabled /\ ~(clock > Expires)

Authenticate(c) ==
    /\ call[c].at = "idle"
    /\ key # Gone /\ Usable(key)
    /\ call' = [call EXCEPT ![c] = [at |-> "acl", meta |-> key]]
    /\ UNCHANGED <<reserveVars, key, acl, filters, clock, admin, adminOps>>

(* ACLGuard.Middleware: MatchCIDR of the list as it is now; an empty list    *)
(* permits every source, and if the list cannot be read the call is refused. *)
MatchCIDR(source) == acl = {} \/ source \in acl

CheckSource(c) ==
    /\ call[c].at = "acl"
    /\ \/ \E s \in Sources : Moves(c, IF MatchCIDR(s) THEN "limit" ELSE "idle")
       \/ Moves(c, "idle") \* the list could not be read
    /\ UNCHANGED <<reserveVars, key, acl, filters, clock, admin, adminOps>>

(* rateWindows: the windows the metadata limits. The name of a counter has    *)
(* the start of its window, and not the length.                              *)
RateWindows(meta) == {w \in Windows : meta.limits[w] > 0}
Length(meta, w) == IF w = "rate" THEN meta.rateWindowS ELSE Period[w]
Slot(meta, w) == <<w, clock - (clock % Length(meta, w))>>

(* The time a counter lives from its first call on: the window's length, or  *)
(* a little more than what is left of a quota's period.                      *)
ExpiresAt(meta, w) == IF w = "rate" THEN clock + meta.rateWindowS
                      ELSE Slot(meta, w)[2] + Period[w] + 1

Current(s) == IF clock < expiry[s] THEN counters[s] ELSE 0

(* INCR of some counters; one that was not there gets its time to live.      *)
Incremented(meta, ws) ==
    LET taken == {Slot(meta, w) : w \in ws} IN
    [counters |-> [s \in Slots |-> IF s \in taken THEN Current(s) + 1 ELSE counters[s]],
     expiry |-> [s \in Slots |-> IF s \in taken /\ Current(s) = 0 THEN ExpiresAt(meta, s[1])
                                 ELSE expiry[s]]]

Full(meta, w) == Current(Slot(meta, w)) >= meta.limits[w]

(* Mutation: the windows are taken one after the other, as the comment at    *)
(* RateCounter warns.                                                        *)
Reserve_OneByOne(meta, ws) ==
    [allowed |-> \A w \in ws : ~Full(meta, w),
     redis |-> Incremented(meta, {w \in ws : ~Full(meta, w)})]

(* The script of RateCounter.Reserve: it looks at all counters, then takes    *)
(* one of each.                                                              *)
Reserve(meta, ws) ==
    LET allowed == \A w \in ws : ~Full(meta, w) IN
    [allowed |-> allowed, redis |-> Incremented(meta, IF allowed THEN ws ELSE {})]

(* RateLimiter.Middleware, whose limits are those authentication read. If     *)
(* Redis fails the call goes on without being counted.                       *)
AllowWithReason(c) ==
    /\ call[c].at = "limit"
    /\ LET meta == call[c].meta
           ws == RateWindows(meta)
           r == Reserve(meta, ws)
           charged(s) == r.allowed /\ \E w \in ws : s = Slot(meta, w)
       IN \/ /\ counters' = r.redis.counters /\ expiry' = r.redis.expiry
             /\ admitted' = [s \in Slots |-> admitted[s] + IF charged(s) THEN 1 ELSE 0]
             /\ applied' = [s \in Slots |-> IF charged(s) /\ meta.limits[s[1]] > applied[s]
                                             THEN meta.limits[s[1]] ELSE applied[s]]
             /\ lengths' = [s \in Slots |-> lengths[s] \cup
                               IF charged(s) THEN {Length(meta, s[1])} ELSE {}]
          \/ ws # {} /\ UNCHANGED reserveVars
    /\ call' = [call EXCEPT ![c] = Idle]
    /\ UNCHANGED <<key, acl, filters, clock, admin, adminOps>>

----------------------------------------------------------------------------
Asks(a) == /\ admin[a].at = "idle" /\ adminOps < MaxOps
           /\ adminOps' = adminOps + 1

SetEnabled(a, on) ==
    /\ Asks(a) /\ key # Gone
    /\ key' = [key EXCEPT !.enabled = on]
    /\ UNCHANGED <<reserveVars, acl, filters, clock, call, admin>>

SetRiskProfile(a, p) ==
    /\ Asks(a) /\ key # Gone
    /\ key' = [key EXCEPT !.profile = p]
    /\ UNCHANGED <<reserveVars, acl, filters, clock, call, admin>>

(* The list and the filters follow by ON DELETE CASCADE.                     *)
Delete(a) ==
    /\ Asks(a) /\ key # Gone
    /\ key' = Gone /\ acl' = {} /\ filters' = 0
    /\ UNCHANGED <<reserveVars, clock, call, admin>>

CreateACL(a, s) ==
    /\ Asks(a) /\ key # Gone
    /\ acl' = acl \cup {s}
    /\ UNCHANGED <<reserveVars, key, filters, clock, call, admin>>

DeleteACL(a, s) ==
    /\ Asks(a) /\ s \in acl
    /\ acl' = acl \ {s}
    /\ UNCHANGED <<reserveVars, key, filters, clock, call, admin>>

(* updateRateLimit: Get the row, put the limits into it, Update every column *)
(* of it.                                                                    *)
GetForUpdate(a) ==
    /\ Asks(a) /\ key # Gone
    /\ \E l \in LimitChoices :
         admin' = [admin EXCEPT ![a] = [at |-> "update", meta |-> [key EXCEPT !.limits = l.limits,
                                                                   !.rateWindowS = l.rateWindowS]]]
    /\ UNCHANGED <<reserveVars, key, acl, filters, clock, call>>

UpdateRateLimit(a) ==
    /\ admin[a].at = "update"
    /\ key' = IF key = Gone THEN Gone ELSE admin[a].meta
    /\ admin' = [admin EXCEPT ![a] = Idle]
    /\ UNCHANGED <<reserveVars, acl, filters, clock, call, adminOps>>

(* FilterManager.Create: counts, checks the limit, then inserts.             *)
ValidateFilterCount(current) == current < MaxFilters

CountFilters(a) ==
    /\ Asks(a) /\ key # Gone /\ ValidateFilterCount(filters)
    /\ admin' = [admin EXCEPT ![a].at = "insert"]
    /\ UNCHANGED <<reserveVars, key, acl, filters, clock, call>>

InsertFilter(a) ==
    /\ admin[a].at = "insert"
    /\ filters' = IF key = Gone THEN 0 ELSE filters + 1
    /\ admin' = [admin EXCEPT ![a] = Idle]
    /\ UNCHANGED <<reserveVars, key, acl, clock, call, adminOps>>

DeleteFilter(a) ==
    /\ Asks(a) /\ filters > 0
    /\ filters' = filters - 1
    /\ UNCHANGED <<reserveVars, key, acl, clock, call, admin>>

Tick ==
    /\ clock < MaxTime /\ clock' = clock + 1
    /\ UNCHANGED <<reserveVars, key, acl, filters, call, admin, adminOps>>

Next ==
    \/ \E c \in Calls : Authenticate(c) \/ CheckSource(c) \/ AllowWithReason(c)
    \/ \E a \in Admins :
          \/ \E on \in BOOLEAN : SetEnabled(a, on)
          \/ \E p \in Profiles : SetRiskProfile(a, p)
          \/ Delete(a) \/ GetForUpdate(a) \/ UpdateRateLimit(a)
          \/ \E s \in Sources : CreateACL(a, s) \/ DeleteACL(a, s)
          \/ CountFilters(a) \/ InsertFilter(a) \/ DeleteFilter(a)
    \/ Tick

Spec == Init /\ [][Next]_accessVars

----------------------------------------------------------------------------
(* A counter was asked for under two lengths of the window of the rate.      *)
Mixed(s) == s[1] = "rate" /\ \E l, m \in lengths[s] : l # m

(* A counter never counts a call that was not admitted: a call that one      *)
(* window refuses uses up nothing of the others. And no day, no month and no *)
(* window of a rate whose length stays the same admits more calls than the   *)
(* largest limit applied in it, whatever administrators change meanwhile and *)
(* however long the counter lives, which counts until the end of the window. *)
(* A changed length finds the counter of another window where the two begin  *)
(* together, and calls Redis did not answer for are not counted              *)
(* (AllowWithReason, the script of Reserve, rateWindows).                    *)
WindowsCountAdmitted ==
    \A s \in Slots :
        /\ Current(s) <= admitted[s]
        /\ ~Mixed(s) =>
              /\ admitted[s] <= applied[s]
              /\ \A l \in lengths[s] : clock < s[2] + l => Current(s) = admitted[s]

=============================================================================
