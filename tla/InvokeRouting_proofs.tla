------------------------ MODULE InvokeRouting_proofs ------------------------
(***************************************************************************)
(* Proofs about InvokeRouting for any number of callers and sources, any    *)
(* limits and any threshold.                                                *)
(***************************************************************************)
EXTENDS InvokeRouting, TLAPS

(* Where a call has a source, and where it may hold a callMu.               *)
Chosen == PC \ {"idle", "select"}
Leased == {"reserveHeld", "call", "answer"}

(* What a caller keeps true of itself.  Before it is sent a deferred call   *)
(* has not paid, any other one has paid at its source or was let through.   *)
Settled(r) ==
    r.source \in Sources /\ Limit[r.source] > 0 /\ ~r.waived
        => r.paid = {r.source}

CallerOK(r) ==
    /\ r.pc \in Chosen => r.source \in Sources
    /\ r.source = None => r.paid = {}
    /\ r.paid \subseteq {r.source}
    /\ r.pc \in {"idle", "select", "reserve"} => r.paid = {} /\ ~r.deferred
    /\ r.pc \in {"lock", "reserveHeld"} => r.deferred
    /\ r.deferred /\ r.pc \notin {"call", "answer"} => r.paid = {}
    /\ ~r.deferred /\ r.pc \notin {"idle", "select", "reserve"} => Settled(r)
    /\ r.pc \in {"call", "answer"} => Settled(r)
    /\ r.sent = IF r.pc = "answer" THEN 1 ELSE 0
    /\ r.locked => r.pc \in Leased

(* One caller at a time holds the callMu of the registered session.         *)
OneLease ==
    \A x, y \in Callers :
        /\ c[x].locked /\ c[x].session = "open"
        /\ c[y].locked /\ c[y].session = "open"
        /\ c[x].source = c[y].source
        => x = y

(* A lease of the registered session of s.                                  *)
Lease(r, s) == r.locked /\ r.session = "open" /\ r.source = s

(* What LeaseHolds says of one step.                                        *)
LeasesKept ==
    \A x \in Callers :
        c[x].locked /\ c[x].session = "open" /\ c'[x].locked
            => c'[x].session = "open"

CallersOK ==
    /\ c \in [Callers -> Caller]
    /\ \A x \in Callers : CallerOK(c[x])
    /\ OneLease

(* The rest of the state: what is kept of each source.                      *)
SourcesOK ==
    /\ link \in [Sources -> Links]
    /\ used \in [Sources -> Nat]
    /\ failures \in [Sources -> 0..Threshold]
    /\ cooling \in [Sources -> BOOLEAN]
    /\ allowed \subseteq Sources
    /\ QuotaHeld

(* A record that is written field by field is a Caller like any other.      *)
LEMMA IdleCaller == idle \in Caller /\ CallerOK(idle)
BY RoutingAssumption DEF idle, Caller, CallerOK, PC, Chosen, Leased, Settled

LEMMA Fields ==
    ASSUME NEW r \in Caller
    PROVE  /\ r.pc \in PC /\ r.choice \in BOOLEAN /\ r.todo \subseteq Sources
           /\ r.recover \subseteq Sources /\ r.source \in Sources \cup {None}
           /\ r.deferred \in BOOLEAN
           /\ r.session \in {"none", "open", "broken", "closed"}
           /\ r.locked \in BOOLEAN /\ r.paid \subseteq Sources
           /\ r.waived \in BOOLEAN /\ r.sent \in 0..2
BY DEF Caller

(* One caller changes and takes no lease that is not free; it drops the     *)
(* lease it has only with its lock.                                         *)
LEMMA OneCaller ==
    ASSUME CallersOK, NEW x \in Callers, NEW r \in Caller, CallerOK(r),
           c' = [c EXCEPT ![x] = r],
           \A s \in Sources \cup {None} :
                Lease(r, s) => Lease(c[x], s) \/ Free(s),
           c[x].locked /\ c[x].session = "open" /\ r.locked
                => r.session = "open"
    PROVE  CallersOK' /\ LeasesKept
<1>1. c' \in [Callers -> Caller]
  BY DEF CallersOK
<1>2. /\ c'[x] = r
      /\ \A y \in Callers \ {x} : c'[y] = c[y]
  BY DEF CallersOK
<1>3. \A y \in Callers : CallerOK(c'[y])
  BY <1>2, Zenon DEF CallersOK
<1>4. OneLease'
  <2> SUFFICES ASSUME NEW y \in Callers, NEW z \in Callers,
                      Lease(c'[y], c'[z].source), Lease(c'[z], c'[z].source)
               PROVE  y = z
    BY DEF OneLease, Lease
  <2> DEFINE s == c'[z].source
  <2>1. s \in Sources \cup {None}
    BY <1>1, Fields
  <2>2. \A v, w \in Callers : Lease(c[v], s) /\ Lease(c[w], s) => v = w
    BY DEF CallersOK, OneLease, Lease
  <2>3. \A v \in Callers : Free(s) => ~Lease(c[v], s)
    BY DEF Free, Holds, Lease
  <2>4. \A v \in Callers : Lease(c'[v], s) /\ v # x => Lease(c[v], s)
    BY <1>2
  <2>5. Lease(c'[x], s) => Lease(c[x], s) \/ Free(s)
    BY <1>2, <2>1
  <2> QED
    BY <2>2, <2>3, <2>4, <2>5
<1>5. LeasesKept
  BY <1>2 DEF LeasesKept
<1> QED
  BY <1>1, <1>3, <1>4, <1>5 DEF CallersOK

(* The caller returns.                                                      *)
LEMMA Returns ==
    ASSUME CallersOK, NEW x \in Callers, c' = [c EXCEPT ![x] = idle]
    PROVE  CallersOK' /\ LeasesKept
<1>1. ~idle.locked
  BY DEF idle
<1> QED
  BY <1>1, IdleCaller, OneCaller DEF Lease

(* Whoever is not past Lock holds no lease, so any unlocked record will do. *)
LEMMA Unlocked ==
    ASSUME CallersOK, NEW x \in Callers, NEW r \in Caller, CallerOK(r),
           c' = [c EXCEPT ![x] = r], ~r.locked
    PROVE  CallersOK' /\ LeasesKept
BY OneCaller DEF Lease

LEMMA OfCaller ==
    ASSUME CallersOK, NEW x \in Callers
    PROVE  c[x] \in Caller /\ CallerOK(c[x])
BY DEF CallersOK

LEMMA SourcesStay ==
    ASSUME SourcesOK, UNCHANGED <<link, used, failures, cooling, allowed>>
    PROVE  SourcesOK'
BY DEF SourcesOK, QuotaHeld

(* A result, good or bad, is written to one source's record.                *)
LEMMA Recorded ==
    ASSUME SourcesOK, NEW s \in Sources, UNCHANGED <<used, allowed>>,
           link' \in [Sources -> Links],
           \/ RecordFailure(s) \/ Cleared(s) \/ UNCHANGED <<failures, cooling>>
    PROVE  SourcesOK'
<1>1. /\ failures' \in [Sources -> 0..Threshold]
      /\ cooling' \in [Sources -> BOOLEAN]
  <2>1. CASE RecordFailure(s)
    <3>1. (IF failures[s] < Threshold THEN failures[s] + 1 ELSE failures[s])
             \in 0..Threshold
      BY RoutingAssumption DEF SourcesOK
    <3>2. (cooling[s] \/ failures[s] + 1 >= Threshold) \in BOOLEAN
      OBVIOUS
    <3> QED
      BY <2>1, <3>1, <3>2, Zenon DEF SourcesOK, RecordFailure
  <2>2. CASE Cleared(s)
    BY <2>2, RoutingAssumption DEF SourcesOK, Cleared
  <2>3. CASE UNCHANGED <<failures, cooling>>
    BY <2>3 DEF SourcesOK
  <2> QED
    BY <2>1, <2>2, <2>3
<1> QED
  BY <1>1 DEF SourcesOK, QuotaHeld

(* A step after which the sources and the callers are as they should be.    *)
Kept == SourcesOK' /\ CallersOK' /\ LeasesKept

LEMMA BeginKeeps ==
    ASSUME SourcesOK, CallersOK, NEW x \in Callers, Begin(x)
    PROVE  Kept
<1> DEFINE several == Cardinality(allowed) > 1
           r == [idle EXCEPT !.pc = "select", !.todo = allowed,
                             !.choice = several]
<1>1. c' = [c EXCEPT ![x] = r]
  BY DEF Begin
<1>2. several \in BOOLEAN
  OBVIOUS
<1> HIDE DEF several
<1>3. allowed \subseteq Sources
  BY DEF SourcesOK
<1>4. r \in Caller
  BY <1>2, <1>3, IdleCaller DEF Caller, PC
<1>5. CallerOK(r) /\ ~r.locked
  BY RoutingAssumption DEF idle, CallerOK, PC, Chosen, Leased, Settled
<1>6. SourcesOK'
  BY SourcesStay DEF Begin
<1> HIDE DEF r
<1> QED
  BY <1>1, <1>4, <1>5, <1>6, Unlocked DEF Kept

LEMMA LookKeeps ==
    ASSUME SourcesOK, CallersOK, NEW x \in Callers, NEW s \in Sources, Look(x, s)
    PROVE  Kept
<1> DEFINE skip == [c[x] EXCEPT !.todo = @ \ {s}]
           away == [c[x] EXCEPT !.todo = @ \ {s}, !.recover = @ \cup {s}]
           take == [c[x] EXCEPT !.pc = "reserve", !.source = s]
<1>1. c[x] \in Caller /\ CallerOK(c[x]) /\ At(x, "select")
  BY OfCaller DEF Look
<1>2. \/ c' = [c EXCEPT ![x] = skip]
      \/ c' = [c EXCEPT ![x] = away]
      \/ c' = [c EXCEPT ![x] = take]
  <2>1. c \in [Callers -> Caller]
    BY DEF CallersOK
  <2> QED
    BY <2>1 DEF Look
<1>3. skip \in Caller /\ away \in Caller /\ take \in Caller
  BY <1>1 DEF Caller, PC
<1>4. CallerOK(skip) /\ ~skip.locked /\ CallerOK(away) /\ ~away.locked
  BY <1>1 DEF Caller, CallerOK, At, PC, Chosen, Leased, Settled
<1>5. CallerOK(take) /\ ~take.locked
  BY <1>1, RoutingAssumption DEF Caller, CallerOK, At, PC, Chosen, Leased, Settled
<1>6. SourcesOK'
  <2>1. failures' \in [Sources -> 0..Threshold]
    BY RoutingAssumption DEF Look, SourcesOK
  <2> QED
    BY <2>1 DEF Look, SourcesOK, QuotaHeld
<1> HIDE DEF skip, away, take
<1> QED
  BY <1>2, <1>3, <1>4, <1>5, <1>6, Unlocked DEF Kept

(* A reservation, wherever it is made: the counter stays within the limit,  *)
(* and the caller has paid, or has been waived, or need not pay.            *)
LEMMA ReservedCases ==
    ASSUME SourcesOK, CallersOK, NEW x \in Callers, NEW s \in Sources,
           c[x].source = s, c[x].paid = {}, NEW pc \in {"authorize", "call"},
           Reserved(x, s, pc)
    PROVE  /\ used' \in [Sources -> Nat] /\ QuotaHeld'
           /\ \E r \in Caller :
                /\ c' = [c EXCEPT ![x] = r]
                /\ r.pc = pc /\ r.source = s /\ r.deferred = c[x].deferred
                /\ r.session = c[x].session /\ r.locked = c[x].locked
                /\ r.sent = c[x].sent /\ r.paid \subseteq {s} /\ Settled(r)
<1> DEFINE free == [c[x] EXCEPT !.pc = pc]
           pays == [c[x] EXCEPT !.pc = pc, !.paid = @ \cup {s}]
           lets == [c[x] EXCEPT !.pc = pc, !.waived = TRUE]
<1>1. c[x] \in Caller
  BY OfCaller
<1>2. free \in Caller /\ pays \in Caller /\ lets \in Caller
  BY <1>1 DEF Caller, PC
<1>3. c \in [Callers -> Caller]
  BY DEF CallersOK
<1>4. used \in [Sources -> Nat] /\ QuotaHeld /\ Limit \in [Sources -> Nat]
  BY RoutingAssumption DEF SourcesOK
<1>5. CASE Limit[s] = 0 /\ c' = [c EXCEPT ![x].pc = pc] /\ UNCHANGED used
  <2>1. c' = [c EXCEPT ![x] = free]
    BY <1>5
  <2>2. Settled(free) /\ free.paid \subseteq {s}
    BY <1>1, <1>5 DEF Settled, Caller
  <2> QED
    BY <1>1, <1>2, <1>4, <1>5, <2>1, <2>2 DEF QuotaHeld, Caller
<1>6. CASE /\ Limit[s] > 0 /\ Admits(s)
           /\ used' = [used EXCEPT ![s] = @ + 1]
           /\ c' = [c EXCEPT ![x].pc = pc, ![x].paid = @ \cup {s}]
  <2>1. c' = [c EXCEPT ![x] = pays]
    BY <1>3, <1>6
  <2>2. Settled(pays) /\ pays.paid \subseteq {s}
    BY <1>1, <1>6 DEF Settled, Caller
  <2>3. used' \in [Sources -> Nat] /\ QuotaHeld'
    BY <1>4, <1>6 DEF QuotaHeld, Admits
  <2> QED
    BY <1>1, <1>2, <2>1, <2>2, <2>3 DEF Caller
<1>7. CASE /\ Limit[s] > 0 /\ UNCHANGED used
           /\ c' = [c EXCEPT ![x].pc = pc, ![x].waived = TRUE]
  <2>1. c' = [c EXCEPT ![x] = lets]
    BY <1>3, <1>7
  <2>2. Settled(lets) /\ lets.paid \subseteq {s}
    BY <1>1 DEF Settled, Caller
  <2>3. /\ lets.pc = pc /\ lets.source = s /\ lets.deferred = c[x].deferred
        /\ lets.session = c[x].session /\ lets.locked = c[x].locked
        /\ lets.sent = c[x].sent
    BY <1>1 DEF Caller
  <2>4. used' \in [Sources -> Nat] /\ QuotaHeld'
    BY <1>4, <1>7 DEF QuotaHeld
  <2> HIDE DEF lets
  <2> QED
    BY <1>2, <2>1, <2>2, <2>3, <2>4
<1> QED
  BY <1>5, <1>6, <1>7 DEF Reserved

LEMMA ReserveKeeps ==
    ASSUME SourcesOK, CallersOK, NEW x \in Callers, Reserve(x)
    PROVE  Kept
<1> DEFINE s == c[x].source
<1>1. c[x] \in Caller /\ CallerOK(c[x]) /\ c[x].pc = "reserve"
  BY OfCaller DEF Reserve, At
<1>2. s \in Sources /\ c[x].paid = {} /\ ~c[x].deferred /\ ~c[x].locked
      /\ c[x].sent = 0
  BY <1>1 DEF CallerOK, PC, Chosen, Leased
<1>3. CASE Reserved(x, s, "authorize")
  <2>1. SourcesOK'
    BY <1>2, <1>3, ReservedCases DEF Reserve, SourcesOK
  <2>2. PICK r \in Caller :
          /\ c' = [c EXCEPT ![x] = r]
          /\ r.pc = "authorize" /\ r.source = s /\ r.deferred = c[x].deferred
          /\ r.locked = c[x].locked /\ r.sent = c[x].sent
          /\ r.paid \subseteq {s} /\ Settled(r)
    BY <1>2, <1>3, ReservedCases
  <2>3. CallerOK(r) /\ ~r.locked
    BY <1>2, <2>2, RoutingAssumption DEF CallerOK, Chosen, Leased, PC
  <2> QED
    BY <2>1, <2>2, <2>3, Unlocked DEF Kept
<1>4. CASE /\ c' = [c EXCEPT ![x].pc = "select", ![x].source = None,
                            ![x].todo = @ \ {s}]
           /\ UNCHANGED used
  <2> DEFINE r == [c[x] EXCEPT !.pc = "select", !.source = None,
                               !.todo = @ \ {s}]
  <2>1. c' = [c EXCEPT ![x] = r]
    BY <1>4 DEF CallersOK
  <2>2. r \in Caller
    BY <1>1 DEF Caller, PC
  <2>3. CallerOK(r) /\ ~r.locked
    BY <1>1, <1>2, RoutingAssumption
       DEF CallerOK, Caller, Chosen, Leased, PC, Settled
  <2>4. SourcesOK'
    BY <1>4, SourcesStay DEF Reserve
  <2> HIDE DEF r
  <2> QED
    BY <2>1, <2>2, <2>3, <2>4, Unlocked DEF Kept
<1> QED
  BY <1>3, <1>4 DEF Reserve

LEMMA ExhaustedKeeps ==
    ASSUME SourcesOK, CallersOK, NEW x \in Callers, Exhausted(x)
    PROVE  Kept
<1>1. c[x] \in Caller /\ CallerOK(c[x]) /\ c[x].pc = "select"
  BY OfCaller DEF Exhausted, At
<1>2. SourcesOK'
  BY SourcesStay DEF Exhausted
<1>3. CASE c' = [c EXCEPT ![x] = idle]
  BY <1>2, <1>3, Returns DEF Kept
<1>4. ASSUME NEW s \in c[x].recover,
             c' = [c EXCEPT ![x].pc = "authorize", ![x].source = s,
                            ![x].choice = FALSE, ![x].deferred = TRUE,
                            ![x].recover = @ \ {s}]
      PROVE  Kept
  <2> DEFINE r == [c[x] EXCEPT !.pc = "authorize", !.source = s,
                               !.choice = FALSE, !.deferred = TRUE,
                               !.recover = @ \ {s}]
  <2>1. c' = [c EXCEPT ![x] = r]
    BY <1>4 DEF CallersOK
  <2>2. s \in Sources
    BY <1>1, Fields
  <2>3. r \in Caller
    BY <1>1, <2>2 DEF Caller, PC
  <2>4. CallerOK(r) /\ ~r.locked
    BY <1>1, <2>2, RoutingAssumption
       DEF CallerOK, Caller, Chosen, Leased, PC, Settled
  <2> HIDE DEF r
  <2> QED
    BY <1>2, <2>1, <2>3, <2>4, Unlocked DEF Kept
<1> QED
  BY <1>3, <1>4 DEF Exhausted

LEMMA AuthorizeKeeps ==
    ASSUME SourcesOK, CallersOK, NEW x \in Callers, Authorize(x)
    PROVE  Kept
<1> DEFINE on == [c[x] EXCEPT !.pc = "connect"]
           only == [c[x] EXCEPT !.pc = "connect", !.choice = FALSE,
                                !.todo = {}, !.recover = {}]
<1>1. c[x] \in Caller /\ CallerOK(c[x]) /\ c[x].pc = "authorize"
  BY OfCaller DEF Authorize, At
<1>2. c \in [Callers -> Caller]
  BY DEF CallersOK
<1>3. SourcesOK'
  BY SourcesStay DEF Authorize
<1>4. CASE c' = [c EXCEPT ![x] = idle]
  BY <1>3, <1>4, Returns DEF Kept
<1>5. CASE c[x].deferred /\ c' = [c EXCEPT ![x].pc = "connect"]
  <2>1. c' = [c EXCEPT ![x] = on]
    BY <1>2, <1>5
  <2>2. on \in Caller /\ CallerOK(on) /\ ~on.locked
    BY <1>1, <1>5 DEF CallerOK, Caller, Chosen, Leased, PC, Settled
  <2> HIDE DEF on
  <2> QED
    BY <1>3, <2>1, <2>2, Unlocked DEF Kept
<1>6. CASE /\ ~c[x].deferred
           /\ c' = [c EXCEPT ![x].pc = "connect", ![x].choice = FALSE,
                             ![x].todo = {}, ![x].recover = {}]
  <2>1. c' = [c EXCEPT ![x] = only]
    BY <1>2, <1>6
  <2>2. only \in Caller /\ CallerOK(only) /\ ~only.locked
    BY <1>1, <1>6 DEF CallerOK, Caller, Chosen, Leased, PC, Settled
  <2> HIDE DEF only
  <2> QED
    BY <1>3, <2>1, <2>2, Unlocked DEF Kept
<1> QED
  BY <1>4, <1>5, <1>6 DEF Authorize

LEMMA DispatchKeeps ==
    ASSUME SourcesOK, CallersOK, NEW x \in Callers,
           c[x].pc \in {"connect", "again"}, Dispatch(x)
    PROVE  Kept
<1> DEFINE next == IF c[x].deferred THEN "lock" ELSE "call"
           r == [c[x] EXCEPT !.session = "open", !.pc = next]
<1>1. c[x] \in Caller /\ CallerOK(c[x])
  BY OfCaller
<1>2. c' = [c EXCEPT ![x] = r]
  BY DEF Dispatch, CallersOK
<1>3. r \in Caller
  BY <1>1 DEF Caller, PC
<1>5. CallerOK(r) /\ ~r.locked
  <2>1. CASE c[x].deferred
    BY <1>1, <2>1 DEF CallerOK, Caller, Chosen, Leased, PC, Settled
  <2>2. CASE ~c[x].deferred
    BY <1>1, <2>2 DEF CallerOK, Caller, Chosen, Leased, PC, Settled
  <2> QED
    BY <2>1, <2>2
<1>6. SourcesOK'
  BY SourcesStay DEF Dispatch
<1> HIDE DEF r
<1> QED
  BY <1>2, <1>3, <1>5, <1>6, Unlocked DEF Kept

(* A call that was not sent: whichever way it goes on, it has paid nobody.  *)
LEMMA UnsentKeeps ==
    ASSUME SourcesOK, CallersOK, NEW x \in Callers,
           c[x].pc \in {"await", "again", "lock", "reserveHeld"}, Unsent(x)
    PROVE  Kept
<1>1. c[x] \in Caller /\ CallerOK(c[x])
  BY OfCaller
<1>2. c[x].source \in Sources
  BY <1>1 DEF CallerOK, Chosen, PC
<1>3. SourcesOK'
  <2>1. CASE c[x].deferred
    BY <2>1, SourcesStay DEF Unsent
  <2>2. CASE ~c[x].deferred
    <3>1. link' \in [Sources -> Links]
      BY DEF Unsent, SourcesOK
    <3> QED
      BY <1>2, <2>2, <3>1, Recorded DEF Unsent
  <2> QED
    BY <2>1, <2>2
<1>4. CASE c' = [c EXCEPT ![x] = idle]
  BY <1>3, <1>4, Returns DEF Kept
<1>5. ASSUME c[x].deferred, NEW s \in c[x].recover,
             c' = [c EXCEPT ![x].pc = "connect", ![x].source = s,
                            ![x].session = "none", ![x].locked = FALSE,
                            ![x].recover = @ \ {s}]
      PROVE  Kept
  <2> DEFINE r == [c[x] EXCEPT !.pc = "connect", !.source = s,
                               !.session = "none", !.locked = FALSE,
                               !.recover = @ \ {s}]
  <2>1. c' = [c EXCEPT ![x] = r]
    BY <1>5 DEF CallersOK
  <2>2. s \in Sources
    BY <1>1, Fields
  <2>3. r \in Caller
    BY <1>1, <2>2 DEF Caller, PC
  <2>4. CallerOK(r) /\ ~r.locked
    BY <1>1, <1>5, <2>2, RoutingAssumption
       DEF CallerOK, Caller, Chosen, Leased, PC, Settled
  <2> HIDE DEF r
  <2> QED
    BY <1>3, <2>1, <2>3, <2>4, Unlocked DEF Kept
<1> QED
  BY <1>4, <1>5 DEF Unsent

(* Waiting changes nothing but where the caller is.                         *)
LEMMA WaitsKeeps ==
    ASSUME SourcesOK, CallersOK, NEW x \in Callers,
           NEW pc \in {"await", "again"}, c[x].pc \in {"connect", "await"},
           c' = [c EXCEPT ![x].pc = pc],
           UNCHANGED <<link, used, failures, cooling, allowed>>
    PROVE  Kept
<1> DEFINE r == [c[x] EXCEPT !.pc = pc]
<1>1. c[x] \in Caller /\ CallerOK(c[x])
  BY OfCaller
<1>2. c' = [c EXCEPT ![x] = r]
  BY DEF CallersOK
<1>3. r \in Caller
  BY <1>1 DEF Caller, PC
<1>4. CallerOK(r) /\ ~r.locked
  BY <1>1, RoutingAssumption DEF CallerOK, Caller, Chosen, Leased, PC, Settled
<1>5. SourcesOK'
  BY SourcesStay
<1> HIDE DEF r
<1> QED
  BY <1>2, <1>3, <1>4, <1>5, Unlocked DEF Kept

LEMMA LockKeeps ==
    ASSUME SourcesOK, CallersOK, NEW x \in Callers, Lock(x)
    PROVE  Kept
<1> DEFINE r == [c[x] EXCEPT !.pc = "reserveHeld", !.locked = TRUE]
<1>1. c[x] \in Caller /\ CallerOK(c[x]) /\ c[x].pc = "lock"
  BY OfCaller DEF Lock, At
<1>2. CASE Unsent(x)
  BY <1>1, <1>2, UnsentKeeps
<1>3. CASE /\ c[x].session = "closed" \/ Free(c[x].source)
           /\ c' = [c EXCEPT ![x].pc = "reserveHeld", ![x].locked = TRUE]
           /\ UNCHANGED <<link, used, failures, cooling, allowed>>
  <2>1. c' = [c EXCEPT ![x] = r]
    BY <1>3 DEF CallersOK
  <2>2. r \in Caller
    BY <1>1 DEF Caller, PC
  <2>3. CallerOK(r)
    BY <1>1 DEF CallerOK, Caller, Chosen, Leased, PC, Settled
  <2>4. r.session = c[x].session /\ r.source = c[x].source /\ ~c[x].locked
    BY <1>1 DEF CallerOK, Caller, Leased
  <2>5. SourcesOK'
    BY <1>3, SourcesStay
  <2>6. \A s \in Sources \cup {None} : Lease(r, s) => Free(s)
    BY <1>3, <2>4 DEF Lease
  <2> HIDE DEF r
  <2>7. CallersOK' /\ LeasesKept
    BY <2>1, <2>2, <2>3, <2>4, <2>6, OneCaller
  <2> QED
    BY <2>5, <2>7 DEF Kept
<1> QED
  BY <1>2, <1>3 DEF Lock

LEMMA ReserveHeldKeeps ==
    ASSUME SourcesOK, CallersOK, NEW x \in Callers, ReserveHeld(x)
    PROVE  Kept
<1> DEFINE s == c[x].source
<1>1. c[x] \in Caller /\ CallerOK(c[x]) /\ c[x].pc = "reserveHeld"
  BY OfCaller DEF ReserveHeld, At
<1>2. s \in Sources /\ c[x].paid = {} /\ c[x].sent = 0
  BY <1>1 DEF CallerOK, PC, Chosen
<1>3. CASE Unsent(x)
  BY <1>1, <1>3, UnsentKeeps
<1>4. CASE /\ Reserved(x, s, "call")
           /\ UNCHANGED <<link, failures, cooling, allowed>>
  <2>1. SourcesOK'
    BY <1>2, <1>4, ReservedCases DEF SourcesOK
  <2>2. PICK r \in Caller :
          /\ c' = [c EXCEPT ![x] = r]
          /\ r.pc = "call" /\ r.source = s /\ r.session = c[x].session
          /\ r.locked = c[x].locked /\ r.sent = c[x].sent
          /\ r.paid \subseteq {s} /\ Settled(r)
    BY <1>2, <1>4, ReservedCases
  <2>3. CallerOK(r)
    BY <1>2, <2>2, RoutingAssumption DEF CallerOK, Chosen, Leased, PC
  <2>4. \A t \in Sources \cup {None} : Lease(r, t) => Lease(c[x], t)
    BY <2>2 DEF Lease
  <2>5. CallersOK' /\ LeasesKept
    BY <2>2, <2>3, <2>4, OneCaller
  <2> QED
    BY <2>1, <2>5 DEF Kept
<1> QED
  BY <1>3, <1>4 DEF ReserveHeld

LEMMA CallKeeps ==
    ASSUME SourcesOK, CallersOK, NEW x \in Callers, Call(x)
    PROVE  Kept
<1> DEFINE r == [c[x] EXCEPT !.pc = "answer", !.sent = 1]
<1>1. c[x] \in Caller /\ CallerOK(c[x]) /\ c[x].pc = "call"
  BY OfCaller DEF Call, At
<1>2. c[x].source \in Sources
  BY <1>1 DEF CallerOK, Chosen, PC
<1>3. link' \in [Sources -> Links]
  BY DEF Call, SourcesOK
<1>4. SourcesOK'
  BY <1>2, <1>3, Recorded DEF Call
<1>5. CASE c' = [c EXCEPT ![x] = idle]
  BY <1>4, <1>5, Returns DEF Kept
<1>6. CASE c' = [c EXCEPT ![x].pc = "answer", ![x].sent = @ + 1]
  <2>1. c[x].sent = 0
    BY <1>1 DEF CallerOK
  <2>2. c' = [c EXCEPT ![x] = r]
    <3>1. c[x].sent + 1 = 1
      BY <2>1
    <3> QED
      BY <1>6, <3>1 DEF CallersOK
  <2>3. r \in Caller
    <3>1. 1 \in 0..2 /\ "answer" \in PC
      BY DEF PC
    <3> QED
      BY <1>1, <3>1, Zenon DEF Caller
  <2>4. CallerOK(r)
    BY <1>1, <2>1 DEF CallerOK, Caller, Chosen, Leased, PC, Settled
  <2>5. /\ r.session = c[x].session /\ r.source = c[x].source
        /\ r.locked = c[x].locked
    BY <1>1 DEF Caller
  <2> HIDE DEF r
  <2>6. \A t \in Sources \cup {None} : Lease(r, t) => Lease(c[x], t)
    BY <2>5 DEF Lease
  <2>7. CallersOK' /\ LeasesKept
    BY <2>2, <2>3, <2>4, <2>5, <2>6, OneCaller
  <2> QED
    BY <1>4, <2>7 DEF Kept
<1> QED
  BY <1>5, <1>6 DEF Call

LEMMA AnswerKeeps ==
    ASSUME SourcesOK, CallersOK, NEW x \in Callers, Answer(x)
    PROVE  Kept
<1>1. CallerOK(c[x]) /\ c[x].pc = "answer"
  BY OfCaller DEF Answer, At
<1>2. c[x].source \in Sources
  BY <1>1 DEF CallerOK, Chosen, PC
<1>3. link' \in [Sources -> Links]
  BY DEF Answer, SourcesOK
<1>4. SourcesOK'
  BY <1>2, <1>3, Recorded DEF Answer
<1> QED
  BY <1>4, Returns DEF Answer, Kept

----------------------------------------------------------------------------
(* A session goes: those who hold it learn it, and none of them had a lease *)
(* of it, but a caller that returns.                                        *)
LEMMA SessionGoes ==
    ASSUME CallersOK, NEW session \in {"broken", "closed"},
           c' = [y \in Callers |-> c'[y]],
           \A y \in Callers :
             \/ c'[y] = idle
             \/ c'[y] = c[y]
             \/ /\ c'[y] = [c[y] EXCEPT !.session = session]
                /\ ~c[y].locked
    PROVE  CallersOK' /\ LeasesKept
<1>1. \A y \in Callers :
        /\ c'[y] \in Caller /\ CallerOK(c'[y])
        /\ c'[y].locked => c'[y] = c[y]
  <2> SUFFICES ASSUME NEW y \in Callers
               PROVE  /\ c'[y] \in Caller /\ CallerOK(c'[y])
                      /\ c'[y].locked => c'[y] = c[y]
    OBVIOUS
  <2>1. c[y] \in Caller /\ CallerOK(c[y])
    BY OfCaller
  <2>2. CASE c'[y] = idle
    BY <2>2, IdleCaller DEF idle
  <2>3. CASE c'[y] = c[y]
    BY <2>1, <2>3
  <2>4. CASE c'[y] = [c[y] EXCEPT !.session = session] /\ ~c[y].locked
    <3> DEFINE r == [c[y] EXCEPT !.session = session]
    <3>1. r \in Caller /\ ~r.locked
      BY <2>1, <2>4 DEF Caller
    <3>2. CallerOK(r)
      BY <2>1 DEF CallerOK, Caller, Settled
    <3> QED
      BY <2>4, <3>1, <3>2
  <2> QED
    BY <2>2, <2>3, <2>4
<1>2. c' \in [Callers -> Caller]
  BY <1>1
<1>3. OneLease'
  BY <1>1 DEF OneLease, CallersOK
<1>4. LeasesKept
  BY <1>1 DEF LeasesKept
<1> QED
  BY <1>1, <1>2, <1>3, <1>4 DEF CallersOK

LEMMA FindLostKeeps ==
    ASSUME SourcesOK, CallersOK, NEW x \in Callers, FindLost(x)
    PROVE  Kept
<1> DEFINE s == c[x].source
<1>1. CallerOK(c[x]) /\ c[x].pc = "answer" /\ c[x].session = "open"
  BY OfCaller DEF FindLost, At
<1>2. s \in Sources
  BY <1>1 DEF CallerOK, Chosen, PC
<1>3. link' \in [Sources -> Links]
  BY DEF FindLost, SourcesOK, Links
<1>4. SourcesOK'
  BY <1>2, <1>3, Recorded DEF FindLost
<1>5. \A y \in Callers : y # x /\ Holds(y, s, "open") => ~c[y].locked
  BY <1>1 DEF FindLost, Free, Holds, CallersOK, OneLease
<1>6. c' = [y \in Callers |->
              CASE y = x -> idle
                [] y # x /\ Holds(y, s, "open") -> [c[y] EXCEPT !.session = "broken"]
                [] OTHER -> c[y]]
  BY DEF FindLost
<1>7. \A y \in Callers :
        \/ c'[y] = idle
        \/ c'[y] = c[y]
        \/ c'[y] = [c[y] EXCEPT !.session = "broken"] /\ ~c[y].locked
  BY <1>5, <1>6
<1>8. c' = [y \in Callers |-> c'[y]]
  BY <1>6
<1> QED
  BY <1>4, <1>7, <1>8, SessionGoes DEF Kept

LEMMA LoopKeeps ==
    ASSUME SourcesOK, CallersOK, NEW s \in Sources, Loop(s)
    PROVE  Kept
<1>1. link' \in [Sources -> Links]
  BY DEF Loop, Gone, Links, SourcesOK
<1>2. SourcesOK'
  BY <1>1 DEF Loop, SourcesOK, QuotaHeld
<1>3. CASE UNCHANGED c
  BY <1>2, <1>3 DEF Kept, CallersOK, OneLease, LeasesKept
<1>4. ASSUME NEW session \in {"broken", "closed"}, Free(s), Gone(s, session)
      PROVE  Kept
  <2>1. \A y \in Callers : Holds(y, s, "open") => ~c[y].locked
    BY <1>4 DEF Free
  <2>2. c' = [y \in Callers |-> IF Holds(y, s, "open")
                THEN [c[y] EXCEPT !.session = session] ELSE c[y]]
    BY <1>4 DEF Gone
  <2>3. \A y \in Callers :
          \/ c'[y] = idle
          \/ c'[y] = c[y]
          \/ c'[y] = [c[y] EXCEPT !.session = session] /\ ~c[y].locked
    BY <2>1, <2>2
  <2>4. c' = [y \in Callers |-> c'[y]]
    BY <2>2
  <2> QED
    BY <1>2, <2>3, <2>4, SessionGoes DEF Kept
<1> QED
  BY <1>3, <1>4 DEF Loop

(* Time and the administrator leave the callers alone.                      *)
LEMMA OthersKeep ==
    ASSUME SourcesOK, CallersOK,
           \/ \E s \in Sources : NewWindow(s) \/ CoolDown(s)
           \/ SetAccess
    PROVE  Kept
<1>1. UNCHANGED <<link, c>>
  BY DEF NewWindow, CoolDown, SetAccess
<1>2. CallersOK' /\ LeasesKept
  BY <1>1 DEF CallersOK, OneLease, LeasesKept
<1>3. ASSUME NEW s \in Sources, NewWindow(s)
      PROVE  Kept
  <2>1. /\ used' \in [Sources -> Nat]
        /\ \A t \in Sources : used'[t] = IF t = s THEN 0 ELSE used[t]
    BY <1>3 DEF NewWindow, SourcesOK
  <2>2. QuotaHeld'
    BY <2>1, RoutingAssumption DEF QuotaHeld, SourcesOK
  <2> QED
    BY <1>1, <1>2, <1>3, <2>1, <2>2 DEF Kept, NewWindow, SourcesOK
<1>4. ASSUME NEW s \in Sources, CoolDown(s)
      PROVE  Kept
  BY <1>2, <1>4, RoutingAssumption DEF Kept, CoolDown, SourcesOK, QuotaHeld
<1>5. CASE SetAccess
  BY <1>2, <1>5, RoutingAssumption DEF Kept, SetAccess, SourcesOK, QuotaHeld
<1> QED
  BY <1>3, <1>4, <1>5

----------------------------------------------------------------------------
LEMMA StepKeeps ==
    ASSUME SourcesOK, CallersOK, NEW x \in Callers, Step(x)
    PROVE  Kept
<1>1. ASSUME NEW s \in Sources, Look(x, s) PROVE Kept
  BY <1>1, LookKeeps
<1>2. CASE Reserve(x)
  BY <1>2, ReserveKeeps
<1>3. CASE Exhausted(x)
  BY <1>3, ExhaustedKeeps
<1>4. CASE Authorize(x)
  BY <1>4, AuthorizeKeeps
<1>5. CASE Connect(x)
  <2>1. c[x].pc = "connect"
    BY <1>5 DEF Connect, At
  <2>2. CASE Dispatch(x)
    BY <2>1, <2>2, DispatchKeeps
  <2>3. CASE /\ c' = [c EXCEPT ![x].pc = "await"]
             /\ UNCHANGED <<link, used, failures, cooling, allowed>>
    BY <2>1, <2>3, WaitsKeeps
  <2> QED
    BY <1>5, <2>2, <2>3 DEF Connect
<1>6. CASE Await(x)
  BY <1>6, WaitsKeeps DEF Await, At
<1>7. CASE GiveUp(x)
  BY <1>7, UnsentKeeps DEF GiveUp, At
<1>8. CASE Again(x)
  <2>1. c[x].pc = "again"
    BY <1>8 DEF Again, At
  <2> QED
    BY <1>8, <2>1, DispatchKeeps, UnsentKeeps DEF Again
<1>9. CASE Lock(x)
  BY <1>9, LockKeeps
<1>10. CASE ReserveHeld(x)
  BY <1>10, ReserveHeldKeeps
<1>11. CASE Call(x)
  BY <1>11, CallKeeps
<1>12. CASE Answer(x)
  BY <1>12, AnswerKeeps
<1>13. CASE FindLost(x)
  BY <1>13, FindLostKeeps
<1> QED
  BY <1>1, <1>2, <1>3, <1>4, <1>5, <1>6, <1>7, <1>8, <1>9, <1>10, <1>11,
     <1>12, <1>13 DEF Step

LEMMA NextKeeps ==
    ASSUME SourcesOK, CallersOK, Next
    PROVE  Kept
<1>1. ASSUME NEW x \in Callers, Begin(x) PROVE Kept
  BY <1>1, BeginKeeps
<1>2. ASSUME NEW x \in Callers, Step(x) PROVE Kept
  BY <1>2, StepKeeps
<1>3. ASSUME NEW s \in Sources, Loop(s) PROVE Kept
  BY <1>3, LoopKeeps
<1>4. CASE \/ \E s \in Sources : NewWindow(s) \/ CoolDown(s)
           \/ SetAccess
  BY <1>4, OthersKeep
<1> QED
  BY <1>1, <1>2, <1>3, <1>4 DEF Next

LEMMA InitOK == Init => SourcesOK /\ CallersOK
<1> SUFFICES ASSUME Init PROVE SourcesOK /\ CallersOK
  OBVIOUS
<1>1. SourcesOK
  BY RoutingAssumption DEF Init, SourcesOK, Links, QuotaHeld
<1>2. \A x \in Callers : c[x] = idle
  BY DEF Init
<1>3. c \in [Callers -> Caller]
  BY IdleCaller DEF Init
<1>4. ~idle.locked
  BY DEF idle
<1> QED
  BY <1>1, <1>2, <1>3, <1>4, IdleCaller DEF CallersOK, OneLease

(* The inductive invariant, which the properties follow from.               *)
RoutingInv == SourcesOK /\ CallersOK

LEMMA Invariance == Spec => []RoutingInv
<1>1. RoutingInv /\ [Next]_vars => RoutingInv'
  <2> SUFFICES ASSUME SourcesOK, CallersOK, [Next]_vars
               PROVE  SourcesOK' /\ CallersOK'
    BY DEF RoutingInv
  <2>1. CASE Next
    BY <2>1, NextKeeps DEF Kept
  <2>2. CASE UNCHANGED vars
    BY <2>2 DEF vars, SourcesOK, CallersOK, OneLease, QuotaHeld
  <2> QED
    BY <2>1, <2>2
<1>2. Init => RoutingInv
  BY InitOK DEF RoutingInv
<1> QED
  BY <1>1, <1>2, PTL DEF Spec

----------------------------------------------------------------------------
(* TypeOK holds: the state of callers and sources is well formed, however   *)
(* calls, sessions and windows interleave.                                  *)
THEOREM TypeCorrect == Spec => []TypeOK
<1>1. RoutingInv => TypeOK
  BY DEF RoutingInv, SourcesOK, CallersOK, TypeOK
<1> QED
  BY <1>1, Invariance, PTL

(* A call is handed to a session at most once, however many fallbacks it    *)
(* tries (callUpstream and CallToolWithPreDispatch).                        *)
THEOREM CallsAreSentOnce == Spec => []SentOnce
<1>1. RoutingInv => SentOnce
  BY DEF RoutingInv, CallersOK, CallerOK, SentOnce
<1> QED
  BY <1>1, Invariance, PTL

(* A call holds no reservation but of the source it is at, and is sent      *)
(* nowhere it has not paid, unless the reservation script failed.           *)
THEOREM CallsPayOnce == Spec => []PaidOnce
<1>1. RoutingInv => PaidOnce
  <2> SUFFICES ASSUME CallersOK, NEW x \in Callers
               PROVE  /\ c[x].paid \subseteq {c[x].source}
                      /\ c[x].sent > 0 /\ ~c[x].waived /\ Limit[c[x].source] > 0
                           => c[x].paid = {c[x].source}
    BY DEF RoutingInv, PaidOnce
  <2>1. c[x] \in Caller /\ CallerOK(c[x])
    BY OfCaller
  <2>2. c[x].sent > 0 => c[x].pc = "answer"
    BY <2>1 DEF CallerOK
  <2> QED
    BY <2>1, <2>2 DEF CallerOK, Settled, Chosen, PC
<1> QED
  BY <1>1, Invariance, PTL

(* However many callers reserve at once, no window admits more than the     *)
(* limit of its source.                                                     *)
THEOREM QuotasHold == Spec => []QuotaHeld
<1>1. RoutingInv => QuotaHeld
  BY DEF RoutingInv, SourcesOK
<1> QED
  BY <1>1, Invariance, PTL

(* A caller with the callMu of a live session keeps it alive: neither the   *)
(* connection loop nor another call closes or breaks it.                    *)
THEOREM LeasesHold == Spec => LeaseHolds
<1>1. RoutingInv /\ [Next]_vars => [LeasesKept]_vars
  <2> SUFFICES ASSUME SourcesOK, CallersOK, Next
               PROVE  LeasesKept
    BY DEF RoutingInv
  <2> QED
    BY NextKeeps DEF Kept
<1> QED
  BY <1>1, Invariance, PTL DEF Spec, LeaseHolds, LeasesKept
=============================================================================
