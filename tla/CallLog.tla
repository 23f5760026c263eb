------------------------------ MODULE CallLog ------------------------------
(***************************************************************************)
(* What the statistics of calls promise: every call is counted at most once *)
(* and only after it was made; counting may fail, and old counts may be     *)
(* deleted, but no call stays undecided.  Recording implements this.        *)
(***************************************************************************)
EXTENDS Naturals

CONSTANT Records

VARIABLES
    stage,  \* "new", "offered" or "settled"
    counts  \* how often each call is in the counts

Init ==
    /\ stage = [r \in Records |-> "new"]
    /\ counts = [r \in Records |-> 0]

Offer(r) ==
    /\ stage[r] = "new"
    /\ stage' = [stage EXCEPT ![r] = "offered"]
    /\ counts' = counts

(* Some calls are decided: those in C are counted, the others are lost.      *)
Settle(S, C) ==
    /\ S # {} /\ C \subseteq S
    /\ \A r \in S : stage[r] = "offered"
    /\ stage' = [r \in Records |-> IF r \in S THEN "settled" ELSE stage[r]]
    /\ counts' = [r \in Records |-> IF r \in C THEN counts[r] + 1 ELSE counts[r]]

Forget(S) ==
    /\ S # {} /\ \A r \in S : stage[r] = "settled"
    /\ counts' = [r \in Records |-> IF r \in S THEN 0 ELSE counts[r]]
    /\ stage' = stage

Next ==
    \/ \E r \in Records : Offer(r)
    \/ \E S \in SUBSET Records : \E C \in SUBSET S : Settle(S, C)
    \/ \E S \in SUBSET Records : Forget(S)

Spec == Init /\ [][Next]_<<stage, counts>>

(* No call stays undecided.                                                  *)
Decided == \A r \in Records : (stage[r] = "offered") ~> (stage[r] = "settled")

LiveSpec == Spec /\ Decided
============================================================================
