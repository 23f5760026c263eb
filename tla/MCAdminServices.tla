--------------------------- MODULE MCAdminServices ---------------------------
(* The values TLC gives to the constants of AdminServices *)
EXTENDS AdminServices, TLC

Both == {"first", "second"}    \* two requests, administrators or calls

(* A constant built of records and functions, in TLC's normal form *)
Normal(value) == IF value = value THEN value ELSE value

Ratings == Normal({[name |-> <<"read">>, says |-> {}], [name |-> <<"delete">>, says |-> {}]})

MCItems == <<"a", "b", "c">>
Sayings == UNION {[1..n -> {"a", "b", "c"}] : n \in 0..2}
MCReplies == Normal({[kind |-> "text", says |-> s] : s \in Sayings}
                    \cup {[kind |-> "http", status |-> s] : s \in {401, 429}}
                    \cup {[kind |-> "timeout"], [kind |-> "unreadable"]})

MCFailures == {<<"ip", "key">>}

Settings == Normal({<<>>, "demand_reconnect_wait_s" :> 0,
                    ("first_block_duration_s" :> 80000) @@ ("max_block_duration_s" :> 70000)})
MCForeign == Normal([admin |-> "other", secret |-> 9, settings |-> "first_block_duration_s" :> 60])

MCInit == Init /\ Normal(allVars) = allVars
MCSpec == MCInit /\ [][Next]_allVars
=============================================================================
