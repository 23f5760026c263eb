-------------------------- MODULE MCConnLifecycle --------------------------
(* Symmetry for the safety runs of ConnLifecycle: admins, waiters and slots *)
(* are only compared for equality, except CHOOSE over Versions.             *)
EXTENDS ConnLifecycle, TLC

Symmetry ==
    Permutations(Admins) \cup Permutations(Conns) \cup Permutations(Loops)

(* States are told apart by what some step or property of the run reads.    *)
(* The fields of an object nothing refers to, and of a loop that has ended, *)
(* are overwritten before they are read again. Without waiters, and with a  *)
(* threshold of one, nothing depends on how often a dial has failed, when   *)
(* it is retried or whether a wake is pending: a backoff may end anyway.    *)
Followed(c) == [cfg |-> c.cfg, state |-> c.state, loop |-> c.loop]

View ==
    <<row, conns,
      [o \in Conns |-> Followed(IF Unreferenced(o) THEN newConnection ELSE obj[o])],
      [l \in Loops |-> IF Live(l) THEN loop[l] ELSE idleLoop],
      admin, waiter, base, booted>>
============================================================================
