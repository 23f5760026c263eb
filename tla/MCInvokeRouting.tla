-------------------------- MODULE MCInvokeRouting --------------------------
(* Instances of InvokeRouting for TLC: one limited source of two.           *)
EXTENDS InvokeRouting, TLC

CONSTANTS s1, s2
OneLimited == s1 :> 1 @@ s2 :> 0
Symmetry == Permutations(Callers)

============================================================================
