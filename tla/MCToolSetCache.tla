--------------------------- MODULE MCToolSetCache ---------------------------
(* Instances of ToolSetCache for TLC.  No action and no property tells      *)
(* requests, writers or API keys apart.                                     *)
EXTENDS ToolSetCache, TLC

Symmetry ==
    Permutations(Requests) \cup Permutations(Writers) \cup Permutations(Keys)

============================================================================
