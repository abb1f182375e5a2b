------------------------------ MODULE MCHotSwap ------------------------------
(* Instances of the hot swap worker for TLC: two requests for two releases. *)
EXTENDS HotSwap, TLC

CONSTANTS r1, r2, c1, c2, x1, x2

MCRelOf == [r \in Requests |-> IF r = r1 THEN x1 ELSE x2]
Symmetric == Permutations(Calls)
=============================================================================
