----------------------------- MODULE MCModelPacks -----------------------------
(* Instances of the model pack service for TLC: an old pack and a new one. *)
EXTENDS ModelPacks, TLC

CONSTANTS j1, p1, p2, a1, a2

MCSeqOf == [p \in Packs |-> IF p = p1 THEN 1 ELSE 2]
Symmetric == Permutations(Apps)
=============================================================================
