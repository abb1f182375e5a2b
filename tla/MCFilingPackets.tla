-------------------------- MODULE MCFilingPackets --------------------------
(* Instances of review and filing packets for TLC. *)
EXTENDS FilingPackets, TLC

CONSTANTS t1, t2, g1, g2

Symmetric == Permutations(Threads) \cup Permutations(Generations)
=============================================================================
