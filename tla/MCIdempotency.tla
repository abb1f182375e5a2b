--------------------------- MODULE MCIdempotency ---------------------------
(* Instances of the idempotency registry for TLC. *)
EXTENDS Idempotency, TLC

CONSTANTS r1, r2, r3, k1, k2, h1, h2

Symmetric == Permutations(Requests) \cup Permutations(Keys) \cup Permutations(Hashes)
=============================================================================
