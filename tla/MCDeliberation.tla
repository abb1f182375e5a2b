--------------------------- MODULE MCDeliberation ---------------------------
(* The instance of the deliberation host for TLC. *)
EXTENDS Deliberation, TLC
=============================================================================
