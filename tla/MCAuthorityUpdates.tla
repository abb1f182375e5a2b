------------------------- MODULE MCAuthorityUpdates -------------------------
(* Bundles of rising sequence, two of them of the same, for TLC. *)
EXTENDS AuthorityUpdates, TLC

MCSequenceOf == [b \in Bundles |-> CASE b = "b1" -> 1 [] b = "b2" -> 2 [] OTHER -> 2]
=============================================================================
