-------------------------- MODULE MCBatchScheduler --------------------------
(* Instances of the batch scheduler for TLC: items of two signatures. *)
EXTENDS BatchScheduler, TLC

MCSigOf == [i \in Items |-> IF i \in {"i1", "i2"} THEN 1 ELSE 2]
MCKeys == Batches \X Sigs
=============================================================================
