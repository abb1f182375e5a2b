---------------------------- MODULE MCJobKernel ----------------------------
(* Instances of the job kernel for TLC: one or two jobs, two workers. *)
EXTENDS JobKernel, TLC

CONSTANTS w1, w2

Symmetric == Permutations(Workers)
=============================================================================
