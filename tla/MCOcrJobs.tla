----------------------------- MODULE MCOcrJobs -----------------------------
(* Instances of local OCR for TLC: one matter, two or three threads. *)
EXTENDS OcrJobs, TLC

CONSTANTS w1, w2, w3

Symmetric == Permutations(Workers)
=============================================================================
