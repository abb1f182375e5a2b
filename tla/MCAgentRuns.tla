----------------------------- MODULE MCAgentRuns -----------------------------
(* Instances of local agent runs for TLC: runs that want the same release. *)
EXTENDS AgentRuns, TLC

CONSTANTS r1, r2, x1

MCRelOf == [r \in Requests |-> x1]
=============================================================================
