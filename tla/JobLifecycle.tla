---------------------------- MODULE JobLifecycle ----------------------------
(***************************************************************************)
(* What the durable job kernel promises its callers, without attempts,     *)
(* lease times, progress or an audit trail.  A job is opened once, is held *)
(* by at most one worker at a time, and is settled at most once, by the    *)
(* worker that holds it; when a cancellation was asked for before that,    *)
(* the only way it can be settled is "cancelled".  Holders that vanish are *)
(* reaped, several at a time.                                              *)
(***************************************************************************)
CONSTANTS Jobs, Workers, NoWorker

VARIABLES holder,   \* the worker that holds the job, or NoWorker
          asked,    \* the jobs whose cancellation was accepted
          outcome   \* "absent", "open", or how the job was settled

vars == <<holder, asked, outcome>>

Outcomes == {"absent", "open", "completed", "failed", "cancelled"}

LifecycleTypeOK ==
    /\ holder \in [Jobs -> Workers \cup {NoWorker}]
    /\ asked \in SUBSET Jobs
    /\ outcome \in [Jobs -> Outcomes]

Init ==
    /\ holder = [j \in Jobs |-> NoWorker]
    /\ asked = {}
    /\ outcome = [j \in Jobs |-> "absent"]

Open(j) ==
    /\ outcome[j] = "absent"
    /\ outcome' = [outcome EXCEPT ![j] = "open"]
    /\ UNCHANGED <<holder, asked>>

Grant(j, w) ==
    /\ outcome[j] = "open"
    /\ holder[j] = NoWorker
    /\ j \notin asked
    /\ holder' = [holder EXCEPT ![j] = w]
    /\ UNCHANGED <<asked, outcome>>

\* A held job is only asked to stop; one that nobody holds is settled at once.
Ask(j) ==
    /\ outcome[j] = "open"
    /\ j \notin asked
    /\ asked' = asked \cup {j}
    /\ outcome' = [outcome EXCEPT ![j] =
                      IF holder[j] = NoWorker THEN "cancelled" ELSE "open"]
    /\ UNCHANGED holder

Settle(j, w, o) ==
    /\ outcome[j] = "open"
    /\ holder[j] = w
    /\ o \in {"completed", "failed", "cancelled"}
    /\ j \in asked <=> o = "cancelled"
    /\ outcome' = [outcome EXCEPT ![j] = o]
    /\ holder' = [holder EXCEPT ![j] = NoWorker]
    /\ UNCHANGED asked

\* The holders of the jobs in S are gone: what was asked to stop is cancelled,
\* the rest can be granted again.
Reap(S) ==
    /\ \A j \in S : outcome[j] = "open" /\ holder[j] # NoWorker
    /\ holder' = [j \in Jobs |-> IF j \in S THEN NoWorker ELSE holder[j]]
    /\ outcome' = [j \in Jobs |-> IF j \in S \cap asked THEN "cancelled"
                                                        ELSE outcome[j]]
    /\ UNCHANGED asked

Next ==
    \/ \E j \in Jobs : Open(j) \/ Ask(j)
    \/ \E j \in Jobs, w \in Workers : Grant(j, w)
    \/ \E j \in Jobs, w \in Workers, o \in Outcomes : Settle(j, w, o)
    \/ \E S \in SUBSET Jobs : Reap(S)

Spec == Init /\ [][Next]_vars
=============================================================================
