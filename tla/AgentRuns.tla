------------------------------ MODULE AgentRuns ------------------------------
(***************************************************************************)
(* Local agent runs: the store of single-use runs                          *)
(* (local_agent_run_service.py), the run and cancel routes of api.py, and  *)
(* the client that speaks to the worker (FastInterchangeLocalClient,       *)
(* providers.py), on top of the hot swap worker.                           *)
(*                                                                         *)
(* The run route and the cancel route are threads of the host.  They meet  *)
(* in the store's row (under its lock), in the client's cancel event, and  *)
(* in the client's prepared flag, which tells the cancel route whether the *)
(* worker knows the request: the run route sets the flag and then looks at *)
(* the event, the cancel route sets the event and then looks at the flag.  *)
(* Control calls time out, their effect on the worker notwithstanding.     *)
(*                                                                         *)
(* A run has a client of its own with a fresh request id, so a run, its    *)
(* request and its completion call are one name.                           *)
(***************************************************************************)
EXTENDS HotSwap

ASSUME OneCallPerRun == Calls = Requests

VARIABLES runs,    \* the store's rows, and where the route of each run is
          client,  \* the client of each run
          cancels  \* the cancel route of each run

agentVars == <<swapVars, runs, client, cancels>>
hostVars == <<runs, client, cancels>>

\* Where the run route is: "gone" when the host died.
InRoute == {"gate", "prepare", "prepared", "recheck", "abort", "post", "wait", "after",
            "succeed", "fail"}
RouteEnds == {"delivered", "withheld", "failed", "gone"}

Run == [state : {"absent", "preview", "running", "canceling", "canceled", "completed", "failed"},
        pc : {"none"} \cup InRoute \cup RouteEnds]
Client == [cancel : BOOLEAN, prepared : BOOLEAN]

\* Where the cancel route is, and what it made of the row.
CancelRoute == [pc : {"none", "event", "look", "tell", "answered", "error"},
                made : {"nothing", "canceled", "canceling"}]

AgentInit ==
    /\ SwapInit
    /\ runs = [r \in Requests |-> [state |-> "absent", pc |-> "none"]]
    /\ client = [r \in Requests |-> [cancel |-> FALSE, prepared |-> FALSE]]
    /\ cancels = [r \in Requests |-> [pc |-> "none", made |-> "nothing"]]

-----------------------------------------------------------------------------
(* The run route. *)

In(r, pc) == runs[r].pc = pc
Step(r, pc) == runs' = [runs EXCEPT ![r].pc = pc]

\* The preview route registers the run that is to be approved.
Register(r) ==
    /\ runs[r] = [state |-> "absent", pc |-> "none"]
    /\ runs' = [runs EXCEPT ![r].state = "preview"]
    /\ UNCHANGED <<swapVars, client, cancels>>

\* claim: an approved run is used once, and not when it was cancelled.
Claim(r) ==
    /\ runs[r] = [state |-> "preview", pc |-> "none"]
    /\ runs' = [runs EXCEPT ![r] = [state |-> "running", pc |-> "gate"]]
    /\ UNCHANGED <<swapVars, client, cancels>>

\* generate_response, until the worker is asked.
Gate(r) ==
    /\ In(r, "gate")
    /\ Step(r, "fail") \/ (~client[r].cancel /\ Step(r, "prepare"))
    /\ UNCHANGED <<swapVars, client, cancels>>

\* The reservation is made, refused, or made and its answer lost.
Reserve(r) ==
    /\ In(r, "prepare")
    /\ \/ Prepare(r) /\ (Step(r, "prepared") \/ Step(r, "fail"))
       \/ PrepareRefused(r) /\ Step(r, "fail")
       \/ Step(r, "fail") /\ UNCHANGED swapVars
    /\ UNCHANGED <<client, cancels>>

\* Deviation: the flag is set when the completion is sent.
PreparedLate(r) ==
    In(r, "prepared") /\ Step(r, "recheck") /\ UNCHANGED <<swapVars, client, cancels>>

Prepared(r) ==
    /\ In(r, "prepared")
    /\ client' = [client EXCEPT ![r].prepared = TRUE]
    /\ Step(r, "recheck")
    /\ UNCHANGED <<swapVars, cancels>>

Recheck(r) ==
    /\ In(r, "recheck")
    /\ Step(r, IF client[r].cancel THEN "abort" ELSE "post")
    /\ UNCHANGED <<swapVars, client, cancels>>

\* The worker is told to cancel; whatever it answers, the run has failed.
TellWorker(r) == Cancel(r) \/ UNCHANGED swapVars
Abort(r) ==
    /\ In(r, "abort")
    /\ TellWorker(r)
    /\ Step(r, "fail")
    /\ UNCHANGED <<client, cancels>>

Post(r) ==
    /\ In(r, "post")
    /\ \/ Send(r, r) /\ Step(r, "wait")
       \/ Step(r, "fail") /\ UNCHANGED swapVars
    /\ UNCHANGED <<client, cancels>>

\* The answer of the worker, or the client's own timeout.
Wait(r) ==
    /\ In(r, "wait")
    /\ \/ At(r, "answered") /\ Step(r, "after")
       \/ Step(r, "fail")
    /\ UNCHANGED <<swapVars, client, cancels>>

After(r) ==
    /\ In(r, "after")
    /\ Step(r, "fail") \/ (~client[r].cancel /\ Step(r, "succeed"))
    /\ UNCHANGED <<swapVars, client, cancels>>

\* Deviation: a run that has its answer completes.
FinishBlind(r) ==
    /\ In(r, "succeed") \/ In(r, "fail")
    /\ runs' = [runs EXCEPT ![r] = IF In(r, "succeed")
                                   THEN [state |-> "completed", pc |-> "delivered"]
                                   ELSE [state |-> "failed", pc |-> "failed"]]
    /\ UNCHANGED <<swapVars, client, cancels>>

\* finish: a cancellation that came first withholds the answer.
Finish(r) ==
    /\ In(r, "succeed") \/ In(r, "fail")
    /\ runs' = [runs EXCEPT ![r] =
                  IF runs[r].state \in {"canceling", "canceled"}
                  THEN [state |-> "canceled", pc |-> "withheld"]
                  ELSE IF In(r, "succeed")
                  THEN [state |-> "completed", pc |-> "delivered"]
                  ELSE [state |-> "failed", pc |-> "failed"]]
    /\ UNCHANGED <<swapVars, client, cancels>>

RunStep(r) ==
    \/ Gate(r) \/ Reserve(r) \/ Prepared(r) \/ Recheck(r) \/ Abort(r) \/ Post(r)
    \/ Wait(r) \/ After(r) \/ Finish(r)

-----------------------------------------------------------------------------
(* The cancel route, which may be called again once it has answered. *)

Calling(r, pc) == cancels[r].pc = pc
Proceed(r, pc) == cancels' = [cancels EXCEPT ![r].pc = pc]

CancelRun(r) ==
    /\ cancels[r].pc \in {"none", "answered", "error"}
    /\ runs[r].state \in {"preview", "running", "canceling"}
    /\ LET made == IF runs[r].state = "preview" THEN "canceled" ELSE "canceling"
       IN  /\ runs' = [runs EXCEPT ![r].state = made]
           /\ cancels' = [cancels EXCEPT ![r] = [pc |-> "event", made |-> made]]
    /\ UNCHANGED <<swapVars, client>>

SetEvent(r) ==
    /\ Calling(r, "event")
    /\ client' = [client EXCEPT ![r].cancel = TRUE]
    /\ Proceed(r, "look")
    /\ UNCHANGED <<swapVars, runs>>

Look(r) ==
    /\ Calling(r, "look")
    /\ Proceed(r, IF client[r].prepared THEN "tell" ELSE "answered")
    /\ UNCHANGED <<swapVars, runs, client>>

\* The worker cancels, or has nothing live to cancel, or the call fails.
Tell(r) ==
    /\ Calling(r, "tell")
    /\ \/ Cancel(r) /\ (Proceed(r, "answered") \/ Proceed(r, "error"))
       \/ /\ Known(r) /\ rows[r].state \notin LiveStates
          /\ Proceed(r, "answered") /\ UNCHANGED swapVars
       \/ Proceed(r, "error") /\ UNCHANGED swapVars
    /\ UNCHANGED <<runs, client>>

CancelStep(r) == SetEvent(r) \/ Look(r) \/ Tell(r)

-----------------------------------------------------------------------------

\* The host dies, and its rows, clients and routes with it; what the cancel route
\* has answered stays answered, and the worker goes on with what it has.
HostDies ==
    /\ runs' = [r \in Requests |->
                  [state |-> "absent",
                   pc |-> IF runs[r].state = "absent" THEN runs[r].pc ELSE "gone"]]
    /\ client' = [r \in Requests |-> [cancel |-> FALSE, prepared |-> FALSE]]
    /\ cancels' = [r \in Requests |->
                     IF Calling(r, "answered") THEN cancels[r]
                     ELSE [pc |-> "none", made |-> "nothing"]]
    /\ UNCHANGED swapVars

WorkerStep(r) == CallStep(r) /\ UNCHANGED hostVars

AgentNext ==
    \/ \E r \in Requests :
           \/ Register(r) \/ Claim(r) \/ RunStep(r)
           \/ CancelRun(r) \/ CancelStep(r)
           \/ WorkerStep(r)
    \/ HostDies
    \/ Environment /\ UNCHANGED hostVars

AgentSpec == AgentInit /\ [][AgentNext]_agentVars

\* Threads that can go on do, on both sides; every HTTP call ends.
AgentFairSpec ==
    /\ AgentSpec
    /\ \A r \in Requests : /\ WF_agentVars(RunStep(r))
                           /\ WF_agentVars(CancelStep(r))
                           /\ WF_agentVars(WorkerStep(r))

-----------------------------------------------------------------------------
(* Properties. *)

\* Rows, clients and routes are ones the program can hold.
AgentTypeOK ==
    /\ SwapTypeOK
    /\ runs \in [Requests -> Run]
    /\ client \in [Requests -> Client]
    /\ cancels \in [Requests -> CancelRoute]

\* "Late or canceled output is withheld": a run that delivered its answer was
\* not cancelled before, even when the worker answered at the same time.
CanceledIsWithheld ==
    \A r \in Requests : In(r, "delivered") => cancels[r].made = "nothing"

\* No cancellation falls between the two routes: once the cancel route has
\* answered without an error, the worker does not work on the request with its
\* event unset, and a completion that is still to be sent will be refused.
CancelIsNeverLost ==
    \A r \in Requests :
        Calling(r, "answered") =>
            /\ In(r, "post") /\ Known(r) => rows[r].cancel
            /\ calls[r].pc \in Working => rows[r].cancel

\* In this composition a request is completed once, so while the worker works on
\* it the table says so, and a cancellation finds it live.
TableIsTruthful ==
    \A c \in Calls :
        calls[c].pc \in Working => rows[Req(c)].state \in {"running", "canceling"}

\* Every run ends on both sides, whatever fails, is cancelled, is lost or expires:
\* its route returns and the worker's slot comes back.
RunsEnd ==
    \A r \in Requests :
        runs[r].pc \in InRoute \/ slot = r ~> runs[r].pc \notin InRoute /\ slot # r
=============================================================================
