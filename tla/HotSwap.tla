------------------------------- MODULE HotSwap -------------------------------
(***************************************************************************)
(* The shared-base adapter worker (HotSwapManager, worker.py) and the      *)
(* child process that runs the model (IsolatedAdapterBackend,              *)
(* process_backend.py).                                                    *)
(*                                                                         *)
(* A request is reserved, then completed, and may be cancelled at any      *)
(* moment; each is an HTTP call on a thread of its own.  The table of      *)
(* requests is guarded by the state lock, a completion by the worker lock  *)
(* (the slot), which is never waited for.  A completion copies the         *)
(* release's files into a private snapshot, activates its adapter in the   *)
(* child, generates, and clears the child again; a cancellation is an      *)
(* event it looks at in between.  A failure quarantines the worker until   *)
(* it is restarted, a cancellation does not.                               *)
(*                                                                         *)
(* Request ids are fresh uuids: a name that the table has forgotten and     *)
(* that no call carries stands for another one.  Several completion calls   *)
(* may carry the same id.                                                   *)
(***************************************************************************)
EXTENDS Integers, FiniteSets

CONSTANTS
    Requests, NoRequest,
    Calls, NoCall,       \* the completion calls
    Releases, NoRelease,
    RelOf,               \* the release a request is for
    MaxLive,             \* reserved or running requests (4)
    MaxRows              \* requests remembered (128)

ASSUME SwapConstants ==
    /\ NoRequest \notin Requests /\ NoCall \notin Calls /\ NoRelease \notin Releases
    /\ RelOf \in [Requests -> Releases]
    /\ MaxLive \in Nat /\ MaxRows \in Nat

VARIABLES
    rows,        \* _jobs
    calls,       \* the completion calls
    slot,        \* the call that holds _lock, or NoCall
    quarantined,
    active,      \* _active_release_id
    verified,    \* _verified_releases
    copied,      \* the snapshot: the files of each release
    child        \* the model process

managerVars == <<quarantined, active, verified, copied>>
swapVars == <<rows, calls, slot, quarantined, active, verified, copied, child>>

LiveStates == {"reserved", "running", "canceling"}

\* Not in the table: "unknown", and "forgotten" while a call still holds the row.
Row == [state : LiveStates \cup {"unknown", "canceled", "completed", "failed",
                                 "rejected_busy", "forgotten"},
        expired : BOOLEAN,  \* its 300 seconds are over
        cancel : BOOLEAN,
        ran : 0..2]       \* history: the model was given its text, how often

NoRow == [state |-> "unknown", expired |-> FALSE, cancel |-> FALSE, ran |-> 0]

\* Where complete() is while it holds the slot, and before and after: a call is
\* "idle" before it is made and once it was refused or lost.
Working == {"copy", "clear", "activate", "ready", "engine", "deliver", "publish"}
Ending == {"canceling", "failing", "end"}
Returned == {"idle", "answered"}

Call == [pc : {"enter", "busy", "begin"} \cup Working \cup Ending \cup Returned,
         req : Requests \cup {NoRequest},
         text : BOOLEAN]   \* it has a response

Idle == [pc |-> "idle", req |-> NoRequest, text |-> FALSE]

\* The child process, the adapter that is set in it and whose text it holds.
\* A "dead" child is one the parent has not noticed.
Child == [status : {"none", "alive", "dead"}, adapter : Releases \cup {NoRelease},
          context : Requests \cup {NoRequest}]
NoChild == [status |-> "none", adapter |-> NoRelease, context |-> NoRequest]
Nothing == [x \in Releases |-> "none"]

SwapInit ==
    /\ rows = [r \in Requests |-> NoRow]
    /\ calls = [c \in Calls |-> Idle]
    /\ slot = NoCall
    /\ quarantined = FALSE
    /\ active = NoRelease
    /\ verified = {}
    /\ copied = Nothing
    /\ child = NoChild

-----------------------------------------------------------------------------
(* The table of requests. *)

Known(r) == rows[r].state \notin {"unknown", "forgotten"}

\* Every prepare forgets what has expired, except what is running.
Kept(r) == Known(r) /\ (rows[r].state \in {"running", "canceling"} \/ ~rows[r].expired)
Held(r) == \E c \in Calls : calls[c].req = r
Pruned == [r \in Requests |-> IF Kept(r) THEN rows[r]
                              ELSE IF Held(r) /\ Known(r)
                              THEN [rows[r] EXCEPT !.state = "forgotten"]
                              ELSE IF Held(r) THEN rows[r] ELSE NoRow]

Full ==
    \/ Cardinality({r \in Requests : Kept(r)}) >= MaxRows
    \/ Cardinality({r \in Requests : Kept(r) /\ rows[r].state \in LiveStates}) >= MaxLive

Prepare(r) ==
    /\ ~quarantined
    /\ ~Known(r) /\ ~Held(r) /\ ~Full
    /\ rows' = [Pruned EXCEPT ![r] = [state |-> "reserved", expired |-> FALSE,
                                      cancel |-> FALSE, ran |-> 0]]
    /\ UNCHANGED <<calls, slot, managerVars, child>>

\* A replayed id, or no room: the table is pruned all the same.
PrepareRefused(r) ==
    /\ ~quarantined
    /\ Kept(r) \/ Full
    /\ rows' = Pruned
    /\ UNCHANGED <<calls, slot, managerVars, child>>

\* Deviation: a running request is cancelled there and then.
CancelAtOnce(r) ==
    /\ rows[r].state \in LiveStates
    /\ rows' = [rows EXCEPT ![r].cancel = TRUE, ![r].state = "canceled"]
    /\ UNCHANGED <<calls, slot, managerVars, child>>

\* A request that is not live any more is left as it is.
Cancel(r) ==
    /\ rows[r].state \in LiveStates
    /\ rows' = [rows EXCEPT ![r].cancel = TRUE,
                            ![r].state = IF @ = "reserved" THEN "canceled" ELSE "canceling"]
    /\ UNCHANGED <<calls, slot, managerVars, child>>

\* A completion holds its row; a forgotten one is changed out of sight.
Mark(r, state) ==
    rows' = [rows EXCEPT ![r].state = IF Known(r) THEN state ELSE @]

-----------------------------------------------------------------------------
(* complete, until it has the slot and its request. *)

At(c, pc) == calls[c].pc = pc
Goto(c, pc) == calls' = [calls EXCEPT ![c].pc = pc]
Return(c, pc) == calls' = [calls EXCEPT ![c] = [Idle EXCEPT !.pc = pc]]
Req(c) == calls[c].req
Rel(c) == RelOf[Req(c)]
Cancelled(c) == rows[Req(c)].cancel

\* A thread that has answered one call serves another.
Send(c, r) ==
    /\ calls[c].pc \in Returned
    /\ calls' = [calls EXCEPT ![c] = [pc |-> "enter", req |-> r, text |-> FALSE]]
    /\ UNCHANGED <<rows, slot, managerVars, child>>

Enter(c) ==
    /\ At(c, "enter")
    /\ \/ slot = NoCall /\ slot' = c /\ Goto(c, "begin")
       \/ slot # NoCall /\ Goto(c, "busy") /\ UNCHANGED slot
    /\ UNCHANGED <<rows, managerVars, child>>

RejectBusy(c) ==
    /\ At(c, "busy")
    /\ Mark(Req(c), "rejected_busy")
    /\ Return(c, "idle")
    /\ UNCHANGED <<slot, managerVars, child>>

\* Deviation: whatever became of the request, it is run.
AdmissibleAgain(c) ==
    ~quarantined /\ Known(Req(c)) /\ ~rows[Req(c)].expired /\ ~Cancelled(c)

Admissible(c) ==
    /\ ~quarantined
    /\ Known(Req(c)) /\ ~rows[Req(c)].expired
    /\ ~Cancelled(c)
    /\ rows[Req(c)].state = "reserved"

Begin(c) ==
    /\ At(c, "begin")
    /\ Admissible(c)
    /\ Mark(Req(c), "running")
    /\ Goto(c, "copy")
    /\ UNCHANGED <<slot, managerVars, child>>

\* Deviation: the lock is not given back.
RefuseKeepsSlot(c) ==
    At(c, "begin") /\ ~Admissible(c) /\ Return(c, "idle")
    /\ UNCHANGED <<rows, slot, managerVars, child>>

Refuse(c) ==
    /\ At(c, "begin")
    /\ ~Admissible(c)
    /\ slot' = NoCall
    /\ Return(c, "idle")
    /\ UNCHANGED <<rows, managerVars, child>>

-----------------------------------------------------------------------------
(* complete, at work.  Any step can fail: the release is not admitted any   *)
(* more, the deadline has passed, the child or the disk refuses.            *)

\* Deviation: the child acknowledges and keeps what it has.
ClearedNothing == child
Cleared == [child EXCEPT !.context = NoRequest]

\* clear_context: a dead child is noticed, a refusal stops the child.
ClearSucceeds == child.status # "dead" /\ child' = Cleared
ClearFails == child.status # "none" /\ child' = NoChild

\* VerifiedSnapshot.prepare; a file that is already there is an error.
Copy(c) ==
    /\ At(c, "copy")
    /\ Rel(c) \in verified \/ copied[Rel(c)] # "part"
    /\ verified' = verified \cup {Rel(c)}
    /\ copied' = [copied EXCEPT ![Rel(c)] = IF Rel(c) \in verified THEN @ ELSE "whole"]
    /\ Goto(c, "clear")
    /\ UNCHANGED <<rows, slot, quarantined, active, child>>

CopyStops(c) ==
    /\ At(c, "copy")
    /\ \/ Goto(c, "failing")
       \/ Cancelled(c) /\ Rel(c) \notin verified /\ Goto(c, "canceling")
    /\ \E extent \in {copied[Rel(c)], "part"} :
           /\ Rel(c) \in verified => extent = copied[Rel(c)]
           /\ copied' = [copied EXCEPT ![Rel(c)] = extent]
    /\ UNCHANGED <<rows, slot, quarantined, active, verified, child>>

\* Deviation: an adapter that is active will do.
NeedsAnyAdapter(c) == active = NoRelease
NeedsAdapter(c) == active # Rel(c)

Clear(c) ==
    /\ At(c, "clear")
    /\ \/ ClearSucceeds /\ Goto(c, IF NeedsAdapter(c) THEN "activate" ELSE "ready")
       \/ ClearFails /\ Goto(c, "failing")
    /\ UNCHANGED <<rows, slot, managerVars>>

\* The files of the release are loaded from the snapshot; whatever goes wrong,
\* the child is stopped.
Activate(c) ==
    /\ At(c, "activate")
    /\ \/ /\ copied[Rel(c)] = "whole"
          /\ child' = [status |-> "alive", adapter |-> Rel(c), context |-> NoRequest]
          /\ active' = Rel(c)
          /\ Goto(c, "ready")
       \/ /\ child' = NoChild
          /\ Goto(c, "failing") \/ (Cancelled(c) /\ Goto(c, "canceling"))
          /\ UNCHANGED active
    /\ UNCHANGED <<rows, slot, quarantined, verified, copied>>

\* The last look before the text is sent to the child.
Generate(c) ==
    /\ At(c, "ready")
    /\ \/ Cancelled(c) /\ Goto(c, "canceling") /\ UNCHANGED <<rows, child>>
       \/ /\ ~Cancelled(c) /\ child.status = "alive"
          /\ child' = [child EXCEPT !.context = Req(c)]
          /\ rows' = [rows EXCEPT ![Req(c)].ran = IF @ = 0 THEN 1 ELSE 2]
          /\ Goto(c, "engine")
       \/ ~Cancelled(c) /\ child.status # "alive" /\ child' = NoChild /\ Goto(c, "failing")
          /\ UNCHANGED rows
    /\ UNCHANGED <<slot, managerVars>>

\* A cancelled child is stopped, on its own answer or after a grace period.
Engine(c) ==
    /\ At(c, "engine")
    /\ \/ child.status = "alive" /\ child' = Cleared /\ Goto(c, "deliver")
       \/ child' = NoChild /\ Goto(c, "failing")
       \/ Cancelled(c) /\ child' = NoChild /\ Goto(c, "canceling")
    /\ UNCHANGED <<rows, slot, managerVars>>

Deliver(c) ==
    /\ At(c, "deliver")
    /\ \/ Cancelled(c) /\ Goto(c, "canceling")
       \/ ~Cancelled(c) /\ Goto(c, "publish")
       \/ ~Cancelled(c) /\ Goto(c, "failing")
    /\ UNCHANGED <<rows, slot, managerVars, child>>

Publish(c) ==
    /\ At(c, "publish")
    /\ Mark(Req(c), "completed")
    /\ calls' = [calls EXCEPT ![c].pc = "end", ![c].text = TRUE]
    /\ UNCHANGED <<slot, managerVars, child>>

-----------------------------------------------------------------------------
(* complete, on its way out. *)

ActiveAfterCancel == NoRelease

\* Deviation: the snapshot is dropped and the releases stay verified.
DropSnapshotOnly == copied' = Nothing /\ UNCHANGED verified
DropSnapshot == copied' = Nothing /\ verified' = {}

\* An interrupted copy takes the whole snapshot with it, unless the child
\* cannot be closed: that error leaves the handler before the snapshot is
\* dropped.
Canceling(c) ==
    /\ At(c, "canceling")
    /\ Mark(Req(c), "canceled")
    /\ active' = ActiveAfterCancel
    /\ \/ Rel(c) \in verified /\ UNCHANGED <<child, verified, copied>>
       \/ /\ Rel(c) \notin verified /\ child.status # "dead"
          /\ child' = NoChild /\ DropSnapshot
       \/ /\ Rel(c) \notin verified /\ child.status # "none"
          /\ child' = NoChild /\ UNCHANGED <<verified, copied>>
    /\ Goto(c, "end")
    /\ UNCHANGED <<slot, quarantined>>

Failing(c) ==
    /\ At(c, "failing")
    /\ Mark(Req(c), "failed")
    /\ quarantined' = TRUE
    /\ ClearSucceeds \/ ClearFails
    /\ Goto(c, "end")
    /\ UNCHANGED <<slot, active, verified, copied>>

\* finally: the child is cleared, or the response is withheld.
Leave(c) ==
    /\ At(c, "end")
    /\ slot' = NoCall
    /\ \/ /\ ClearSucceeds
          /\ Return(c, IF calls[c].text THEN "answered" ELSE "idle")
          /\ UNCHANGED <<rows, quarantined>>
       \/ /\ ClearFails
          /\ Mark(Req(c), "failed") /\ quarantined' = TRUE
          /\ Return(c, "idle")
    /\ UNCHANGED <<active, verified, copied>>

CallStep(c) ==
    \/ Enter(c) \/ RejectBusy(c) \/ Begin(c) \/ Refuse(c)
    \/ Copy(c) \/ CopyStops(c) \/ Clear(c) \/ Activate(c) \/ Generate(c)
    \/ Engine(c) \/ Deliver(c) \/ Publish(c)
    \/ Canceling(c) \/ Failing(c) \/ Leave(c)

-----------------------------------------------------------------------------
(* The processes. *)

ChildDies ==
    /\ child.status = "alive"
    /\ child' = [child EXCEPT !.status = "dead"]
    /\ UNCHANGED <<rows, calls, slot, managerVars>>

\* close waits for the slot and leaves the worker quarantined.
Close ==
    /\ slot = NoCall
    /\ quarantined' = TRUE
    /\ child' = NoChild
    /\ copied' = Nothing
    /\ UNCHANGED <<rows, calls, slot, active, verified>>

\* The worker process ends, in the middle of anything, and another one starts.
Restart ==
    /\ rows' = [r \in Requests |-> NoRow]
    /\ calls' = [c \in Calls |-> IF calls[c].pc \in Returned THEN calls[c] ELSE Idle]
    /\ slot' = NoCall
    /\ quarantined' = FALSE /\ active' = NoRelease /\ verified' = {} /\ copied' = Nothing
    /\ child' = NoChild

\* Time passes; a request that lasts may outlive its reservation.
Expire(r) ==
    /\ Known(r) /\ ~rows[r].expired
    /\ rows' = [rows EXCEPT ![r].expired = TRUE]
    /\ UNCHANGED <<calls, slot, managerVars, child>>

Environment == ChildDies \/ Close \/ Restart \/ \E r \in Requests : Expire(r)

SwapNext ==
    \/ \E r \in Requests : Prepare(r) \/ PrepareRefused(r) \/ Cancel(r)
    \/ \E c \in Calls, r \in Requests : Send(c, r)
    \/ \E c \in Calls : CallStep(c)
    \/ Environment

SwapSpec == SwapInit /\ [][SwapNext]_swapVars

-----------------------------------------------------------------------------
(* Properties. *)

\* The table, the calls and the child are ones the program can hold.
SwapTypeOK ==
    /\ rows \in [Requests -> Row]
    /\ calls \in [Calls -> Call]
    /\ slot \in Calls \cup {NoCall}
    /\ quarantined \in BOOLEAN
    /\ active \in Releases \cup {NoRelease}
    /\ verified \subseteq Releases
    /\ copied \in [Releases -> {"none", "part", "whole"}]
    /\ child \in Child

\* The model that is given a request's text has that request's adapter, loaded
\* from a whole copy, whatever was swapped, cancelled or lost before.
RightAdapter ==
    \A c \in Calls :
        At(c, "engine") => /\ child.status # "none"
                           /\ child.adapter = Rel(c) /\ active = Rel(c)
                           /\ copied[Rel(c)] = "whole"

\* What the worker believes to be loaded is loaded, unless the child died since:
\* a swap that was cancelled or refused half-way leaves no stale belief, which
\* the next request for that release would fail on.
BeliefIsLoaded ==
    slot = NoCall /\ ~quarantined /\ active # NoRelease =>
        child.status # "none" /\ child.adapter = active

\* A verified release has its files in the snapshot, or the worker is closed:
\* dropping an interrupted copy drops the verdict on every release with it.
VerifiedIsWhole ==
    \A x \in verified : copied[x] = "whole" \/ quarantined

\* What the manager takes for loaded or verified, and skips the next time, is so.
BeliefsAreTrue == BeliefIsLoaded /\ VerifiedIsWhole

\* Between requests the child holds nobody's text, after a cancellation too.
NothingRetained ==
    slot = NoCall /\ ~quarantined => child.context = NoRequest

\* A request's text is given to the model once, however often its completion is
\* called.
GeneratedOnce == \A r \in Requests : rows[r].ran <= 1
=============================================================================
