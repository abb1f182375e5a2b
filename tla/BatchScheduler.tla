--------------------------- MODULE BatchScheduler ---------------------------
(***************************************************************************)
(* Batches of background inference (BatchInferenceScheduler,               *)
(* batch_scheduler.py) on top of the durable job kernel.                   *)
(*                                                                         *)
(* create groups the items of a batch by kind and profile, makes one       *)
(* durable job per group, and then writes the batch into an encrypted      *)
(* file; cancel_item asks the kernel to cancel a group's job with its last *)
(* live item, and then writes the file.  One file lock covers a call, but  *)
(* not the kernel: a call can be cut short (the process dies, the kernel   *)
(* or the disk refuses) after the kernel has changed and before the file   *)
(* has, and the job routes reach the same jobs without the lock.           *)
(*                                                                         *)
(* No worker of the repository claims these jobs ("execution_not_          *)
(* automatic"), so the kernel's claims, heartbeats and leases are idle.    *)
(***************************************************************************)
EXTENDS JobKernel

CONSTANTS
    Batches, Items,
    Sigs,    \* signatures of kind and profile, in the order of their digests
    SigOf,   \* the signature of an item
    Matter   \* the matter of this scheduler

\* The idempotency key of a group's job.
GroupKey(b, s) == <<b, s>>

ASSUME BatchConstants ==
    /\ "batch_inference" \in Types /\ Matter \in Matters
    /\ Sigs \subseteq Nat
    /\ Batches # {} /\ Batches \X Sigs \subseteq Keys
    /\ SigOf \in [Items -> Sigs]

VARIABLES
    payload, \* the items in the payload of each job
    store,   \* batches.json.enc: each batch, or NoBatch
    call,    \* the call that holds the file lock, or NoCall
    cut,     \* history: the calls that were cut short, "create" or "cancel"
    outside  \* history: the jobs a job route asked to cancel

batchVars == <<jobs, log, now, payload, store, call, cut, outside>>

NoBatch == [items |-> {}, cancelled |-> {}, groups |-> <<>>]
NoCall == [op |-> "none", batch |-> CHOOSE b \in Batches : TRUE, items |-> {},
           groups |-> <<>>]

\* A group keeps the job made for it and the status the kernel reported then.
Group == [job : JobIds, status : ACTIVE_STATUSES \cup TERMINAL_STATUSES]
Groups == UNION {[S -> Group] : S \in SUBSET Sigs}

SigsOf(I) == {SigOf[i] : i \in I}
Members(I, s) == {i \in I : SigOf[i] = s}
PayloadOfBatch(I, s) == I       \* Deviation: the job is given the whole batch.
Payload(I, s) == Members(I, s)
LiveItems(b) == store[b].items \ store[b].cancelled

BatchInit ==
    /\ KernelInit
    /\ payload = [j \in JobIds |-> {}]
    /\ store = [b \in Batches |-> NoBatch]
    /\ call = NoCall
    /\ cut = {} /\ outside = {}

-----------------------------------------------------------------------------
(* create *)

CreateBegin(b, I) ==
    /\ call = NoCall
    /\ I # {} /\ store[b] = NoBatch
    /\ call' = [op |-> "create", batch |-> b, items |-> I, groups |-> <<>>]
    /\ UNCHANGED <<kernelVars, payload, store, cut, outside>>

Missing == SigsOf(call.items) \ DOMAIN call.groups

\* kernel.create_job for the next group: a job with its key is taken as it is.
CreateGroup ==
    /\ call.op = "create"
    /\ \E s \in Missing, j \in JobIds :
        /\ \A t \in Missing : s <= t
        /\ \/ /\ CreateJob(j, "batch_inference", Matter, GroupKey(call.batch, s))
              /\ payload' = [payload EXCEPT ![j] = Payload(call.items, s)]
           \/ /\ j \in Existing("batch_inference", Matter, GroupKey(call.batch, s))
              /\ UNCHANGED <<kernelVars, payload>>
        /\ call' = [call EXCEPT !.groups =
                       [t \in DOMAIN @ \cup {s} |->
                           IF t = s THEN [job |-> j, status |-> jobs'[j].status]
                                    ELSE @[t]]]
    /\ UNCHANGED <<store, cut, outside>>

CreateWrite ==
    /\ call.op = "create" /\ Missing = {}
    /\ store' = [store EXCEPT ![call.batch] =
                    [items |-> call.items, cancelled |-> {}, groups |-> call.groups]]
    /\ call' = NoCall
    /\ UNCHANGED <<kernelVars, payload, cut, outside>>

-----------------------------------------------------------------------------
(* cancel_item; an item that is already cancelled is left alone. *)

CancelBegin(b, i) ==
    /\ call = NoCall
    /\ i \in LiveItems(b)
    /\ call' = [op |-> "cancel", batch |-> b, items |-> {i}, groups |-> store[b].groups]
    /\ UNCHANGED <<kernelVars, payload, store, cut, outside>>

\* Deviation: the item itself still counts as live.
LastOfGroupBefore(b, i) == Members(LiveItems(b), SigOf[i]) = {}

LastOfGroup(b, i) == Members(LiveItems(b), SigOf[i]) \ {i} = {}

\* kernel.request_cancel, when no member of the group is live any more.
CancelAsk ==
    /\ call.op = "cancel"
    /\ \E i \in call.items :
        LET s == SigOf[i]
            j == call.groups[s].job
        IN  \/ /\ LastOfGroup(call.batch, i)
               /\ RequestCancel(j) \/ (~Stoppable(j) /\ UNCHANGED kernelVars)
               /\ call' = [call EXCEPT !.op = "settle",
                                       !.groups[s].status = jobs'[j].status]
            \/ /\ ~LastOfGroup(call.batch, i)
               /\ call' = [call EXCEPT !.op = "settle"]
               /\ UNCHANGED kernelVars
    /\ UNCHANGED <<payload, store, cut, outside>>

CancelWrite ==
    /\ call.op = "settle"
    /\ store' = [store EXCEPT ![call.batch].cancelled = @ \cup call.items,
                              ![call.batch].groups = call.groups]
    /\ call' = NoCall
    /\ UNCHANGED <<kernelVars, payload, cut, outside>>

-----------------------------------------------------------------------------

\* The call ends here: the lock is free, the file is as it was.
CutShort ==
    /\ call # NoCall
    /\ call' = NoCall
    /\ cut' = cut \cup {<<IF call.op = "create" THEN "create" ELSE "cancel", call.batch>>}
    /\ UNCHANGED <<kernelVars, payload, store, outside>>

\* The cancel route of production.py, which knows nothing of batches.
JobRouteCancel(j) ==
    /\ RequestCancel(j)
    /\ outside' = outside \cup {j}
    /\ UNCHANGED <<payload, store, call, cut>>

BatchNext ==
    \/ \E b \in Batches, I \in SUBSET Items : CreateBegin(b, I)
    \/ CreateGroup \/ CreateWrite
    \/ \E b \in Batches, i \in Items : CancelBegin(b, i)
    \/ CancelAsk \/ CancelWrite
    \/ CutShort
    \/ \E j \in JobIds : JobRouteCancel(j)

BatchSpec == BatchInit /\ [][BatchNext]_batchVars

-----------------------------------------------------------------------------
(* Properties. *)

StoredGroups == {p \in Batches \X Sigs : p[2] \in DOMAIN store[p[1]].groups}
JobOf(p) == store[p[1]].groups[p[2]].job

\* A stored batch has a job for each of its groups; the rest is as typed.
BatchTypeOK ==
    /\ TypeOK
    /\ payload \in [JobIds -> SUBSET Items]
    /\ \A b \in Batches :
        /\ store[b].items \subseteq Items /\ store[b].cancelled \subseteq store[b].items
        /\ store[b].groups \in [SigsOf(store[b].items) -> Group]
    /\ call.op \in {"none", "create", "cancel", "settle"}
    /\ call.batch \in Batches /\ call.items \subseteq Items /\ call.groups \in Groups
    /\ cut \subseteq {"create", "cancel"} \X Batches /\ outside \subseteq JobIds

\* Once the last item of a group is cancelled in the file, its job is cancelled
\* in the kernel and the group says so, wherever calls were cut short before.
CancelledNeverWaits ==
    \A p \in StoredGroups :
        Members(LiveItems(p[1]), p[2]) = {} =>
            /\ jobs[JobOf(p)].status = "cancelled"
            /\ store[p[1]].groups[p[2]].status = "cancelled"

\* "Each source-bound child remains independently cancellable": while a group
\* has a live item and nobody is cancelling its last one, its job is queued,
\* unless a job route cancelled it or a cancellation in the batch was cut short.
LiveItemsHaveWork ==
    \A p \in StoredGroups :
        /\ Members(LiveItems(p[1]), p[2]) # {}
        /\ ~(/\ call.op = "settle" /\ call.batch = p[1]
             /\ Members(LiveItems(p[1]), p[2]) \subseteq call.items)
        => \/ jobs[JobOf(p)].status = "queued"
           \/ JobOf(p) \in outside \/ <<"cancel", p[1]>> \in cut

\* The items of a batch and its jobs agree on what is cancelled.
ItemsMatchJobs == CancelledNeverWaits /\ LiveItemsHaveWork

\* The job of a group was made for exactly the items of that group, unless an
\* earlier create of the batch was cut short: its jobs are taken over by a
\* second create, whatever that one asked for.
PayloadIsTheGroup ==
    \A p \in StoredGroups :
        \/ payload[JobOf(p)] = Members(store[p[1]].items, p[2])
        \/ <<"create", p[1]>> \in cut
=============================================================================
