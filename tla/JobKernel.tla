------------------------------ MODULE JobKernel ------------------------------
(***************************************************************************)
(* The durable local job kernel (DurableJobKernel, runtime_kernel.py): a   *)
(* SQLite table of jobs and an append-only table of job events.  Every     *)
(* operation runs in one BEGIN IMMEDIATE transaction under a lock, so an   *)
(* operation is one step; a call that raises rolls back and changes        *)
(* nothing.  What is concurrent is the callers: any worker may call any    *)
(* operation at any time, long after it lost its lease.                    *)
(*                                                                         *)
(* Job ids stand for the uuids and are dealt in creation order, which is   *)
(* the order of created_at.  Payloads, timestamps and the version counter  *)
(* are left out: no operation reads them.                                  *)
(***************************************************************************)
EXTENDS Integers, Sequences, FiniteSets

CONSTANTS
    Types, Matters,   \* job types and matters
    Keys, NoKey,      \* idempotency keys; NoKey is a call without a key
    Workers, NoWorker,\* worker ids; NoWorker is SQL NULL
    MinLease,         \* the clamp of a requested lease (15 and 3600 seconds)
    MaxLease,
    BeatLease,        \* the lease a heartbeat grants (120 seconds)
    FullProgress,     \* progress 1.0; a job starts at 0
    MaxJobs,          \* bound: jobs ever created
    MaxAttempts,      \* bound: claims of one job
    MaxTime           \* bound: the clock

ASSUME KernelConstants ==
    /\ NoKey \notin Keys
    /\ NoWorker \notin Workers
    /\ MinLease \in Nat /\ MaxLease \in Nat /\ MinLease <= MaxLease
    /\ BeatLease \in Nat
    /\ FullProgress \in Nat
    /\ Types # {} /\ Matters # {}
    /\ MaxJobs \in Nat /\ MaxAttempts \in Nat /\ MaxTime \in Nat

VARIABLES jobs,   \* the jobs table: a row for every job id
          log,    \* the job_events table: the events of every job, in order
          now     \* the wall clock, in seconds

kernelVars == <<jobs, log, now>>

JobIds == 1..MaxJobs

TERMINAL_STATUSES == {"completed", "failed", "cancelled"}
ACTIVE_STATUSES == {"queued", "running", "cancel_requested"}
HeldStatuses == {"running", "cancel_requested"}
NoLease == -1

\* The id of a row that was never inserted.
AbsentRow ==
    [type |-> CHOOSE t \in Types : TRUE, matter |-> CHOOSE m \in Matters : TRUE,
     key |-> NoKey, status |-> "absent", owner |-> NoWorker, lease |-> NoLease,
     attempt |-> 0, progress |-> 0, result |-> "null", error |-> "null",
     stamped |-> FALSE]

\* result_json and error_json keep three things apart: SQL NULL, an empty
\* object and a non-empty one ("if error" is about the third alone).
Payloads == {"null", "empty", "value"}

Row == [type : Types, matter : Matters, key : Keys \cup {NoKey},
        status : {"absent"} \cup ACTIVE_STATUSES \cup TERMINAL_STATUSES,
        owner : Workers \cup {NoWorker},
        lease : {NoLease} \cup 0..(MaxTime + MaxLease + BeatLease),
        attempt : 0..MaxAttempts, progress : 0..FullProgress,
        result : Payloads, error : Payloads,
        stamped : BOOLEAN]  \* completed_at is set

EventNames == {"job_created", "job_claimed", "cancel_requested",
               "job_recovered", "job_completed", "job_failed", "job_cancelled"}

\* An event carries the status it reports, in its payload or in its name.
Event == [name : EventNames, status : ACTIVE_STATUSES \cup TERMINAL_STATUSES]

Present(j) == jobs[j].status # "absent"
Held(j) == jobs[j].status \in HeldStatuses

KernelInit ==
    /\ jobs = [j \in JobIds |-> AbsentRow]
    /\ log = [j \in JobIds |-> <<>>]
    /\ now = 0

-----------------------------------------------------------------------------
(* What each operation does to the row it works on. *)

Clamp(x, low, high) == IF x < low THEN low ELSE IF x > high THEN high ELSE x

NewRow(t, m, k) == [AbsentRow EXCEPT !.type = t, !.matter = m, !.key = k,
                                     !.status = "queued"]

ClaimedRow(r, w, seconds) ==
    [r EXCEPT !.status = "running", !.owner = w, !.attempt = @ + 1,
              !.lease = now + Clamp(seconds, MinLease, MaxLease)]

\* Deviation: the progress of a heartbeat is stored as it comes.
BeatRowUnbounded(r, p) == [r EXCEPT !.progress = p, !.lease = now + BeatLease]

BeatRow(r, p) == [r EXCEPT !.progress = Clamp(p, 0, FullProgress),
                           !.lease = now + BeatLease]

\* Deviation: a cancellation is forgotten.
FinishStatusOfRun(r, error) == IF error = "value" THEN "failed" ELSE "completed"

FinishStatus(r, error) ==
    IF r.status = "cancel_requested" THEN "cancelled"
    ELSE IF error = "value" THEN "failed" ELSE "completed"

\* Deviation: a finished row keeps its lease.
FinishedRowHeld(r, result, error) ==
    [r EXCEPT !.status = FinishStatus(r, error), !.result = result, !.error = error,
              !.progress = IF FinishStatus(r, error) = "completed"
                           THEN FullProgress ELSE @,
              !.stamped = TRUE]

FinishedRow(r, result, error) ==
    [r EXCEPT !.status = FinishStatus(r, error), !.result = result, !.error = error,
              !.progress = IF FinishStatus(r, error) = "completed"
                           THEN FullProgress ELSE @,
              !.owner = NoWorker, !.lease = NoLease, !.stamped = TRUE]

StoppedRow(r) ==
    IF r.status = "queued" THEN [r EXCEPT !.status = "cancelled", !.stamped = TRUE]
                           ELSE [r EXCEPT !.status = "cancel_requested", !.stamped = FALSE]

\* Deviation: recovery queues whatever it takes from a worker.
RequeuedRow(r) ==
    [r EXCEPT !.owner = NoWorker, !.lease = NoLease, !.status = "queued"]

RecoveredRow(r) ==
    LET freed == [r EXCEPT !.owner = NoWorker, !.lease = NoLease]
    IN  IF r.status = "cancel_requested"
        THEN [freed EXCEPT !.status = "cancelled", !.stamped = TRUE]
        ELSE [freed EXCEPT !.status = "queued", !.stamped = FALSE]

\* _event: the event is written in the transaction that changes the row.
Logged(j, name) == Append(log[j], [name |-> name, status |-> jobs'[j].status])
Record(j, name) == log' = [log EXCEPT ![j] = Logged(j, name)]

-----------------------------------------------------------------------------
(* The operations. *)

\* Deviation: a key may be used again once its job is settled.
ExistingActive(t, m, k) ==
    {j \in JobIds : /\ jobs[j].status \in ACTIVE_STATUSES /\ k # NoKey
                    /\ jobs[j].type = t /\ jobs[j].matter = m /\ jobs[j].key = k}

\* The row create_job finds for an idempotency key, at most one.
Existing(t, m, k) ==
    {j \in JobIds : /\ Present(j) /\ k # NoKey
                    /\ jobs[j].type = t /\ jobs[j].matter = m /\ jobs[j].key = k}

NextId(j) == \A i \in JobIds : Present(i) <=> i < j

\* create_job, when it inserts; with an existing row it only returns that row.
CreateJob(j, t, m, k) ==
    /\ NextId(j)
    /\ Existing(t, m, k) = {}
    /\ jobs' = [jobs EXCEPT ![j] = NewRow(t, m, k)]
    /\ Record(j, "job_created")
    /\ UNCHANGED now

\* Deviations: a running job can be taken over, a failed one tried again.
ClaimableRunning(j) == jobs[j].status \in {"queued", "running"}
ClaimableFailed(j) == jobs[j].status \in {"queued", "failed"}
Claimable(j) == jobs[j].status = "queued"

ClaimJob(j, w, seconds) ==
    /\ Claimable(j)
    /\ jobs[j].attempt < MaxAttempts
    /\ jobs' = [jobs EXCEPT ![j] = ClaimedRow(@, w, seconds)]
    /\ Record(j, "job_claimed")
    /\ UNCHANGED now

\* heartbeat and finish_job ask for the owner, never for the expiry.
Owns(j, w) == Held(j) /\ jobs[j].owner = w

\* Progress is no audited event.
Heartbeat(j, w, p) ==
    /\ Owns(j, w)
    /\ jobs' = [jobs EXCEPT ![j] = BeatRow(@, p)]
    /\ UNCHANGED <<log, now>>

FinishJob(j, w, result, error) ==
    /\ Owns(j, w)
    /\ jobs' = [jobs EXCEPT ![j] = FinishedRow(@, result, error)]
    /\ Record(j, CASE jobs'[j].status = "completed" -> "job_completed"
                   [] jobs'[j].status = "failed" -> "job_failed"
                   [] OTHER -> "job_cancelled")
    /\ UNCHANGED now

\* request_cancel, when it changes the row; otherwise it returns it as it is.
Stoppable(j) == jobs[j].status \in {"queued", "running"}

RequestCancel(j) ==
    /\ Stoppable(j)
    /\ jobs' = [jobs EXCEPT ![j] = StoppedRow(@)]
    /\ Record(j, "cancel_requested")
    /\ UNCHANGED now

\* The expiry test compares ISO strings whose microseconds are left out when
\* they are zero, so it orders whole seconds; within one second a lease may
\* compare either way.
MustExpire == {j \in JobIds : Held(j) /\ jobs[j].lease < now}
MayExpire == {j \in JobIds : Held(j) /\ jobs[j].lease <= now}

RecoverExpired(S) ==
    /\ MustExpire \subseteq S /\ S \subseteq MayExpire
    /\ jobs' = [j \in JobIds |-> IF j \in S THEN RecoveredRow(jobs[j]) ELSE jobs[j]]
    /\ log' = [j \in JobIds |-> IF j \in S THEN Logged(j, "job_recovered") ELSE log[j]]
    /\ UNCHANGED now

Tick == now < MaxTime /\ now' = now + 1 /\ UNCHANGED <<jobs, log>>

\* Any caller, in any order.
KernelNext ==
    \/ \E j \in JobIds, t \in Types, m \in Matters, k \in Keys \cup {NoKey} :
           CreateJob(j, t, m, k)
    \/ \E j \in JobIds, w \in Workers, seconds \in 0..(MaxLease + 1) :
           ClaimJob(j, w, seconds)
    \/ \E j \in JobIds, w \in Workers, p \in -1..(FullProgress + 1) :
           Heartbeat(j, w, p)
    \/ \E j \in JobIds, w \in Workers, result \in Payloads, error \in Payloads :
           FinishJob(j, w, result, error)
    \/ \E j \in JobIds : RequestCancel(j)
    \/ \E S \in SUBSET JobIds : RecoverExpired(S)
    \/ Tick

KernelSpec == KernelInit /\ [][KernelNext]_kernelVars

-----------------------------------------------------------------------------
(* Properties. *)

\* Every row and every event is one the schema and the code can hold.
TypeOK ==
    /\ jobs \in [JobIds -> Row]
    /\ log \in [JobIds -> Seq(Event)]
    /\ now \in 0..MaxTime

\* A row has a lease owner and an expiry exactly while it is running or asked
\* to stop: no operation of runtime_kernel.py strands a lease on a row that can
\* be claimed again or is settled, and none leaves a held row that
\* recover_expired ("lease_expires_at IS NOT NULL") could never reap.
LeaseIffHeld ==
    \A j \in JobIds :
        /\ Held(j) <=> jobs[j].owner # NoWorker
        /\ Held(j) <=> jobs[j].lease # NoLease

\* An idempotency key names at most one job of a type and matter (create_job
\* and the UNIQUE constraint of the table), whatever became of that job.
KeyNamesOneJob ==
    \A i, j \in JobIds :
        /\ Present(i) /\ Present(j) /\ jobs[i].key # NoKey
        /\ jobs[i].key = jobs[j].key
        /\ jobs[i].type = jobs[j].type /\ jobs[i].matter = jobs[j].matter
        => i = j

\* Results and errors are those of the settled outcome: no attempt that was
\* lost leaves one behind, a completed job has no error and a failed job has
\* one, and completed_at is set on settled rows only.
OutcomeIsConsistent ==
    \A j \in JobIds :
        /\ jobs[j].stamped <=> jobs[j].status \in TERMINAL_STATUSES
        /\ jobs[j].status \notin TERMINAL_STATUSES =>
               jobs[j].result = "null" /\ jobs[j].error = "null"
        /\ jobs[j].status = "completed" => /\ jobs[j].error # "value"
                                           /\ jobs[j].progress = FullProgress
        /\ jobs[j].status = "failed" => jobs[j].error = "value"

\* The audit trail explains the table: the last event of a job reports the
\* status its row has, and a job that exists has events.
TrailEndsAtStatus ==
    \A j \in JobIds :
        /\ log[j] = <<>> <=> ~Present(j)
        /\ log[j] # <<>> => log[j][Len(log[j])].status = jobs[j].status

\* Whatever was retried, recovered or refused, a row is what its audit trail
\* says became of it, its outcome is the settled one, and a retried create finds
\* it again under its key.
RowsAreAccountable == KeyNamesOneJob /\ OutcomeIsConsistent /\ TrailEndsAtStatus

\* A job is claimed again only after recovery took it from its holder: between
\* two claims in the trail there is a recovery, and every claim is an attempt.
ReclaimNeedsRecovery ==
    \A j \in JobIds :
        LET Named(n) == {i \in 1..Len(log[j]) : log[j][i].name = n}
        IN  /\ Cardinality(Named("job_claimed")) = jobs[j].attempt
            /\ \A a, b \in Named("job_claimed") :
                   a < b => \E r \in Named("job_recovered") : a < r /\ r < b

\* Once a cancellation is in the trail the job is never queued, running,
\* completed or failed again: finishing, failing and recovery all end it as
\* cancelled.
CancelPrevails ==
    \A j \in JobIds :
        (\E i \in 1..Len(log[j]) : log[j][i].name = "cancel_requested") =>
            jobs[j].status \in {"cancel_requested", "cancelled"}

\* A settled row never changes again, whoever calls with whatever it believes.
SettledIsFinal ==
    [][\A j \in JobIds : jobs[j].status \in TERMINAL_STATUSES
                            => jobs'[j] = jobs[j] /\ log'[j] = log[j]]_kernelVars

\* The kernel keeps the promises of JobLifecycle: one holder, one outcome,
\* settled by the holder, and cancelled when a cancellation came first.
Lifecycle ==
    INSTANCE JobLifecycle WITH
        Jobs <- JobIds,
        holder <- [j \in JobIds |-> jobs[j].owner],
        asked <- {j \in JobIds : jobs[j].status \in {"cancel_requested", "cancelled"}},
        outcome <- [j \in JobIds |-> IF jobs[j].status \in ACTIVE_STATUSES
                                     THEN "open" ELSE jobs[j].status]

ImplementsLifecycle == Lifecycle!Spec
=============================================================================
