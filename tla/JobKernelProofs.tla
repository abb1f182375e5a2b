-------------------------- MODULE JobKernelProofs --------------------------
(***************************************************************************)
(* Theorems about the durable job kernel, for any number of jobs, workers, *)
(* keys and attempts and any lease lengths.                                *)
(***************************************************************************)
EXTENDS JobKernel, FiniteSetTheorems, TLAPS

-----------------------------------------------------------------------------
(* What the row updates return. *)

\* max(low, min(high, x)) lies between its limits.
LEMMA ClampInRange ==
    ASSUME NEW x \in Int, NEW low \in Nat, NEW high \in Nat, low <= high
    PROVE  Clamp(x, low, high) \in low..high
BY DEF Clamp

\* A row that was never inserted is a row.
LEMMA AbsentRowType == AbsentRow \in Row
<1>1. /\ (CHOOSE t \in Types : TRUE) \in Types
      /\ (CHOOSE m \in Matters : TRUE) \in Matters
  BY KernelConstants
<1>2. NoLease \in Int /\ 0 \in 0..MaxAttempts /\ 0 \in 0..FullProgress
  BY KernelConstants DEF NoLease
<1> QED
  BY <1>1, <1>2 DEF AbsentRow, Row, Payloads

\* Every operation maps a row to a row.
LEMMA NewRowType ==
    ASSUME NEW t \in Types, NEW m \in Matters, NEW k \in Keys \cup {NoKey}
    PROVE  NewRow(t, m, k) \in Row
BY AbsentRowType DEF NewRow, Row, ACTIVE_STATUSES

LEMMA ClaimedRowType ==
    ASSUME NEW r \in Row, NEW w \in Workers, NEW seconds \in Nat,
           now \in 0..MaxTime, r.attempt < MaxAttempts
    PROVE  ClaimedRow(r, w, seconds) \in Row
<1> DEFINE until == now + Clamp(seconds, MinLease, MaxLease)
<1>1. until \in 0..(MaxTime + MaxLease + BeatLease)
  <2>1. Clamp(seconds, MinLease, MaxLease) \in MinLease..MaxLease
    BY KernelConstants DEF Clamp
  <2> QED
    BY <2>1, KernelConstants
<1>2. r.attempt + 1 \in 0..MaxAttempts
  BY KernelConstants DEF Row
<1> HIDE DEF until
<1>3. [r EXCEPT !.status = "running", !.owner = w, !.attempt = @ + 1,
                !.lease = until] \in Row
  BY <1>1, <1>2 DEF Row, ACTIVE_STATUSES
<1> QED
  BY <1>3 DEF ClaimedRow, until

LEMMA BeatRowType ==
    ASSUME NEW r \in Row, NEW p \in Int, now \in 0..MaxTime
    PROVE  BeatRow(r, p) \in Row
<1>1. Clamp(p, 0, FullProgress) \in 0..FullProgress
  BY ClampInRange, KernelConstants
<1>2. now + BeatLease \in 0..(MaxTime + MaxLease + BeatLease)
  BY KernelConstants
<1> QED
  BY <1>1, <1>2 DEF BeatRow, Row

LEMMA FinishedRowType ==
    ASSUME NEW r \in Row, NEW result \in Payloads, NEW error \in Payloads
    PROVE  FinishedRow(r, result, error) \in Row
<1>1. FinishStatus(r, error) \in TERMINAL_STATUSES
  BY DEF FinishStatus, TERMINAL_STATUSES
<1>2. FullProgress \in 0..FullProgress
  BY KernelConstants
<1> QED
  BY <1>1, <1>2 DEF FinishedRow, Row, NoLease

LEMMA StoppedRowType ==
    ASSUME NEW r \in Row
    PROVE  StoppedRow(r) \in Row
BY DEF StoppedRow, Row, ACTIVE_STATUSES, TERMINAL_STATUSES

LEMMA RecoveredRowType ==
    ASSUME NEW r \in Row
    PROVE  RecoveredRow(r) \in Row
BY DEF RecoveredRow, Row, ACTIVE_STATUSES, TERMINAL_STATUSES, NoLease

-----------------------------------------------------------------------------
(* Every operation is a step of each row on its own: the row and its trail   *)
(* stay as they are, or the row takes one of six updates and the trail grows *)
(* by the event of that update.                                              *)

Appended(j, name) == log'[j] = Logged(j, name)

RowKept(j) == jobs'[j] = jobs[j] /\ log'[j] = log[j]

RowCreated(j) ==
    /\ ~Present(j)
    /\ \E t \in Types, m \in Matters, k \in Keys \cup {NoKey} :
           jobs'[j] = NewRow(t, m, k)
    /\ Appended(j, "job_created")

RowClaimed(j) ==
    /\ Claimable(j) /\ jobs[j].attempt < MaxAttempts
    /\ \E w \in Workers, seconds \in Nat : jobs'[j] = ClaimedRow(jobs[j], w, seconds)
    /\ Appended(j, "job_claimed")

RowBeaten(j) ==
    /\ Held(j)
    /\ \E p \in Int : jobs'[j] = BeatRow(jobs[j], p)
    /\ log'[j] = log[j]

RowFinished(j) ==
    /\ Held(j)
    /\ \E result \in Payloads, error \in Payloads :
           jobs'[j] = FinishedRow(jobs[j], result, error)
    /\ \E name \in {"job_completed", "job_failed", "job_cancelled"} : Appended(j, name)

RowStopped(j) ==
    /\ Stoppable(j)
    /\ jobs'[j] = StoppedRow(jobs[j])
    /\ Appended(j, "cancel_requested")

RowRecovered(j) ==
    /\ Held(j)
    /\ jobs'[j] = RecoveredRow(jobs[j])
    /\ Appended(j, "job_recovered")

RowStep(j) ==
    \/ RowKept(j) \/ RowCreated(j) \/ RowClaimed(j) \/ RowBeaten(j)
    \/ RowFinished(j) \/ RowStopped(j) \/ RowRecovered(j)

Shape ==
    /\ DOMAIN jobs' = JobIds /\ jobs' = [j \in JobIds |-> jobs'[j]]
    /\ DOMAIN log' = JobIds /\ log' = [j \in JobIds |-> log'[j]]
    /\ now' \in 0..MaxTime

\* A claim is a step of every row, whatever lease is asked for.
LEMMA ClaimOfRows ==
    ASSUME TypeOK, NEW i \in JobIds, NEW w \in Workers, NEW seconds \in Nat,
           ClaimJob(i, w, seconds)
    PROVE  Shape /\ \A j \in JobIds : RowStep(j)
<1> USE DEF Shape, TypeOK
<1>1. RowClaimed(i)
  BY DEF ClaimJob, RowClaimed, Appended, Record
<1>2. \A j \in JobIds \ {i} : RowKept(j)
  BY DEF ClaimJob, Record, RowKept
<1> QED
  BY <1>1, <1>2 DEF RowStep, ClaimJob, Record

\* A step of the kernel is a step of every row.
LEMMA StepOfRows ==
    ASSUME TypeOK, [KernelNext]_kernelVars
    PROVE  Shape /\ \A j \in JobIds : RowStep(j)
<1> USE DEF Shape, TypeOK
<1>1. ASSUME NEW i \in JobIds, NEW t \in Types, NEW m \in Matters,
             NEW k \in Keys \cup {NoKey}, CreateJob(i, t, m, k)
      PROVE  Shape /\ \A j \in JobIds : RowStep(j)
  <2>1. ~Present(i)
    BY <1>1 DEF CreateJob, NextId, JobIds
  <2>2. RowCreated(i)
    BY <1>1, <2>1 DEF CreateJob, RowCreated, Appended, Record
  <2>3. \A j \in JobIds \ {i} : RowKept(j)
    BY <1>1 DEF CreateJob, Record, RowKept
  <2> QED
    BY <1>1, <2>2, <2>3 DEF RowStep, CreateJob, Record
<1>2. ASSUME NEW i \in JobIds, NEW w \in Workers, NEW seconds \in Nat,
             ClaimJob(i, w, seconds)
      PROVE  Shape /\ \A j \in JobIds : RowStep(j)
  BY <1>2, ClaimOfRows
<1>3. ASSUME NEW i \in JobIds, NEW w \in Workers, NEW p \in Int, Heartbeat(i, w, p)
      PROVE  Shape /\ \A j \in JobIds : RowStep(j)
  <2>1. RowBeaten(i)
    BY <1>3 DEF Heartbeat, RowBeaten, Owns
  <2>2. \A j \in JobIds \ {i} : RowKept(j)
    BY <1>3 DEF Heartbeat, RowKept
  <2> QED
    BY <1>3, <2>1, <2>2 DEF RowStep, Heartbeat
<1>4. ASSUME NEW i \in JobIds, NEW w \in Workers, NEW result \in Payloads,
             NEW error \in Payloads, FinishJob(i, w, result, error)
      PROVE  Shape /\ \A j \in JobIds : RowStep(j)
  <2>1. \E name \in {"job_completed", "job_failed", "job_cancelled"} : Record(i, name)
    BY <1>4 DEF FinishJob
  <2>2. RowFinished(i)
    BY <1>4, <2>1 DEF FinishJob, RowFinished, Owns, Appended, Record
  <2>3. \A j \in JobIds \ {i} : RowKept(j)
    BY <1>4, <2>1 DEF FinishJob, RowKept, Record
  <2> QED
    BY <1>4, <2>1, <2>2, <2>3 DEF RowStep, FinishJob, Record
<1>5. ASSUME NEW i \in JobIds, RequestCancel(i)
      PROVE  Shape /\ \A j \in JobIds : RowStep(j)
  <2>1. RowStopped(i)
    BY <1>5 DEF RequestCancel, RowStopped, Appended, Record
  <2>2. \A j \in JobIds \ {i} : RowKept(j)
    BY <1>5 DEF RequestCancel, Record, RowKept
  <2> QED
    BY <1>5, <2>1, <2>2 DEF RowStep, RequestCancel, Record
<1>6. ASSUME NEW S \in SUBSET JobIds, RecoverExpired(S)
      PROVE  Shape /\ \A j \in JobIds : RowStep(j)
  <2>1. ASSUME NEW j \in S
        PROVE  RowRecovered(j)
    BY <1>6, <2>1 DEF RecoverExpired, RowRecovered, MayExpire, Appended
  <2>2. \A j \in JobIds \ S : RowKept(j)
    BY <1>6 DEF RecoverExpired, RowKept
  <2> QED
    BY <1>6, <2>1, <2>2 DEF RowStep, RecoverExpired
<1>7. CASE Tick
  BY <1>7, KernelConstants DEF Tick, RowStep, RowKept
<1>8. CASE UNCHANGED kernelVars
  BY <1>8 DEF kernelVars, RowStep, RowKept
<1>9. 0..(MaxLease + 1) \subseteq Nat /\ -1..(FullProgress + 1) \subseteq Int
  OBVIOUS
<1> QED
  BY <1>1, <1>2, <1>3, <1>4, <1>5, <1>6, <1>7, <1>8, <1>9 DEF KernelNext

-----------------------------------------------------------------------------
(* Types. *)

\* One row step keeps a row a row and a trail a sequence of events.
LEMMA RowStepType ==
    ASSUME TypeOK, NEW j \in JobIds, RowStep(j)
    PROVE  jobs'[j] \in Row /\ log'[j] \in Seq(Event)
<1>1. jobs[j] \in Row /\ log[j] \in Seq(Event) /\ now \in 0..MaxTime
  BY DEF TypeOK
<1>2. ASSUME NEW name \in EventNames, Appended(j, name), jobs'[j] \in Row,
             jobs'[j].status # "absent"
      PROVE  log'[j] \in Seq(Event)
  BY <1>1, <1>2 DEF Appended, Logged, Row, Event
<1>3. CASE RowKept(j)
  BY <1>1, <1>3 DEF RowKept
<1>4. CASE RowCreated(j)
  <2>1. jobs'[j] \in Row
    BY <1>4, NewRowType DEF RowCreated
  <2>2. jobs'[j].status = "queued"
    BY <1>4 DEF RowCreated, NewRow, AbsentRow
  <2> QED
    BY <1>2, <1>4, <2>1, <2>2 DEF RowCreated, EventNames
<1>5. CASE RowClaimed(j)
  <2>1. jobs'[j] \in Row
    BY <1>1, <1>5, ClaimedRowType DEF RowClaimed
  <2>2. jobs'[j].status = "running"
    BY <1>1, <1>5 DEF RowClaimed, ClaimedRow, Row
  <2> QED
    BY <1>2, <1>5, <2>1, <2>2 DEF RowClaimed, EventNames
<1>6. CASE RowBeaten(j)
  BY <1>1, <1>6, BeatRowType DEF RowBeaten
<1>7. CASE RowFinished(j)
  <2>1. jobs'[j] \in Row
    BY <1>1, <1>7, FinishedRowType DEF RowFinished
  <2>2. jobs'[j].status # "absent"
    BY <1>1, <1>7 DEF RowFinished, FinishedRow, FinishStatus, Row
  <2> QED
    BY <1>2, <1>7, <2>1, <2>2 DEF RowFinished, EventNames
<1>8. CASE RowStopped(j)
  <2>1. jobs'[j] \in Row
    BY <1>1, <1>8, StoppedRowType DEF RowStopped
  <2>2. jobs'[j].status # "absent"
    BY <1>1, <1>8 DEF RowStopped, StoppedRow, Row
  <2> QED
    BY <1>2, <1>8, <2>1, <2>2 DEF RowStopped, EventNames
<1>9. CASE RowRecovered(j)
  <2>1. jobs'[j] \in Row
    BY <1>1, <1>9, RecoveredRowType DEF RowRecovered
  <2>2. jobs'[j].status # "absent"
    BY <1>1, <1>9 DEF RowRecovered, RecoveredRow, Row
  <2> QED
    BY <1>2, <1>9, <2>1, <2>2 DEF RowRecovered, EventNames
<1> QED
  BY <1>3, <1>4, <1>5, <1>6, <1>7, <1>8, <1>9 DEF RowStep

\* The tables hold only rows and events the code can write, and no attempt or
\* lease runs past its bound, for every size of the tables.
THEOREM KernelTypes == KernelSpec => []TypeOK
<1>1. KernelInit => TypeOK
  BY AbsentRowType, KernelConstants DEF KernelInit, TypeOK
<1>2. TypeOK /\ [KernelNext]_kernelVars => TypeOK'
  <2> SUFFICES ASSUME TypeOK, [KernelNext]_kernelVars
               PROVE  TypeOK'
    OBVIOUS
  <2>1. Shape /\ \A j \in JobIds : jobs'[j] \in Row /\ log'[j] \in Seq(Event)
    BY StepOfRows, RowStepType
  <2> QED
    BY <2>1 DEF Shape, TypeOK
<1> QED
  BY <1>1, <1>2, PTL DEF KernelSpec

-----------------------------------------------------------------------------
(* Leases and outcomes: each property says the same of every row. *)

RowConsistent(r) ==
    /\ r.status \in HeldStatuses <=> r.owner # NoWorker
    /\ r.status \in HeldStatuses <=> r.lease # NoLease
    /\ r.stamped <=> r.status \in TERMINAL_STATUSES
    /\ r.status \notin TERMINAL_STATUSES => r.result = "null" /\ r.error = "null"
    /\ r.status = "completed" => r.error # "value" /\ r.progress = FullProgress
    /\ r.status = "failed" => r.error = "value"

RowsConsistent == \A j \in JobIds : RowConsistent(jobs[j])

LEMMA ConsistentRows == RowsConsistent <=> LeaseIffHeld /\ OutcomeIsConsistent
BY DEF RowsConsistent, RowConsistent, LeaseIffHeld, OutcomeIsConsistent, Held

\* A row step keeps a row consistent: a lease is written with running and
\* cleared with every status that ends it, and a result or an error is written
\* only together with a terminal status.
LEMMA RowStepConsistent ==
    ASSUME TypeOK, NEW j \in JobIds, RowStep(j), RowConsistent(jobs[j])
    PROVE  RowConsistent(jobs'[j])
<1> USE DEF RowConsistent, HeldStatuses, TERMINAL_STATUSES
<1>1. jobs[j] \in Row /\ now \in 0..MaxTime
  BY DEF TypeOK
<1>2. NoWorker \notin Workers /\ FullProgress \in Nat /\ BeatLease \in Nat
      /\ MinLease \in Nat /\ MaxLease \in Nat
  BY KernelConstants
<1>3. CASE RowKept(j)
  BY <1>3 DEF RowKept
<1>4. CASE RowCreated(j)
  BY <1>4 DEF RowCreated, NewRow, AbsentRow
<1>5. CASE RowClaimed(j)
  <2>1. PICK w \in Workers, seconds \in Nat :
               jobs'[j] = ClaimedRow(jobs[j], w, seconds)
    BY <1>5 DEF RowClaimed
  <2>2. now + Clamp(seconds, MinLease, MaxLease) # NoLease
    BY <1>1, <1>2 DEF Clamp, NoLease
  <2>3. /\ jobs'[j].status = "running" /\ jobs'[j].owner = w
        /\ jobs'[j].lease = now + Clamp(seconds, MinLease, MaxLease)
        /\ jobs'[j].stamped = jobs[j].stamped
        /\ jobs'[j].result = jobs[j].result /\ jobs'[j].error = jobs[j].error
    BY <1>1, <2>1 DEF ClaimedRow, Row
  <2>4. jobs[j].status = "queued"
    BY <1>5 DEF RowClaimed, Claimable
  <2> QED
    BY <1>2, <2>2, <2>3, <2>4
<1>6. CASE RowBeaten(j)
  <2>1. PICK p \in Int : jobs'[j] = BeatRow(jobs[j], p)
    BY <1>6 DEF RowBeaten
  <2>2. now + BeatLease # NoLease
    BY <1>1, <1>2 DEF NoLease
  <2> QED
    BY <1>1, <1>6, <2>1, <2>2 DEF RowBeaten, BeatRow, Held, Row
<1>7. CASE RowFinished(j)
  BY <1>1, <1>7 DEF RowFinished, FinishedRow, FinishStatus, Held, Row
<1>8. CASE RowStopped(j)
  BY <1>1, <1>8 DEF RowStopped, StoppedRow, Stoppable, Row
<1>9. CASE RowRecovered(j)
  BY <1>1, <1>9 DEF RowRecovered, RecoveredRow, Held, Row
<1> QED
  BY <1>3, <1>4, <1>5, <1>6, <1>7, <1>8, <1>9 DEF RowStep

\* No lease survives the status it belongs to, and no held row lacks one.
THEOREM KernelLeases == KernelSpec => []LeaseIffHeld
<1>1. KernelInit => RowsConsistent
  BY DEF KernelInit, RowsConsistent, RowConsistent, AbsentRow, HeldStatuses,
         TERMINAL_STATUSES
<1>2. TypeOK /\ RowsConsistent /\ [KernelNext]_kernelVars => RowsConsistent'
  BY StepOfRows, RowStepConsistent DEF RowsConsistent
<1>3. RowsConsistent => LeaseIffHeld
  BY ConsistentRows
<1> QED
  BY <1>1, <1>2, <1>3, KernelTypes, PTL DEF KernelSpec

\* A stored result or error is the settled outcome's.
THEOREM KernelOutcomes == KernelSpec => []OutcomeIsConsistent
<1>1. KernelInit => RowsConsistent
  BY DEF KernelInit, RowsConsistent, RowConsistent, AbsentRow, HeldStatuses,
         TERMINAL_STATUSES
<1>2. TypeOK /\ RowsConsistent /\ [KernelNext]_kernelVars => RowsConsistent'
  BY StepOfRows, RowStepConsistent DEF RowsConsistent
<1>3. RowsConsistent => OutcomeIsConsistent
  BY ConsistentRows
<1> QED
  BY <1>1, <1>2, <1>3, KernelTypes, PTL DEF KernelSpec

-----------------------------------------------------------------------------
(* The audit trail. *)

\* Appending an event makes it the last one and keeps the others.
LEMMA AppendEvent ==
    ASSUME NEW trail \in Seq(Event), NEW e \in Event
    PROVE  /\ Append(trail, e) # <<>>
           /\ Append(trail, e)[Len(Append(trail, e))] = e
           /\ \A name \in EventNames :
                  (\E i \in 1..Len(Append(trail, e)) : Append(trail, e)[i].name = name)
                  => e.name = name \/ \E i \in 1..Len(trail) : trail[i].name = name
OBVIOUS

HasEvent(trail, name) == \E i \in 1..Len(trail) : trail[i].name = name

RowTrail(r, trail) ==
    /\ trail = <<>> <=> r.status = "absent"
    /\ trail # <<>> => trail[Len(trail)].status = r.status
    /\ HasEvent(trail, "cancel_requested") => r.status \in {"cancel_requested", "cancelled"}

RowTrails == \A j \in JobIds : RowTrail(jobs[j], log[j])

\* A row update and its event keep the trail truthful.
LEMMA AppendedTrail ==
    ASSUME TypeOK, NEW j \in JobIds, NEW name \in EventNames, Appended(j, name),
           jobs'[j] \in Row, jobs'[j].status # "absent",
           name = "cancel_requested" \/ HasEvent(log[j], "cancel_requested")
               => jobs'[j].status \in {"cancel_requested", "cancelled"}
    PROVE  RowTrail(jobs'[j], log'[j])
<1> DEFINE e == [name |-> name, status |-> jobs'[j].status]
<1>1. e \in Event
  BY DEF Row, Event
<1>2. log[j] \in Seq(Event) /\ log'[j] = Append(log[j], e)
  BY DEF TypeOK, Appended, Logged
<1>3. e.name = name /\ e.status = jobs'[j].status
  OBVIOUS
<1> HIDE DEF e
<1>4. /\ log'[j] # <<>>
      /\ log'[j][Len(log'[j])] = e
      /\ HasEvent(log'[j], "cancel_requested")
         => e.name = "cancel_requested" \/ HasEvent(log[j], "cancel_requested")
  BY <1>1, <1>2, AppendEvent DEF HasEvent, EventNames
<1> QED
  BY <1>3, <1>4 DEF RowTrail

LEMMA RowStepTrail ==
    ASSUME TypeOK, NEW j \in JobIds, RowStep(j), RowTrail(jobs[j], log[j])
    PROVE  RowTrail(jobs'[j], log'[j])
<1>1. jobs[j] \in Row /\ jobs'[j] \in Row
  BY RowStepType DEF TypeOK
<1>2. HasEvent(log[j], "cancel_requested")
          => jobs[j].status \in {"cancel_requested", "cancelled"}
  BY DEF RowTrail
<1>3. CASE RowKept(j)
  BY <1>3 DEF RowKept
<1>4. CASE RowCreated(j)
  <2>1. jobs'[j].status = "queued" /\ jobs[j].status = "absent"
    BY <1>4 DEF RowCreated, NewRow, AbsentRow, Present
  <2> QED
    BY <1>1, <1>2, <1>4, <2>1, AppendedTrail DEF RowCreated, EventNames
<1>5. CASE RowClaimed(j)
  <2>1. jobs'[j].status = "running" /\ jobs[j].status = "queued"
    BY <1>1, <1>5 DEF RowClaimed, ClaimedRow, Claimable, Row
  <2>2. ~HasEvent(log[j], "cancel_requested")
    BY <1>2, <2>1
  <2>3. Appended(j, "job_claimed") /\ "job_claimed" \in EventNames
    BY <1>5 DEF RowClaimed, EventNames
  <2> QED
    BY <1>1, <2>1, <2>2, <2>3, AppendedTrail
<1>6. CASE RowBeaten(j)
  <2>1. jobs'[j].status = jobs[j].status
    BY <1>1, <1>6 DEF RowBeaten, BeatRow, Row
  <2> QED
    BY <1>6, <2>1 DEF RowBeaten, RowTrail
<1>7. CASE RowFinished(j)
  <2>1. \/ jobs[j].status = "cancel_requested" /\ jobs'[j].status = "cancelled"
        \/ jobs[j].status = "running" /\ jobs'[j].status \in {"completed", "failed"}
    BY <1>1, <1>7 DEF RowFinished, FinishedRow, FinishStatus, Held, HeldStatuses, Row
  <2>2. PICK name \in {"job_completed", "job_failed", "job_cancelled"} :
            Appended(j, name)
    BY <1>7 DEF RowFinished
  <2> QED
    BY <1>1, <1>2, <2>1, <2>2, AppendedTrail DEF EventNames
<1>8. CASE RowStopped(j)
  <2>1. jobs'[j].status \in {"cancel_requested", "cancelled"}
    BY <1>1, <1>8 DEF RowStopped, StoppedRow, Row
  <2> QED
    BY <1>1, <1>8, <2>1, AppendedTrail DEF RowStopped, EventNames
<1>9. CASE RowRecovered(j)
  <2>1. \/ jobs[j].status = "cancel_requested" /\ jobs'[j].status = "cancelled"
        \/ jobs[j].status = "running" /\ jobs'[j].status = "queued"
    BY <1>1, <1>9 DEF RowRecovered, RecoveredRow, Held, HeldStatuses, Row
  <2> QED
    BY <1>1, <1>2, <1>9, <2>1, AppendedTrail DEF RowRecovered, EventNames
<1> QED
  BY <1>3, <1>4, <1>5, <1>6, <1>7, <1>8, <1>9 DEF RowStep

LEMMA TrailsInitially == KernelInit => RowTrails
BY DEF KernelInit, RowTrails, RowTrail, HasEvent, AbsentRow

LEMMA TrailsInductive == TypeOK /\ RowTrails /\ [KernelNext]_kernelVars => RowTrails'
BY StepOfRows, RowStepTrail DEF RowTrails

\* The last event of a job reports the status of its row.
THEOREM KernelTrail == KernelSpec => []TrailEndsAtStatus
<1>1. RowTrails => TrailEndsAtStatus
  BY DEF RowTrails, RowTrail, TrailEndsAtStatus, Present
<1> QED
  BY <1>1, TrailsInitially, TrailsInductive, KernelTypes, PTL DEF KernelSpec

\* A job whose cancellation was recorded can only be stopping or cancelled.
THEOREM KernelCancel == KernelSpec => []CancelPrevails
<1>1. RowTrails => CancelPrevails
  BY DEF RowTrails, RowTrail, HasEvent, CancelPrevails
<1> QED
  BY <1>1, TrailsInitially, TrailsInductive, KernelTypes, PTL DEF KernelSpec

-----------------------------------------------------------------------------
(* Claims and recoveries. *)

Positions(trail, name) == {i \in 1..Len(trail) : trail[i].name = name}

\* Claims and recoveries of a row alternate, beginning with a claim; while the
\* row is queued every claim has been taken back.
RowClaims(r, trail) ==
    /\ Cardinality(Positions(trail, "job_claimed")) = r.attempt
    /\ \A a, b \in Positions(trail, "job_claimed") :
           a < b => \E c \in Positions(trail, "job_recovered") : a < c /\ c < b
    /\ r.status = "queued" =>
           \A a \in Positions(trail, "job_claimed") :
               \E c \in Positions(trail, "job_recovered") : a < c

RowsClaims == \A j \in JobIds : RowClaims(jobs[j], log[j])

\* An event adds its own position, the last one, to those of its name.
LEMMA AppendedPositions ==
    ASSUME NEW trail \in Seq(Event), NEW e \in Event, NEW n
    PROVE  /\ e.name = n => Positions(Append(trail, e), n)
                               = Positions(trail, n) \cup {Len(trail) + 1}
           /\ e.name # n => Positions(Append(trail, e), n) = Positions(trail, n)
<1>1. Len(Append(trail, e)) = Len(trail) + 1 /\ Len(trail) \in Nat
  OBVIOUS
<1>2. \A i \in 1..Len(trail) : Append(trail, e)[i] = trail[i]
  OBVIOUS
<1>3. Append(trail, e)[Len(trail) + 1] = e
  OBVIOUS
<1>4. 1..(Len(trail) + 1) = (1..Len(trail)) \cup {Len(trail) + 1}
  BY <1>1
<1> QED
  BY <1>1, <1>2, <1>3, <1>4 DEF Positions

\* The positions of a trail are finitely many, and the next one is none of them.
LEMMA PositionsFinite ==
    ASSUME NEW trail \in Seq(Event), NEW name
    PROVE  /\ IsFiniteSet(Positions(trail, name))
           /\ \A i \in Positions(trail, name) : i \in Nat /\ i < Len(trail) + 1
           /\ Cardinality(Positions(trail, name)) \in Nat
<1>1. Len(trail) \in Nat
  OBVIOUS
<1>2. IsFiniteSet(1..Len(trail))
  BY <1>1, FS_Interval
<1>3. Positions(trail, name) \in SUBSET (1..Len(trail))
  BY DEF Positions
<1>4. IsFiniteSet(Positions(trail, name))
  BY <1>2, <1>3, FS_Subset
<1> QED
  BY <1>1, <1>3, <1>4, FS_CardinalityType

\* An event that is no claim leaves the claims as they are, and a recovery is
\* behind all of them.
LEMMA OtherEventClaims ==
    ASSUME TypeOK, NEW j \in JobIds, RowClaims(jobs[j], log[j]),
           NEW name \in EventNames \ {"job_claimed"}, Appended(j, name),
           jobs'[j] \in Row, jobs'[j].status # "absent",
           jobs'[j].attempt = jobs[j].attempt,
           jobs'[j].status = "queued" => name = "job_recovered" \/ jobs[j].status = "queued"
                                         \/ jobs[j].attempt = 0
    PROVE  RowClaims(jobs'[j], log'[j])
<1> DEFINE e == [name |-> name, status |-> jobs'[j].status]
<1>1. e \in Event /\ e.name = name
  BY DEF Row, Event
<1>2. log[j] \in Seq(Event) /\ log'[j] = Append(log[j], e) /\ Len(log[j]) \in Nat
  BY DEF TypeOK, Appended, Logged
<1> HIDE DEF e
<1>3. Positions(log'[j], "job_claimed") = Positions(log[j], "job_claimed")
  BY <1>1, <1>2, AppendedPositions
<1>4. /\ Positions(log[j], "job_recovered") \subseteq Positions(log'[j], "job_recovered")
      /\ name = "job_recovered" => Len(log[j]) + 1 \in Positions(log'[j], "job_recovered")
  <2>1. CASE name = "job_recovered"
    <3>1. Positions(Append(log[j], e), "job_recovered")
          = Positions(log[j], "job_recovered") \cup {Len(log[j]) + 1}
      <4>1. e \in Event /\ e.name = "job_recovered" /\ log[j] \in Seq(Event)
        BY <1>1, <1>2, <2>1
      <4> QED
        BY <4>1, AppendedPositions
    <3> QED
      BY <1>2, <3>1
  <2>2. CASE name # "job_recovered"
    <3>1. Positions(Append(log[j], e), "job_recovered") = Positions(log[j], "job_recovered")
      BY <1>1, <1>2, <2>2, AppendedPositions
    <3> QED
      BY <1>2, <2>2, <3>1
  <2> QED
    BY <2>1, <2>2
<1>5. Cardinality(Positions(log'[j], "job_claimed")) = jobs'[j].attempt
  BY <1>3 DEF RowClaims
<1>6. \A a, b \in Positions(log'[j], "job_claimed") :
          a < b => \E c \in Positions(log'[j], "job_recovered") : a < c /\ c < b
  BY <1>3, <1>4 DEF RowClaims
<1>7. ASSUME jobs'[j].status = "queued", NEW a \in Positions(log[j], "job_claimed")
      PROVE  \E c \in Positions(log'[j], "job_recovered") : a < c
  <2>1. CASE name = "job_recovered"
    BY <1>2, <1>4, <2>1, PositionsFinite
  <2>2. CASE jobs[j].status = "queued"
    BY <1>4, <2>2 DEF RowClaims
  <2>3. CASE jobs[j].attempt = 0
    <3>1. IsFiniteSet(Positions(log[j], "job_claimed"))
          /\ Cardinality(Positions(log[j], "job_claimed")) = 0
      BY <1>2, <2>3, PositionsFinite DEF RowClaims
    <3> QED
      BY <1>7, <3>1, FS_EmptySet
  <2> QED
    BY <1>7, <2>1, <2>2, <2>3
<1> QED
  BY <1>3, <1>5, <1>6, <1>7 DEF RowClaims

\* A claim is one attempt more, and behind the recovery of every earlier one.
LEMMA ClaimEventClaims ==
    ASSUME TypeOK, NEW j \in JobIds, RowClaims(jobs[j], log[j]),
           Appended(j, "job_claimed"), jobs[j].status = "queued",
           jobs'[j].status = "running", jobs'[j].attempt = jobs[j].attempt + 1
    PROVE  RowClaims(jobs'[j], log'[j])
<1> DEFINE e == [name |-> "job_claimed", status |-> jobs'[j].status]
<1> DEFINE last == Len(log[j]) + 1
<1> DEFINE C == Positions(log[j], "job_claimed")
<1>1. e \in Event /\ e.name = "job_claimed"
  BY DEF Event, EventNames, ACTIVE_STATUSES
<1>2. log[j] \in Seq(Event) /\ log'[j] = Append(log[j], e)
  BY DEF TypeOK, Appended, Logged
<1> HIDE DEF e
<1>3. Positions(log'[j], "job_claimed") = C \cup {last}
  BY <1>1, <1>2, AppendedPositions
<1>4. Positions(log'[j], "job_recovered") = Positions(log[j], "job_recovered")
  BY <1>1, <1>2, AppendedPositions
<1>5. /\ IsFiniteSet(C)
      /\ \A i \in C : i \in Nat /\ i < last
      /\ \A i \in Positions(log[j], "job_recovered") : i \in Nat /\ i < last
      /\ last \in Nat
  BY <1>2, PositionsFinite
<1> HIDE DEF last, C
<1>6. last \notin C
  BY <1>5
<1>7. Cardinality(C \cup {last}) = Cardinality(C) + 1
  BY <1>5, <1>6, FS_AddElement
<1>8. Cardinality(C) = jobs[j].attempt
  BY DEF RowClaims, C
<1>9. ASSUME NEW a \in C \cup {last}, NEW b \in C \cup {last}, a < b
      PROVE  \E c \in Positions(log[j], "job_recovered") : a < c /\ c < b
  <2>1. a \in C
    BY <1>5, <1>9
  <2>2. CASE b \in C
    BY <1>9, <2>1, <2>2 DEF RowClaims, C
  <2>3. CASE b = last
    BY <1>5, <2>1, <2>3 DEF RowClaims, C
  <2> QED
    BY <1>9, <2>2, <2>3
<1> QED
  BY <1>3, <1>4, <1>7, <1>8, <1>9 DEF RowClaims

\* A row step keeps the claims of a row in order.
LEMMA RowStepClaims ==
    ASSUME TypeOK, NEW j \in JobIds, RowStep(j), RowTrail(jobs[j], log[j]),
           RowClaims(jobs[j], log[j])
    PROVE  RowClaims(jobs'[j], log'[j])
<1>1. jobs[j] \in Row /\ jobs'[j] \in Row /\ log[j] \in Seq(Event)
  BY RowStepType DEF TypeOK
<1>2. CASE RowKept(j)
  BY <1>2 DEF RowKept
<1>3. CASE RowCreated(j)
  <2>1. jobs'[j].status = "queued" /\ jobs'[j].attempt = 0 /\ log[j] = <<>>
    BY <1>3 DEF RowCreated, NewRow, AbsentRow, Present, RowTrail
  <2>2. Positions(log[j], "job_claimed") = {}
    BY <2>1 DEF Positions
  <2>3. jobs[j].attempt = 0
    BY <2>2, FS_EmptySet DEF RowClaims
  <2> QED
    BY <1>1, <1>3, <2>1, <2>3, OtherEventClaims DEF RowCreated, EventNames
<1>4. CASE RowClaimed(j)
  <2>1. /\ jobs'[j].status = "running" /\ jobs[j].status = "queued"
        /\ jobs'[j].attempt = jobs[j].attempt + 1
    BY <1>1, <1>4 DEF RowClaimed, ClaimedRow, Claimable, Row
  <2> QED
    BY <1>4, <2>1, ClaimEventClaims DEF RowClaimed
<1>5. CASE RowBeaten(j)
  <2>1. jobs'[j].status = jobs[j].status /\ jobs'[j].attempt = jobs[j].attempt
    BY <1>1, <1>5 DEF RowBeaten, BeatRow, Row
  <2> QED
    BY <1>5, <2>1 DEF RowBeaten, RowClaims
<1>6. CASE RowFinished(j)
  <2>1. /\ jobs'[j].status \in {"completed", "failed", "cancelled"}
        /\ jobs'[j].attempt = jobs[j].attempt
    BY <1>1, <1>6 DEF RowFinished, FinishedRow, FinishStatus, Row
  <2>2. PICK name \in {"job_completed", "job_failed", "job_cancelled"} : Appended(j, name)
    BY <1>6 DEF RowFinished
  <2> QED
    BY <1>1, <2>1, <2>2, OtherEventClaims DEF EventNames
<1>7. CASE RowStopped(j)
  <2>1. /\ jobs'[j].status \in {"cancel_requested", "cancelled"}
        /\ jobs'[j].attempt = jobs[j].attempt
    BY <1>1, <1>7 DEF RowStopped, StoppedRow, Row
  <2> QED
    BY <1>1, <1>7, <2>1, OtherEventClaims DEF RowStopped, EventNames
<1>8. CASE RowRecovered(j)
  <2>1. /\ jobs'[j].status \in {"queued", "cancelled"}
        /\ jobs'[j].attempt = jobs[j].attempt
    BY <1>1, <1>8 DEF RowRecovered, RecoveredRow, Row
  <2> QED
    BY <1>1, <1>8, <2>1, OtherEventClaims DEF RowRecovered, EventNames
<1> QED
  BY <1>2, <1>3, <1>4, <1>5, <1>6, <1>7, <1>8 DEF RowStep

\* Between two claims of a job there is a recovery, and the attempts of a row
\* are the claims in its trail: claim_job never takes a job from its holder.
THEOREM KernelReclaims == KernelSpec => []ReclaimNeedsRecovery
<1>1. KernelInit => RowsClaims
  <2> SUFFICES ASSUME KernelInit, NEW j \in JobIds PROVE RowClaims(jobs[j], log[j])
    BY DEF RowsClaims
  <2>1. log[j] = <<>> /\ jobs[j].attempt = 0
    BY DEF KernelInit, AbsentRow
  <2>2. Positions(log[j], "job_claimed") = {}
    BY <2>1 DEF Positions
  <2> QED
    BY <2>1, <2>2, FS_EmptySet DEF RowClaims
<1>2. TypeOK /\ RowTrails /\ RowsClaims /\ [KernelNext]_kernelVars => RowsClaims'
  BY StepOfRows, RowStepClaims DEF RowsClaims, RowTrails
<1>3. RowsClaims => ReclaimNeedsRecovery
  BY DEF RowsClaims, RowClaims, Positions, ReclaimNeedsRecovery
<1> QED
  BY <1>1, <1>2, <1>3, TrailsInitially, TrailsInductive, KernelTypes, PTL DEF KernelSpec

-----------------------------------------------------------------------------
(* What no step may do. *)

\* No operation touches a settled row: each asks for a status that is not.
THEOREM KernelSettled == KernelSpec => SettledIsFinal
<1>1. TypeOK /\ [KernelNext]_kernelVars
      => [\A j \in JobIds : jobs[j].status \in TERMINAL_STATUSES
              => jobs'[j] = jobs[j] /\ log'[j] = log[j]]_kernelVars
  <2> SUFFICES ASSUME TypeOK, [KernelNext]_kernelVars, NEW j \in JobIds,
                      jobs[j].status \in TERMINAL_STATUSES
               PROVE  jobs'[j] = jobs[j] /\ log'[j] = log[j]
    OBVIOUS
  <2>1. RowStep(j)
    BY StepOfRows
  <2> QED
    BY <2>1 DEF RowStep, RowKept, RowCreated, RowClaimed, RowBeaten, RowFinished,
       RowStopped, RowRecovered, Present, Claimable, Held, Stoppable,
       TERMINAL_STATUSES, HeldStatuses
<1> QED
  BY <1>1, KernelTypes, PTL DEF KernelSpec, SettledIsFinal

-----------------------------------------------------------------------------
(* Idempotency keys. *)

SameIdentity(j) ==
    /\ jobs'[j].type = jobs[j].type /\ jobs'[j].matter = jobs[j].matter
    /\ jobs'[j].key = jobs[j].key
    /\ Present(j)' = Present(j)

\* Nothing but create_job makes a job exist or gives it a key.
LEMMA IdentityKept ==
    ASSUME TypeOK, NEW j \in JobIds, RowStep(j), ~RowCreated(j)
    PROVE  SameIdentity(j)
<1> USE DEF SameIdentity, Present
<1>1. jobs[j] \in Row
  BY DEF TypeOK
<1>2. CASE RowKept(j)
  BY <1>2 DEF RowKept
<1>3. CASE RowClaimed(j)
  BY <1>1, <1>3 DEF RowClaimed, ClaimedRow, Claimable, Row
<1>4. CASE RowBeaten(j)
  BY <1>1, <1>4 DEF RowBeaten, BeatRow, Row
<1>5. CASE RowFinished(j)
  <2>1. jobs[j].status # "absent"
    BY <1>5 DEF RowFinished, Held, HeldStatuses
  <2> QED
    BY <1>1, <1>5, <2>1 DEF RowFinished, FinishedRow, FinishStatus, Row
<1>6. CASE RowStopped(j)
  BY <1>1, <1>6 DEF RowStopped, StoppedRow, Stoppable, Row
<1>7. CASE RowRecovered(j)
  BY <1>1, <1>7 DEF RowRecovered, RecoveredRow, Held, HeldStatuses, Row
<1> QED
  BY <1>2, <1>3, <1>4, <1>5, <1>6, <1>7 DEF RowStep

\* An idempotency key names one job of a type and matter.
THEOREM KernelKeys == KernelSpec => []KeyNamesOneJob
<1>1. KernelInit => KeyNamesOneJob
  BY DEF KernelInit, KeyNamesOneJob, Present, AbsentRow
<1>2. TypeOK /\ KeyNamesOneJob /\ [KernelNext]_kernelVars => KeyNamesOneJob'
  <2> SUFFICES ASSUME TypeOK, KeyNamesOneJob, [KernelNext]_kernelVars
               PROVE  KeyNamesOneJob'
    OBVIOUS
  <2>1. Shape /\ \A j \in JobIds : RowStep(j)
    BY StepOfRows
  <2>2. ASSUME NEW n \in JobIds, NEW t \in Types, NEW m \in Matters,
               NEW k \in Keys \cup {NoKey}, CreateJob(n, t, m, k)
        PROVE  KeyNamesOneJob'
    <3>1. \A j \in JobIds \ {n} : jobs'[j] = jobs[j]
      BY <2>2 DEF CreateJob, TypeOK
    <3>2. jobs'[n].type = t /\ jobs'[n].matter = m /\ jobs'[n].key = k
      BY <2>2 DEF CreateJob, NewRow, AbsentRow, TypeOK
    <3>3. \A j \in JobIds : Present(j) /\ k # NoKey =>
              ~(jobs[j].type = t /\ jobs[j].matter = m /\ jobs[j].key = k)
      BY <2>2 DEF CreateJob, Existing
    <3> QED
      BY <3>1, <3>2, <3>3 DEF KeyNamesOneJob, Present
  <2>3. CASE \A j \in JobIds : ~RowCreated(j)
    <3>1. \A j \in JobIds : SameIdentity(j)
      BY <2>1, <2>3, IdentityKept
    <3> QED
      BY <3>1 DEF SameIdentity, KeyNamesOneJob, Present
  <2>4. CASE \E j \in JobIds : RowCreated(j)
    <3>1. PICK j \in JobIds : RowCreated(j)
      BY <2>4
    <3>2. ~Present(j) /\ Present(j)'
      BY <3>1 DEF RowCreated, Present, NewRow, AbsentRow
    <3>3. ~UNCHANGED jobs
      BY <3>2 DEF Present
    <3>4. ~(\E i \in JobIds, w \in Workers, seconds \in 0..(MaxLease + 1) :
                ClaimJob(i, w, seconds))
      BY <3>2 DEF ClaimJob, Claimable, Present, TypeOK
    <3>5. ~(\E i \in JobIds, w \in Workers, p \in -1..(FullProgress + 1) :
                Heartbeat(i, w, p))
      BY <3>2 DEF Heartbeat, Owns, Held, HeldStatuses, Present, TypeOK
    <3>6. ~(\E i \in JobIds, w \in Workers, result \in Payloads, error \in Payloads :
                FinishJob(i, w, result, error))
      BY <3>2 DEF FinishJob, Owns, Held, HeldStatuses, Present, TypeOK
    <3>7. ~(\E i \in JobIds : RequestCancel(i))
      BY <3>2 DEF RequestCancel, Stoppable, Present, TypeOK
    <3>8. ~(\E S \in SUBSET JobIds : RecoverExpired(S))
      BY <3>2 DEF RecoverExpired, MayExpire, Held, HeldStatuses, Present, TypeOK
    <3> QED
      BY <2>2, <3>3, <3>4, <3>5, <3>6, <3>7, <3>8 DEF KernelNext, Tick, kernelVars
  <2> QED
    BY <2>3, <2>4
<1> QED
  BY <1>1, <1>2, KernelTypes, PTL DEF KernelSpec

\* Rows, outcomes, keys and audit trail account for each other.
THEOREM KernelAccounts == KernelSpec => []RowsAreAccountable
BY KernelKeys, KernelOutcomes, KernelTrail, PTL DEF RowsAreAccountable

-----------------------------------------------------------------------------
(* The kernel implements its abstract specification. *)

\* A step of the kernel is a step of the lifecycle, or changes none of what
\* the lifecycle sees (a heartbeat, a tick, a recovery that finds nothing).
LEMMA LifecycleStep ==
    ASSUME TypeOK, LeaseIffHeld, [KernelNext]_kernelVars
    PROVE  [Lifecycle!Next]_(Lifecycle!vars)
<1> USE DEF Lifecycle!vars, ACTIVE_STATUSES, HeldStatuses
<1>1. ASSUME NEW i \in JobIds, NEW t \in Types, NEW m \in Matters,
             NEW k \in Keys \cup {NoKey}, CreateJob(i, t, m, k)
      PROVE  Lifecycle!Open(i)
  <2>1. jobs[i].status = "absent"
    BY <1>1 DEF CreateJob, NextId, Present, JobIds
  <2>2. jobs'[i].status = "queued" /\ jobs'[i].owner = NoWorker
    BY <1>1 DEF CreateJob, NewRow, AbsentRow, TypeOK
  <2>3. jobs[i].owner = NoWorker
    BY <2>1 DEF LeaseIffHeld, Held
  <2>4. \A j \in JobIds \ {i} : jobs'[j] = jobs[j]
    BY <1>1 DEF CreateJob, TypeOK
  <2> QED
    BY <2>1, <2>2, <2>3, <2>4 DEF Lifecycle!Open
<1>2. ASSUME NEW i \in JobIds, NEW w \in Workers, NEW seconds \in Nat,
             ClaimJob(i, w, seconds)
      PROVE  Lifecycle!Grant(i, w)
  <2>1. jobs[i].status = "queued" /\ jobs[i].owner = NoWorker
    BY <1>2 DEF ClaimJob, Claimable, LeaseIffHeld, Held
  <2>2. jobs'[i].status = "running" /\ jobs'[i].owner = w
    BY <1>2 DEF ClaimJob, ClaimedRow, TypeOK, Row
  <2>3. \A j \in JobIds \ {i} : jobs'[j] = jobs[j]
    BY <1>2 DEF ClaimJob, TypeOK
  <2> QED
    BY <2>1, <2>2, <2>3 DEF Lifecycle!Grant
<1>3. ASSUME NEW i \in JobIds, NEW w \in Workers, NEW p \in Int, Heartbeat(i, w, p)
      PROVE  UNCHANGED Lifecycle!vars
  <2>1. jobs'[i].status = jobs[i].status /\ jobs'[i].owner = jobs[i].owner
    BY <1>3 DEF Heartbeat, BeatRow, TypeOK, Row
  <2>2. \A j \in JobIds \ {i} : jobs'[j] = jobs[j]
    BY <1>3 DEF Heartbeat, TypeOK
  <2> QED
    BY <2>1, <2>2
<1>4. ASSUME NEW i \in JobIds, NEW w \in Workers, NEW result \in Payloads,
             NEW error \in Payloads, FinishJob(i, w, result, error)
      PROVE  \E o \in Lifecycle!Outcomes : Lifecycle!Settle(i, w, o)
  <2>1. jobs[i].status \in HeldStatuses /\ jobs[i].owner = w
    BY <1>4 DEF FinishJob, Owns, Held
  <2>2. /\ jobs'[i].status = FinishStatus(jobs[i], error)
        /\ jobs'[i].owner = NoWorker
    BY <1>4 DEF FinishJob, FinishedRow, TypeOK, Row
  <2>3. /\ jobs'[i].status \in {"completed", "failed", "cancelled"}
        /\ jobs[i].status = "cancel_requested" <=> jobs'[i].status = "cancelled"
    BY <2>1, <2>2 DEF FinishStatus
  <2>4. \A j \in JobIds \ {i} : jobs'[j] = jobs[j]
    BY <1>4 DEF FinishJob, TypeOK
  <2>5. PICK o \in Lifecycle!Outcomes : o = jobs'[i].status
    BY <2>3 DEF Lifecycle!Outcomes
  <2>6. Lifecycle!Settle(i, w, o)
    BY <2>1, <2>2, <2>3, <2>4, <2>5 DEF Lifecycle!Settle
  <2> QED
    BY <2>6
<1>5. ASSUME NEW i \in JobIds, RequestCancel(i)
      PROVE  Lifecycle!Ask(i)
  <2>1. \/ /\ jobs[i].status = "queued" /\ jobs[i].owner = NoWorker
           /\ jobs'[i].status = "cancelled"
        \/ /\ jobs[i].status = "running" /\ jobs[i].owner # NoWorker
           /\ jobs'[i].status = "cancel_requested"
    <3>1. \/ jobs[i].status = "queued" /\ jobs[i].owner = NoWorker
          \/ jobs[i].status = "running" /\ jobs[i].owner # NoWorker
      BY <1>5 DEF RequestCancel, Stoppable, LeaseIffHeld, Held
    <3>2. jobs'[i].status = IF jobs[i].status = "queued" THEN "cancelled"
                                                         ELSE "cancel_requested"
      BY <1>5 DEF RequestCancel, StoppedRow, TypeOK, Row
    <3> QED
      BY <3>1, <3>2
  <2>2. jobs'[i].owner = jobs[i].owner
    BY <1>5 DEF RequestCancel, StoppedRow, TypeOK, Row
  <2>3. \A j \in JobIds \ {i} : jobs'[j] = jobs[j]
    BY <1>5 DEF RequestCancel, TypeOK
  <2> QED
    BY <2>1, <2>2, <2>3 DEF Lifecycle!Ask
<1>6. ASSUME NEW S \in SUBSET JobIds, RecoverExpired(S)
      PROVE  Lifecycle!Reap(S)
  <2>1. \A j \in S : /\ jobs[j].status \in HeldStatuses /\ jobs[j].owner # NoWorker
                     /\ jobs'[j] = RecoveredRow(jobs[j])
    BY <1>6 DEF RecoverExpired, MayExpire, LeaseIffHeld, Held
  <2>2. ASSUME NEW j \in S
        PROVE  /\ jobs'[j].owner = NoWorker
               /\ jobs'[j].status = IF jobs[j].status = "cancel_requested"
                                    THEN "cancelled" ELSE "queued"
    <3>1. jobs[j] \in Row /\ jobs'[j] = RecoveredRow(jobs[j])
      BY <2>1 DEF TypeOK
    <3> QED
      BY <3>1 DEF RecoveredRow, Row
  <2>3. \A j \in JobIds \ S : jobs'[j] = jobs[j]
    BY <1>6 DEF RecoverExpired
  <2> QED
    BY <2>1, <2>2, <2>3 DEF Lifecycle!Reap
<1>7. CASE Tick \/ UNCHANGED kernelVars
  BY <1>7 DEF Tick, kernelVars
<1>8. 0..(MaxLease + 1) \subseteq Nat /\ -1..(FullProgress + 1) \subseteq Int
  OBVIOUS
<1> QED
  BY <1>1, <1>2, <1>3, <1>4, <1>5, <1>6, <1>7, <1>8 DEF KernelNext, Lifecycle!Next

\* Whatever the callers do, the kernel's behaviours are behaviours of
\* JobLifecycle: one holder, one outcome, settled by the holder, and cancelled
\* once a cancellation was accepted.
THEOREM KernelRefinesLifecycle == KernelSpec => ImplementsLifecycle
<1>1. KernelInit => Lifecycle!Init
  BY DEF KernelInit, Lifecycle!Init, AbsentRow, ACTIVE_STATUSES
<1>2. TypeOK /\ LeaseIffHeld /\ [KernelNext]_kernelVars
      => [Lifecycle!Next]_(Lifecycle!vars)
  BY LifecycleStep
<1> QED
  BY <1>1, <1>2, KernelTypes, KernelLeases, PTL
  DEF KernelSpec, ImplementsLifecycle, Lifecycle!Spec
=============================================================================
