-------------------------- MODULE KernelClientProofs --------------------------
(***************************************************************************)
(* Theorems about the two clients of the durable job kernel, the OCR runs  *)
(* of api.py and the batches of background inference, for any number of    *)
(* matters, jobs, threads, pages, batches and items.  Each client is shown *)
(* to be a behaviour of the kernel, and its own properties rest on what    *)
(* JobKernelProofs says of a step of a row.                                *)
(***************************************************************************)
EXTENDS OcrJobs, BatchScheduler, JobKernelProofs, WellFoundedInduction

-----------------------------------------------------------------------------
(* OCR runs: the accounts of threads, rows and progress records. *)

Used(w) == thr[w].pc # "unused"
JobStatus(w) == jobs[thr[w].job].status
WasRecovered(j) == HasEvent(log[j], "job_recovered")

Sayings == {"none"} \cup RunStatuses \cup ACTIVE_STATUSES \cup TERMINAL_STATUSES
RecordSayings == RunStatuses \cup ACTIVE_STATUSES \cup TERMINAL_STATUSES

\* A thread works for an OCR job that exists, its matter has a progress record,
\* and a cancellation that the kernel heard of holds there.
Unheard(w) == "unheard" \in thr[w].cancelled

LinkedInv(w) ==
    Used(w) =>
        /\ Present(thr[w].job) /\ jobs[thr[w].job].type = "local_ocr"
        /\ thr[w].pc \in Live => ocr[thr[w].matter] # NoProgress
        /\ "heard" \in thr[w].cancelled => JobStatus(w) \notin {"queued", "running"}

\* What a thread is about to report is what became of its run or of its job.
SaysInv(w) ==
    /\ thr[w].pc \in {"write", "summary"} => thr[w].says \in {"completed", "cancelled"}
    /\ thr[w].pc \in {"result", "finish"} => thr[w].says \in RunStatuses
    /\ thr[w].pc \in {"write", "summary", "result", "finish"} /\ thr[w].says = "cancelled"
       => JobStatus(w) \notin {"queued", "running"} \/ Unheard(w)
    /\ thr[w].pc = "reread" /\ JobStatus(w) = "queued" => WasRecovered(thr[w].job)
    /\ thr[w].pc = "report" =>
           /\ thr[w].says \in (ACTIVE_STATUSES \cup TERMINAL_STATUSES) \ {"running"}
           /\ thr[w].says \in TERMINAL_STATUSES => JobStatus(w) = thr[w].says
           /\ thr[w].says = "queued" => WasRecovered(thr[w].job)

\* The owner of a row is a thread that claimed it and has not returned.
OwnInv(j) ==
    \A w \in Workers :
        jobs[j].owner = w =>
            /\ thr[w].job = j
            /\ thr[w].pc \notin {"unused", "claim", "reread", "report", "done"}

\* A completed job has the thread that completed it.
Completer(w, j) ==
    /\ At(w, "done") /\ thr[w].job = j
    /\ thr[w].says \in {"completed", "not_ready"} \/ Unheard(w)

CompletedInv(j) ==
    jobs[j].status = "completed" /\ jobs[j].type = "local_ocr" =>
        \E w \in Workers : Completer(w, j)

\* A progress record belongs to the thread that started with it.
RecordInv(m) ==
    ocr[m] # NoProgress =>
        /\ Used(ocr[m].worker)
        /\ thr[ocr[m].worker].job = ocr[m].job /\ thr[ocr[m].worker].matter = m

\* A record that tells of an end was written by a thread that is past its run,
\* and once that thread has ended its job is settled the same way or cancelled,
\* or completed where the kernel did not hear of the cancellation.
Settled(w) ==
    \/ JobStatus(w) \in {thr[w].says, "cancelled"}
    \/ JobStatus(w) = "completed" /\ Unheard(w)

Earner(w, m) ==
    /\ thr[w].matter = m /\ thr[w].says = ocr[m].status
    /\ \/ thr[w].pc \in {"result", "finish", "fail"}
       \/ thr[w].pc \in {"done", "broken"} /\ Settled(w)

EarnedInv(m) ==
    ocr[m].status \in {"completed", "cancelled"} => \E w \in Workers : Earner(w, m)

\* A record that says "running" has a thread that will write it again, or one
\* that a database error ended as it wrote that; a record that says "queued" has
\* one before its run, one that a database error ended there, or one that found
\* its job recovered.
InRun == {"load", "check", "engine", "write", "summary", "result", "fail"}
BeforeRun == {"claim", "reread", "report", "announce"}

Runner(w, m) ==
    /\ thr[w].matter = m
    /\ \/ thr[w].pc \in InRun
       \/ thr[w].pc = "broken" /\ thr[w].says = "running"

Queuer(w, m) ==
    /\ thr[w].matter = m
    /\ \/ thr[w].pc \in BeforeRun
       \/ thr[w].pc = "broken" /\ thr[w].says = "queued"
       \/ thr[w].pc = "done" /\ thr[w].says = "queued" /\ WasRecovered(thr[w].job)

BusyInv(m) ==
    /\ ocr[m].status = "running" => \E w \in Workers : Runner(w, m)
    /\ ocr[m].status = "queued" => \E w \in Workers : Queuer(w, m)

ThreadsInv ==
    /\ \A w \in Workers : LinkedInv(w) /\ SaysInv(w)
    /\ \A j \in JobIds : OwnInv(j) /\ CompletedInv(j)
    /\ \A m \in Matters : RecordInv(m) /\ EarnedInv(m) /\ BusyInv(m)

OcrInv == OcrTypeOK /\ RowsConsistent /\ ThreadsInv

-----------------------------------------------------------------------------
(* Threads and records by their fields. *)

UsedThread == [pc : Live \cup Ended, matter : Matters, job : JobIds, cancelled : SUBSET Hearings,
               says : Sayings, rows : [Pages -> PageStatuses]]

\* A thread that was started is one with a place, a matter and a job.
LEMMA UsedFields ==
    ASSUME OcrTypeOK, NEW w \in Workers, Used(w)
    PROVE  thr[w] \in UsedThread
<1>1. thr[w] \in Thread
  BY DEF OcrTypeOK
<1>2. thr[w] # NoThread
  BY DEF Used, NoThread
<1> QED
  BY <1>1, <1>2 DEF Thread, UsedThread, Sayings

\* A thread that was not started is told of no cancellation; its place and its
\* matter are typed all the same.
LEMMA UnusedFields ==
    ASSUME OcrTypeOK, NEW w \in Workers, ~Used(w)
    PROVE  thr[w] = NoThread
<1>1. thr[w] \in Thread
  BY DEF OcrTypeOK
<1>2. \A t \in Thread \ {NoThread} : t.pc \in Live \cup Ended
  BY DEF Thread
<1>3. "unused" \notin Live \cup Ended
  BY DEF Live, Ended
<1> QED
  BY <1>1, <1>2, <1>3 DEF Used

\* A thread at a place of the code was started.
LEMMA PlacesAreUsed ==
    ASSUME NEW w \in Workers, thr[w].pc \in Live \cup Ended
    PROVE  Used(w)
BY DEF Used, Live, Ended

\* A thread that was not started has no event set and nothing to say.
LEMMA NoThreadFields ==
    /\ NoThread.pc = "unused" /\ NoThread.cancelled = {} /\ NoThread.says = "none"
    /\ NoThread.matter \in Matters /\ NoThread.rows \in [Pages -> PageStatuses]
<1>1. (CHOOSE m \in Matters : TRUE) \in Matters
  BY KernelConstants
<1> QED
  BY <1>1 DEF NoThread, NotRun, PageStatuses

\* Every worker id has a matter, that of no thread an arbitrary one.
LEMMA ThreadMatter ==
    ASSUME OcrTypeOK, NEW w \in Workers
    PROVE  thr[w].matter \in Matters
<1>1. CASE Used(w)
  BY <1>1, UsedFields DEF UsedThread
<1>2. CASE ~Used(w)
  BY <1>2, UnusedFields, NoThreadFields
<1> QED
  BY <1>1, <1>2

\* A record with another status is a record.
LEMMA RecordFields ==
    ASSUME OcrTypeOK, NEW m \in Matters, ocr[m] # NoProgress
    PROVE  /\ ocr[m] \in [status : RecordSayings, job : JobIds, worker : Workers]
           /\ ocr[m].worker \in Workers /\ ocr[m].job \in JobIds
BY DEF OcrTypeOK, Progress, RecordSayings

\* A record of a run is not the record of none.
LEMMA RecordIsNot ==
    ASSUME NEW r \in [status : RecordSayings, job : JobIds, worker : Workers]
    PROVE  r # NoProgress
BY KernelConstants DEF NoProgress

-----------------------------------------------------------------------------
(* What a step does to a row, as the threads see it. *)

RowMoves(j) ==
    /\ Present(j) => /\ Present(j)'
                     /\ jobs'[j].type = jobs[j].type /\ jobs'[j].matter = jobs[j].matter
    /\ jobs[j].status \in TERMINAL_STATUSES => jobs'[j].status = jobs[j].status
    /\ Present(j) /\ jobs[j].status \notin {"queued", "running"}
       => jobs'[j].status \notin {"queued", "running"}
    /\ WasRecovered(j) => WasRecovered(j)'
    /\ Present(j) /\ jobs'[j].status = "queued" => jobs[j].status = "queued" \/ WasRecovered(j)'

\* An appended event keeps the others.
LEMMA AppendedKeeps ==
    ASSUME NEW trail \in Seq(Event), NEW e \in Event, NEW n
    PROVE  /\ HasEvent(trail, n) => HasEvent(Append(trail, e), n)
           /\ e.name = n => HasEvent(Append(trail, e), n)
<1>1. Len(Append(trail, e)) = Len(trail) + 1 /\ Len(trail) \in Nat
  OBVIOUS
<1>2. \A i \in 1..Len(trail) : Append(trail, e)[i] = trail[i]
  OBVIOUS
<1>3. Append(trail, e)[Len(trail) + 1] = e
  OBVIOUS
<1>4. \A i \in 1..Len(trail) : i \in 1..(Len(trail) + 1)
  BY <1>1
<1>5. Len(trail) + 1 \in 1..(Len(trail) + 1)
  BY <1>1
<1> QED
  BY <1>1, <1>2, <1>3, <1>4, <1>5 DEF HasEvent

\* Every operation of the kernel moves a row so.
LEMMA RowStepMoves ==
    ASSUME TypeOK, NEW j \in JobIds, RowStep(j)
    PROVE  RowMoves(j)
<1> USE DEF TERMINAL_STATUSES, HeldStatuses, Present
<1>1. jobs[j] \in Row /\ jobs'[j] \in Row /\ log[j] \in Seq(Event)
  BY RowStepType DEF TypeOK
<1>2. ASSUME NEW name \in EventNames, Appended(j, name), jobs'[j].status # "absent"
      PROVE  /\ WasRecovered(j) => WasRecovered(j)'
             /\ name = "job_recovered" => WasRecovered(j)'
  <2> DEFINE e == [name |-> name, status |-> jobs'[j].status]
  <2>1. e \in Event /\ e.name = name
    BY <1>1, <1>2 DEF Row, Event
  <2>2. log'[j] = Append(log[j], e)
    BY <1>2 DEF Appended, Logged
  <2> HIDE DEF e
  <2>3. HasEvent(log[j], "job_recovered") => HasEvent(log'[j], "job_recovered")
    BY <1>1, <2>1, <2>2, AppendedKeeps
  <2>4. name = "job_recovered" => HasEvent(log'[j], "job_recovered")
    <3>1. HAVE name = "job_recovered"
    <3>2. e.name = "job_recovered"
      BY <2>1, <3>1
    <3> QED
      BY <1>1, <2>1, <2>2, <3>2, AppendedKeeps
  <2> QED
    BY <2>3, <2>4 DEF WasRecovered
<1>3. CASE RowKept(j)
  BY <1>3 DEF RowKept, RowMoves, WasRecovered
<1>4. CASE RowCreated(j)
  <2>1. jobs'[j].status = "queued" /\ jobs[j].status = "absent"
    BY <1>4 DEF RowCreated, NewRow, AbsentRow
  <2>2. WasRecovered(j) => WasRecovered(j)'
    BY <1>2, <1>4, <2>1 DEF RowCreated, EventNames
  <2> QED
    BY <2>1, <2>2 DEF RowMoves
<1>5. CASE RowClaimed(j)
  <2>1. /\ jobs'[j].status = "running" /\ jobs[j].status = "queued"
        /\ jobs'[j].type = jobs[j].type /\ jobs'[j].matter = jobs[j].matter
    BY <1>1, <1>5 DEF RowClaimed, ClaimedRow, Claimable, Row
  <2>2. WasRecovered(j) => WasRecovered(j)'
    BY <1>2, <1>5, <2>1 DEF RowClaimed, EventNames
  <2> QED
    BY <2>1, <2>2 DEF RowMoves
<1>6. CASE RowBeaten(j)
  <2>1. /\ jobs'[j].status = jobs[j].status /\ log'[j] = log[j]
        /\ jobs'[j].type = jobs[j].type /\ jobs'[j].matter = jobs[j].matter
    BY <1>1, <1>6 DEF RowBeaten, BeatRow, Row
  <2> QED
    BY <2>1 DEF RowMoves, WasRecovered
<1>7. CASE RowFinished(j)
  <2>1. /\ jobs'[j].status \in {"completed", "failed", "cancelled"}
        /\ jobs[j].status \in {"running", "cancel_requested"}
        /\ jobs'[j].type = jobs[j].type /\ jobs'[j].matter = jobs[j].matter
    BY <1>1, <1>7 DEF RowFinished, FinishedRow, FinishStatus, Row, Held
  <2>2. WasRecovered(j) => WasRecovered(j)'
    BY <1>2, <1>7, <2>1 DEF RowFinished, EventNames
  <2> QED
    BY <2>1, <2>2 DEF RowMoves
<1>8. CASE RowStopped(j)
  <2>1. /\ jobs'[j].status \in {"cancel_requested", "cancelled"}
        /\ jobs[j].status \in {"queued", "running"}
        /\ jobs'[j].type = jobs[j].type /\ jobs'[j].matter = jobs[j].matter
    BY <1>1, <1>8 DEF RowStopped, StoppedRow, Stoppable, Row
  <2>2. WasRecovered(j) => WasRecovered(j)'
    BY <1>2, <1>8, <2>1 DEF RowStopped, EventNames
  <2> QED
    BY <2>1, <2>2 DEF RowMoves
<1>9. CASE RowRecovered(j)
  <2>1. /\ jobs'[j].status \in {"queued", "cancelled"}
        /\ jobs[j].status \in {"running", "cancel_requested"}
        /\ jobs[j].status = "cancel_requested" => jobs'[j].status = "cancelled"
        /\ jobs'[j].type = jobs[j].type /\ jobs'[j].matter = jobs[j].matter
    BY <1>1, <1>9 DEF RowRecovered, RecoveredRow, Held, Row
  <2>2. WasRecovered(j)'
    BY <1>2, <1>9, <2>1 DEF RowRecovered, EventNames
  <2> QED
    BY <2>1, <2>2 DEF RowMoves
<1> QED
  BY <1>3, <1>4, <1>5, <1>6, <1>7, <1>8, <1>9 DEF RowStep

\* No thread comes to own a row, and none is completed.
Quiet ==
    \A j \in JobIds :
        /\ jobs'[j].owner \in {jobs[j].owner, NoWorker}
        /\ jobs'[j].status = "completed" => jobs[j].status = "completed"

\* Threads see the rows as they were.
RowsLike ==
    \A j \in JobIds :
        /\ jobs'[j].owner = jobs[j].owner /\ jobs'[j].status = jobs[j].status
        /\ jobs'[j].type = jobs[j].type /\ jobs'[j].matter = jobs[j].matter
        /\ log'[j] = log[j]

\* Rows that look the same have no new owner and no new outcome.
LEMMA LikeIsQuiet == RowsLike => Quiet
BY DEF RowsLike, Quiet

\* A step outside of the kernel leaves the rows as they are.
LEMMA KeptIsLike == UNCHANGED kernelVars => RowsLike
BY DEF RowsLike, kernelVars

\* A heartbeat changes the progress and the lease, which threads do not read.
LEMMA BeatIsLike ==
    ASSUME TypeOK, NEW j \in JobIds, NEW w, NEW p, Heartbeat(j, w, p)
    PROVE  RowsLike
<1>1. jobs[j] \in Row
  BY DEF TypeOK
<1>2. jobs' = [jobs EXCEPT ![j] = BeatRow(jobs[j], p)] /\ log' = log
  BY DEF Heartbeat
<1>3. \A i \in JobIds : jobs'[i] = IF i = j THEN BeatRow(jobs[j], p) ELSE jobs[i]
  BY <1>2 DEF TypeOK
<1>4. /\ BeatRow(jobs[j], p).owner = jobs[j].owner
      /\ BeatRow(jobs[j], p).status = jobs[j].status
      /\ BeatRow(jobs[j], p).type = jobs[j].type
      /\ BeatRow(jobs[j], p).matter = jobs[j].matter
  BY <1>1 DEF BeatRow, Row
<1> QED
  BY <1>2, <1>3, <1>4 DEF RowsLike

\* A cancellation settles a queued row and stops a running one, and gives none away.
LEMMA StopIsQuiet ==
    ASSUME TypeOK, NEW j \in JobIds, RequestCancel(j)
    PROVE  Quiet /\ jobs'[j].status \in {"cancel_requested", "cancelled"}
<1>1. jobs[j] \in Row
  BY DEF TypeOK
<1>2. \A i \in JobIds : jobs'[i] = IF i = j THEN StoppedRow(jobs[j]) ELSE jobs[i]
  BY DEF RequestCancel, TypeOK
<1>3. /\ StoppedRow(jobs[j]).owner = jobs[j].owner
      /\ StoppedRow(jobs[j]).status \in {"cancel_requested", "cancelled"}
  BY <1>1 DEF StoppedRow, Row
<1> QED
  BY <1>2, <1>3 DEF Quiet

\* A created row is queued and its id was not in use; the others stay.
LEMMA CreateIsQuiet ==
    ASSUME TypeOK, NEW j \in JobIds, NEW t, NEW m, NEW k, CreateJob(j, t, m, k)
    PROVE  /\ Quiet
           /\ jobs'[j].status = "queued" /\ jobs'[j].type = t /\ jobs'[j].matter = m
           /\ \A i \in JobIds : i # j => jobs'[i] = jobs[i]
           /\ ~Present(j)
<1>1. \A i \in JobIds : jobs'[i] = IF i = j THEN NewRow(t, m, k) ELSE jobs[i]
  BY DEF CreateJob, TypeOK
<1>2. /\ NewRow(t, m, k).owner = NoWorker /\ NewRow(t, m, k).status = "queued"
      /\ NewRow(t, m, k).type = t /\ NewRow(t, m, k).matter = m
  BY DEF NewRow, AbsentRow
<1>3. ~Present(j)
  BY DEF CreateJob, NextId, JobIds
<1> QED
  BY <1>1, <1>2, <1>3 DEF Quiet

\* Recovery takes owners away, and completes nothing.
LEMMA RecoverIsQuiet ==
    ASSUME TypeOK, NEW S \in SUBSET JobIds, RecoverExpired(S)
    PROVE  Quiet
<1>1. \A j \in JobIds : jobs'[j] = IF j \in S THEN RecoveredRow(jobs[j]) ELSE jobs[j]
  BY DEF RecoverExpired
<1>2. ASSUME NEW j \in JobIds
      PROVE  /\ RecoveredRow(jobs[j]).owner = NoWorker
             /\ RecoveredRow(jobs[j]).status \in {"queued", "cancelled"}
  <2>1. jobs[j] \in Row
    BY DEF TypeOK
  <2> QED
    BY <2>1 DEF RecoveredRow, Row
<1> QED
  BY <1>1, <1>2 DEF Quiet

\* A claim takes one queued row for its worker.
LEMMA ClaimTakes ==
    ASSUME TypeOK, NEW j \in JobIds, NEW w, NEW s, ClaimJob(j, w, s)
    PROVE  /\ jobs'[j].owner = w
           /\ \A i \in JobIds : i # j => jobs'[i] = jobs[i]
           /\ \A i \in JobIds : jobs'[i].status = "completed" => jobs[i].status = "completed"
<1>1. jobs[j] \in Row
  BY DEF TypeOK
<1>2. \A i \in JobIds : jobs'[i] = IF i = j THEN ClaimedRow(jobs[j], w, s) ELSE jobs[i]
  BY DEF ClaimJob, TypeOK
<1>3. ClaimedRow(jobs[j], w, s).owner = w /\ ClaimedRow(jobs[j], w, s).status = "running"
  BY <1>1 DEF ClaimedRow, Row
<1> QED
  BY <1>2, <1>3

\* A finished row has no owner, and is cancelled if it was asked to stop.
LEMMA FinishReleases ==
    ASSUME TypeOK, NEW j \in JobIds, NEW w, NEW r \in Payloads, NEW e \in Payloads,
           FinishJob(j, w, r, e)
    PROVE  /\ jobs[j].status \in {"running", "cancel_requested"}
           /\ jobs[j].status = "cancel_requested" => jobs'[j].status = "cancelled"
           /\ jobs[j].status = "running" /\ e = "value" => jobs'[j].status = "failed"
           /\ jobs[j].status = "running" /\ e # "value" => jobs'[j].status = "completed"
           /\ jobs'[j].owner = NoWorker
           /\ \A i \in JobIds : i # j => jobs'[i] = jobs[i]
<1>1. jobs[j] \in Row
  BY DEF TypeOK
<1>2. \A i \in JobIds : jobs'[i] = IF i = j THEN FinishedRow(jobs[j], r, e) ELSE jobs[i]
  BY DEF FinishJob, TypeOK
<1>3. jobs[j].status \in {"running", "cancel_requested"}
  BY DEF FinishJob, Owns, Held, HeldStatuses
<1>4. /\ FinishedRow(jobs[j], r, e).owner = NoWorker
      /\ FinishedRow(jobs[j], r, e).status = FinishStatus(jobs[j], e)
  BY <1>1 DEF FinishedRow, Row
<1> QED
  BY <1>2, <1>3, <1>4 DEF FinishStatus

-----------------------------------------------------------------------------
(* What a step of a thread does to the threads and the records. *)

\* The thread goes to a place with something to say; nobody else moves.
StepIs(w, p, s) ==
    /\ thr' \in [Workers -> Thread]
    /\ \A v \in Workers : v # w => thr'[v] = thr[v]
    /\ thr'[w].pc = p /\ thr'[w].says = s
    /\ thr'[w].matter = thr[w].matter /\ thr'[w].job = thr[w].job
    /\ thr'[w].cancelled = thr[w].cancelled

\* The record of the thread's matter says s.
Reported(w, s) ==
    /\ ocr' \in [Matters -> Progress]
    /\ \A m \in Matters : m # thr[w].matter => ocr'[m] = ocr[m]
    /\ ocr'[thr[w].matter] # NoProgress
    /\ ocr'[thr[w].matter].status = s
    /\ ocr'[thr[w].matter].job = ocr[thr[w].matter].job
    /\ ocr'[thr[w].matter].worker = ocr[thr[w].matter].worker

\* Steps that neither report nor change the kernel.
Walks(w) ==
    /\ RowsLike /\ ocr' = ocr
    /\ \/ At(w, "claim") /\ StepIs(w, "reread", thr[w].says) /\ JobStatus(w) # "queued"
       \/ At(w, "reread") /\ StepIs(w, "announce", thr[w].says)
       \/ At(w, "reread") /\ StepIs(w, "report", JobStatus(w)) /\ JobStatus(w) # "running"
       \/ At(w, "load") /\ StepIs(w, "result", "not_ready")
       \/ At(w, "load") /\ StepIs(w, "check", thr[w].says)
       \/ /\ thr[w].pc \in {"check", "engine"} /\ StepIs(w, "write", "cancelled")
          /\ CancellationRequested(w)
       \/ At(w, "check") /\ StepIs(w, "write", "completed")
       \/ At(w, "engine") /\ StepIs(w, "check", thr[w].says)
       \/ At(w, "write") /\ StepIs(w, "summary", thr[w].says)
       \/ /\ thr[w].pc \in {"finish", "load", "check", "engine", "write", "summary", "result"}
          /\ StepIs(w, "fail", thr[w].says)
       \/ thr[w].pc \in {"claim", "reread"} /\ StepIs(w, "broken", "queued")
       \/ At(w, "failfinish") /\ StepIs(w, "broken", "failed")
       \/ /\ At(w, "failfinish") /\ StepIs(w, "done", thr[w].says)
          /\ ~Owns(thr[w].job, w)

\* Steps that report, with or without a heartbeat.
Reports(w) ==
    /\ RowsLike
    /\ \/ At(w, "report") /\ StepIs(w, "done", thr[w].says) /\ Reported(w, thr[w].says)
       \/ At(w, "announce") /\ StepIs(w, "load", thr[w].says) /\ Reported(w, "running")
       \/ At(w, "check") /\ StepIs(w, "engine", thr[w].says) /\ Reported(w, "running")
       \/ At(w, "engine") /\ StepIs(w, "check", thr[w].says) /\ Reported(w, "running")
       \/ At(w, "summary") /\ StepIs(w, "result", thr[w].says) /\ Reported(w, thr[w].says)
       \/ At(w, "result") /\ StepIs(w, "finish", thr[w].says) /\ Reported(w, thr[w].says)
       \/ At(w, "fail") /\ StepIs(w, "failfinish", thr[w].says) /\ Reported(w, "failed")
       \/ /\ thr[w].pc \in {"check", "engine"} /\ StepIs(w, "fail", thr[w].says)
          /\ Reported(w, "running")
       \/ /\ thr[w].pc \in {"summary", "result"} /\ StepIs(w, "fail", thr[w].says)
          /\ Reported(w, thr[w].says)
       \/ At(w, "report") /\ StepIs(w, "broken", thr[w].says) /\ Reported(w, thr[w].says)
       \/ At(w, "announce") /\ StepIs(w, "broken", "running") /\ Reported(w, "running")
       \/ At(w, "fail") /\ StepIs(w, "broken", "failed") /\ Reported(w, "failed")

Claims(w) ==
    /\ At(w, "claim") /\ StepIs(w, "announce", thr[w].says) /\ ocr' = ocr
    /\ ClaimJob(thr[w].job, w, ClaimLease)

Finishes(w) ==
    /\ At(w, "finish") /\ StepIs(w, "done", thr[w].says) /\ ocr' = ocr
    /\ FinishJob(thr[w].job, w, "value", "null")

FinishesFailed(w) ==
    /\ At(w, "failfinish") /\ StepIs(w, "done", thr[w].says) /\ ocr' = ocr
    /\ FinishJob(thr[w].job, w, "null", "value")

\* A thread's record with another place, saying and copy is a thread's record.
LEMMA ThreadSet ==
    ASSUME OcrTypeOK, NEW w \in Workers, Used(w),
           NEW p \in Live \cup Ended, NEW s \in Sayings, NEW r \in [Pages -> PageStatuses],
           thr' = [thr EXCEPT ![w] = [thr[w] EXCEPT !.pc = p, !.says = s, !.rows = r]]
    PROVE  StepIs(w, p, s)
<1>1. thr[w] \in UsedThread
  BY UsedFields
<1> DEFINE t == [thr[w] EXCEPT !.pc = p, !.says = s, !.rows = r]
<1>2. /\ t.pc = p /\ t.says = s
      /\ t.matter = thr[w].matter /\ t.job = thr[w].job /\ t.cancelled = thr[w].cancelled
  BY <1>1 DEF UsedThread
<1>3. t \in UsedThread
  BY <1>1 DEF UsedThread
<1>4. t \in Thread
  BY <1>3 DEF UsedThread, Thread, Sayings
<1>5. thr \in [Workers -> Thread] /\ thr' = [thr EXCEPT ![w] = t]
  BY DEF OcrTypeOK
<1> HIDE DEF t
<1>6. thr' \in [Workers -> Thread] /\ thr'[w] = t /\ \A v \in Workers : v # w => thr'[v] = thr[v]
  BY <1>4, <1>5
<1> QED
  BY <1>2, <1>6 DEF StepIs

\* A step that only moves a thread leaves what it says.
LEMMA GotoIs ==
    ASSUME OcrTypeOK, NEW w \in Workers, Used(w), NEW p \in Live \cup Ended, Goto(w, p)
    PROVE  StepIs(w, p, thr[w].says)
<1>1. thr[w] \in UsedThread
  BY UsedFields
<1>2. thr' = [thr EXCEPT ![w] = [thr[w] EXCEPT !.pc = p, !.says = thr[w].says,
                                               !.rows = thr[w].rows]]
  BY <1>1 DEF UsedThread, Goto, OcrTypeOK
<1> QED
  BY <1>1, <1>2, ThreadSet DEF UsedThread

\* A step that moves a thread and tells it what to say.
LEMMA GotoSayingIs ==
    ASSUME OcrTypeOK, NEW w \in Workers, Used(w), NEW p \in Live \cup Ended,
           NEW s \in Sayings, GotoSaying(w, p, s)
    PROVE  StepIs(w, p, s)
<1>1. thr[w] \in UsedThread
  BY UsedFields
<1>2. thr' = [thr EXCEPT ![w] = [thr[w] EXCEPT !.pc = p, !.says = s,
                                               !.rows = thr[w].rows]]
  BY <1>1 DEF UsedThread, GotoSaying, OcrTypeOK
<1> QED
  BY <1>1, <1>2, ThreadSet DEF UsedThread

\* A report reaches the record of the matter, whoever's it is.
LEMMA ReportIs ==
    ASSUME OcrTypeOK, NEW w \in Workers, Used(w), ocr[thr[w].matter] # NoProgress,
           NEW s \in RecordSayings
    PROVE  /\ Tell(w, s) => Reported(w, s)
           /\ UpdateProgress(w, s) => RowsLike /\ Reported(w, s)
<1> DEFINE m == thr[w].matter
<1>1. m \in Matters /\ thr[w].job \in JobIds
  BY UsedFields DEF UsedThread
<1> HIDE DEF m
<1>2. ocr[m] \in [status : RecordSayings, job : JobIds, worker : Workers]
  BY <1>1, RecordFields DEF m
<1> DEFINE r == [ocr[m] EXCEPT !.status = s]
<1>3. /\ r \in [status : RecordSayings, job : JobIds, worker : Workers]
      /\ r.status = s /\ r.job = ocr[m].job /\ r.worker = ocr[m].worker
  BY <1>2
<1>4. r \in Progress /\ r # NoProgress
  BY <1>3, RecordIsNot DEF Progress, RecordSayings
<1>5. Tell(w, s) => ocr' = [ocr EXCEPT ![m] = r] /\ ocr \in [Matters -> Progress]
  BY DEF Tell, OcrTypeOK, m
<1> HIDE DEF r
<1>6. Tell(w, s) => /\ ocr' \in [Matters -> Progress] /\ ocr'[m] = r
                    /\ \A n \in Matters : n # m => ocr'[n] = ocr[n]
  BY <1>1, <1>4, <1>5
<1>7. Tell(w, s) => Reported(w, s)
  BY <1>3, <1>4, <1>6 DEF Reported, m
<1>8. UpdateProgress(w, s) => RowsLike /\ Tell(w, s)
  BY <1>1, BeatIsLike, KeptIsLike DEF UpdateProgress, OcrTypeOK
<1> QED
  BY <1>7, <1>8

\* Every step of a thread is one of these.
LEMMA ThreadSteps ==
    ASSUME OcrTypeOK, NEW w \in Workers, LinkedInv(w), SaysInv(w), ThreadStep(w)
    PROVE  Walks(w) \/ Reports(w) \/ Claims(w) \/ Finishes(w) \/ FinishesFailed(w)
<1>1. thr[w].pc \in Live
  BY DEF ThreadStep, ThreadClaim, Reread, Report, Announce, Load, Check, PageFails,
         PageReturns, Write, Summary, Result, Finish, Raise, Fail, FailFinish, RunErrs,
         ThreadErrs, At, Live
<1>2. Used(w) /\ thr[w] \in UsedThread /\ ocr[thr[w].matter] # NoProgress /\ Present(thr[w].job)
  BY <1>1, PlacesAreUsed, UsedFields DEF LinkedInv
<1>3. jobs[thr[w].job] \in Row
  BY <1>2 DEF UsedThread, OcrTypeOK, TypeOK
<1>4. JobStatus(w) \in ACTIVE_STATUSES \cup TERMINAL_STATUSES
  BY <1>2, <1>3 DEF Row, Present, JobStatus
<1>5. \A p \in Live \cup Ended : Goto(w, p) => StepIs(w, p, thr[w].says)
  BY <1>2, GotoIs
<1>6. \A p \in Live \cup Ended, s \in Sayings : GotoSaying(w, p, s) => StepIs(w, p, s)
  BY <1>2, GotoSayingIs
<1>7. \A s \in RecordSayings : /\ UpdateProgress(w, s) => RowsLike /\ Reported(w, s)
                               /\ Tell(w, s) => Reported(w, s)
  BY <1>2, ReportIs
<1>8. UNCHANGED kernelVars => RowsLike
  BY KeptIsLike
<1>9. /\ {"running", "failed", "completed", "cancelled"} \subseteq RecordSayings
      /\ RunStatuses \subseteq RecordSayings
      /\ ACTIVE_STATUSES \cup TERMINAL_STATUSES \subseteq RecordSayings
      /\ RecordSayings \subseteq Sayings /\ "not_ready" \in Sayings
  BY DEF RecordSayings, Sayings, RunStatuses, ACTIVE_STATUSES, TERMINAL_STATUSES
<1>10. \A p \in {"claim", "reread", "report", "announce", "load", "check", "engine", "write",
                 "summary", "result", "finish", "fail", "failfinish", "done", "broken"} :
            p \in Live \cup Ended
  BY DEF Live, Ended
<1>11. CASE ThreadClaim(w)
  BY <1>5, <1>8, <1>10, <1>11 DEF ThreadClaim, Claims, Walks, Claimable, JobStatus
<1>12. CASE Reread(w)
  BY <1>4, <1>5, <1>6, <1>8, <1>9, <1>10, <1>12 DEF Reread, Walks, JobStatus
<1>13. CASE Report(w)
  <2>1. thr[w].says \in RecordSayings
    BY <1>9, <1>13 DEF Report, At, SaysInv
  <2> QED
    BY <1>5, <1>7, <1>10, <1>13, <2>1 DEF Report, Reports
<1>14. CASE Announce(w)
  BY <1>5, <1>7, <1>9, <1>10, <1>14 DEF Announce, Reports
<1>15. CASE Load(w)
  <2>1. CASE GotoSaying(w, "result", "not_ready")
    BY <1>6, <1>8, <1>9, <1>10, <1>15, <2>1 DEF Load, Walks
  <2>2. CASE thr' = [thr EXCEPT ![w].pc = "check", ![w].rows = index[thr[w].matter]]
    <3>1. index[thr[w].matter] \in [Pages -> PageStatuses]
      BY <1>2 DEF UsedThread, OcrTypeOK
    <3>2. thr' = [thr EXCEPT ![w] = [thr[w] EXCEPT !.pc = "check", !.says = thr[w].says,
                                                   !.rows = index[thr[w].matter]]]
      BY <1>2, <2>2 DEF UsedThread, OcrTypeOK
    <3>3. StepIs(w, "check", thr[w].says)
      BY <1>2, <1>10, <3>1, <3>2, ThreadSet DEF UsedThread
    <3> QED
      BY <1>8, <1>15, <3>3 DEF Load, Walks
  <2> QED
    BY <1>15, <2>1, <2>2 DEF Load
<1>16. CASE Check(w)
  BY <1>5, <1>6, <1>7, <1>8, <1>9, <1>10, <1>16 DEF Check, Walks, Reports, At
<1>17. ASSUME NEW p \in Pages, NEW v \in {"ocr_failed", "ocr_completed"},
              thr' = [thr EXCEPT ![w].rows[p] = v, ![w].pc = "check"]
       PROVE  StepIs(w, "check", thr[w].says)
  <2>1. [thr[w].rows EXCEPT ![p] = v] \in [Pages -> PageStatuses]
    BY <1>2 DEF UsedThread, PageStatuses
  <2>2. thr' = [thr EXCEPT ![w] = [thr[w] EXCEPT !.pc = "check", !.says = thr[w].says,
                                                 !.rows = [thr[w].rows EXCEPT ![p] = v]]]
    BY <1>2, <1>17 DEF UsedThread, OcrTypeOK
  <2> QED
    BY <1>2, <1>10, <2>1, <2>2, ThreadSet DEF UsedThread
<1>18. CASE PageFails(w)
  BY <1>8, <1>17, <1>18 DEF PageFails, Walks, Candidates
<1>19. CASE PageReturns(w)
  <2>1. CASE ~StillWanted(w)
    <3>1. StepIs(w, "write", "cancelled")
      BY <1>6, <1>9, <1>10, <1>19, <2>1 DEF PageReturns
    <3> QED
      BY <1>8, <1>19, <2>1, <3>1 DEF PageReturns, StillWanted, Walks, At
  <2>2. CASE StillWanted(w)
    <3>1. StepIs(w, "check", thr[w].says)
      BY <1>17, <1>19, <2>2 DEF PageReturns, Candidates
    <3> QED
      BY <1>7, <1>9, <1>19, <2>2, <3>1 DEF PageReturns, Reports
  <2> QED
    BY <2>1, <2>2
<1>20. CASE Write(w)
  BY <1>5, <1>8, <1>10, <1>20 DEF Write, Walks
<1>21. CASE Summary(w)
  <2>1. thr[w].says \in RecordSayings
    BY <1>9, <1>21 DEF Summary, At, SaysInv
  <2> QED
    BY <1>5, <1>7, <1>10, <1>21, <2>1 DEF Summary, Reports
<1>22. CASE Result(w)
  <2>1. thr[w].says \in RecordSayings
    BY <1>9, <1>22 DEF Result, At, SaysInv
  <2> QED
    BY <1>5, <1>7, <1>10, <1>22, <2>1 DEF Result, Reports
<1>23. CASE Finish(w)
  BY <1>5, <1>8, <1>10, <1>23 DEF Finish, Walks, Finishes, At
<1>24. CASE Raise(w)
  BY <1>5, <1>8, <1>10, <1>24 DEF Raise, Walks, At
<1>25. CASE Fail(w)
  BY <1>5, <1>7, <1>9, <1>10, <1>25 DEF Fail, Reports
<1>26. CASE FailFinish(w)
  BY <1>5, <1>8, <1>10, <1>26 DEF FailFinish, Walks, FinishesFailed
<1>27. CASE RunErrs(w)
  <2>1. RowsLike /\ StepIs(w, "fail", thr[w].says)
    BY <1>5, <1>8, <1>10, <1>27 DEF RunErrs
  <2>2. thr[w].pc \in {"summary", "result"} => thr[w].says \in RecordSayings
    BY <1>9 DEF SaysInv
  <2> QED
    BY <1>7, <1>9, <1>27, <2>1, <2>2 DEF RunErrs, Reports, Walks, At
<1>28. CASE ThreadErrs(w)
  <2>1. RowsLike
    BY <1>8, <1>28 DEF ThreadErrs
  <2>2. At(w, "report") => thr[w].says \in RecordSayings
    BY <1>9 DEF SaysInv, At
  <2>3. {"queued", "running", "failed"} \subseteq RecordSayings
    BY DEF RecordSayings, ACTIVE_STATUSES, TERMINAL_STATUSES
  <2>4. CASE At(w, "claim") \/ At(w, "reread") \/ At(w, "failfinish")
    BY <1>6, <1>9, <1>10, <1>28, <2>1, <2>3, <2>4 DEF ThreadErrs, Walks, At
  <2>5. CASE At(w, "report") \/ At(w, "announce") \/ At(w, "fail")
    BY <1>5, <1>6, <1>7, <1>9, <1>10, <1>28, <2>1, <2>2, <2>3, <2>5 DEF ThreadErrs, Reports, At
  <2> QED
    BY <1>28, <2>4, <2>5 DEF ThreadErrs
<1> QED
  BY <1>11, <1>12, <1>13, <1>14, <1>15, <1>16, <1>18, <1>19, <1>20, <1>21, <1>22, <1>23,
     <1>24, <1>25, <1>26, <1>27, <1>28 DEF ThreadStep

-----------------------------------------------------------------------------
(* A step of the program is a step of the kernel. *)

\* A claim that asks for a lease above the limit is given the limit, like one
\* that asks for a little more than the limit.
LEMMA AnyLeaseIsClamped ==
    ASSUME NEW j \in JobIds, NEW w \in Workers, NEW s \in Nat, ClaimJob(j, w, s)
    PROVE  KernelNext
<1> DEFINE asked == IF s <= MaxLease + 1 THEN s ELSE MaxLease + 1
<1>1. asked \in 0..(MaxLease + 1)
  BY KernelConstants
<1>2. Clamp(asked, MinLease, MaxLease) = Clamp(s, MinLease, MaxLease)
  BY KernelConstants DEF Clamp
<1> HIDE DEF asked
<1>3. ClaimJob(j, w, asked)
  BY <1>2 DEF ClaimJob, ClaimedRow
<1> QED
  BY <1>1, <1>3 DEF KernelNext

\* A thread changes the kernel by one operation or not at all.
LEMMA ThreadUsesTheKernel ==
    ASSUME OcrTypeOK, NEW w \in Workers, ThreadStep(w)
    PROVE  KernelNext \/ UNCHANGED kernelVars
<1>1. thr[w].pc \in Live
  BY DEF ThreadStep, ThreadClaim, Reread, Report, Announce, Load, Check, PageFails,
         PageReturns, Write, Summary, Result, Finish, Raise, Fail, FailFinish, RunErrs,
         ThreadErrs, At, Live
<1>2. thr[w].job \in JobIds
  BY <1>1, PlacesAreUsed, UsedFields DEF UsedThread
<1>3. CASE \E p \in 0..FullProgress : Heartbeat(thr[w].job, w, p)
  <2>1. PICK p \in 0..FullProgress : Heartbeat(thr[w].job, w, p)
    BY <1>3
  <2>2. p \in -1..(FullProgress + 1)
    BY KernelConstants
  <2> QED
    BY <1>2, <2>1, <2>2 DEF KernelNext
<1>4. CASE ClaimJob(thr[w].job, w, ClaimLease)
  BY <1>2, <1>4, AnyLeaseIsClamped, OcrConstants
<1>5. CASE \E r, e \in Payloads : FinishJob(thr[w].job, w, r, e)
  BY <1>2, <1>5 DEF KernelNext
<1>6. "null" \in Payloads /\ "value" \in Payloads
  BY DEF Payloads
<1> QED
  BY <1>3, <1>4, <1>5, <1>6
  DEF ThreadStep, ThreadClaim, Reread, Report, Announce, Load, Check, PageFails, PageReturns,
      Write, Summary, Result, Finish, Raise, Fail, FailFinish, RunErrs, ThreadErrs,
      UpdateProgress

\* So does every step of the program, whoever takes it.
LEMMA OcrStepOfKernel ==
    ASSUME OcrTypeOK, [OcrNext]_ocrVars
    PROVE  [KernelNext]_kernelVars
<1>1. "local_ocr" \in Types /\ NoKey \in Keys \cup {NoKey}
  BY OcrConstants
<1>2. ASSUME NEW S \in SUBSET JobIds, OpenKernel(S) \/ RuntimeRecover(S)
      PROVE  KernelNext
  BY <1>2 DEF OpenKernel, RuntimeRecover, KernelNext
<1>3. ASSUME NEW m \in Matters, Cancel(m)
      PROVE  KernelNext \/ UNCHANGED kernelVars
  <2>1. ocr[m] # NoProgress
    BY <1>3 DEF Cancel, Busy, NoProgress
  <2>2. ocr[m].job \in JobIds
    BY <2>1, RecordFields
  <2> QED
    BY <1>3, <2>2 DEF Cancel, KernelNext
<1>4. ASSUME NEW m \in Matters, OtherWork(m)
      PROVE  KernelNext
  BY <1>1, <1>4 DEF OtherWork, KernelNext
<1>5. ASSUME NEW m \in Matters, NEW w \in Workers, Start(m, w)
      PROVE  KernelNext \/ UNCHANGED kernelVars
  <2>1. PICK j \in JobIds : \/ UNCHANGED kernelVars
                            \/ CreateJob(j, "local_ocr", m, NoKey)
    BY <1>5 DEF Start
  <2> QED
    BY <1>1, <2>1 DEF KernelNext
<1>6. ASSUME NEW j \in JobIds, RuntimeCancel(j)
      PROVE  KernelNext
  BY <1>6 DEF RuntimeCancel, KernelNext
<1>7. ASSUME OcrTick PROVE KernelNext
  BY <1>7 DEF OcrTick, KernelNext
<1>8. ASSUME Crash \/ UNCHANGED ocrVars \/ \E m \in Matters : CancelUnheard(m)
      PROVE  UNCHANGED kernelVars
  BY <1>8 DEF Crash, CancelUnheard, ocrVars, kernelVars
<1> QED
  BY <1>2, <1>3, <1>4, <1>5, <1>6, <1>7, <1>8, ThreadUsesTheKernel DEF OcrNext

\* Hence a step of every row.
LEMMA OcrRows ==
    ASSUME OcrTypeOK, [OcrNext]_ocrVars
    PROVE  Shape /\ \A j \in JobIds : RowStep(j)
BY OcrStepOfKernel, StepOfRows DEF OcrTypeOK

\* What the lemmas on steps take from the kernel.
LEMMA OcrMoves ==
    ASSUME OcrTypeOK, RowsConsistent, [OcrNext]_ocrVars
    PROVE  TypeOK' /\ RowsConsistent' /\ \A j \in JobIds : RowMoves(j)
<1>1. Shape /\ (\A j \in JobIds : RowStep(j)) /\ TypeOK
  BY OcrRows DEF OcrTypeOK
<1>2. TypeOK'
  BY <1>1, RowStepType DEF Shape, TypeOK
<1>3. RowsConsistent'
  BY <1>1, RowStepConsistent DEF RowsConsistent
<1> QED
  BY <1>1, <1>2, <1>3, RowStepMoves

-----------------------------------------------------------------------------
(* Steps that leave a thread, or a record, alone. *)

\* A thread that does not move stays what it is, whatever becomes of the rows.
LEMMA BystanderThread ==
    ASSUME OcrTypeOK, NEW v \in Workers, LinkedInv(v), SaysInv(v), thr'[v] = thr[v],
           \A j \in JobIds : RowMoves(j),
           ocr[thr[v].matter] # NoProgress => ocr'[thr[v].matter] # NoProgress
    PROVE  LinkedInv(v)' /\ SaysInv(v)'
<1>1. CASE Used(v)
  <2>1. RowMoves(thr[v].job)
    BY <1>1, UsedFields DEF UsedThread
  <2>2. LinkedInv(v)'
    BY <1>1, <2>1 DEF LinkedInv, RowMoves, JobStatus, Present, Used
  <2>3. SaysInv(v)'
    BY <1>1, <2>1 DEF LinkedInv, SaysInv, RowMoves, JobStatus, WasRecovered, Unheard
  <2> QED
    BY <2>2, <2>3
<1>2. CASE ~Used(v)
  BY <1>2 DEF Used, LinkedInv, SaysInv
<1> QED
  BY <1>1, <1>2

\* A thread that earned what a record says has still earned it.
LEMMA StillEarned ==
    ASSUME OcrTypeOK, NEW v \in Workers, NEW m \in Matters, Earner(v, m),
           ocr[m].status \in {"completed", "cancelled"}, ocr'[m] = ocr[m],
           thr'[v].pc = thr[v].pc, thr'[v].says = thr[v].says,
           thr'[v].matter = thr[v].matter, thr'[v].job = thr[v].job,
           Unheard(v) => Unheard(v)',
           \A j \in JobIds : RowMoves(j)
    PROVE  Earner(v, m)'
<1>1. Used(v)
  BY DEF Earner, Used
<1>2. RowMoves(thr[v].job)
  BY <1>1, UsedFields DEF UsedThread
<1> QED
  BY <1>2 DEF Earner, Settled, RowMoves, JobStatus, TERMINAL_STATUSES

\* A thread that keeps a record busy keeps it busy while it stands still.
LEMMA StillBusy ==
    ASSUME OcrTypeOK, NEW v \in Workers, NEW m \in Matters,
           thr'[v].pc = thr[v].pc, thr'[v].says = thr[v].says,
           thr'[v].matter = thr[v].matter, thr'[v].job = thr[v].job,
           \A j \in JobIds : RowMoves(j)
    PROVE  (Runner(v, m) => Runner(v, m)') /\ (Queuer(v, m) => Queuer(v, m)')
<1>1. Queuer(v, m) => Used(v)
  BY DEF Queuer, Used, BeforeRun
<1>2. Queuer(v, m) => RowMoves(thr[v].job)
  BY <1>1, UsedFields DEF UsedThread
<1> QED
  BY <1>2 DEF Runner, Queuer, RowMoves, WasRecovered

\* A step that neither moves a thread nor completes or gives away a row.
LEMMA QuietRows ==
    ASSUME OcrTypeOK, NEW j \in JobIds, OwnInv(j), CompletedInv(j), Quiet,
           Present(j) \/ jobs'[j].status # "completed",
           RowMoves(j),
           \A v \in Workers : Used(v) => /\ thr'[v].pc = thr[v].pc /\ thr'[v].job = thr[v].job
                                         /\ thr'[v].says = thr[v].says
                                         /\ Unheard(v) => Unheard(v)'
    PROVE  OwnInv(j)' /\ CompletedInv(j)'
<1>1. OwnInv(j)'
  <2> SUFFICES ASSUME NEW v \in Workers, jobs'[j].owner = v
               PROVE  /\ thr'[v].job = j
                      /\ thr'[v].pc \notin {"unused", "claim", "reread", "report", "done"}
    BY DEF OwnInv
  <2>1. jobs[j].owner = v
    BY KernelConstants DEF Quiet
  <2> QED
    BY <2>1 DEF OwnInv, Used
<1>2. CompletedInv(j)'
  <2> SUFFICES ASSUME jobs'[j].status = "completed", jobs'[j].type = "local_ocr"
               PROVE  \E w \in Workers : Completer(w, j)'
    BY DEF CompletedInv
  <2>1. jobs[j].status = "completed" /\ jobs[j].type = "local_ocr"
    BY DEF Quiet, RowMoves, Present
  <2>2. PICK w \in Workers : Completer(w, j)
    BY <2>1 DEF CompletedInv
  <2> QED
    BY <2>2 DEF Completer, At, Used
<1> QED
  BY <1>1, <1>2

\* Recovery, the job routes, other work and the clock: threads and records stay.
LEMMA BackgroundKeeps ==
    ASSUME OcrTypeOK, ThreadsInv, Quiet, \A j \in JobIds : RowMoves(j), UNCHANGED <<thr, ocr>>
    PROVE  ThreadsInv'
<1>1. ASSUME NEW v \in Workers PROVE LinkedInv(v)' /\ SaysInv(v)'
  BY BystanderThread DEF ThreadsInv
<1>2. ASSUME NEW j \in JobIds PROVE OwnInv(j)' /\ CompletedInv(j)'
  <2>1. Present(j) \/ jobs'[j].status # "completed"
    BY DEF Quiet, Present
  <2> QED
    BY <2>1, QuietRows DEF ThreadsInv, Unheard
<1>3. ASSUME NEW m \in Matters PROVE RecordInv(m)' /\ EarnedInv(m)' /\ BusyInv(m)'
  <2>1. RecordInv(m)'
    BY DEF ThreadsInv, RecordInv, Used
  <2>2. EarnedInv(m)'
    BY StillEarned DEF ThreadsInv, EarnedInv, Unheard
  <2>3. BusyInv(m)'
    BY StillBusy DEF ThreadsInv, BusyInv
  <2> QED
    BY <2>1, <2>2, <2>3
<1> QED
  BY <1>1, <1>2, <1>3 DEF ThreadsInv

-----------------------------------------------------------------------------
(* The routes and the crash. *)

\* Cancelling marks the thread whose event the record holds; the kernel is asked
\* for the job that thread works on, if it is asked.
LEMMA CancelKeeps ==
    ASSUME OcrTypeOK, ThreadsInv, \A j \in JobIds : RowMoves(j),
           NEW m \in Matters, Cancel(m) \/ CancelUnheard(m)
    PROVE  ThreadsInv' /\ thr' \in [Workers -> Thread] /\ ocr' = ocr
<1>1. ocr[m] # NoProgress
  BY DEF Cancel, CancelUnheard, Busy, NoProgress
<1>2. PICK u \in Workers : u = ocr[m].worker /\ ocr[m].job \in JobIds
  BY <1>1, RecordFields
<1>3. Used(u) /\ thr[u].job = ocr[m].job /\ thr[u] \in UsedThread
  BY <1>1, <1>2, UsedFields DEF ThreadsInv, RecordInv
<1>13. PICK h \in Hearings : SetEvent(m, h) /\ (h = "unheard" \/ Cancel(m))
  BY DEF Cancel, CancelUnheard, Hearings
<1> DEFINE t == [thr[u] EXCEPT !.cancelled = thr[u].cancelled \cup {h}]
<1>4. /\ t \in UsedThread /\ t.cancelled = thr[u].cancelled \cup {h}
      /\ t.pc = thr[u].pc /\ t.says = thr[u].says /\ t.matter = thr[u].matter
      /\ t.job = thr[u].job
  BY <1>3 DEF UsedThread
<1>5. thr' = [thr EXCEPT ![u] = t] /\ ocr' = ocr /\ thr \in [Workers -> Thread]
  BY <1>2, <1>13 DEF Cancel, CancelUnheard, SetEvent, OcrTypeOK
<1>6. t \in Thread
  BY <1>4 DEF UsedThread, Thread, Sayings
<1> HIDE DEF t
<1>7. thr' \in [Workers -> Thread] /\ thr'[u] = t /\ \A v \in Workers : v # u => thr'[v] = thr[v]
  BY <1>2, <1>5, <1>6
<1>8. \A v \in Workers : /\ thr'[v].pc = thr[v].pc /\ thr'[v].says = thr[v].says
                         /\ thr'[v].matter = thr[v].matter /\ thr'[v].job = thr[v].job
                         /\ Unheard(v) => Unheard(v)'
  BY <1>4, <1>7 DEF Unheard
<1>9. Quiet /\ (h = "heard" => jobs'[thr[u].job].status \notin {"queued", "running"})
  <2>1. CASE RequestCancel(ocr[m].job)
    BY <1>2, <1>3, <2>1, StopIsQuiet DEF OcrTypeOK
  <2>2. CASE ~Stoppable(ocr[m].job) /\ UNCHANGED kernelVars
    BY <1>3, <2>2, KeptIsLike, LikeIsQuiet DEF kernelVars, Stoppable
  <2>3. CASE h = "unheard" /\ CancelUnheard(m)
    BY <2>3, KeptIsLike, LikeIsQuiet DEF CancelUnheard
  <2> QED
    BY <1>13, <2>1, <2>2, <2>3 DEF Cancel
<1>10. ASSUME NEW v \in Workers PROVE LinkedInv(v)' /\ SaysInv(v)'
  <2>1. CASE v # u
    BY <1>5, <1>7, <2>1, BystanderThread DEF ThreadsInv
  <2>2. CASE v = u
    <3>1. RowMoves(thr[u].job) /\ LinkedInv(u) /\ SaysInv(u)
      BY <1>2, <1>3 DEF UsedThread, ThreadsInv
    <3>2. LinkedInv(u)'
      BY <1>3, <1>4, <1>5, <1>7, <1>9, <3>1 DEF LinkedInv, RowMoves, JobStatus, Used, Present
    <3>3. SaysInv(u)'
      BY <1>3, <1>4, <1>7, <3>1
      DEF LinkedInv, SaysInv, RowMoves, JobStatus, WasRecovered, Unheard
    <3> QED
      BY <2>2, <3>2, <3>3
  <2> QED
    BY <2>1, <2>2
<1>11. ASSUME NEW j \in JobIds PROVE OwnInv(j)' /\ CompletedInv(j)'
  <2>1. Present(j) \/ jobs'[j].status # "completed"
    BY <1>9 DEF Quiet, Present
  <2> QED
    BY <1>8, <1>9, <2>1, QuietRows DEF ThreadsInv
<1>12. ASSUME NEW n \in Matters PROVE RecordInv(n)' /\ EarnedInv(n)' /\ BusyInv(n)'
  <2>1. RecordInv(n)'
    <3>1. ocr[n] # NoProgress => ocr[n].worker \in Workers
      BY RecordFields
    <3> QED
      BY <1>5, <1>8, <3>1 DEF ThreadsInv, RecordInv, Used
  <2>2. EarnedInv(n)'
    BY <1>5, <1>8, StillEarned DEF ThreadsInv, EarnedInv
  <2>3. BusyInv(n)'
    BY <1>5, <1>8, StillBusy DEF ThreadsInv, BusyInv
  <2> QED
    BY <2>1, <2>2, <2>3
<1> QED
  BY <1>5, <1>7, <1>10, <1>11, <1>12 DEF ThreadsInv

\* A start gives its thread a job that is queued or that was found active, and a
\* new progress record.
LEMMA StartKeeps ==
    ASSUME OcrTypeOK, ThreadsInv, \A j \in JobIds : RowMoves(j),
           NEW m \in Matters, NEW w \in Workers, Start(m, w)
    PROVE  /\ ThreadsInv' /\ thr' \in [Workers -> Thread] /\ ocr' \in [Matters -> Progress]
           /\ ~Used(w) /\ thr'[w].pc = "claim" /\ thr'[w].matter = m
           /\ \A v \in Workers : v # w => thr'[v] = thr[v]
<1>1. PICK j \in JobIds :
          /\ \/ j \in Resumable(m) /\ UNCHANGED kernelVars
             \/ CreateJob(j, "local_ocr", m, NoKey)
          /\ ocr' = [ocr EXCEPT ![m] = [status |-> "queued", job |-> j, worker |-> w]]
          /\ thr' = [thr EXCEPT ![w] = [NoThread EXCEPT !.pc = "claim", !.matter = m, !.job = j]]
  BY DEF Start
<1> DEFINE t == [NoThread EXCEPT !.pc = "claim", !.matter = m, !.job = j]
<1> DEFINE r == [status |-> "queued", job |-> j, worker |-> w]
<1>2. /\ t \in UsedThread
      /\ t.pc = "claim" /\ t.matter = m /\ t.job = j /\ t.says = "none" /\ t.cancelled = {}
  <2>1. NoThread.rows \in [Pages -> PageStatuses]
    BY NoThreadFields
  <2> QED
    BY <2>1 DEF NoThread, UsedThread, Live, Sayings
<1>3. r \in [status : RecordSayings, job : JobIds, worker : Workers]
  BY DEF RecordSayings, ACTIVE_STATUSES
<1>4. t \in Thread /\ r \in Progress /\ r # NoProgress
  BY <1>2, <1>3, RecordIsNot DEF UsedThread, Thread, Sayings, Progress, RecordSayings
<1>5. ~Used(w) /\ ~Busy(m)
  BY DEF Start, Used
<1>6. r.status = "queued" /\ r.job = j /\ r.worker = w
  OBVIOUS
<1> HIDE DEF t, r
<1>7. /\ thr' = [thr EXCEPT ![w] = t] /\ ocr' = [ocr EXCEPT ![m] = r]
      /\ thr \in [Workers -> Thread] /\ ocr \in [Matters -> Progress]
  BY <1>1 DEF t, r, OcrTypeOK
<1>8. /\ thr' \in [Workers -> Thread] /\ thr'[w] = t
      /\ \A v \in Workers : v # w => thr'[v] = thr[v]
      /\ ocr' \in [Matters -> Progress] /\ ocr'[m] = r
      /\ \A n \in Matters : n # m => ocr'[n] = ocr[n]
  BY <1>4, <1>7
<1>9. \A v \in Workers : Used(v) => v # w /\ thr'[v] = thr[v]
  BY <1>5, <1>8
<1>10. Quiet /\ jobs'[j].type = "local_ocr" /\ Present(j)'
  <2>1. CASE j \in Resumable(m) /\ UNCHANGED kernelVars
    BY <2>1, KeptIsLike, LikeIsQuiet DEF Resumable, ActiveOcr, Present, kernelVars
  <2>2. CASE CreateJob(j, "local_ocr", m, NoKey)
    BY <2>2, CreateIsQuiet DEF OcrTypeOK, Present
  <2> QED
    BY <1>1, <2>1, <2>2
<1>11. ASSUME NEW v \in Workers PROVE LinkedInv(v)' /\ SaysInv(v)'
  <2>1. CASE v # w
    <3>1. ocr[thr[v].matter] # NoProgress => ocr'[thr[v].matter] # NoProgress
      BY <1>4, <1>8, ThreadMatter
    <3> QED
      BY <1>8, <2>1, <3>1, BystanderThread DEF ThreadsInv
  <2>2. CASE v = w
    <3>1. LinkedInv(w)'
      BY <1>2, <1>4, <1>8, <1>10 DEF LinkedInv, Used
    <3>2. SaysInv(w)'
      BY <1>2, <1>8 DEF SaysInv
    <3> QED
      BY <2>2, <3>1, <3>2
  <2> QED
    BY <2>1, <2>2
<1>12. ASSUME NEW i \in JobIds PROVE OwnInv(i)' /\ CompletedInv(i)'
  <2>1. Present(i) \/ jobs'[i].status # "completed"
    BY <1>10 DEF Quiet, Present
  <2> QED
    BY <1>9, <1>10, <2>1, QuietRows DEF ThreadsInv, Unheard
<1>13. ASSUME NEW n \in Matters PROVE RecordInv(n)' /\ EarnedInv(n)' /\ BusyInv(n)'
  <2>1. CASE n = m
    BY <1>2, <1>4, <1>6, <1>8, <2>1
    DEF RecordInv, Used, EarnedInv, BusyInv, Queuer, BeforeRun
  <2>2. CASE n # m
    <3>1. ocr'[n] = ocr[n]
      BY <1>8, <2>2
    <3>2. RecordInv(n)'
      <4>1. ocr[n] # NoProgress => ocr[n].worker \in Workers
        BY RecordFields
      <4> QED
        BY <1>9, <3>1, <4>1 DEF ThreadsInv, RecordInv, Used
    <3>3. \A v \in Workers : Earner(v, n) \/ Runner(v, n) \/ Queuer(v, n) => Used(v)
      BY DEF Earner, Runner, Queuer, InRun, BeforeRun, Used
    <3>4. EarnedInv(n)'
      BY <1>9, <3>1, <3>3, StillEarned DEF ThreadsInv, EarnedInv, Unheard
    <3>5. BusyInv(n)'
      BY <1>9, <3>1, <3>3, StillBusy DEF ThreadsInv, BusyInv
    <3> QED
      BY <3>2, <3>4, <3>5
  <2> QED
    BY <2>1, <2>2
<1> QED
  BY <1>2, <1>5, <1>8, <1>11, <1>12, <1>13 DEF ThreadsInv

\* A crash: the threads that lived are dead, and there are no progress records.
LEMMA CrashKeeps ==
    ASSUME OcrTypeOK, ThreadsInv, Crash
    PROVE  /\ ThreadsInv' /\ thr' \in [Workers -> Thread] /\ ocr' \in [Matters -> Progress]
           /\ \A w \in Workers : /\ thr'[w].pc \notin Live
                                 /\ Used(w)' = Used(w) /\ thr'[w].matter = thr[w].matter
<1>1. /\ thr' = [w \in Workers |-> IF thr[w].pc \in Live
                                   THEN [thr[w] EXCEPT !.pc = "dead", !.says = "none",
                                                       !.rows = NotRun]
                                   ELSE thr[w]]
      /\ ocr' = [m \in Matters |-> NoProgress] /\ jobs' = jobs /\ log' = log
  BY DEF Crash, kernelVars
<1>2. ASSUME NEW w \in Workers
      PROVE  /\ thr'[w] \in Thread /\ thr'[w].pc \notin Live
             /\ thr'[w].matter = thr[w].matter /\ thr'[w].job = thr[w].job
             /\ thr'[w].cancelled = thr[w].cancelled
             /\ thr[w].pc \notin Live => thr'[w].says = thr[w].says
             /\ thr'[w].pc = IF thr[w].pc \in Live THEN "dead" ELSE thr[w].pc
  <2>1. CASE thr[w].pc \in Live
    <3>1. thr[w] \in UsedThread
      BY <2>1, PlacesAreUsed, UsedFields
    <3> DEFINE t == [thr[w] EXCEPT !.pc = "dead", !.says = "none", !.rows = NotRun]
    <3>2. thr'[w] = t
      BY <1>1, <2>1
    <3>3. "dead" \in Ended /\ "dead" \notin Live
      BY DEF Ended, Live
    <3>4. NotRun \in [Pages -> PageStatuses] /\ "none" \in Sayings
      BY DEF NotRun, PageStatuses, Sayings
    <3>5. /\ t \in UsedThread /\ t.pc = "dead" /\ t.matter = thr[w].matter
          /\ t.job = thr[w].job /\ t.cancelled = thr[w].cancelled
      BY <3>1, <3>3, <3>4 DEF UsedThread
    <3>6. t \in Thread
      BY <3>5 DEF UsedThread, Thread, Sayings
    <3> QED
      BY <2>1, <3>2, <3>3, <3>5, <3>6
  <2>2. CASE thr[w].pc \notin Live
    BY <1>1, <2>2 DEF OcrTypeOK
  <2> QED
    BY <2>1, <2>2
<1>3. thr' \in [Workers -> Thread]
  BY <1>1, <1>2
<1>4. ocr' \in [Matters -> Progress]
  BY <1>1 DEF Progress
<1>5. \A m \in Matters : ocr'[m] = NoProgress
  BY <1>1
<1>6. \A w \in Workers : Used(w)' = Used(w)
  BY <1>2 DEF Used, Live
<1>7. ASSUME NEW w \in Workers PROVE LinkedInv(w)' /\ SaysInv(w)'
  <2>1. LinkedInv(w)'
    BY <1>1, <1>2, <1>6 DEF ThreadsInv, LinkedInv, JobStatus, Present
  <2>2. SaysInv(w)'
    BY <1>2 DEF SaysInv, Live
  <2> QED
    BY <2>1, <2>2
<1>8. ASSUME NEW j \in JobIds PROVE OwnInv(j)' /\ CompletedInv(j)'
  <2>1. OwnInv(j)'
    <3>1. OwnInv(j)
      BY DEF ThreadsInv
    <3>2. ASSUME NEW w \in Workers, jobs[j].owner = w
          PROVE  /\ thr'[w].job = j
                 /\ thr'[w].pc \notin {"unused", "claim", "reread", "report", "done"}
      BY <1>2, <3>1, <3>2 DEF OwnInv
    <3> QED
      BY <1>1, <3>2 DEF OwnInv
  <2>2. CompletedInv(j)'
    BY <1>1, <1>2 DEF ThreadsInv, CompletedInv, Completer, Unheard, At, Live
  <2> QED
    BY <2>1, <2>2
<1>9. ASSUME NEW m \in Matters PROVE RecordInv(m)' /\ EarnedInv(m)' /\ BusyInv(m)'
  BY <1>5 DEF RecordInv, EarnedInv, BusyInv, NoProgress
<1> QED
  BY <1>2, <1>3, <1>4, <1>6, <1>7, <1>8, <1>9 DEF ThreadsInv

-----------------------------------------------------------------------------
(* The steps of a thread. *)

\* A thread on its way still works for its job and its matter.
LEMMA StepLinked ==
    ASSUME OcrTypeOK, NEW w \in Workers, LinkedInv(w), thr[w].pc \in Live,
           NEW p \in Live \cup Ended, NEW s, StepIs(w, p, s), \A j \in JobIds : RowMoves(j),
           ocr' = ocr \/ (\E x \in Sayings : Reported(w, x))
    PROVE  LinkedInv(w)'
<1>1. Used(w) /\ thr[w].job \in JobIds
  BY PlacesAreUsed, UsedFields DEF UsedThread
<1>2. RowMoves(thr[w].job)
  BY <1>1
<1>3. ocr'[thr[w].matter] # NoProgress
  BY <1>1 DEF LinkedInv, Reported
<1> QED
  BY <1>1, <1>2, <1>3 DEF LinkedInv, StepIs, RowMoves, JobStatus, Present

\* A thread that is asked to stop has a job that is asked to stop, or the kernel
\* did not hear of it.
LEMMA RequestedIsStopping ==
    ASSUME OcrTypeOK, NEW w \in Workers, Used(w), LinkedInv(w), CancellationRequested(w)
    PROVE  JobStatus(w) \notin {"queued", "running"} \/ Unheard(w)
<1>1. thr[w].cancelled \in SUBSET Hearings
  BY UsedFields DEF UsedThread
<1>2. thr[w].cancelled # {} => "heard" \in thr[w].cancelled \/ Unheard(w)
  BY <1>1 DEF Hearings, Unheard
<1> QED
  BY <1>2 DEF LinkedInv, CancellationRequested, JobStatus

\* What a thread says is still true after a step of its own that reports nothing.
LEMMA WalkSays ==
    ASSUME OcrTypeOK, NEW w \in Workers, LinkedInv(w), SaysInv(w), thr[w].pc \in Live, Walks(w)
    PROVE  SaysInv(w)' /\ LinkedInv(w)'
<1>1. Used(w) /\ thr[w].job \in JobIds
  BY PlacesAreUsed, UsedFields DEF UsedThread
<1>2. JobStatus(w) \in ACTIVE_STATUSES \cup TERMINAL_STATUSES
  BY <1>1 DEF OcrTypeOK, TypeOK, Row, LinkedInv, Present, JobStatus
<1>3. /\ jobs'[thr[w].job].status = JobStatus(w) /\ log'[thr[w].job] = log[thr[w].job]
      /\ jobs'[thr[w].job].type = jobs[thr[w].job].type
  BY <1>1 DEF Walks, RowsLike, JobStatus
<1>4. CancellationRequested(w) => JobStatus(w) \notin {"queued", "running"} \/ Unheard(w)
  BY <1>1, RequestedIsStopping
<1>5. /\ thr'[w].job = thr[w].job /\ thr'[w].matter = thr[w].matter
      /\ thr'[w].cancelled = thr[w].cancelled
      /\ ocr' = ocr
  BY DEF Walks, StepIs
<1>6. JobStatus(w)' = JobStatus(w) /\ (WasRecovered(thr[w].job))' = WasRecovered(thr[w].job)
  BY <1>3, <1>5 DEF JobStatus, WasRecovered
<1>7. LinkedInv(w)'
  BY <1>1, <1>3, <1>5 DEF LinkedInv, Present, JobStatus
<1>8. SaysInv(w)'
  BY <1>2, <1>4, <1>5, <1>6 DEF Walks, SaysInv, StepIs, At, RunStatuses, WasRecovered, Unheard
<1> QED
  BY <1>7, <1>8

\* And after a step that reports.
LEMMA ReportSays ==
    ASSUME OcrTypeOK, NEW w \in Workers, LinkedInv(w), SaysInv(w), thr[w].pc \in Live, Reports(w)
    PROVE  SaysInv(w)' /\ LinkedInv(w)'
<1>1. Used(w) /\ thr[w].job \in JobIds
  BY PlacesAreUsed, UsedFields DEF UsedThread
<1>2. /\ jobs'[thr[w].job].status = JobStatus(w) /\ log'[thr[w].job] = log[thr[w].job]
      /\ jobs'[thr[w].job].type = jobs[thr[w].job].type
  BY <1>1 DEF Reports, RowsLike, JobStatus
<1>3. /\ thr'[w].job = thr[w].job /\ thr'[w].matter = thr[w].matter
      /\ thr'[w].cancelled = thr[w].cancelled
      /\ ocr'[thr[w].matter] # NoProgress
  BY DEF Reports, StepIs, Reported
<1>4. JobStatus(w)' = JobStatus(w)
  BY <1>2, <1>3 DEF JobStatus
<1>5. LinkedInv(w)'
  BY <1>1, <1>2, <1>3 DEF LinkedInv, Present, JobStatus
<1>6. SaysInv(w)'
  BY <1>3, <1>4 DEF Reports, SaysInv, StepIs, At, RunStatuses, Unheard
<1> QED
  BY <1>5, <1>6

\* The other steps of a thread leave it with nothing to say that could be wrong.
LEMMA KernelStepSays ==
    ASSUME OcrTypeOK, NEW w \in Workers, LinkedInv(w), SaysInv(w), thr[w].pc \in Live,
           \A j \in JobIds : RowMoves(j),
           Claims(w) \/ Finishes(w) \/ FinishesFailed(w)
    PROVE  SaysInv(w)' /\ LinkedInv(w)'
<1>1. PICK p \in {"announce", "done"} : StepIs(w, p, thr[w].says)
  BY DEF Claims, Finishes, FinishesFailed
<1>2. p \in Live \cup Ended
  BY DEF Live, Ended
<1>3. ocr' = ocr
  BY DEF Claims, Finishes, FinishesFailed
<1>4. LinkedInv(w)'
  BY <1>1, <1>2, <1>3, StepLinked
<1>5. SaysInv(w)'
  BY <1>1 DEF SaysInv, StepIs
<1> QED
  BY <1>4, <1>5

\* Who owns what after a step of a thread.
LEMMA ThreadOwns ==
    ASSUME OcrTypeOK, RowsConsistent, ThreadsInv, NEW w \in Workers, thr[w].pc \in Live,
           Walks(w) \/ Reports(w) \/ Claims(w) \/ Finishes(w) \/ FinishesFailed(w),
           NEW j \in JobIds
    PROVE  OwnInv(j)'
<1> SUFFICES ASSUME NEW v \in Workers, jobs'[j].owner = v
             PROVE  /\ thr'[v].job = j
                    /\ thr'[v].pc \notin {"unused", "claim", "reread", "report", "done"}
  BY DEF OwnInv
<1>1. thr[w].job \in JobIds /\ TypeOK
  BY PlacesAreUsed, UsedFields DEF UsedThread, OcrTypeOK
<1>2. \A u \in Workers : u # w => thr'[u] = thr[u]
  BY DEF Walks, Reports, Claims, Finishes, FinishesFailed, StepIs
<1>3. thr'[w].job = thr[w].job
  BY DEF Walks, Reports, Claims, Finishes, FinishesFailed, StepIs
<1>4. CASE jobs[j].owner = v
  <2>1. thr[v].job = j /\ thr[v].pc \notin {"unused", "claim", "reread", "report", "done"}
    BY <1>4 DEF ThreadsInv, OwnInv
  <2>2. CASE v # w
    BY <1>2, <2>1, <2>2
  <2>3. CASE v = w
    <3>1. Owns(thr[w].job, w)
      BY <1>4, <2>1, <2>3, KernelConstants DEF Owns, Held, RowsConsistent, RowConsistent
    <3>2. CASE Walks(w)
      BY <1>3, <2>1, <2>3, <3>1, <3>2 DEF Walks, StepIs, At
    <3>3. CASE Reports(w)
      BY <1>3, <2>1, <2>3, <3>3 DEF Reports, StepIs, At
    <3>4. CASE Claims(w)
      BY <2>1, <2>3, <3>4 DEF Claims, At
    <3>5. CASE Finishes(w) \/ FinishesFailed(w)
      <4>1. jobs'[thr[w].job].owner = NoWorker
        BY <1>1, <3>5, FinishReleases DEF Finishes, FinishesFailed, Payloads
      <4> QED
        BY <2>1, <2>3, <4>1, KernelConstants
    <3> QED
      BY <3>2, <3>3, <3>4, <3>5
  <2> QED
    BY <2>2, <2>3
<1>5. CASE jobs[j].owner # v
  <2>1. CASE Walks(w) \/ Reports(w)
    BY <1>5, <2>1 DEF Walks, Reports, RowsLike
  <2>2. CASE Claims(w)
    <3>1. j = thr[w].job /\ v = w
      BY <1>1, <1>5, <2>2, ClaimTakes DEF Claims
    <3> QED
      BY <1>3, <2>2, <3>1 DEF Claims, StepIs
  <2>3. CASE Finishes(w) \/ FinishesFailed(w)
    BY <1>1, <1>5, <2>3, FinishReleases, KernelConstants DEF Finishes, FinishesFailed, Payloads
  <2> QED
    BY <2>1, <2>2, <2>3
<1> QED
  BY <1>4, <1>5

\* A job is completed by the thread that finishes it, which ran to the end, found
\* nothing to do, or was stopped without the kernel's knowledge.
LEMMA ThreadCompletes ==
    ASSUME OcrTypeOK, ThreadsInv, NEW w \in Workers, thr[w].pc \in Live,
           Walks(w) \/ Reports(w) \/ Claims(w) \/ Finishes(w) \/ FinishesFailed(w),
           NEW j \in JobIds, RowMoves(j)
    PROVE  CompletedInv(j)'
<1> SUFFICES ASSUME jobs'[j].status = "completed", jobs'[j].type = "local_ocr"
             PROVE  \E v \in Workers : Completer(v, j)'
  BY DEF CompletedInv
<1>1. thr[w].job \in JobIds /\ TypeOK
  BY PlacesAreUsed, UsedFields DEF UsedThread, OcrTypeOK
<1>2. \A u \in Workers : u # w => thr'[u] = thr[u]
  BY DEF Walks, Reports, Claims, Finishes, FinishesFailed, StepIs
<1>3. CASE jobs[j].status = "completed"
  <2>1. jobs[j].type = "local_ocr"
    BY <1>3 DEF RowMoves, Present
  <2>2. PICK v \in Workers : Completer(v, j)
    BY <1>3, <2>1 DEF ThreadsInv, CompletedInv
  <2>3. v # w
    BY <2>2 DEF Completer, At, Live
  <2> QED
    BY <1>2, <2>2, <2>3 DEF Completer, At, Unheard
<1>4. CASE jobs[j].status # "completed"
  <2>1. Finishes(w) /\ j = thr[w].job
    <3>1. ~Walks(w) /\ ~Reports(w)
      BY <1>4 DEF Walks, Reports, RowsLike
    <3>2. ~Claims(w)
      BY <1>1, <1>4, ClaimTakes DEF Claims
    <3>3. FinishesFailed(w) => FALSE
      BY <1>1, <1>4, FinishReleases DEF FinishesFailed, Payloads
    <3>4. Finishes(w) => j = thr[w].job
      BY <1>1, <1>4, FinishReleases DEF Finishes, Payloads
    <3> QED
      BY <3>1, <3>2, <3>3, <3>4
  <2>2. jobs[j].status = "running"
    BY <1>1, <2>1, FinishReleases DEF Finishes, Payloads
  <2>3. thr[w].says \in {"completed", "not_ready"} \/ Unheard(w)
    BY <2>1, <2>2 DEF ThreadsInv, SaysInv, Finishes, At, RunStatuses, JobStatus
  <2>4. /\ At(w, "done")' /\ thr'[w].job = j /\ thr'[w].says = thr[w].says
        /\ Unheard(w)' = Unheard(w)
    BY <2>1 DEF Finishes, StepIs, At, Unheard
  <2> QED
    BY <2>3, <2>4 DEF Completer
<1> QED
  BY <1>3, <1>4

\* A report leaves the record with its thread.
LEMMA ThreadRecords ==
    ASSUME OcrTypeOK, ThreadsInv, NEW w \in Workers, thr[w].pc \in Live,
           Walks(w) \/ Reports(w) \/ Claims(w) \/ Finishes(w) \/ FinishesFailed(w),
           NEW m \in Matters
    PROVE  RecordInv(m)'
<1>1. \A u \in Workers : /\ thr'[u].job = thr[u].job /\ thr'[u].matter = thr[u].matter
                         /\ Used(u) => Used(u)'
  BY DEF Walks, Reports, Claims, Finishes, FinishesFailed, StepIs, Used
<1>2. Used(w)
  BY PlacesAreUsed
<1>3. ocr[m] # NoProgress => ocr[m].worker \in Workers
  BY RecordFields
<1>4. CASE ocr'[m] = ocr[m]
  BY <1>1, <1>3, <1>4 DEF ThreadsInv, RecordInv
<1>5. CASE ocr'[m] # ocr[m]
  <2>1. Reports(w) /\ m = thr[w].matter
    BY <1>5 DEF Walks, Reports, Claims, Finishes, FinishesFailed, Reported
  <2>2. ocr'[m].job = ocr[m].job /\ ocr'[m].worker = ocr[m].worker
    BY <2>1 DEF Reports, Reported
  <2>3. ocr[m] # NoProgress
    BY <1>2, <2>1 DEF ThreadsInv, LinkedInv
  <2> QED
    BY <1>1, <1>3, <2>2, <2>3 DEF ThreadsInv, RecordInv
<1> QED
  BY <1>4, <1>5

\* The end a record tells of is earned by a thread that is past its run.
LEMMA ThreadEarned ==
    ASSUME OcrTypeOK, ThreadsInv, NEW w \in Workers, thr[w].pc \in Live,
           Walks(w) \/ Reports(w) \/ Claims(w) \/ Finishes(w) \/ FinishesFailed(w),
           \A j \in JobIds : RowMoves(j), NEW m \in Matters
    PROVE  EarnedInv(m)'
<1> SUFFICES ASSUME ocr'[m].status \in {"completed", "cancelled"}
             PROVE  \E v \in Workers : Earner(v, m)'
  BY DEF EarnedInv
<1>1. Used(w) /\ thr[w].job \in JobIds /\ TypeOK
  BY PlacesAreUsed, UsedFields DEF UsedThread, OcrTypeOK
<1>2. \A u \in Workers : u # w => thr'[u] = thr[u]
  BY DEF Walks, Reports, Claims, Finishes, FinishesFailed, StepIs
<1>3. thr'[w].job = thr[w].job /\ thr'[w].matter = thr[w].matter
  BY DEF Walks, Reports, Claims, Finishes, FinishesFailed, StepIs
<1>4. LinkedInv(w) /\ SaysInv(w)
  BY DEF ThreadsInv
<1>5. CASE Reports(w) /\ m = thr[w].matter
  <2>1. JobStatus(w)' = JobStatus(w)
    BY <1>1, <1>3, <1>5 DEF Reports, RowsLike, JobStatus
  <2>2. ocr'[m].status = thr'[w].says
        /\ \/ thr'[w].pc \in {"result", "finish", "fail"}
           \/ /\ At(w, "report") /\ thr'[w].pc \in {"done", "broken"}
              /\ thr'[w].says = thr[w].says
    BY <1>5 DEF Reports, Reported, StepIs
  <2>3. At(w, "report") /\ thr[w].says \in {"completed", "cancelled"} => JobStatus(w) = thr[w].says
    BY <1>4 DEF SaysInv, At, TERMINAL_STATUSES
  <2>4. Earner(w, m)'
    BY <1>3, <1>5, <2>1, <2>2, <2>3 DEF Earner, Settled
  <2> QED
    BY <2>4
<1>6. CASE ~(Reports(w) /\ m = thr[w].matter)
  <2>1. ocr'[m] = ocr[m]
    BY <1>6 DEF Walks, Reports, Claims, Finishes, FinishesFailed, Reported
  <2>2. PICK v \in Workers : Earner(v, m)
    BY <2>1 DEF ThreadsInv, EarnedInv
  <2>3. CASE v # w
    BY <1>2, <2>1, <2>2, <2>3, StillEarned DEF Unheard
  <2>4. CASE v = w
    <3>1. /\ thr[w].matter = m /\ thr[w].says = ocr[m].status
          /\ thr[w].pc \in {"result", "finish", "fail"}
      BY <2>2, <2>4 DEF Earner, Live
    <3>2. ~Reports(w)
      BY <1>6, <3>1
    <3>3. CASE Walks(w)
      <4>1. thr'[w].pc = "fail" /\ thr'[w].says = thr[w].says
        BY <3>1, <3>3 DEF Walks, At, StepIs
      <4>2. Earner(w, m)'
        BY <1>3, <2>1, <3>1, <4>1 DEF Earner
      <4> QED
        BY <4>2
    <3>4. CASE Finishes(w)
      <4>1. thr'[w].pc = "done" /\ thr'[w].says = thr[w].says /\ thr[w].pc = "finish"
        BY <3>4 DEF Finishes, At, StepIs
      <4>2. /\ jobs[thr[w].job].status \in {"running", "cancel_requested"}
            /\ jobs[thr[w].job].status = "cancel_requested"
               => jobs'[thr[w].job].status = "cancelled"
            /\ jobs[thr[w].job].status = "running" => jobs'[thr[w].job].status = "completed"
        BY <1>1, <3>4, FinishReleases DEF Finishes, Payloads
      <4>3. thr[w].says = "cancelled" =>
                jobs[thr[w].job].status \notin {"queued", "running"} \/ Unheard(w)
        BY <1>4, <4>1 DEF SaysInv, JobStatus
      <4>4. \/ jobs'[thr[w].job].status \in {thr[w].says, "cancelled"}
            \/ jobs'[thr[w].job].status = "completed" /\ Unheard(w)
        BY <2>1, <3>1, <4>2, <4>3
      <4>6. Unheard(w)' = Unheard(w)
        BY <3>4 DEF Finishes, StepIs, Unheard
      <4>5. Earner(w, m)'
        BY <1>3, <2>1, <3>1, <4>1, <4>4, <4>6 DEF Earner, Settled, JobStatus
      <4> QED
        BY <4>5
    <3>5. ~Claims(w) /\ ~FinishesFailed(w)
      BY <3>1 DEF Claims, FinishesFailed, At
    <3> QED
      BY <3>2, <3>3, <3>4, <3>5
  <2> QED
    BY <2>3, <2>4
<1> QED
  BY <1>5, <1>6

\* A record that says "running" or "queued" has a thread that accounts for it.
LEMMA ThreadBusy ==
    ASSUME OcrTypeOK, ThreadsInv, NEW w \in Workers, thr[w].pc \in Live,
           Walks(w) \/ Reports(w) \/ Claims(w) \/ Finishes(w) \/ FinishesFailed(w),
           \A j \in JobIds : RowMoves(j), NEW m \in Matters
    PROVE  BusyInv(m)'
<1>1. Used(w) /\ thr[w].job \in JobIds
  BY PlacesAreUsed, UsedFields DEF UsedThread
<1>2. \A u \in Workers : u # w => thr'[u] = thr[u]
  BY DEF Walks, Reports, Claims, Finishes, FinishesFailed, StepIs
<1>3. thr'[w].job = thr[w].job /\ thr'[w].matter = thr[w].matter
  BY DEF Walks, Reports, Claims, Finishes, FinishesFailed, StepIs
<1>4. SaysInv(w)
  BY DEF ThreadsInv
<1>5. CASE Reports(w) /\ m = thr[w].matter
  <2>1. ocr'[m].status = "running" => Runner(w, m)'
    BY <1>3, <1>4, <1>5
    DEF Reports, Reported, StepIs, At, SaysInv, RunStatuses, Runner, InRun
  <2>2. ocr'[m].status = "queued" =>
            At(w, "report") /\ thr[w].says = "queued" /\ thr'[w].says = "queued"
            /\ thr'[w].pc \in {"done", "broken"}
    BY <1>4, <1>5 DEF Reports, Reported, StepIs, At, SaysInv, RunStatuses
  <2>3. ocr'[m].status = "queued" => HasEvent(log'[thr[w].job], "job_recovered")
    BY <1>1, <1>4, <1>5, <2>2 DEF Reports, RowsLike, SaysInv, At, WasRecovered
  <2>4. ocr'[m].status = "queued" => Queuer(w, m)'
    BY <1>3, <1>5, <2>2, <2>3 DEF Queuer, WasRecovered
  <2> QED
    BY <2>1, <2>4 DEF BusyInv
<1>6. CASE ~(Reports(w) /\ m = thr[w].matter)
  <2>1. ocr'[m] = ocr[m]
    BY <1>6 DEF Walks, Reports, Claims, Finishes, FinishesFailed, Reported
  <2>2. ASSUME thr[w].matter = m
        PROVE  (Runner(w, m) => Runner(w, m)') /\ (Queuer(w, m) => Queuer(w, m)')
    <3>1. ~Reports(w)
      BY <1>6, <2>2
    <3>2. thr[w].pc \in InRun => thr'[w].pc \in InRun
      BY <3>1 DEF Walks, Claims, Finishes, FinishesFailed, StepIs, At, InRun
    <3>3. thr[w].pc \in BeforeRun =>
              thr'[w].pc \in BeforeRun \/ (thr'[w].pc = "broken" /\ thr'[w].says = "queued")
      BY <3>1 DEF Walks, Claims, Finishes, FinishesFailed, StepIs, At, BeforeRun
    <3>4. thr[w].pc \notin {"done", "broken"}
      BY DEF Live
    <3> QED
      BY <1>3, <3>2, <3>3, <3>4 DEF Runner, Queuer
  <2>3. \A v \in Workers : (Runner(v, m) => Runner(v, m)') /\ (Queuer(v, m) => Queuer(v, m)')
    <3> TAKE v \in Workers
    <3>1. CASE v # w
      BY <1>2, <3>1, StillBusy
    <3>2. CASE v = w
      BY <2>2, <3>2 DEF Runner, Queuer
    <3> QED
      BY <3>1, <3>2
  <2> QED
    BY <2>1, <2>3 DEF ThreadsInv, BusyInv
<1> QED
  BY <1>5, <1>6

\* Every step of a thread keeps the accounts.
LEMMA ThreadKeeps ==
    ASSUME OcrTypeOK, RowsConsistent, ThreadsInv, \A j \in JobIds : RowMoves(j),
           NEW w \in Workers, ThreadStep(w)
    PROVE  ThreadsInv' /\ thr' \in [Workers -> Thread] /\ ocr' \in [Matters -> Progress]
<1>1. thr[w].pc \in Live
  BY DEF ThreadStep, ThreadClaim, Reread, Report, Announce, Load, Check, PageFails,
         PageReturns, Write, Summary, Result, Finish, Raise, Fail, FailFinish, RunErrs,
         ThreadErrs, At, Live
<1>2. LinkedInv(w) /\ SaysInv(w)
  BY DEF ThreadsInv
<1>3. Walks(w) \/ Reports(w) \/ Claims(w) \/ Finishes(w) \/ FinishesFailed(w)
  BY <1>2, ThreadSteps
<1>4. /\ thr' \in [Workers -> Thread] /\ \A u \in Workers : u # w => thr'[u] = thr[u]
      /\ ocr' \in [Matters -> Progress]
  BY <1>3 DEF Walks, Reports, Claims, Finishes, FinishesFailed, StepIs, Reported, OcrTypeOK
<1>5. \A m \in Matters : ocr[m] # NoProgress => ocr'[m] # NoProgress
  BY <1>3 DEF Walks, Reports, Claims, Finishes, FinishesFailed, Reported
<1>6. ASSUME NEW v \in Workers PROVE LinkedInv(v)' /\ SaysInv(v)'
  <2>1. CASE v = w
    BY <1>1, <1>2, <1>3, <2>1, WalkSays, ReportSays, KernelStepSays
  <2>2. CASE v # w
    <3>1. ocr[thr[v].matter] # NoProgress => ocr'[thr[v].matter] # NoProgress
      BY <1>5, ThreadMatter
    <3>2. thr'[v] = thr[v] /\ LinkedInv(v) /\ SaysInv(v)
      BY <1>4, <2>2 DEF ThreadsInv
    <3> QED
      BY <3>1, <3>2, BystanderThread
  <2> QED
    BY <2>1, <2>2
<1>7. ASSUME NEW j \in JobIds PROVE OwnInv(j)' /\ CompletedInv(j)'
  BY <1>1, <1>3, ThreadOwns, ThreadCompletes
<1>8. ASSUME NEW m \in Matters PROVE RecordInv(m)' /\ EarnedInv(m)' /\ BusyInv(m)'
  BY <1>1, <1>3, ThreadRecords, ThreadEarned, ThreadBusy
<1> QED
  BY <1>4, <1>6, <1>7, <1>8 DEF ThreadsInv

-----------------------------------------------------------------------------
(* The invariant is one. *)

\* The accounts hold when nothing has started.
LEMMA OcrInvInitially == OcrInit => OcrInv
<1> SUFFICES ASSUME OcrInit PROVE OcrInv
  OBVIOUS
<1>1. TypeOK /\ RowsConsistent
  <2>1. TypeOK
    BY AbsentRowType, KernelConstants DEF OcrInit, KernelInit, TypeOK
  <2>2. RowsConsistent
    BY DEF OcrInit, KernelInit, RowsConsistent, RowConsistent, AbsentRow, HeldStatuses,
           TERMINAL_STATUSES
  <2> QED
    BY <2>1, <2>2
<1>2. \A w \in Workers : thr[w] = NoThread
  BY DEF OcrInit
<1>3. \A m \in Matters : ocr[m] = NoProgress
  BY DEF OcrInit
<1>4. OcrTypeOK
  <2>1. NoThread \in Thread /\ NoProgress \in Progress
    BY DEF Thread, Progress
  <2>2. NotRun \in [Pages -> PageStatuses]
    BY DEF NotRun, PageStatuses
  <2> QED
    BY <1>1, <2>1, <2>2 DEF OcrInit, OcrTypeOK
<1>5. ThreadsInv
  <2>1. ASSUME NEW w \in Workers PROVE LinkedInv(w) /\ SaysInv(w)
    BY <1>2, NoThreadFields DEF LinkedInv, SaysInv, Used
  <2>2. ASSUME NEW j \in JobIds PROVE OwnInv(j) /\ CompletedInv(j)
    BY KernelConstants DEF OcrInit, KernelInit, AbsentRow, OwnInv, CompletedInv
  <2>3. ASSUME NEW m \in Matters PROVE RecordInv(m) /\ EarnedInv(m) /\ BusyInv(m)
    BY <1>3 DEF NoProgress, RecordInv, EarnedInv, BusyInv
  <2> QED
    BY <2>1, <2>2, <2>3 DEF ThreadsInv
<1> QED
  BY <1>1, <1>4, <1>5 DEF OcrInv

\* The index is only ever rewritten from a thread's copy of the records.
LEMMA IndexType ==
    ASSUME OcrTypeOK, [OcrNext]_ocrVars
    PROVE  index' \in [Matters -> [Pages -> PageStatuses]] /\ opened' \in BOOLEAN
<1>1. ASSUME NEW w \in Workers, Write(w)
      PROVE  index' \in [Matters -> [Pages -> PageStatuses]] /\ opened' \in BOOLEAN
  <2>1. Used(w)
    BY <1>1 DEF Write, At, Used
  <2>2. thr[w].rows \in [Pages -> PageStatuses]
    BY <2>1, UsedFields DEF UsedThread
  <2> QED
    BY <1>1, <2>2 DEF Write, OcrTypeOK
<1>2. ASSUME NEW w \in Workers, ThreadStep(w), ~Write(w)
      PROVE  index' = index /\ opened' = opened
  BY <1>2 DEF ThreadStep, ThreadClaim, Reread, Report, Announce, Load, Check, PageFails,
         PageReturns, Summary, Result, Finish, Raise, Fail, FailFinish, RunErrs, ThreadErrs
<1>3. ASSUME NEW S \in SUBSET JobIds, OpenKernel(S) \/ RuntimeRecover(S)
      PROVE  index' = index /\ opened' \in BOOLEAN
  BY <1>3 DEF OpenKernel, RuntimeRecover, OcrTypeOK
<1>4. ASSUME NEW m \in Matters,
             Cancel(m) \/ CancelUnheard(m) \/ OtherWork(m) \/ \E w \in Workers : Start(m, w)
      PROVE  index' = index /\ opened' = opened
  BY <1>4 DEF Cancel, CancelUnheard, OtherWork, Start
<1>5. ASSUME (\E j \in JobIds : RuntimeCancel(j)) \/ Crash \/ OcrTick \/ UNCHANGED ocrVars
      PROVE  index' = index /\ opened' \in BOOLEAN
  BY <1>5 DEF RuntimeCancel, Crash, OcrTick, ocrVars, OcrTypeOK
<1> QED
  BY <1>1, <1>2, <1>3, <1>4, <1>5 DEF OcrNext, OcrTypeOK

\* Every step keeps the accounts.
LEMMA OcrInvInductive == OcrInv /\ [OcrNext]_ocrVars => OcrInv'
<1> SUFFICES ASSUME OcrInv, [OcrNext]_ocrVars PROVE OcrInv'
  OBVIOUS
<1> USE DEF OcrInv
<1>1. TypeOK' /\ RowsConsistent' /\ \A j \in JobIds : RowMoves(j)
  BY OcrMoves
<1>2. TypeOK
  BY DEF OcrTypeOK
<1>3. ASSUME Quiet, UNCHANGED <<thr, ocr>>
      PROVE  ThreadsInv' /\ thr' \in [Workers -> Thread] /\ ocr' \in [Matters -> Progress]
  BY <1>1, <1>3, BackgroundKeeps DEF OcrTypeOK
<1>4. ASSUME NEW S \in SUBSET JobIds, OpenKernel(S) \/ RuntimeRecover(S)
      PROVE  Quiet /\ UNCHANGED <<thr, ocr>>
  BY <1>2, <1>4, RecoverIsQuiet DEF OpenKernel, RuntimeRecover
<1>5. ASSUME NEW m \in Matters, OtherWork(m)
      PROVE  Quiet /\ UNCHANGED <<thr, ocr>>
  BY <1>2, <1>5, CreateIsQuiet DEF OtherWork
<1>6. ASSUME NEW j \in JobIds, RuntimeCancel(j)
      PROVE  Quiet /\ UNCHANGED <<thr, ocr>>
  BY <1>2, <1>6, StopIsQuiet DEF RuntimeCancel
<1>7. ASSUME OcrTick \/ UNCHANGED ocrVars
      PROVE  Quiet /\ UNCHANGED <<thr, ocr>>
  BY <1>7 DEF OcrTick, Tick, ocrVars, Quiet
<1>8. ThreadsInv' /\ thr' \in [Workers -> Thread] /\ ocr' \in [Matters -> Progress]
  <2>1. ASSUME NEW m \in Matters, Cancel(m) \/ CancelUnheard(m)
        PROVE  ThreadsInv' /\ thr' \in [Workers -> Thread] /\ ocr' \in [Matters -> Progress]
    BY <1>1, <2>1, CancelKeeps DEF OcrTypeOK
  <2>2. ASSUME NEW m \in Matters, NEW w \in Workers, Start(m, w)
        PROVE  ThreadsInv' /\ thr' \in [Workers -> Thread] /\ ocr' \in [Matters -> Progress]
    BY <1>1, <2>2, StartKeeps
  <2>3. ASSUME NEW w \in Workers, ThreadStep(w)
        PROVE  ThreadsInv' /\ thr' \in [Workers -> Thread] /\ ocr' \in [Matters -> Progress]
    BY <1>1, <2>3, ThreadKeeps
  <2>4. CASE Crash
    BY <2>4, CrashKeeps
  <2> QED
    BY <1>3, <1>4, <1>5, <1>6, <1>7, <2>1, <2>2, <2>3, <2>4 DEF OcrNext
<1>9. OcrTypeOK'
  BY <1>1, <1>8, IndexType DEF OcrTypeOK
<1> QED
  BY <1>1, <1>8, <1>9

\* The accounts of threads, rows and records hold in every state the program
\* can reach, for any number of matters, jobs, threads and pages.
THEOREM OcrInvAlways == OcrSpec => []OcrInv
BY OcrInvInitially, OcrInvInductive, PTL DEF OcrSpec

\* Threads, progress records and indexes are what the program can hold.
THEOREM OcrTypes == OcrSpec => []OcrTypeOK
<1>1. OcrInv => OcrTypeOK
  BY DEF OcrInv
<1> QED
  BY <1>1, OcrInvAlways, PTL

\* Every behaviour of the program is one of the kernel: what is proved of the
\* kernel's jobs, keys, outcomes, trails and life cycles holds while threads,
\* routes and dying processes use it.
THEOREM OcrUsesTheKernel == OcrSpec => KernelSpec
<1>1. OcrInit => KernelInit
  BY DEF OcrInit
<1>2. OcrInv /\ [OcrNext]_ocrVars => [KernelNext]_kernelVars
  BY OcrStepOfKernel DEF OcrInv
<1> QED
  BY <1>1, <1>2, OcrInvAlways, PTL DEF OcrSpec, KernelSpec

\* Once a thread's event is set and the kernel heard of it, the durable job is
\* never queued or running again, whoever recovers, finishes or cancels it.
THEOREM CancelHoldsOnBothSidesAlways == OcrSpec => []CancelHoldsOnBothSides
<1>1. OcrInv => CancelHoldsOnBothSides
  <2> SUFFICES ASSUME OcrInv, NEW w \in Workers, "heard" \in thr[w].cancelled
               PROVE  jobs[thr[w].job].status \notin {"queued", "running"}
    BY DEF CancelHoldsOnBothSides
  <2>1. Used(w)
    BY UnusedFields, NoThreadFields DEF OcrInv
  <2> QED
    BY <2>1 DEF OcrInv, ThreadsInv, LinkedInv, JobStatus
<1> QED
  BY <1>1, OcrInvAlways, PTL

\* A completed OCR job was completed by a run that was not cancelled, or whose
\* cancellation the kernel never heard of; and a lease has its thread, which is at
\* work on the job, died, or was ended by a database error.
THEOREM JobsMatchThreadsAlways == OcrSpec => []JobsMatchThreads
<1>1. OcrInv => CompletedRanToTheEnd
  BY DEF OcrInv, ThreadsInv, CompletedInv, Completer, Unheard, CompletedRanToTheEnd
<1>2. OcrInv => LeasesHaveThreads
  BY DEF OcrInv, ThreadsInv, OwnInv, Owns, LeasesHaveThreads
<1> QED
  BY <1>1, <1>2, OcrInvAlways, PTL DEF JobsMatchThreads

\* What a progress record says when no thread works for its matter is accounted
\* for by a thread that ended so, by returning or by a database error.
THEOREM ProgressIsEarnedAlways == OcrSpec => []ProgressIsEarned
<1>1. OcrInv => IdleReportIsSettled
  <2> SUFFICES ASSUME OcrInv, NEW m \in Matters, Idle(m),
                      ocr[m].status \in {"completed", "cancelled"}
               PROVE  \E w \in Workers :
                          /\ At(w, "done") \/ At(w, "broken")
                          /\ thr[w].matter = m /\ thr[w].says = ocr[m].status
                          /\ Settled(w)
    BY DEF IdleReportIsSettled, Settled, JobStatus, Unheard
  <2>1. PICK w \in Workers : Earner(w, m)
    BY DEF OcrInv, ThreadsInv, EarnedInv
  <2> QED
    BY <2>1 DEF Earner, Idle, Live, At
<1>2. OcrInv => OrphansAreAccounted
  <2> SUFFICES ASSUME OcrInv, NEW m \in Matters, Busy(m), Idle(m)
               PROVE  \E w \in Workers :
                          /\ thr[w].matter = m /\ thr[w].says = ocr[m].status
                          /\ \/ At(w, "broken")
                             \/ /\ At(w, "done") /\ ocr[m].status = "queued"
                                /\ WasRecovered(thr[w].job)
    BY DEF OrphansAreAccounted, WasRecovered, HasEvent
  <2>1. CASE ocr[m].status = "running"
    <3>1. PICK w \in Workers : Runner(w, m)
      BY <2>1 DEF OcrInv, ThreadsInv, BusyInv
    <3> QED
      BY <2>1, <3>1 DEF Runner, InRun, Idle, Live, At
  <2>2. CASE ocr[m].status = "queued"
    <3>1. PICK w \in Workers : Queuer(w, m)
      BY <2>2 DEF OcrInv, ThreadsInv, BusyInv
    <3> QED
      BY <2>2, <3>1 DEF Queuer, BeforeRun, Idle, Live, At
  <2> QED
    BY <2>1, <2>2 DEF Busy
<1> QED
  BY <1>1, <1>2, OcrInvAlways, PTL DEF ProgressIsEarned

-----------------------------------------------------------------------------
(* Pages. *)

\* A thread whose event is set derives no further page: the engine's text is
\* kept only after the event was looked at.
THEOREM CancelledDerivesNothingAlways == OcrSpec => CancelledDerivesNothing
<1>1. OcrInv /\ [OcrNext]_ocrVars =>
          [\A w \in Workers : thr[w].cancelled # {} =>
               \A p \in Pages : thr'[w].rows[p] = "ocr_completed" =>
                   thr[w].rows[p] = "ocr_completed" \/ At(w, "load")]_ocrVars
  <2> SUFFICES ASSUME OcrInv, OcrNext, NEW w \in Workers, thr[w].cancelled # {},
                      NEW p \in Pages, thr'[w].rows[p] = "ocr_completed",
                      ~At(w, "load")
               PROVE  thr[w].rows[p] = "ocr_completed"
    BY DEF ocrVars
  <2>1. Used(w) /\ thr[w] \in UsedThread /\ thr \in [Workers -> Thread]
    BY UsedFields, UnusedFields, NoThreadFields DEF OcrInv, OcrTypeOK
  <2>2. CASE thr' = thr
    BY <2>2
  <2>3. ASSUME NEW v \in Workers, ThreadStep(v)
        PROVE  thr[w].rows[p] = "ocr_completed"
    <3>1. CASE v # w
      <4>1. thr'[w] = thr[w]
        BY <2>1, <2>3, <3>1
        DEF ThreadStep, ThreadClaim, Reread, Report, Announce, Load, Check, PageFails,
            PageReturns, Write, Summary, Result, Finish, Raise, Fail, FailFinish, RunErrs,
            ThreadErrs, Goto, GotoSaying
      <4> QED
        BY <4>1
    <3>2. CASE v = w
      <4>1. ASSUME NEW q, Goto(w, q) PROVE thr'[w].rows = thr[w].rows
        BY <2>1, <4>1 DEF Goto, UsedThread
      <4>2. ASSUME NEW q, NEW s, GotoSaying(w, q, s) PROVE thr'[w].rows = thr[w].rows
        BY <2>1, <4>2 DEF GotoSaying, UsedThread
      <4>3. CASE PageFails(w)
        <5>1. PICK q \in Pages : thr' = [thr EXCEPT ![w].rows[q] = "ocr_failed", ![w].pc = "check"]
          BY <4>3 DEF PageFails, Candidates
        <5>2. thr'[w].rows = [thr[w].rows EXCEPT ![q] = "ocr_failed"]
          BY <2>1, <5>1 DEF UsedThread
        <5> QED
          BY <2>1, <5>2 DEF UsedThread
      <4>4. CASE PageReturns(w)
        <5>1. ~StillWanted(w)
          BY DEF StillWanted, CancellationRequested
        <5> QED
          BY <4>2, <4>4, <5>1 DEF PageReturns
      <4>5. CASE ThreadClaim(w) \/ Announce(w) \/ Report(w) \/ Write(w) \/ Summary(w)
                 \/ Result(w) \/ Finish(w) \/ Raise(w) \/ Fail(w) \/ FailFinish(w)
                 \/ RunErrs(w)
        BY <4>1, <4>5 DEF ThreadClaim, Announce, Report, Write, Summary, Result, Finish,
                          Raise, Fail, FailFinish, RunErrs
      <4>9. CASE ThreadErrs(w)
        BY <4>1, <4>2, <4>9 DEF ThreadErrs
      <4>6. CASE Reread(w)
        BY <4>1, <4>2, <4>6 DEF Reread
      <4>7. CASE Check(w)
        BY <4>1, <4>2, <4>7 DEF Check
      <4>8. ~Load(w)
        BY DEF Load
      <4> QED
        BY <2>3, <3>2, <4>3, <4>4, <4>5, <4>6, <4>7, <4>8, <4>9 DEF ThreadStep
    <3> QED
      BY <3>1, <3>2
  <2>4. ASSUME NEW m \in Matters, Cancel(m) \/ CancelUnheard(m)
        PROVE  thr[w].rows[p] = "ocr_completed"
    <3>1. thr'[w].rows = thr[w].rows
      BY <2>1, <2>4 DEF Cancel, CancelUnheard, SetEvent, UsedThread
    <3> QED
      BY <3>1
  <2>5. ASSUME NEW m \in Matters, NEW v \in Workers, Start(m, v)
        PROVE  thr[w].rows[p] = "ocr_completed"
    <3>1. v # w
      BY <2>1, <2>5 DEF Start, Used
    <3>2. thr'[w] = thr[w]
      BY <2>1, <2>5, <3>1 DEF Start
    <3> QED
      BY <3>2
  <2>6. CASE Crash
    <3>1. thr'[w] = IF thr[w].pc \in Live
                    THEN [thr[w] EXCEPT !.pc = "dead", !.says = "none", !.rows = NotRun]
                    ELSE thr[w]
      BY <2>6 DEF Crash
    <3>2. thr'[w].rows = thr[w].rows \/ thr'[w].rows = NotRun
      BY <2>1, <3>1 DEF UsedThread
    <3> QED
      BY <3>2 DEF NotRun
  <2> QED
    BY <2>2, <2>3, <2>4, <2>5, <2>6
    DEF OcrNext, OpenKernel, RuntimeRecover, OtherWork, RuntimeCancel, OcrTick
<1> QED
  BY <1>1, OcrInvAlways, PTL DEF OcrSpec, CancelledDerivesNothing

-----------------------------------------------------------------------------
(* Overlapping runs. *)

\* The threads that ever worked for a matter.
ThreadsOf(m) == {w \in Workers : thr[w].pc # "unused" /\ thr[w].matter = m}

\* The places from the start of a run to the rewriting of the index.
Starting == {"claim", "reread", "announce", "load", "check", "engine", "write"}
Holding == {"check", "engine", "write"}

ThreeOf(m) == \E a, b, c \in ThreadsOf(m) : a # b /\ b # c /\ a # c

\* A record that tells of no run although one is on its way was written by
\* another thread of the matter.
FreedInv ==
    \A m \in Matters, w \in Workers :
        w \in ThreadsOf(m) /\ thr[w].pc \in Starting /\ ~Busy(m) =>
            \E v \in ThreadsOf(m) : v # w

\* So two runs on their way are two of at least three.
TwoInv ==
    \A m \in Matters : \A v, w \in ThreadsOf(m) :
        v # w /\ thr[v].pc \in Starting /\ thr[w].pc \in Starting => ThreeOf(m)

\* With fewer, the copy a thread holds has every text that the index has.
CopyInv ==
    \A w \in Workers, p \in Pages :
        /\ thr[w].pc \in Holding
        /\ index[thr[w].matter][p] = "ocr_completed" /\ thr[w].rows[p] # "ocr_completed"
        => ThreeOf(thr[w].matter)

UsedFinite == IsFiniteSet({w \in Workers : Used(w)})

OverlapInv == FreedInv /\ TwoInv /\ CopyInv /\ UsedFinite

\* Threads keep their matter and are used once.
UsedKept ==
    \A v \in Workers : Used(v) => Used(v)' /\ thr'[v].matter = thr[v].matter

\* A matter keeps the threads it has.
LEMMA OfGrows ==
    ASSUME UsedKept, NEW m
    PROVE  ThreadsOf(m) \subseteq ThreadsOf(m)' /\ (ThreeOf(m) => ThreeOf(m)')
<1>1. ThreadsOf(m) \subseteq ThreadsOf(m)'
  BY DEF UsedKept, ThreadsOf, Used
<1> QED
  BY <1>1 DEF ThreeOf

\* Steps in which no thread goes anywhere and no record or index is written.
Stands ==
    /\ \A v \in Workers : /\ thr'[v].pc = thr[v].pc /\ thr'[v].matter = thr[v].matter
                          /\ thr'[v].rows = thr[v].rows
    /\ ocr' = ocr /\ index' = index

\* What a step can do to a thread, to the records and to the pages: nothing, a
\* start, a crash, or one step of one thread.
LEMMA OcrScenes ==
    ASSUME OcrInv, [OcrNext]_ocrVars
    PROVE  \/ Stands
           \/ \E m \in Matters, w \in Workers : Start(m, w)
           \/ Crash
           \/ \E w \in Workers : ThreadStep(w)
<1>1. ASSUME NEW m \in Matters, Cancel(m) \/ CancelUnheard(m) PROVE Stands
  <2>1. ocr[m] # NoProgress
    BY <1>1 DEF Cancel, CancelUnheard, Busy, NoProgress
  <2>2. ocr[m].worker \in Workers
    BY <2>1, RecordFields DEF OcrInv
  <2>3. thr[ocr[m].worker] \in UsedThread
    BY <2>1, <2>2, UsedFields DEF OcrInv, ThreadsInv, RecordInv
  <2>4. PICK h : SetEvent(m, h) /\ ocr' = ocr /\ index' = index
    BY <1>1 DEF Cancel, CancelUnheard
  <2>5. \A v \in Workers : thr'[v] = IF v = ocr[m].worker
                                     THEN [thr[ocr[m].worker] EXCEPT !.cancelled = @ \cup {h}]
                                     ELSE thr[v]
    BY <2>2, <2>4 DEF SetEvent, OcrInv, OcrTypeOK
  <2> QED
    BY <2>3, <2>4, <2>5 DEF Stands, UsedThread
<1> QED
  BY <1>1
  DEF OcrNext, OpenKernel, RuntimeRecover, OtherWork, RuntimeCancel, OcrTick, ocrVars, Stands

\* A thread enters no run but at its start, and frees its record only behind it.
LEMMA ThreadPlaces ==
    ASSUME OcrInv, NEW w \in Workers, ThreadStep(w)
    PROVE  /\ Used(w) /\ UsedKept
           /\ \A v \in Workers : Used(v)' => Used(v)
           /\ \A v \in Workers : v # w => thr'[v] = thr[v]
           /\ thr'[w].pc \in Starting => thr[w].pc \in Starting
           /\ \A m \in Matters :
                  ocr'[m] = ocr[m] \/ (m = thr[w].matter /\ (thr'[w].pc \in Starting => Busy(m)'))
<1>1. thr[w].pc \in Live
  BY DEF ThreadStep, ThreadClaim, Reread, Report, Announce, Load, Check, PageFails,
         PageReturns, Write, Summary, Result, Finish, Raise, Fail, FailFinish, RunErrs,
         ThreadErrs, At, Live
<1>2. Walks(w) \/ Reports(w) \/ Claims(w) \/ Finishes(w) \/ FinishesFailed(w)
  BY ThreadSteps DEF OcrInv, ThreadsInv
<1>3. Used(w) /\ Used(w)' /\ thr'[w].matter = thr[w].matter
      /\ \A v \in Workers : v # w => thr'[v] = thr[v]
  BY <1>1, <1>2, PlacesAreUsed
  DEF Walks, Reports, Claims, Finishes, FinishesFailed, StepIs, Used
<1>4. thr'[w].pc \in Starting => thr[w].pc \in Starting
  BY <1>2 DEF Walks, Reports, Claims, Finishes, FinishesFailed, StepIs, At, Starting
<1>5. ASSUME NEW m \in Matters, ocr'[m] # ocr[m]
      PROVE  m = thr[w].matter /\ (thr'[w].pc \in Starting => Busy(m)')
  <2>1. Reports(w) /\ m = thr[w].matter
    BY <1>2, <1>5 DEF Walks, Reports, Claims, Finishes, FinishesFailed, Reported
  <2> QED
    BY <2>1 DEF Reports, Reported, StepIs, Starting, Busy
<1> QED
  BY <1>3, <1>4, <1>5 DEF UsedKept, Used

\* What a step of a thread does to its copy of the records and to the index.
LEMMA ThreadCopies ==
    ASSUME OcrInv, NEW w \in Workers, ThreadStep(w)
    PROVE  /\ \/ index' = index
              \/ At(w, "write") /\ thr'[w].pc = "summary"
                 /\ index' = [index EXCEPT ![thr[w].matter] = thr[w].rows]
           /\ thr'[w].pc \in Holding =>
                  /\ index' = index
                  /\ \/ thr'[w].rows = index[thr[w].matter]
                     \/ /\ thr[w].pc \in Holding
                        /\ \A p \in Pages : thr[w].rows[p] = "ocr_completed"
                                                => thr'[w].rows[p] = "ocr_completed"
<1> USE DEF Holding, At
<1>1. Used(w)
  BY ThreadPlaces
<1>2. thr[w] \in UsedThread /\ thr \in [Workers -> Thread]
  BY <1>1, UsedFields DEF OcrInv, OcrTypeOK
<1>3. ASSUME NEW q, Goto(w, q) PROVE thr'[w].pc = q /\ thr'[w].rows = thr[w].rows
  BY <1>2, <1>3 DEF Goto, UsedThread
<1>4. ASSUME NEW q, NEW s, GotoSaying(w, q, s)
      PROVE  thr'[w].pc = q /\ thr'[w].rows = thr[w].rows
  BY <1>2, <1>4 DEF GotoSaying, UsedThread
<1>5. ASSUME NEW q \in Candidates(thr[w].rows), NEW s \in {"ocr_failed", "ocr_completed"},
             thr' = [thr EXCEPT ![w].rows[q] = s, ![w].pc = "check"]
      PROVE  \A p \in Pages : thr[w].rows[p] = "ocr_completed"
                                  => thr'[w].rows[p] = "ocr_completed"
  <2>1. thr'[w].rows = [thr[w].rows EXCEPT ![q] = s]
    BY <1>2, <1>5 DEF UsedThread
  <2> QED
    BY <1>2, <1>5, <2>1 DEF UsedThread, Candidates
<1>6. CASE ThreadClaim(w) \/ Announce(w) \/ Report(w) \/ Summary(w)
           \/ Result(w) \/ Finish(w) \/ Raise(w) \/ Fail(w) \/ FailFinish(w)
           \/ RunErrs(w) \/ ThreadErrs(w)
  <2>1. index' = index
    BY <1>6 DEF ThreadClaim, Announce, Report, Summary, Result, Finish, Raise, Fail, FailFinish,
                RunErrs, ThreadErrs
  <2>2. thr'[w].pc \notin Holding
    BY <1>3, <1>4, <1>6 DEF ThreadClaim, Announce, Report, Summary, Result, Finish, Raise, Fail,
                            FailFinish, RunErrs, ThreadErrs
  <2> QED
    BY <2>1, <2>2
<1>7. CASE Reread(w)
  BY <1>3, <1>4, <1>7 DEF Reread
<1>8. CASE Load(w)
  <2>1. CASE GotoSaying(w, "result", "not_ready")
    BY <1>4, <1>8, <2>1 DEF Load
  <2>2. CASE thr' = [thr EXCEPT ![w].pc = "check", ![w].rows = index[thr[w].matter]]
    <3>1. thr'[w].rows = index[thr[w].matter]
      BY <1>2, <2>2 DEF UsedThread
    <3> QED
      BY <1>8, <3>1 DEF Load
  <2> QED
    BY <1>8, <2>1, <2>2 DEF Load
<1>9. CASE Check(w)
  BY <1>3, <1>4, <1>9 DEF Check
<1>10. CASE PageFails(w)
  BY <1>5, <1>10 DEF PageFails
<1>11. CASE PageReturns(w)
  BY <1>4, <1>5, <1>11 DEF PageReturns
<1>12. CASE Write(w)
  BY <1>3, <1>12 DEF Write
<1> QED
  BY <1>6, <1>7, <1>8, <1>9, <1>10, <1>11, <1>12 DEF ThreadStep

\* A step of a thread keeps the accounts of overlapping runs.
LEMMA OverlapThread ==
    ASSUME OcrInv, OverlapInv, NEW w \in Workers, ThreadStep(w)
    PROVE  OverlapInv'
<1>1. /\ Used(w) /\ UsedKept
      /\ \A v \in Workers : Used(v)' => Used(v)
      /\ \A v \in Workers : v # w => thr'[v] = thr[v]
      /\ thr'[w].pc \in Starting => thr[w].pc \in Starting
      /\ \A m \in Matters :
             ocr'[m] = ocr[m] \/ (m = thr[w].matter /\ (thr'[w].pc \in Starting => Busy(m)'))
  BY ThreadPlaces
<1>2. \A v \in Workers : thr'[v].matter = thr[v].matter
  BY <1>1 DEF UsedKept
<1>3. \A m \in Matters : ThreadsOf(m)' = ThreadsOf(m) /\ (ThreeOf(m) => ThreeOf(m)')
  <2>1. \A m \in Matters : ThreadsOf(m)' = ThreadsOf(m)
    BY <1>1, <1>2 DEF ThreadsOf, Used, UsedKept
  <2> QED
    BY <2>1 DEF ThreeOf
<1>4. \A v \in Workers : thr'[v].pc \in Starting => thr[v].pc \in Starting
  BY <1>1
<1>5. FreedInv'
  <2> SUFFICES ASSUME NEW m \in Matters, NEW v \in ThreadsOf(m),
                      thr'[v].pc \in Starting, ~Busy(m)'
               PROVE  \E u \in ThreadsOf(m) : u # v
    BY <1>3 DEF FreedInv
  <2>1. thr[v].pc \in Starting /\ v \in Workers
    BY <1>4 DEF ThreadsOf
  <2>2. CASE ocr'[m] = ocr[m]
    BY <2>1, <2>2 DEF OverlapInv, FreedInv, Busy
  <2>3. CASE ocr'[m] # ocr[m]
    <3>1. m = thr[w].matter /\ thr'[w].pc \notin Starting
      BY <1>1, <2>3
    <3>2. w \in ThreadsOf(m) /\ w # v
      BY <1>1, <3>1 DEF ThreadsOf, Used
    <3> QED
      BY <3>2
  <2> QED
    BY <2>2, <2>3
<1>6. TwoInv'
  BY <1>3, <1>4 DEF OverlapInv, TwoInv, ThreadsOf
<1>7. CopyInv'
  <2> SUFFICES ASSUME NEW v \in Workers, NEW p \in Pages, thr'[v].pc \in Holding,
                      index'[thr'[v].matter][p] = "ocr_completed",
                      thr'[v].rows[p] # "ocr_completed"
               PROVE  ThreeOf(thr[v].matter)
    BY <1>2, <1>3, ThreadMatter DEF CopyInv, OcrInv
  <2>1. CASE v = w
    BY <1>2, <2>1, ThreadCopies DEF OverlapInv, CopyInv
  <2>2. CASE v # w /\ index'[thr[v].matter] = index[thr[v].matter]
    BY <1>1, <2>2 DEF OverlapInv, CopyInv
  <2>3. CASE v # w /\ index'[thr[v].matter] # index[thr[v].matter]
    <3>1. /\ At(w, "write") /\ index' = [index EXCEPT ![thr[w].matter] = thr[w].rows]
      BY <2>3, ThreadCopies
    <3>2. thr[v].matter = thr[w].matter /\ thr[v].matter \in Matters
      BY <2>3, <3>1, ThreadMatter DEF OcrInv, OcrTypeOK
    <3>3. thr[v].pc \in Starting /\ thr[w].pc \in Starting
      BY <1>1, <2>3, <3>1 DEF Holding, Starting, At
    <3>4. v \in ThreadsOf(thr[v].matter) /\ w \in ThreadsOf(thr[v].matter)
      BY <3>2, <3>3 DEF ThreadsOf, Starting
    <3> QED
      BY <2>3, <3>2, <3>3, <3>4 DEF OverlapInv, TwoInv
  <2> QED
    BY <2>1, <2>2, <2>3
<1>8. UsedFinite'
  <2>1. {v \in Workers : Used(v)'} = {v \in Workers : Used(v)}
    BY <1>1 DEF UsedKept
  <2> QED
    BY <2>1 DEF OverlapInv, UsedFinite
<1> QED
  BY <1>5, <1>6, <1>7, <1>8 DEF OverlapInv

\* So does the start of another run.
LEMMA OverlapStart ==
    ASSUME OcrInv, OverlapInv, \A j \in JobIds : RowMoves(j),
           NEW m \in Matters, NEW w \in Workers, Start(m, w)
    PROVE  OverlapInv'
<1>1. /\ ~Used(w) /\ thr'[w].pc = "claim" /\ thr'[w].matter = m
      /\ \A v \in Workers : v # w => thr'[v] = thr[v]
  BY StartKeeps DEF OcrInv
<1>2. index' = index /\ ~Busy(m) /\ Busy(m)' /\ \A n \in Matters : n # m => ocr'[n] = ocr[n]
  BY DEF Start, Busy, OcrInv, OcrTypeOK
<1>3. UsedKept
  BY <1>1 DEF UsedKept, Used
<1>4. \A n \in Matters : /\ ThreadsOf(n) \subseteq ThreadsOf(n)'
                         /\ ThreeOf(n) => ThreeOf(n)'
  BY <1>3, OfGrows
<1>5. \A n \in Matters : \A v \in ThreadsOf(n)' :
          v # w => v \in ThreadsOf(n) /\ thr'[v] = thr[v]
  BY <1>1 DEF ThreadsOf
<1>6. \A n \in Matters : w \in ThreadsOf(n)' => n = m
  BY <1>1 DEF ThreadsOf
<1>7. w \in ThreadsOf(m)' /\ \A n \in Matters : w \notin ThreadsOf(n)
  BY <1>1 DEF ThreadsOf, Used
<1>8. FreedInv'
  <2> SUFFICES ASSUME NEW n \in Matters, NEW v \in ThreadsOf(n)',
                      thr'[v].pc \in Starting, ~Busy(n)'
               PROVE  \E u \in ThreadsOf(n)' : u # v
    BY DEF FreedInv
  <2>1. n # m /\ v # w
    BY <1>2, <1>6
  <2>2. v \in ThreadsOf(n) /\ thr'[v] = thr[v] /\ ocr'[n] = ocr[n] /\ v \in Workers
    BY <1>2, <1>5, <2>1 DEF ThreadsOf
  <2>3. \E u \in ThreadsOf(n) : u # v
    BY <2>2 DEF OverlapInv, FreedInv, Busy
  <2> QED
    BY <1>4, <2>3
<1>9. TwoInv'
  <2>1. ASSUME NEW v \in ThreadsOf(m), thr[v].pc \in Starting
        PROVE  ThreeOf(m)'
    <3>1. v \in Workers
      BY DEF ThreadsOf
    <3>2. PICK u \in ThreadsOf(m) : u # v
      BY <1>2, <2>1, <3>1 DEF OverlapInv, FreedInv
    <3>3. /\ u \in ThreadsOf(m)' /\ v \in ThreadsOf(m)' /\ w \in ThreadsOf(m)'
          /\ u # v /\ u # w /\ v # w
      BY <1>4, <1>7, <3>2
    <3> QED
      BY <3>3 DEF ThreeOf
  <2> SUFFICES ASSUME NEW n \in Matters, NEW u \in ThreadsOf(n)', NEW v \in ThreadsOf(n)',
                      u # v, thr'[u].pc \in Starting, thr'[v].pc \in Starting
               PROVE  ThreeOf(n)'
    BY DEF TwoInv
  <2>2. CASE u # w /\ v # w
    <3>1. ThreeOf(n)
      BY <1>5, <2>2 DEF OverlapInv, TwoInv
    <3> QED
      BY <1>4, <3>1
  <2>3. CASE u = w
    BY <1>5, <1>6, <2>1, <2>3
  <2>4. CASE v = w
    BY <1>5, <1>6, <2>1, <2>4
  <2> QED
    BY <2>2, <2>3, <2>4
<1>10. CopyInv'
  <2> SUFFICES ASSUME NEW v \in Workers, NEW p \in Pages, thr'[v].pc \in Holding,
                      index'[thr'[v].matter][p] = "ocr_completed",
                      thr'[v].rows[p] # "ocr_completed", NEW n, n = thr'[v].matter
               PROVE  ThreeOf(n)'
    BY DEF CopyInv
  <2>1. v # w /\ thr'[v] = thr[v]
    BY <1>1 DEF Holding
  <2>2. ThreeOf(n)
    BY <1>2, <2>1 DEF OverlapInv, CopyInv
  <2>3. n \in Matters
    BY <2>1, ThreadMatter DEF OcrInv
  <2> QED
    BY <1>4, <2>2, <2>3
<1>11. UsedFinite'
  <2>1. {v \in Workers : Used(v)'} = {v \in Workers : Used(v)} \cup {w}
    BY <1>1 DEF Used
  <2> QED
    BY <2>1, FS_AddElement DEF OverlapInv, UsedFinite
<1> QED
  BY <1>8, <1>9, <1>10, <1>11 DEF OverlapInv

\* And every step does.
LEMMA OverlapInductive == OcrInv /\ OverlapInv /\ [OcrNext]_ocrVars => OverlapInv'
<1> SUFFICES ASSUME OcrInv, OverlapInv, [OcrNext]_ocrVars PROVE OverlapInv'
  OBVIOUS
<1>1. \A j \in JobIds : RowMoves(j)
  BY OcrMoves DEF OcrInv
<1>2. CASE Stands
  <2>1. /\ \A m : ThreadsOf(m)' = ThreadsOf(m)
        /\ {v \in Workers : Used(v)'} = {v \in Workers : Used(v)}
    BY <1>2 DEF Stands, ThreadsOf, Used
  <2>2. \A m : ThreeOf(m)' = ThreeOf(m)
    BY <2>1 DEF ThreeOf
  <2>3. FreedInv'
    BY <1>2, <2>1 DEF OverlapInv, FreedInv, Stands, Busy
  <2>4. TwoInv'
    BY <1>2, <2>1, <2>2 DEF OverlapInv, TwoInv, Stands, ThreadsOf
  <2>5. CopyInv'
    BY <1>2, <2>2 DEF OverlapInv, CopyInv, Stands
  <2>6. UsedFinite'
    BY <2>1 DEF OverlapInv, UsedFinite
  <2> QED
    BY <2>3, <2>4, <2>5, <2>6 DEF OverlapInv
<1>3. CASE Crash
  <2>1. \A v \in Workers : /\ thr'[v].pc \notin Live /\ Used(v)' = Used(v)
    BY <1>3, CrashKeeps DEF OcrInv
  <2>2. Starting \subseteq Live /\ Holding \subseteq Live
    BY DEF Starting, Holding, Live
  <2>3. FreedInv' /\ TwoInv' /\ CopyInv'
    BY <2>1, <2>2 DEF FreedInv, TwoInv, CopyInv, ThreadsOf
  <2>4. {v \in Workers : Used(v)'} = {v \in Workers : Used(v)}
    BY <2>1
  <2> QED
    BY <2>3, <2>4 DEF OverlapInv, UsedFinite
<1>4. ASSUME NEW m \in Matters, NEW w \in Workers, Start(m, w) PROVE OverlapInv'
  BY <1>1, <1>4, OverlapStart
<1>5. ASSUME NEW w \in Workers, ThreadStep(w) PROVE OverlapInv'
  BY <1>5, OverlapThread
<1> QED
  BY <1>2, <1>3, <1>4, <1>5, OcrScenes

\* Three threads are more than two.
LEMMA ThreeAreMany ==
    ASSUME UsedFinite, NEW m, ThreeOf(m)
    PROVE  Cardinality(ThreadsOf(m)) > 2
<1>1. PICK a, b, c \in ThreadsOf(m) : a # b /\ b # c /\ a # c
  BY DEF ThreeOf
<1>2. ThreadsOf(m) \in SUBSET {w \in Workers : Used(w)}
  BY DEF ThreadsOf, Used
<1>3. IsFiniteSet(ThreadsOf(m))
  BY <1>2, FS_Subset DEF UsedFinite
<1>4. IsFiniteSet({a}) /\ Cardinality({a}) = 1
  BY FS_Singleton
<1> DEFINE one == {a}
           two == one \cup {b}
<1>5. b \notin one /\ IsFiniteSet(one) /\ Cardinality(one) = 1
  BY <1>1, <1>4
<1>6. c \notin two
  BY <1>1
<1> HIDE DEF one
<1>7. IsFiniteSet(two) /\ Cardinality(two) = 2
  BY <1>5, FS_AddElement
<1> HIDE DEF two
<1>8. IsFiniteSet(two \cup {c}) /\ Cardinality(two \cup {c}) = 3
  BY <1>6, <1>7, FS_AddElement
<1>9. two \cup {c} \in SUBSET ThreadsOf(m)
  BY <1>1 DEF one, two
<1>10. 3 <= Cardinality(ThreadsOf(m)) /\ Cardinality(ThreadsOf(m)) \in Nat
  BY <1>3, <1>8, <1>9, FS_Subset, FS_CardinalityType
<1> QED
  BY <1>10

\* A page that has its text loses it only where a third run was let in.
THEOREM TextSurvivesTwoRunsAlways == OcrSpec => TextSurvivesTwoRuns
<1>1. OcrInit => OverlapInv
  <2> SUFFICES ASSUME OcrInit PROVE OverlapInv
    OBVIOUS
  <2>1. \A w \in Workers : thr[w].pc = "unused"
    BY NoThreadFields DEF OcrInit
  <2>2. {w \in Workers : Used(w)} = {}
    BY <2>1 DEF Used
  <2>3. UsedFinite
    BY <2>2, FS_EmptySet DEF UsedFinite
  <2> QED
    BY <2>1, <2>3 DEF OverlapInv, FreedInv, TwoInv, CopyInv, Starting, Holding, ThreadsOf
<1>2. OcrInv /\ OverlapInv /\ [OcrNext]_ocrVars =>
      [\A m \in Matters, p \in Pages :
          index[m][p] = "ocr_completed" /\ index'[m][p] # "ocr_completed" =>
              Cardinality({w \in Workers : thr[w].pc # "unused" /\ thr[w].matter = m}) > 2]_ocrVars
  <2> SUFFICES ASSUME OcrInv, OverlapInv, [OcrNext]_ocrVars, NEW m \in Matters, NEW p \in Pages,
                      index[m][p] = "ocr_completed", index'[m][p] # "ocr_completed"
               PROVE  Cardinality(ThreadsOf(m)) > 2
    BY DEF ThreadsOf
  <2>1. PICK w \in Workers : ThreadStep(w)
    BY OcrScenes DEF Stands, Start, Crash
  <2>2. At(w, "write") /\ index' = [index EXCEPT ![thr[w].matter] = thr[w].rows]
    BY <2>1, ThreadCopies
  <2>3. thr[w].matter = m /\ thr[w].rows[p] # "ocr_completed"
    BY <2>2, ThreadMatter DEF OcrInv, OcrTypeOK
  <2>4. ThreeOf(m)
    BY <2>2, <2>3 DEF OverlapInv, CopyInv, Holding, At
  <2> QED
    BY <2>4, ThreeAreMany DEF OverlapInv
<1> QED
  BY <1>1, <1>2, OverlapInductive, OcrInvAlways, PTL DEF OcrSpec, TextSurvivesTwoRuns


-----------------------------------------------------------------------------
(* Second jobs of a matter. *)

\* A set of jobs that is not empty has a newest one.
LEMMA NewestJob ==
    ASSUME NEW S \in SUBSET JobIds, S # {}
    PROVE  \E j \in S : \A i \in S : i <= j
<1> DEFINE R == OpToRel(<, Nat)
           T == {x \in Nat : \E j \in S : x = MaxJobs - j}
<1>1. MaxJobs \in Nat
  BY KernelConstants
<1>2. \A j \in S : j \in Nat /\ MaxJobs - j \in Nat /\ MaxJobs - j \in T
  BY <1>1 DEF JobIds
<1>3. T \subseteq Nat /\ T # {}
  BY <1>2
<1>4. PICK x \in T : \A y \in T : ~(<<y, x>> \in R)
  <2> HIDE DEF T
  <2> QED
    BY <1>3, NatLessThanWellFounded, WFMin
<1>5. PICK j \in S : x = MaxJobs - j
  BY <1>4
<1>6. \A y \in T : ~(y < x)
  BY <1>3, <1>4 DEF OpToRel
<1>7. \A i \in S : i <= j
  BY <1>1, <1>2, <1>5, <1>6
<1> QED
  BY <1>7

\* Ids are dealt in order: below a job that exists every id is in use.
DealtInOrder == \A i, j \in JobIds : i < j /\ Present(j) => Present(i)

Between(i, j) == {k \in JobIds : i < k /\ k < j /\ jobs[k].matter = jobs[i].matter}

\* The step makes no job.
Steady == \A j \in JobIds : Present(j)' => Present(j)

\* None of the operations but create_job makes a job.
LEMMA RowsLikeIsSteady == RowsLike => Steady
BY DEF RowsLike, Steady, Present

LEMMA StopIsSteady ==
    ASSUME TypeOK, NEW j \in JobIds, RequestCancel(j)
    PROVE  Steady
BY DEF RequestCancel, Stoppable, Steady, Present, TypeOK

LEMMA RecoverIsSteady ==
    ASSUME TypeOK, NEW S \in SUBSET JobIds, RecoverExpired(S)
    PROVE  Steady
BY DEF RecoverExpired, MayExpire, Held, HeldStatuses, Steady, Present, TypeOK

LEMMA ClaimIsSteady ==
    ASSUME TypeOK, NEW j \in JobIds, NEW w, NEW s, ClaimJob(j, w, s)
    PROVE  Steady
BY DEF ClaimJob, Claimable, Steady, Present, TypeOK

LEMMA FinishIsSteady ==
    ASSUME TypeOK, NEW j \in JobIds, NEW w, NEW r, NEW e, FinishJob(j, w, r, e)
    PROVE  Steady
BY DEF FinishJob, Owns, Held, HeldStatuses, Steady, Present, TypeOK

\* A step makes no job, or it makes the next one, and an OCR job only for a
\* matter that shows none to resume.
LEMMA OcrCreates ==
    ASSUME OcrInv, [OcrNext]_ocrVars
    PROVE  \/ Steady
           \/ \E n \in JobIds, t \in Types, m \in Matters :
                  /\ CreateJob(n, t, m, NoKey)
                  /\ t = "local_ocr" => Resumable(m) = {}
<1>1. TypeOK /\ OcrTypeOK
  BY DEF OcrInv, OcrTypeOK
<1>2. UNCHANGED kernelVars => Steady
  BY KeptIsLike, RowsLikeIsSteady
<1>3. ASSUME NEW S \in SUBSET JobIds, OpenKernel(S) \/ RuntimeRecover(S)
      PROVE  Steady
  BY <1>1, <1>3, RecoverIsSteady DEF OpenKernel, RuntimeRecover
<1>4. ASSUME NEW m \in Matters, Cancel(m)
      PROVE  Steady
  <2>1. ocr[m] # NoProgress
    BY <1>4 DEF Cancel, Busy, NoProgress
  <2>2. ocr[m].job \in JobIds
    BY <1>1, <2>1, RecordFields
  <2> QED
    BY <1>1, <1>2, <1>4, <2>2, StopIsSteady DEF Cancel
<1>5. ASSUME NEW j \in JobIds, RuntimeCancel(j)
      PROVE  Steady
  BY <1>1, <1>5, StopIsSteady DEF RuntimeCancel
<1>6. ASSUME NEW m \in Matters, OtherWork(m)
      PROVE  \E n \in JobIds, t \in Types \ {"local_ocr"} : CreateJob(n, t, m, NoKey)
  BY <1>6 DEF OtherWork
<1>7. ASSUME NEW m \in Matters, NEW w \in Workers, Start(m, w)
      PROVE  \/ Steady
             \/ \E n \in JobIds : CreateJob(n, "local_ocr", m, NoKey) /\ Resumable(m) = {}
  BY <1>2, <1>7 DEF Start
<1>8. ASSUME NEW w \in Workers, ThreadStep(w)
      PROVE  Steady
  <2>1. Walks(w) \/ Reports(w) \/ Claims(w) \/ Finishes(w) \/ FinishesFailed(w)
    BY <1>1, <1>8, ThreadSteps DEF OcrInv, ThreadsInv
  <2>2. CASE Walks(w) \/ Reports(w)
    BY <2>2, RowsLikeIsSteady DEF Walks, Reports
  <2>3. CASE Claims(w) \/ Finishes(w) \/ FinishesFailed(w)
    <3>1. Used(w)
      BY <2>3 DEF Claims, Finishes, FinishesFailed, At, Used
    <3>2. thr[w].job \in JobIds
      BY <1>1, <3>1, UsedFields DEF UsedThread
    <3> QED
      BY <1>1, <2>3, <3>2, ClaimIsSteady, FinishIsSteady DEF Claims, Finishes, FinishesFailed
  <2> QED
    BY <2>1, <2>2, <2>3
<1>9. Crash \/ OcrTick \/ UNCHANGED ocrVars \/ (\E m \in Matters : CancelUnheard(m)) => Steady
  BY <1>2 DEF Crash, CancelUnheard, OcrTick, Tick, ocrVars, kernelVars, Steady, Present
<1>10. "local_ocr" \in Types
  BY OcrConstants
<1> QED
  BY <1>3, <1>4, <1>5, <1>6, <1>7, <1>8, <1>9, <1>10 DEF OcrNext

\* A job that no start of its matter can resume lies behind ListLimit others.
LEMMA UnseenIsFar ==
    ASSUME TypeOK, NEW m \in Matters, Resumable(m) = {},
           NEW i \in JobIds, ActiveOcr(i), jobs[i].matter = m
    PROVE  Cardinality({k \in JobIds : Present(k) /\ jobs[k].matter = m /\ k > i}) >= ListLimit
<1> DEFINE ofMatter == {k \in JobIds : Present(k) /\ jobs[k].matter = m}
           newer == {k \in ofMatter : k > i}
           seen == {j \in Window(m) : ActiveOcr(j)}
<1>1. seen = {}
  <2> SUFFICES ASSUME seen # {} PROVE FALSE
    OBVIOUS
  <2>1. seen \in SUBSET JobIds
    BY DEF Window
  <2>2. PICK j \in seen : \A k \in seen : k <= j
    BY <2>1, NewestJob
  <2>3. j \in Resumable(m)
    BY <2>2 DEF Resumable
  <2> QED
    BY <2>3
<1>2. i \notin Window(m)
  BY <1>1
<1>3. i \in ofMatter
  BY DEF ActiveOcr
<1>4. ~(Cardinality(newer) < ListLimit)
  BY <1>2, <1>3 DEF Window
<1>5. newer \in SUBSET (1..MaxJobs)
  BY DEF JobIds
<1>6. IsFiniteSet(1..MaxJobs)
  BY KernelConstants, FS_Interval
<1>7. Cardinality(newer) \in Nat
  BY <1>5, <1>6, FS_Subset, FS_CardinalityType
<1>8. newer = {k \in JobIds : Present(k) /\ jobs[k].matter = m /\ k > i}
  OBVIOUS
<1> HIDE DEF newer
<1> QED
  BY <1>4, <1>7, <1>8, OcrConstants

\* The jobs made between two others can be counted.
LEMMA BetweenFinite ==
    ASSUME NEW i \in JobIds, NEW j \in JobIds
    PROVE  /\ IsFiniteSet(Between(i, j)) /\ Cardinality(Between(i, j)) \in Nat
           /\ IsFiniteSet(Between(i, j)') /\ Cardinality(Between(i, j)') \in Nat
<1>1. IsFiniteSet(1..MaxJobs)
  BY KernelConstants, FS_Interval
<1>2. Between(i, j) \in SUBSET (1..MaxJobs) /\ Between(i, j)' \in SUBSET (1..MaxJobs)
  BY DEF Between, JobIds
<1> QED
  BY <1>1, <1>2, FS_Subset, FS_CardinalityType

\* A pair of jobs keeps the jobs made between them.
LEMMA PairKept ==
    ASSUME TypeOK, DuplicatesOutOfWindow, NEW i \in JobIds, NEW j \in JobIds, i < j,
           ActiveOcr(i), ActiveOcr(j), jobs[i].matter = jobs[j].matter,
           jobs'[i].matter = jobs[i].matter,
           \A k \in JobIds : k < j => jobs'[k].matter = jobs[k].matter
    PROVE  Cardinality(Between(i, j)') >= ListLimit
<1>1. Between(i, j)' = Between(i, j)
  BY DEF Between
<1>2. Cardinality(Between(i, j)) >= ListLimit
  BY DEF DuplicatesOutOfWindow, Between
<1> QED
  BY <1>1, <1>2

\* A second active OCR job of a matter exists only where the first lay outside
\* of the twenty jobs the start route looks at.
THEOREM DuplicatesOutOfWindowAlways == OcrSpec => []DuplicatesOutOfWindow
<1> DEFINE I == DealtInOrder /\ DuplicatesOutOfWindow
<1>1. OcrInit => I
  BY DEF OcrInit, KernelInit, AbsentRow, DealtInOrder, DuplicatesOutOfWindow, ActiveOcr, Present
<1>2. OcrInv /\ I /\ [OcrNext]_ocrVars => I'
  <2> SUFFICES ASSUME OcrInv, I, [OcrNext]_ocrVars
               PROVE  I'
    OBVIOUS
  <2>1. TypeOK /\ TypeOK' /\ \A j \in JobIds : RowMoves(j)
    BY OcrMoves DEF OcrInv, OcrTypeOK
  <2>2. CASE Steady
    <3>1. DealtInOrder'
      BY <2>1, <2>2 DEF DealtInOrder, Steady, RowMoves
    <3>2. ASSUME NEW i \in JobIds, NEW j \in JobIds, i < j,
                 ActiveOcr(i)', ActiveOcr(j)', jobs'[i].matter = jobs'[j].matter
          PROVE  Cardinality(Between(i, j)') >= ListLimit
      <4>1. ASSUME NEW k \in JobIds, ActiveOcr(k)'
            PROVE  ActiveOcr(k) /\ jobs'[k].matter = jobs[k].matter
        <5>1. Present(k)
          BY <2>2, <4>1 DEF ActiveOcr, Steady
        <5>2. jobs[k].status \notin TERMINAL_STATUSES
          BY <2>1, <4>1 DEF ActiveOcr, RowMoves, TERMINAL_STATUSES, ACTIVE_STATUSES
        <5>3. jobs[k].status \in ACTIVE_STATUSES
          BY <2>1, <5>1, <5>2 DEF TypeOK, Row, Present
        <5> QED
          BY <2>1, <4>1, <5>1, <5>3 DEF ActiveOcr, RowMoves
      <4>2. ActiveOcr(i) /\ ActiveOcr(j) /\ jobs'[i].matter = jobs[i].matter
            /\ jobs[i].matter = jobs[j].matter
        BY <3>2, <4>1
      <4>3. \A k \in JobIds : k < j => jobs'[k].matter = jobs[k].matter
        BY <2>1, <4>2 DEF ActiveOcr, DealtInOrder, RowMoves
      <4> QED
        BY <2>1, <3>2, <4>2, <4>3, PairKept
    <3> QED
      BY <3>1, <3>2 DEF DuplicatesOutOfWindow, Between
  <2>3. ASSUME NEW n \in JobIds, NEW t \in Types, NEW m \in Matters,
               CreateJob(n, t, m, NoKey), t = "local_ocr" => Resumable(m) = {}
        PROVE  I'
    <3>1. /\ jobs'[n].status = "queued" /\ jobs'[n].type = t /\ jobs'[n].matter = m
          /\ \A k \in JobIds : k # n => jobs'[k] = jobs[k]
      BY <2>1, <2>3, CreateIsQuiet
    <3>2. \A k \in JobIds : Present(k) <=> k < n
      BY <2>3 DEF CreateJob, NextId
    <3>3. \A k \in JobIds : Present(k)' <=> k <= n
      BY <3>1, <3>2 DEF Present, JobIds
    <3>4. DealtInOrder'
      BY <3>3 DEF DealtInOrder, JobIds
    <3>5. ASSUME NEW i \in JobIds, NEW j \in JobIds, i < j,
                 ActiveOcr(i)', ActiveOcr(j)', jobs'[i].matter = jobs'[j].matter
          PROVE  Cardinality(Between(i, j)') >= ListLimit
      <4>1. i < n /\ j <= n /\ i \in Int /\ j \in Int /\ n \in Int
        BY <3>3, <3>5 DEF ActiveOcr, JobIds
      <4>2. jobs'[i] = jobs[i] /\ ActiveOcr(i)
        BY <3>1, <3>5, <4>1 DEF ActiveOcr, Present
      <4>3. CASE j # n
        <5>1. jobs'[j] = jobs[j] /\ ActiveOcr(j)
          BY <3>1, <3>5, <4>3 DEF ActiveOcr, Present
        <5>2. \A k \in JobIds : k < j => jobs'[k].matter = jobs[k].matter
          BY <3>1, <4>1 DEF JobIds
        <5> QED
          BY <2>1, <3>5, <4>2, <5>1, <5>2, PairKept
      <4>4. CASE j = n
        <5> DEFINE newer == {k \in JobIds : Present(k) /\ jobs[k].matter = m /\ k > i}
        <5>1. t = "local_ocr" /\ jobs[i].matter = m
          BY <3>1, <3>5, <4>2, <4>4 DEF ActiveOcr
        <5>2. Cardinality(newer) >= ListLimit
          BY <2>1, <2>3, <4>2, <5>1, UnseenIsFar
        <5>3. newer \in SUBSET Between(i, j)'
          BY <3>1, <3>2, <4>2, <4>4, <5>1 DEF Between, JobIds
        <5> HIDE DEF newer
        <5>4. Cardinality(newer) <= Cardinality(Between(i, j)')
          BY <5>3, BetweenFinite, FS_Subset
        <5>5. Cardinality(newer) \in Nat /\ Cardinality(Between(i, j)') \in Nat
          BY <5>3, BetweenFinite, FS_Subset, FS_CardinalityType
        <5> QED
          BY <5>2, <5>4, <5>5, OcrConstants
      <4> QED
        BY <4>3, <4>4
    <3> QED
      BY <3>4, <3>5 DEF DuplicatesOutOfWindow, Between
  <2> QED
    BY <2>2, <2>3, OcrCreates
<1> QED
  BY <1>1, <1>2, OcrInvAlways, PTL DEF OcrSpec

-----------------------------------------------------------------------------
(* Batches: what the file, the call and the rows have to do with each other. *)

StoredBatch == [items : SUBSET Items, cancelled : SUBSET Items, groups : Groups]
FileCall == [op : {"none", "create", "cancel", "settle"}, batch : Batches,
             items : SUBSET Items, groups : Groups]

BatchShapes ==
    /\ TypeOK
    /\ payload \in [JobIds -> SUBSET Items]
    /\ store \in [Batches -> StoredBatch]
    /\ call \in FileCall
    /\ cut \subseteq {"create", "cancel"} \X Batches /\ outside \subseteq JobIds

\* The job is one for this group.
JobFor(j, b, s) == j \in JobIds /\ Present(j) /\ jobs[j].key = GroupKey(b, s)

RowsInv ==
    \A j \in JobIds : Present(j) =>
        /\ jobs[j].status \in {"queued", "cancelled"}
        /\ \E b \in Batches, s \in Sigs : jobs[j].key = GroupKey(b, s)

StoreInv ==
    \A b \in Batches :
        /\ store[b].cancelled \subseteq store[b].items
        /\ DOMAIN store[b].groups = SigsOf(store[b].items)
        /\ \A s \in DOMAIN store[b].groups : JobFor(store[b].groups[s].job, b, s)

\* What a call holds, and what it has made of the kernel.
CreatingInv ==
    call.op = "create" =>
        /\ call.items # {} /\ store[call.batch].items = {}
        /\ DOMAIN call.groups \subseteq SigsOf(call.items)
        /\ \A s \in DOMAIN call.groups : JobFor(call.groups[s].job, call.batch, s)

CancellingInv ==
    call.op \in {"cancel", "settle"} =>
        \E i \in LiveItems(call.batch) :
            /\ call.items = {i}
            /\ DOMAIN call.groups = DOMAIN store[call.batch].groups
            /\ \A s \in DOMAIN call.groups :
                /\ call.groups[s].job = store[call.batch].groups[s].job
                /\ call.groups[s].status \in {store[call.batch].groups[s].status, "cancelled"}
            /\ call.op = "settle" /\ LastOfGroup(call.batch, i) =>
                /\ jobs[call.groups[SigOf[i]].job].status = "cancelled"
                /\ call.groups[SigOf[i]].status = "cancelled"

\* Why a job was cancelled: by a route, with the last item of its group, by a
\* call that is about to write so, or by one that was cut short.
Cancelled(b, s) ==
    /\ store[b].items # {}
    /\ \/ Members(LiveItems(b), s) = {}
       \/ <<"cancel", b>> \in cut
       \/ call.op = "settle" /\ call.batch = b /\ Members(LiveItems(b), s) \subseteq call.items

ReasonsInv ==
    \A j \in JobIds, b \in Batches, s \in Sigs :
        JobFor(j, b, s) /\ jobs[j].status = "cancelled" => j \in outside \/ Cancelled(b, s)

\* Why a job has its payload.
PayloadsInv ==
    \A j \in JobIds, b \in Batches, s \in Sigs :
        JobFor(j, b, s) =>
            \/ <<"create", b>> \in cut
            \/ store[b].items # {} /\ payload[j] = Members(store[b].items, s)
            \/ call.op = "create" /\ call.batch = b /\ payload[j] = Members(call.items, s)

BatchInv ==
    /\ BatchShapes /\ RowsInv /\ StoreInv /\ CreatingInv /\ CancellingInv
    /\ ReasonsInv /\ PayloadsInv /\ CancelledNeverWaits

-----------------------------------------------------------------------------
(* What a call does to the kernel. *)

\* The groups of a batch are named by signatures.
LEMMA SigsAreSigs == \A I \in SUBSET Items : SigsOf(I) \subseteq Sigs
BY BatchConstants DEF SigsOf

\* Every kernel step of a batch is an operation of the kernel.
LEMMA KernelTypesStep ==
    ASSUME TypeOK, [KernelNext]_kernelVars PROVE TypeOK'
<1>1. Shape /\ \A j \in JobIds : jobs'[j] \in Row /\ log'[j] \in Seq(Event)
  BY StepOfRows, RowStepType
<1> QED
  BY <1>1 DEF Shape, TypeOK

\* A job a call creates is queued, with its key; no other row changes.
LEMMA CreatedJob ==
    ASSUME TypeOK, NEW j \in JobIds, NEW b \in Batches, NEW s \in Sigs,
           CreateJob(j, "batch_inference", Matter, GroupKey(b, s))
    PROVE  /\ TypeOK'
           /\ ~Present(j) /\ Present(j)'
           /\ jobs'[j].status = "queued" /\ jobs'[j].key = GroupKey(b, s)
           /\ \A i \in JobIds : i # j => jobs'[i] = jobs[i]
<1>1. GroupKey(b, s) \in Keys \cup {NoKey} /\ "batch_inference" \in Types /\ Matter \in Matters
  BY BatchConstants DEF GroupKey
<1>2. KernelNext
  BY <1>1 DEF KernelNext
<1>3. TypeOK'
  BY <1>2, KernelTypesStep
<1>4. ~Present(j)
  BY KernelConstants DEF CreateJob, NextId, JobIds
<1>5. jobs'[j] = NewRow("batch_inference", Matter, GroupKey(b, s))
      /\ \A i \in JobIds : i # j => jobs'[i] = jobs[i]
  BY DEF CreateJob, TypeOK
<1> QED
  BY <1>3, <1>4, <1>5 DEF NewRow, AbsentRow, Present

\* A queued job that is asked to stop is cancelled; no other row changes.
LEMMA StoppedJob ==
    ASSUME TypeOK, RowsInv, NEW j \in JobIds, RequestCancel(j)
    PROVE  /\ TypeOK'
           /\ Present(j) /\ Present(j)'
           /\ jobs'[j].status = "cancelled" /\ jobs'[j].key = jobs[j].key
           /\ \A i \in JobIds : i # j => jobs'[i] = jobs[i]
<1>1. TypeOK'
  BY KernelTypesStep DEF KernelNext
<1>2. jobs[j] \in Row /\ jobs[j].status = "queued"
  BY DEF TypeOK, RowsInv, RequestCancel, Stoppable, Present
<1>3. jobs'[j] = [jobs[j] EXCEPT !.status = "cancelled", !.stamped = TRUE]
  BY <1>2 DEF RequestCancel, StoppedRow, TypeOK
<1>4. jobs'[j].status = "cancelled" /\ jobs'[j].key = jobs[j].key
  BY <1>2, <1>3 DEF Row
<1> QED
  BY <1>1, <1>2, <1>4 DEF Present, RequestCancel, TypeOK

\* CancelledNeverWaits, batch by batch and group by group.
LEMMA NeverWaitsForm ==
    CancelledNeverWaits <=>
        \A b \in Batches, s \in Sigs :
            s \in DOMAIN store[b].groups /\ Members(LiveItems(b), s) = {} =>
                /\ jobs[store[b].groups[s].job].status = "cancelled"
                /\ store[b].groups[s].status = "cancelled"
<1>1. ASSUME CancelledNeverWaits, NEW b \in Batches, NEW s \in Sigs,
             s \in DOMAIN store[b].groups, Members(LiveItems(b), s) = {}
      PROVE  /\ jobs[store[b].groups[s].job].status = "cancelled"
             /\ store[b].groups[s].status = "cancelled"
  <2>1. <<b, s>> \in StoredGroups /\ JobOf(<<b, s>>) = store[b].groups[s].job
    BY <1>1 DEF StoredGroups, JobOf
  <2>2. <<b, s>>[1] = b /\ <<b, s>>[2] = s
    OBVIOUS
  <2> QED
    BY <1>1, <2>1, <2>2 DEF CancelledNeverWaits
<1>2. \A p \in StoredGroups : p[1] \in Batches /\ p[2] \in Sigs
  BY DEF StoredGroups
<1> QED
  BY <1>1, <1>2 DEF CancelledNeverWaits, StoredGroups, JobOf

\* The file lock that nobody holds is a call of its type.
LEMMA NoCallShape == NoCall \in FileCall /\ NoCall.op = "none" /\ <<>> \in Groups
<1>1. <<>> = [t \in {} |-> t]
  OBVIOUS
<1>2. <<>> \in [{} -> Group]
  BY <1>1
<1>3. <<>> \in Groups
  BY <1>2 DEF Groups
<1>4. (CHOOSE b \in Batches : TRUE) \in Batches
  BY BatchConstants
<1> QED
  BY <1>3, <1>4 DEF NoCall, FileCall

\* A table of groups with one more group, or with a new status for one.
LEMMA GroupsGrow ==
    ASSUME NEW g \in Groups, NEW s \in Sigs, NEW j \in JobIds,
           NEW st \in ACTIVE_STATUSES \cup TERMINAL_STATUSES
    PROVE  [t \in DOMAIN g \cup {s} |-> IF t = s THEN [job |-> j, status |-> st] ELSE g[t]]
               \in Groups
<1>1. PICK S \in SUBSET Sigs : g \in [S -> Group]
  BY DEF Groups
<1>2. [t \in S \cup {s} |-> IF t = s THEN [job |-> j, status |-> st] ELSE g[t]]
          \in [S \cup {s} -> Group]
  BY <1>1 DEF Group
<1>3. S \cup {s} \in SUBSET Sigs
  OBVIOUS
<1> QED
  BY <1>1, <1>2, <1>3 DEF Groups

\* A group whose status is rewritten is still a group of its batch.
LEMMA GroupsSettle ==
    ASSUME NEW g \in Groups, NEW s \in DOMAIN g, NEW st \in ACTIVE_STATUSES \cup TERMINAL_STATUSES
    PROVE  /\ [g EXCEPT ![s].status = st] \in Groups
           /\ DOMAIN [g EXCEPT ![s].status = st] = DOMAIN g
           /\ \A t \in DOMAIN g : t # s => [g EXCEPT ![s].status = st][t] = g[t]
           /\ [g EXCEPT ![s].status = st][s].job = g[s].job
           /\ [g EXCEPT ![s].status = st][s].status = st
<1>1. PICK S \in SUBSET Sigs : g \in [S -> Group]
  BY DEF Groups
<1>2. g[s] \in Group
  BY <1>1
<1>3. [g[s] EXCEPT !.status = st] \in Group /\ [g[s] EXCEPT !.status = st].job = g[s].job
      /\ [g[s] EXCEPT !.status = st].status = st
  BY <1>2 DEF Group
<1>4. [g EXCEPT ![s].status = st] \in [S -> Group]
  BY <1>1, <1>3
<1> QED
  BY <1>1, <1>3, <1>4 DEF Groups

-----------------------------------------------------------------------------
(* Calls that begin or end without touching the kernel. *)

\* The accounts hold before the first batch.
LEMMA BatchBegins == BatchInit => BatchInv
<1> SUFFICES ASSUME BatchInit PROVE BatchInv
  OBVIOUS
<1>1. TypeOK /\ \A j \in JobIds : ~Present(j)
  <2>1. KernelInit
    BY DEF BatchInit
  <2>2. TypeOK
    BY <2>1, AbsentRowType, KernelConstants DEF KernelInit, TypeOK
  <2> QED
    BY <2>1, <2>2 DEF KernelInit, Present, AbsentRow
<1>2. call = NoCall /\ call \in FileCall /\ call.op = "none" /\ <<>> \in Groups
  BY NoCallShape DEF BatchInit
<1>3. \A b \in Batches : /\ store[b] = NoBatch /\ store[b] \in StoredBatch
                         /\ store[b].items = {} /\ store[b].cancelled = {}
                         /\ DOMAIN store[b].groups = {}
  BY <1>2 DEF BatchInit, NoBatch, StoredBatch
<1>4. BatchShapes
  BY <1>1, <1>2, <1>3 DEF BatchShapes, BatchInit
<1>5. StoreInv /\ CancelledNeverWaits
  BY <1>3 DEF StoreInv, SigsOf, CancelledNeverWaits, StoredGroups
<1> QED
  BY <1>1, <1>2, <1>4, <1>5
     DEF BatchInv, RowsInv, CreatingInv, CancellingInv, ReasonsInv, PayloadsInv, JobFor

\* Each action keeps the accounts.  Taking the lock for a create:
LEMMA CreateBeginKept ==
    ASSUME BatchInv, NEW b \in Batches, NEW I \in SUBSET Items, CreateBegin(b, I)
    PROVE  BatchInv'
<1> USE DEF BatchInv, CreateBegin, kernelVars
<1>1. /\ call'.op = "create" /\ call'.batch = b /\ call'.items = I /\ call'.groups = <<>>
      /\ call' \in FileCall /\ call.op = "none"
  BY NoCallShape DEF FileCall
<1>2. BatchShapes'
  BY <1>1 DEF BatchShapes, TypeOK
<1>3. RowsInv' /\ StoreInv'
  BY DEF RowsInv, StoreInv, Present, JobFor
<1>4. CreatingInv' /\ CancellingInv'
  BY <1>1 DEF CreatingInv, CancellingInv, NoBatch
<1>5. ReasonsInv' /\ PayloadsInv'
  BY <1>1 DEF ReasonsInv, PayloadsInv, Cancelled, JobFor, Present, LiveItems
<1>6. CancelledNeverWaits'
  BY DEF CancelledNeverWaits, StoredGroups, JobOf, LiveItems
<1> QED
  BY <1>2, <1>3, <1>4, <1>5, <1>6

\* Taking the lock for a cancellation:
LEMMA CancelBeginKept ==
    ASSUME BatchInv, NEW b \in Batches, NEW i \in Items, CancelBegin(b, i)
    PROVE  BatchInv'
<1> USE DEF BatchInv, CancelBegin, kernelVars
<1>0. store[b] \in StoredBatch
  BY DEF BatchShapes
<1>1. /\ call'.op = "cancel" /\ call'.batch = b /\ call'.items = {i}
      /\ call'.groups = store[b].groups /\ call' \in FileCall /\ call.op = "none"
  BY <1>0, NoCallShape DEF StoredBatch, FileCall
<1>2. BatchShapes'
  BY <1>1 DEF BatchShapes, TypeOK
<1>3. RowsInv' /\ StoreInv'
  BY DEF RowsInv, StoreInv, Present, JobFor
<1>4. CreatingInv' /\ CancellingInv'
  BY <1>1 DEF CreatingInv, CancellingInv, LiveItems
<1>5. ReasonsInv' /\ PayloadsInv'
  BY <1>1 DEF ReasonsInv, PayloadsInv, Cancelled, JobFor, Present, LiveItems
<1>6. CancelledNeverWaits'
  BY DEF CancelledNeverWaits, StoredGroups, JobOf, LiveItems
<1> QED
  BY <1>2, <1>3, <1>4, <1>5, <1>6

\* A call that is cut short leaves its mark in the history:
LEMMA CutShortKept ==
    ASSUME BatchInv, CutShort PROVE BatchInv'
<1> USE DEF BatchInv, CutShort, kernelVars
<1>1. call' \in FileCall /\ call'.op = "none"
  BY NoCallShape
<1>2. BatchShapes'
  BY <1>1 DEF BatchShapes, TypeOK, FileCall
<1>3. RowsInv' /\ StoreInv'
  BY DEF RowsInv, StoreInv, Present, JobFor
<1>4. CreatingInv' /\ CancellingInv'
  BY <1>1 DEF CreatingInv, CancellingInv
<1>5. ReasonsInv' /\ PayloadsInv'
  BY <1>1 DEF ReasonsInv, PayloadsInv, Cancelled, JobFor, Present, LiveItems
<1>6. CancelledNeverWaits'
  BY DEF CancelledNeverWaits, StoredGroups, JobOf, LiveItems
<1> QED
  BY <1>2, <1>3, <1>4, <1>5, <1>6

\* A batch is written with the jobs of all of its groups:
LEMMA CreateWriteKept ==
    ASSUME BatchInv, CreateWrite PROVE BatchInv'
<1> USE DEF BatchInv, CreateWrite, kernelVars
<1>0. PICK b \in Batches, I \in SUBSET Items, g \in Groups :
        b = call.batch /\ I = call.items /\ g = call.groups
  BY DEF BatchShapes, FileCall
<1>1. call' \in FileCall /\ call'.op = "none"
  BY NoCallShape
<1>2. /\ store'[b] = [items |-> I, cancelled |-> {}, groups |-> g]
      /\ \A c \in Batches : c # b => store'[c] = store[c]
      /\ store' \in [Batches -> StoredBatch]
  BY <1>0 DEF BatchShapes, StoredBatch
<1>3. /\ I # {} /\ store[b].items = {} /\ DOMAIN g = SigsOf(I)
      /\ \A s \in DOMAIN g : JobFor(g[s].job, b, s)
  BY <1>0 DEF CreatingInv, Missing
<1>4. BatchShapes'
  BY <1>1, <1>2 DEF BatchShapes, TypeOK
<1>5. RowsInv' /\ StoreInv'
  BY <1>2, <1>3 DEF RowsInv, StoreInv, Present, JobFor
<1>6. CreatingInv' /\ CancellingInv'
  BY <1>1 DEF CreatingInv, CancellingInv
<1>7. ReasonsInv'
  BY <1>0, <1>1, <1>2, <1>3 DEF ReasonsInv, Cancelled, JobFor, Present, LiveItems, Members
<1>8. PayloadsInv'
  BY <1>0, <1>1, <1>2, <1>3 DEF PayloadsInv, JobFor, Present
<1>9. \A s \in DOMAIN g : Members(I, s) # {}
  BY <1>3 DEF SigsOf, Members
<1>10. CancelledNeverWaits'
  <2> SUFFICES ASSUME NEW c \in Batches, NEW s \in Sigs, s \in DOMAIN store'[c].groups,
                      Members(LiveItems(c), s)' = {}
               PROVE  /\ jobs'[store'[c].groups[s].job].status = "cancelled"
                      /\ store'[c].groups[s].status = "cancelled"
    BY DEF CancelledNeverWaits, StoredGroups, JobOf
  <2>1. c # b
    BY <1>2, <1>9 DEF LiveItems, Members
  <2> QED
    BY <1>2, <2>1, NeverWaitsForm DEF LiveItems, Members
<1> QED
  BY <1>4, <1>5, <1>6, <1>7, <1>8, <1>10

-----------------------------------------------------------------------------
(* Calls and routes that change the kernel. *)

\* A job that is present keeps what it is for.
KeepsJobs ==
    \A j \in JobIds : Present(j) =>
        Present(j)' /\ jobs'[j].key = jobs[j].key
                    /\ (jobs[j].status = "cancelled" => jobs'[j].status = "cancelled")

\* A job is made, or taken over, for the next group:
LEMMA CreateGroupKept ==
    ASSUME BatchInv, CreateGroup PROVE BatchInv'
<1> USE DEF BatchInv
<1>0. PICK b \in Batches, I \in SUBSET Items, g \in Groups :
        b = call.batch /\ I = call.items /\ g = call.groups /\ call.op = "create"
  BY DEF BatchShapes, FileCall, CreateGroup
<1>1. PICK s \in Missing, j \in JobIds :
        /\ \/ /\ CreateJob(j, "batch_inference", Matter, GroupKey(b, s))
              /\ payload' = [payload EXCEPT ![j] = Payload(I, s)]
           \/ /\ j \in Existing("batch_inference", Matter, GroupKey(b, s))
              /\ UNCHANGED <<kernelVars, payload>>
        /\ call' = [call EXCEPT !.groups =
                       [t \in DOMAIN @ \cup {s} |->
                           IF t = s THEN [job |-> j, status |-> jobs'[j].status] ELSE @[t]]]
        /\ UNCHANGED <<store, cut, outside>>
  BY <1>0 DEF CreateGroup
<1>2. s \in Sigs /\ s \in SigsOf(I) /\ s \notin DOMAIN g
  BY <1>0, SigsAreSigs DEF Missing
<1>3. /\ TypeOK' /\ JobFor(j, b, s)' /\ jobs'[j].status \in {"queued", "cancelled"} /\ KeepsJobs
      /\ \A i \in JobIds : i # j => jobs'[i] = jobs[i] /\ payload'[i] = payload[i]
      /\ \/ jobs'[j].status = "queued" /\ ~Present(j) /\ payload'[j] = Members(I, s)
         \/ jobs' = jobs /\ payload' = payload
      /\ payload' \in [JobIds -> SUBSET Items]
  <2>1. CASE /\ CreateJob(j, "batch_inference", Matter, GroupKey(b, s))
             /\ payload' = [payload EXCEPT ![j] = Payload(I, s)]
    <3>1. /\ TypeOK' /\ ~Present(j) /\ Present(j)'
          /\ jobs'[j].status = "queued" /\ jobs'[j].key = GroupKey(b, s)
          /\ \A i \in JobIds : i # j => jobs'[i] = jobs[i]
      BY <1>2, <2>1, CreatedJob DEF BatchShapes
    <3>2. /\ payload'[j] = Members(I, s) /\ payload' \in [JobIds -> SUBSET Items]
          /\ \A i \in JobIds : i # j => payload'[i] = payload[i]
      BY <2>1 DEF BatchShapes, Payload, Members
    <3> QED
      BY <3>1, <3>2 DEF JobFor, KeepsJobs, Present
  <2>2. CASE /\ j \in Existing("batch_inference", Matter, GroupKey(b, s))
             /\ UNCHANGED <<kernelVars, payload>>
    BY <2>2 DEF Existing, JobFor, Present, RowsInv, KeepsJobs, kernelVars, BatchShapes, TypeOK
  <2> QED
    BY <1>1, <2>1, <2>2
<1>4. /\ call' \in FileCall /\ call'.op = "create" /\ call'.batch = b /\ call'.items = I
      /\ call'.groups = [t \in DOMAIN g \cup {s} |->
                            IF t = s THEN [job |-> j, status |-> jobs'[j].status] ELSE g[t]]
  <2>1. [t \in DOMAIN g \cup {s} |->
            IF t = s THEN [job |-> j, status |-> jobs'[j].status] ELSE g[t]] \in Groups
    <3>1. jobs'[j].status \in ACTIVE_STATUSES \cup TERMINAL_STATUSES
      BY <1>3 DEF ACTIVE_STATUSES, TERMINAL_STATUSES
    <3> QED
      BY <1>2, <3>1, GroupsGrow
  <2> DEFINE grown == [t \in DOMAIN g \cup {s} |->
                          IF t = s THEN [job |-> j, status |-> jobs'[j].status] ELSE g[t]]
  <2>2. call' = [call EXCEPT !.groups = grown]
    BY <1>0, <1>1
  <2>3. call \in FileCall
    BY DEF BatchShapes
  <2> HIDE DEF grown
  <2>4. /\ call' \in FileCall /\ call'.op = "create" /\ call'.batch = b /\ call'.items = I
        /\ call'.groups = grown
    <3>1. grown \in Groups
      BY <2>1 DEF grown
    <3> QED
      BY <1>0, <2>2, <2>3, <3>1 DEF FileCall
  <2> QED
    BY <2>4 DEF grown
<1>5. BatchShapes'
  BY <1>1, <1>3, <1>4 DEF BatchShapes
<1>6. RowsInv'
  BY <1>2, <1>3 DEF RowsInv, JobFor, Present
<1>7. StoreInv'
  BY <1>1, <1>3 DEF StoreInv, JobFor, KeepsJobs
<1>8. CreatingInv' /\ CancellingInv'
  <2>1. /\ I # {} /\ store'[b].items = {} /\ DOMAIN g \subseteq SigsOf(I)
        /\ \A t \in DOMAIN g : JobFor(g[t].job, b, t)
    BY <1>0, <1>1 DEF CreatingInv
  <2>2. /\ DOMAIN call'.groups = DOMAIN g \cup {s} /\ call'.groups[s].job = j
        /\ \A t \in DOMAIN g : call'.groups[t] = g[t]
    BY <1>2, <1>4
  <2>3. \A t \in DOMAIN g : JobFor(g[t].job, b, t)'
    BY <1>3, <2>1 DEF JobFor, KeepsJobs
  <2>4. ASSUME NEW t \in DOMAIN call'.groups PROVE JobFor(call.groups[t].job, b, t)'
    <3>1. CASE t = s
      BY <1>3, <2>2, <3>1
    <3>2. CASE t # s
      BY <2>2, <2>3, <3>2
    <3> QED
      BY <3>1, <3>2
  <2>5. DOMAIN call'.groups \subseteq SigsOf(I)
    BY <1>2, <2>1, <2>2
  <2>6. call'.op = "create" /\ call'.batch = b /\ call'.items = I
    BY <1>4
  <2>7. CreatingInv'
    BY <2>1, <2>4, <2>5, <2>6 DEF CreatingInv, JobFor
  <2> QED
    BY <2>6, <2>7 DEF CancellingInv
<1>9. \A i \in JobIds, c \in Batches, t \in Sigs :
         JobFor(i, c, t)' => JobFor(i, c, t) \/ (i = j /\ c = b /\ t = s)
  BY <1>3 DEF JobFor, Present, GroupKey
<1>10. ReasonsInv'
  BY <1>0, <1>1, <1>3, <1>4, <1>9 DEF ReasonsInv, Cancelled, JobFor, LiveItems, Members, Present
<1>11. PayloadsInv'
  BY <1>0, <1>1, <1>2, <1>3, <1>4, <1>9 DEF PayloadsInv, JobFor, Members, Present
<1>12. CancelledNeverWaits'
  <2> SUFFICES ASSUME NEW c \in Batches, NEW t \in Sigs, t \in DOMAIN store[c].groups,
                      Members(LiveItems(c), t) = {}
               PROVE  /\ jobs'[store[c].groups[t].job].status = "cancelled"
                      /\ store[c].groups[t].status = "cancelled"
    BY <1>1 DEF CancelledNeverWaits, StoredGroups, JobOf, LiveItems, Members
  <2>1. JobFor(store[c].groups[t].job, c, t)
    BY DEF StoreInv
  <2> QED
    BY <1>3, <2>1, NeverWaitsForm DEF KeepsJobs, JobFor
<1> QED
  BY <1>5, <1>6, <1>7, <1>8, <1>10, <1>11, <1>12

\* While the file stays as it is, cancelling a job breaks nothing in it.
LEMMA CancellingKeeps ==
    ASSUME BatchInv, NEW j \in JobIds, RequestCancel(j), UNCHANGED <<payload, store>>
    PROVE  /\ TypeOK' /\ KeepsJobs /\ RowsInv' /\ StoreInv' /\ CancelledNeverWaits'
           /\ jobs'[j].status = "cancelled"
           /\ \A i \in JobIds : /\ i # j => jobs'[i] = jobs[i]
                                /\ \A b \in Batches, s \in Sigs :
                                       JobFor(i, b, s)' <=> JobFor(i, b, s)
<1> USE DEF BatchInv
<1>1. /\ TypeOK' /\ Present(j) /\ Present(j)'
      /\ jobs'[j].status = "cancelled" /\ jobs'[j].key = jobs[j].key
      /\ \A i \in JobIds : i # j => jobs'[i] = jobs[i]
  BY StoppedJob DEF BatchShapes
<1>2. KeepsJobs
  BY <1>1 DEF KeepsJobs, Present
<1>3. RowsInv'
  BY <1>1 DEF RowsInv, Present
<1>4. \A i \in JobIds, b \in Batches, s \in Sigs : JobFor(i, b, s)' <=> JobFor(i, b, s)
  BY <1>1 DEF JobFor, Present
<1>5. StoreInv'
  BY <1>1 DEF StoreInv, JobFor, Present
<1>6. CancelledNeverWaits'
  <2> SUFFICES ASSUME NEW c \in Batches, NEW t \in Sigs, t \in DOMAIN store[c].groups,
                      Members(LiveItems(c), t) = {}
               PROVE  /\ jobs'[store[c].groups[t].job].status = "cancelled"
                      /\ store[c].groups[t].status = "cancelled"
    BY DEF CancelledNeverWaits, StoredGroups, JobOf, LiveItems, Members
  <2>1. JobFor(store[c].groups[t].job, c, t)
    BY DEF StoreInv
  <2> QED
    BY <1>2, <2>1, NeverWaitsForm DEF KeepsJobs, JobFor
<1> QED
  BY <1>1, <1>2, <1>3, <1>4, <1>5, <1>6

\* A job route cancels a job behind the back of its batch:
LEMMA JobRouteCancelKept ==
    ASSUME BatchInv, NEW j \in JobIds, JobRouteCancel(j) PROVE BatchInv'
<1> USE DEF BatchInv
<1>1. /\ TypeOK' /\ KeepsJobs /\ RowsInv' /\ StoreInv' /\ CancelledNeverWaits'
      /\ jobs'[j].status = "cancelled"
      /\ \A i \in JobIds : /\ i # j => jobs'[i] = jobs[i]
                           /\ \A b \in Batches, s \in Sigs : JobFor(i, b, s)' <=> JobFor(i, b, s)
      /\ UNCHANGED <<payload, store, call, cut>> /\ outside' = outside \cup {j}
  BY CancellingKeeps DEF JobRouteCancel
<1>2. BatchShapes'
  BY <1>1 DEF BatchShapes
<1>3. CreatingInv'
  BY <1>1 DEF CreatingInv, JobFor, KeepsJobs
<1>4. CancellingInv'
  <2> SUFFICES ASSUME call.op \in {"cancel", "settle"}
               PROVE  CancellingInv'
    BY <1>1 DEF CancellingInv
  <2>1. PICK i \in LiveItems(call.batch) :
            /\ call.items = {i}
            /\ DOMAIN call.groups = DOMAIN store[call.batch].groups
            /\ \A s \in DOMAIN call.groups :
                /\ call.groups[s].job = store[call.batch].groups[s].job
                /\ call.groups[s].status \in {store[call.batch].groups[s].status, "cancelled"}
            /\ call.op = "settle" /\ LastOfGroup(call.batch, i) =>
                /\ jobs[call.groups[SigOf[i]].job].status = "cancelled"
                /\ call.groups[SigOf[i]].status = "cancelled"
    BY DEF CancellingInv
  <2>2. SigOf[i] \in DOMAIN call.groups /\ call.groups[SigOf[i]].job \in JobIds
        /\ Present(call.groups[SigOf[i]].job)
    BY <2>1 DEF StoreInv, JobFor, LiveItems, SigsOf, BatchShapes, FileCall
  <2>3. jobs[call.groups[SigOf[i]].job].status = "cancelled" =>
            jobs'[call.groups[SigOf[i]].job].status = "cancelled"
    BY <1>1, <2>2 DEF KeepsJobs
  <2> QED
    BY <1>1, <2>1, <2>3 DEF CancellingInv, LastOfGroup, Members, LiveItems
<1>5. ReasonsInv'
  BY <1>1 DEF ReasonsInv, Cancelled, LiveItems, Members
<1>6. PayloadsInv'
  BY <1>1 DEF PayloadsInv, Members
<1> QED
  BY <1>1, <1>2, <1>3, <1>4, <1>5, <1>6

\* What a cancelling call knows of its item and of the group of the item.
LEMMA CancellingItem ==
    ASSUME BatchInv, call.op \in {"cancel", "settle"}
    PROVE  \E i \in Items :
              /\ i \in LiveItems(call.batch) /\ call.items = {i} /\ SigOf[i] \in Sigs
              /\ SigOf[i] \in DOMAIN call.groups
              /\ store[call.batch].items # {}
              /\ DOMAIN call.groups = DOMAIN store[call.batch].groups
              /\ \A s \in DOMAIN call.groups :
                  /\ call.groups[s].job = store[call.batch].groups[s].job
                  /\ call.groups[s].status \in {store[call.batch].groups[s].status, "cancelled"}
                  /\ JobFor(call.groups[s].job, call.batch, s)
              /\ call.op = "settle" /\ LastOfGroup(call.batch, i) =>
                  /\ jobs[call.groups[SigOf[i]].job].status = "cancelled"
                  /\ call.groups[SigOf[i]].status = "cancelled"
<1>1. PICK i \in LiveItems(call.batch) :
          /\ call.items = {i}
          /\ DOMAIN call.groups = DOMAIN store[call.batch].groups
          /\ \A s \in DOMAIN call.groups :
              /\ call.groups[s].job = store[call.batch].groups[s].job
              /\ call.groups[s].status \in {store[call.batch].groups[s].status, "cancelled"}
          /\ call.op = "settle" /\ LastOfGroup(call.batch, i) =>
              /\ jobs[call.groups[SigOf[i]].job].status = "cancelled"
              /\ call.groups[SigOf[i]].status = "cancelled"
  BY DEF BatchInv, CancellingInv
<1>2. call.batch \in Batches /\ i \in Items /\ i \in store[call.batch].items
  BY DEF LiveItems, BatchInv, BatchShapes, FileCall, StoredBatch
<1>3. SigOf[i] \in Sigs /\ SigOf[i] \in DOMAIN call.groups
  BY <1>1, <1>2, BatchConstants DEF BatchInv, StoreInv, SigsOf
<1> QED
  BY <1>1, <1>2, <1>3 DEF BatchInv, StoreInv

\* The job of the last live item of a group is cancelled in the kernel:
LEMMA CancelAskKept ==
    ASSUME BatchInv, CancelAsk PROVE BatchInv'
<1> USE DEF BatchInv
<1>0. PICK b \in Batches, g \in Groups, i \in Items :
        /\ b = call.batch /\ g = call.groups /\ call.op = "cancel"
        /\ i \in LiveItems(b) /\ call.items = {i} /\ SigOf[i] \in Sigs
        /\ SigOf[i] \in DOMAIN g /\ store[b].items # {}
        /\ DOMAIN g = DOMAIN store[b].groups
        /\ \A t \in DOMAIN g :
            /\ g[t].job = store[b].groups[t].job
            /\ g[t].status \in {store[b].groups[t].status, "cancelled"}
            /\ JobFor(g[t].job, b, t)
  BY CancellingItem DEF CancelAsk, BatchShapes, FileCall
<1> DEFINE s == SigOf[i]
           j == g[s].job
<1>1. /\ \/ /\ LastOfGroup(b, i)
            /\ RequestCancel(j) \/ (~Stoppable(j) /\ UNCHANGED kernelVars)
            /\ call' = [call EXCEPT !.op = "settle", !.groups[s].status = jobs'[j].status]
         \/ /\ ~LastOfGroup(b, i)
            /\ call' = [call EXCEPT !.op = "settle"]
            /\ UNCHANGED kernelVars
      /\ UNCHANGED <<payload, store, cut, outside>>
  BY <1>0 DEF CancelAsk
<1>2. j \in JobIds /\ JobFor(j, b, s) /\ s \in Sigs /\ s \in DOMAIN g
  BY <1>0 DEF JobFor
<1> HIDE DEF s, j
<1>3. /\ TypeOK' /\ KeepsJobs /\ RowsInv' /\ StoreInv' /\ CancelledNeverWaits'
      /\ \A k \in JobIds : /\ k # j \/ ~LastOfGroup(b, i) => jobs'[k] = jobs[k]
                           /\ \A c \in Batches, t \in Sigs : JobFor(k, c, t)' <=> JobFor(k, c, t)
      /\ LastOfGroup(b, i) => jobs'[j].status = "cancelled"
  <2>1. CASE LastOfGroup(b, i) /\ RequestCancel(j)
    BY <1>1, <1>2, <2>1, CancellingKeeps
  <2>2. CASE UNCHANGED kernelVars
    <3>1. KeepsJobs /\ RowsInv' /\ StoreInv' /\ TypeOK'
      BY <1>1, <2>2
      DEF kernelVars, KeepsJobs, RowsInv, StoreInv, JobFor, Present, BatchShapes, TypeOK
    <3>2. \A k \in JobIds, c \in Batches, t \in Sigs : JobFor(k, c, t)' <=> JobFor(k, c, t)
      BY <2>2 DEF kernelVars, JobFor, Present
    <3>3. CancelledNeverWaits'
      BY <1>1, <2>2 DEF kernelVars, CancelledNeverWaits, StoredGroups, JobOf, LiveItems
    <3>4. LastOfGroup(b, i) => jobs'[j].status = "cancelled"
      <4>1. ~Stoppable(j) => jobs[j].status = "cancelled"
        BY <1>2 DEF Stoppable, RowsInv, JobFor
      <4>2. Stoppable(j) /\ LastOfGroup(b, i) => jobs'[j].status = "cancelled"
        BY <1>1, <1>2, StoppedJob DEF BatchShapes
      <4> QED
        BY <2>2, <4>1, <4>2 DEF kernelVars
    <3> QED
      BY <2>2, <3>1, <3>2, <3>3, <3>4 DEF kernelVars
  <2> QED
    BY <1>1, <2>1, <2>2
<1>4. /\ call' \in FileCall /\ call'.op = "settle" /\ call'.batch = b /\ call'.items = {i}
      /\ DOMAIN call'.groups = DOMAIN g
      /\ \A t \in DOMAIN g : /\ call'.groups[t].job = g[t].job
                             /\ call'.groups[t].status \in {g[t].status, "cancelled"}
      /\ LastOfGroup(b, i) => call'.groups[s].status = "cancelled"
  <2>1. CASE LastOfGroup(b, i)
    <3>1. jobs'[j].status = "cancelled"
      BY <1>3, <2>1
    <3>2. /\ call'.op = "settle" /\ call'.batch = b /\ call'.items = {i}
          /\ call'.groups = [g EXCEPT ![s].status = "cancelled"]
          /\ call' \in FileCall
      <4>1. call \in FileCall
        BY DEF BatchShapes
      <4>2. [g EXCEPT ![s].status = "cancelled"] \in Groups
        BY <1>2, GroupsSettle DEF TERMINAL_STATUSES
      <4>3. call' = [call EXCEPT !.op = "settle", !.groups = [g EXCEPT ![s].status = "cancelled"]]
        BY <1>0, <1>1, <2>1, <3>1
      <4> QED
        BY <1>0, <4>1, <4>2, <4>3 DEF FileCall
    <3>3. /\ [g EXCEPT ![s].status = "cancelled"] \in Groups
          /\ DOMAIN [g EXCEPT ![s].status = "cancelled"] = DOMAIN g
          /\ \A t \in DOMAIN g : t # s => [g EXCEPT ![s].status = "cancelled"][t] = g[t]
          /\ [g EXCEPT ![s].status = "cancelled"][s].job = g[s].job
          /\ [g EXCEPT ![s].status = "cancelled"][s].status = "cancelled"
      BY <1>2, GroupsSettle DEF TERMINAL_STATUSES
    <3> QED
      BY <3>2, <3>3
  <2>2. CASE ~LastOfGroup(b, i)
    <3>1. /\ call'.op = "settle" /\ call'.batch = b /\ call'.items = {i} /\ call'.groups = g
          /\ call' \in FileCall
      <4>1. call \in FileCall
        BY DEF BatchShapes
      <4>2. call' = [call EXCEPT !.op = "settle"]
        BY <1>1, <2>2
      <4> QED
        BY <1>0, <4>1, <4>2 DEF FileCall
    <3> QED
      BY <2>2, <3>1
  <2> QED
    BY <2>1, <2>2
<1>5. BatchShapes' /\ CreatingInv'
  BY <1>1, <1>3, <1>4 DEF BatchShapes, CreatingInv
<1>6. CancellingInv'
  <2>1. LastOfGroup(b, i)' <=> LastOfGroup(b, i)
    BY <1>1 DEF LastOfGroup, Members, LiveItems
  <2>2. i \in LiveItems(b)'
    BY <1>0, <1>1 DEF LiveItems
  <2>3. LastOfGroup(b, i) => jobs'[call'.groups[s].job].status = "cancelled"
    BY <1>2, <1>3, <1>4 DEF j
  <2>4. \A t \in DOMAIN call'.groups :
            /\ call'.groups[t].job = store'[b].groups[t].job
            /\ call'.groups[t].status \in {store'[b].groups[t].status, "cancelled"}
    BY <1>0, <1>1, <1>4
  <2>5. call'.op \in {"cancel", "settle"} /\ call'.batch = b /\ call'.items = {i}
        /\ DOMAIN call'.groups = DOMAIN store'[b].groups
    BY <1>0, <1>1, <1>4
  <2>6. LastOfGroup(b, i)' => /\ jobs'[call'.groups[SigOf[i]].job].status = "cancelled"
                              /\ call'.groups[SigOf[i]].status = "cancelled"
    BY <1>4, <2>1, <2>3 DEF s
  <2>7. LastOfGroup(call.batch, i)' = LastOfGroup(b, i)' /\ LiveItems(call.batch)' = LiveItems(b)'
    BY <2>5 DEF LastOfGroup, LiveItems
  <2>8. /\ call'.items = {i}
        /\ DOMAIN call'.groups = DOMAIN store'[call'.batch].groups
        /\ \A t \in DOMAIN call'.groups :
            /\ call'.groups[t].job = store'[call'.batch].groups[t].job
            /\ call'.groups[t].status \in {store'[call'.batch].groups[t].status, "cancelled"}
    BY <2>4, <2>5
  <2>9. i \in LiveItems(call.batch)'
    BY <2>2, <2>7
  <2>10. call'.op = "settle" /\ LastOfGroup(call.batch, i)' =>
             /\ jobs'[call'.groups[SigOf[i]].job].status = "cancelled"
             /\ call'.groups[SigOf[i]].status = "cancelled"
    BY <2>6, <2>7
  <2> QED
    BY <2>8, <2>9, <2>10 DEF CancellingInv
<1>7. ReasonsInv'
  <2> SUFFICES ASSUME NEW k \in JobIds, NEW c \in Batches, NEW t \in Sigs, JobFor(k, c, t),
                      jobs'[k].status = "cancelled", k \notin outside
               PROVE  Cancelled(c, t)'
    BY <1>1, <1>3 DEF ReasonsInv
  <2>1. CASE k = j /\ LastOfGroup(b, i)
    <3>1. c = b /\ t = s
      BY <1>2, <2>1 DEF JobFor, GroupKey
    <3>2. Members(LiveItems(b), s)' \subseteq {i}
      BY <1>1, <2>1 DEF LastOfGroup, Members, LiveItems, s
    <3> QED
      BY <1>0, <1>1, <1>4, <3>1, <3>2 DEF Cancelled
  <2>2. CASE ~(k = j /\ LastOfGroup(b, i))
    <3>1. Cancelled(c, t)
      BY <1>3, <2>2 DEF ReasonsInv
    <3> QED
      BY <1>0, <1>1, <3>1 DEF Cancelled, Members, LiveItems
  <2> QED
    BY <2>1, <2>2
<1>8. PayloadsInv'
  BY <1>0, <1>1, <1>3 DEF PayloadsInv, Members
<1> QED
  BY <1>3, <1>5, <1>6, <1>7, <1>8

\* And then the item in the file:
LEMMA CancelWriteKept ==
    ASSUME BatchInv, CancelWrite PROVE BatchInv'
<1> USE DEF BatchInv
<1>a. UNCHANGED <<jobs, log, now, payload, cut, outside>> /\ call' = NoCall
  BY DEF CancelWrite, kernelVars
<1>0. PICK b \in Batches, g \in Groups, i \in Items :
        /\ b = call.batch /\ g = call.groups /\ call.op = "settle"
        /\ i \in LiveItems(b) /\ call.items = {i} /\ store[b].items # {}
        /\ DOMAIN g = DOMAIN store[b].groups
        /\ \A t \in DOMAIN g :
            /\ g[t].job = store[b].groups[t].job
            /\ g[t].status \in {store[b].groups[t].status, "cancelled"}
            /\ JobFor(g[t].job, b, t)
        /\ LastOfGroup(b, i) => /\ jobs[g[SigOf[i]].job].status = "cancelled"
                                /\ g[SigOf[i]].status = "cancelled"
  BY CancellingItem DEF CancelWrite, BatchShapes, FileCall
<1>1. call' \in FileCall /\ call'.op = "none"
  BY <1>a, NoCallShape
<1>2. /\ store'[b].items = store[b].items /\ store'[b].groups = g
      /\ store'[b].cancelled = store[b].cancelled \cup {i}
      /\ \A c \in Batches : c # b => store'[c] = store[c]
      /\ store' \in [Batches -> StoredBatch]
  <2>1. store[b] \in StoredBatch
    BY DEF BatchShapes
  <2> DEFINE written == [[store[b] EXCEPT !.cancelled = @ \cup {i}] EXCEPT !.groups = g]
  <2>2. /\ written \in StoredBatch /\ written.items = store[b].items /\ written.groups = g
        /\ written.cancelled = store[b].cancelled \cup {i}
    BY <2>1 DEF StoredBatch
  <2>3. store' = [store EXCEPT ![b] = written]
    BY <1>0 DEF CancelWrite, BatchShapes
  <2> HIDE DEF written
  <2> QED
    BY <2>2, <2>3 DEF BatchShapes
<1>3. i \in store[b].items /\ LiveItems(b)' = LiveItems(b) \ {i}
      /\ \A c \in Batches : c # b => LiveItems(c)' = LiveItems(c)
  BY <1>0, <1>2 DEF LiveItems
<1>4. BatchShapes'
  BY <1>a, <1>1, <1>2 DEF BatchShapes, TypeOK
<1>5. RowsInv' /\ CreatingInv' /\ CancellingInv'
  BY <1>a, <1>1 DEF RowsInv, Present, CreatingInv, CancellingInv
<1>6. StoreInv'
  <2> SUFFICES ASSUME NEW c \in Batches
               PROVE  /\ store'[c].cancelled \subseteq store'[c].items
                      /\ DOMAIN store'[c].groups = SigsOf(store'[c].items)
                      /\ \A t \in DOMAIN store'[c].groups : JobFor(store[c].groups[t].job, c, t)'
    BY DEF StoreInv
  <2>1. /\ store[c].cancelled \subseteq store[c].items
        /\ DOMAIN store[c].groups = SigsOf(store[c].items)
        /\ \A t \in DOMAIN store[c].groups : JobFor(store[c].groups[t].job, c, t)
    BY DEF StoreInv
  <2>2. \A k, t : JobFor(k, c, t)' <=> JobFor(k, c, t)
    BY <1>a DEF JobFor, Present
  <2>3. /\ store'[c].items = store[c].items
        /\ store'[c].cancelled \subseteq store[c].cancelled \cup (IF c = b THEN {i} ELSE {})
        /\ DOMAIN store'[c].groups = DOMAIN store[c].groups
        /\ \A t \in DOMAIN store[c].groups : store'[c].groups[t].job = store[c].groups[t].job
    BY <1>0, <1>2
  <2>4. store'[c].cancelled \subseteq store'[c].items
    BY <1>3, <2>1, <2>3
  <2>5. ASSUME NEW t \in DOMAIN store'[c].groups PROVE JobFor(store[c].groups[t].job, c, t)'
    BY <2>1, <2>2, <2>3
  <2> QED
    BY <2>1, <2>3, <2>4, <2>5
<1>7. ReasonsInv'
  <2> SUFFICES ASSUME NEW k \in JobIds, NEW c \in Batches, NEW t \in Sigs, Cancelled(c, t)
               PROVE  Cancelled(c, t)'
    BY <1>a DEF ReasonsInv, JobFor, Present
  <2> QED
    BY <1>a, <1>0, <1>2, <1>3 DEF Cancelled, Members
<1>8. PayloadsInv'
  <2> SUFFICES ASSUME NEW k \in JobIds, NEW c \in Batches, NEW t \in Sigs, JobFor(k, c, t)'
               PROVE  \/ <<"create", c>> \in cut
                      \/ store'[c].items # {} /\ payload[k] = Members(store'[c].items, t)
    BY <1>a DEF PayloadsInv, Members
  <2>1. JobFor(k, c, t)
    BY <1>a DEF JobFor, Present
  <2>2. \/ <<"create", c>> \in cut
        \/ store[c].items # {} /\ payload[k] = Members(store[c].items, t)
    BY <1>0, <2>1 DEF PayloadsInv
  <2>3. store'[c].items = store[c].items
    BY <1>0, <1>2
  <2> QED
    BY <2>2, <2>3
<1>9. CancelledNeverWaits'
  <2> SUFFICES ASSUME NEW c \in Batches, NEW t \in Sigs, t \in DOMAIN store'[c].groups,
                      Members(LiveItems(c), t)' = {}
               PROVE  /\ jobs[store'[c].groups[t].job].status = "cancelled"
                      /\ store'[c].groups[t].status = "cancelled"
    BY <1>a DEF CancelledNeverWaits, StoredGroups, JobOf
  <2>1. CASE c # b
    <3>1. t \in DOMAIN store[c].groups /\ Members(LiveItems(c), t) = {}
      BY <1>2, <1>3, <2>1 DEF Members
    <3> QED
      BY <1>2, <2>1, <3>1, NeverWaitsForm
  <2>2. CASE c = b /\ Members(LiveItems(b), t) = {}
    BY <1>0, <1>2, <2>2, NeverWaitsForm
  <2>3. CASE c = b /\ Members(LiveItems(b), t) # {}
    <3>1. t = SigOf[i] /\ LastOfGroup(b, i)
      BY <1>3, <2>3 DEF Members, LastOfGroup
    <3> QED
      BY <1>0, <1>2, <2>3, <3>1
  <2> QED
    BY <2>1, <2>2, <2>3
<1> QED
  BY <1>4, <1>5, <1>6, <1>7, <1>8, <1>9

-----------------------------------------------------------------------------
(* The theorems. *)

\* The accounts hold in every state the scheduler can reach.
LEMMA BatchInvariant == BatchSpec => []BatchInv
<1>1. BatchInv /\ [BatchNext]_batchVars => BatchInv'
  <2> SUFFICES ASSUME BatchInv, [BatchNext]_batchVars PROVE BatchInv'
    OBVIOUS
  <2>1. CASE BatchNext
    BY <2>1, CreateBeginKept, CreateGroupKept, CreateWriteKept, CancelBeginKept, CancelAskKept,
       CancelWriteKept, CutShortKept, JobRouteCancelKept DEF BatchNext
  <2>2. CASE UNCHANGED batchVars
    <3>1. BatchShapes' /\ RowsInv' /\ StoreInv'
      BY <2>2 DEF batchVars, BatchInv, BatchShapes, TypeOK, RowsInv, StoreInv, JobFor, Present
    <3>2. CreatingInv' /\ PayloadsInv'
      BY <2>2 DEF batchVars, BatchInv, CreatingInv, PayloadsInv, JobFor, Present
    <3>3. CancellingInv'
      BY <2>2 DEF batchVars, BatchInv, CancellingInv, LastOfGroup, LiveItems, Members
    <3>4. ReasonsInv'
      BY <2>2 DEF batchVars, BatchInv, ReasonsInv, Cancelled, JobFor, Present, LiveItems, Members
    <3>5. CancelledNeverWaits'
      BY <2>2 DEF batchVars, BatchInv, CancelledNeverWaits, StoredGroups, JobOf, LiveItems, Members
    <3> QED
      BY <3>1, <3>2, <3>3, <3>4, <3>5 DEF BatchInv
  <2> QED
    BY <2>1, <2>2
<1> QED
  BY <1>1, BatchBegins, PTL DEF BatchSpec

\* Rows, file, payloads and the call that holds the lock are ones the code can
\* make; a stored batch has a job for each of its groups and no other.
THEOREM BatchTypes == BatchSpec => []BatchTypeOK
<1>1. BatchInv => BatchTypeOK
  <2> SUFFICES ASSUME BatchInv PROVE BatchTypeOK
    OBVIOUS
  <2>1. ASSUME NEW b \in Batches
        PROVE  /\ store[b].items \subseteq Items /\ store[b].cancelled \subseteq store[b].items
               /\ store[b].groups \in [SigsOf(store[b].items) -> Group]
    <3>1. PICK S \in SUBSET Sigs : store[b].groups \in [S -> Group]
      BY DEF BatchInv, BatchShapes, StoredBatch, Groups
    <3>2. S = SigsOf(store[b].items)
      BY <3>1 DEF BatchInv, StoreInv
    <3> QED
      BY <3>1, <3>2 DEF BatchInv, BatchShapes, StoredBatch, StoreInv
  <2> QED
    BY <2>1 DEF BatchInv, BatchShapes, FileCall, BatchTypeOK
<1> QED
  BY <1>1, BatchInvariant, PTL

\* A batch reaches the kernel by its operations alone, so what is proved of the
\* kernel holds under batches.
THEOREM BatchUsesTheKernel == BatchSpec => KernelSpec
<1>1. BatchInit => KernelInit
  BY DEF BatchInit
<1>2. BatchInv /\ [BatchNext]_batchVars => [KernelNext]_kernelVars
  <2> SUFFICES ASSUME BatchInv, [BatchNext]_batchVars
               PROVE  KernelNext \/ UNCHANGED kernelVars
    OBVIOUS
  <2>1. CASE CreateGroup
    <3>1. call.batch \in Batches /\ call.items \in SUBSET Items
      BY DEF BatchInv, BatchShapes, FileCall
    <3>2. Missing \subseteq Sigs
      BY <3>1, SigsAreSigs DEF Missing
    <3>3. ASSUME NEW s \in Sigs
          PROVE  /\ GroupKey(call.batch, s) \in Keys \cup {NoKey}
                 /\ "batch_inference" \in Types /\ Matter \in Matters
      BY <3>1, BatchConstants DEF GroupKey
    <3> QED
      BY <2>1, <3>2, <3>3 DEF CreateGroup, KernelNext
  <2>2. CASE CancelAsk
    <3>1. PICK i \in Items : /\ call.items = {i} /\ SigOf[i] \in DOMAIN call.groups
                            /\ JobFor(call.groups[SigOf[i]].job, call.batch, SigOf[i])
      BY <2>2, CancellingItem DEF CancelAsk
    <3>2. call.groups[SigOf[i]].job \in JobIds
      BY <3>1 DEF JobFor
    <3> QED
      BY <2>2, <3>1, <3>2 DEF CancelAsk, KernelNext
  <2>3. ASSUME NEW j \in JobIds, JobRouteCancel(j)
        PROVE  KernelNext
    BY <2>3 DEF JobRouteCancel, KernelNext
  <2> QED
    BY <2>1, <2>2, <2>3
    DEF BatchNext, CreateBegin, CreateWrite, CancelBegin, CancelWrite, CutShort,
        batchVars, kernelVars
<1> QED
  BY <1>1, <1>2, BatchInvariant, PTL DEF BatchSpec, KernelSpec

\* Wherever calls are cut short and whatever the job routes do: items that are
\* all cancelled leave no job waiting, and a group with a live item has its job
\* queued unless a route or a cancellation that was cut short took it.
THEOREM BatchMatchesJobs == BatchSpec => []ItemsMatchJobs
<1>1. BatchInv => ItemsMatchJobs
  <2> SUFFICES ASSUME BatchInv, NEW p \in StoredGroups, Members(LiveItems(p[1]), p[2]) # {},
                      ~(/\ call.op = "settle" /\ call.batch = p[1]
                        /\ Members(LiveItems(p[1]), p[2]) \subseteq call.items)
               PROVE  \/ jobs[JobOf(p)].status = "queued"
                      \/ JobOf(p) \in outside \/ <<"cancel", p[1]>> \in cut
    BY DEF BatchInv, ItemsMatchJobs, LiveItemsHaveWork
  <2>1. p[1] \in Batches /\ p[2] \in Sigs /\ JobFor(JobOf(p), p[1], p[2])
    BY DEF BatchInv, StoreInv, StoredGroups, JobOf
  <2> QED
    BY <2>1 DEF BatchInv, RowsInv, ReasonsInv, Cancelled, JobFor
<1> QED
  BY <1>1, BatchInvariant, PTL

\* A job was made for exactly the items of its group, unless it was taken over
\* from a create of the batch that was cut short.
THEOREM BatchPayloads == BatchSpec => []PayloadIsTheGroup
<1>1. BatchInv => PayloadIsTheGroup
  <2> SUFFICES ASSUME BatchInv, NEW p \in StoredGroups
               PROVE  \/ payload[JobOf(p)] = Members(store[p[1]].items, p[2])
                      \/ <<"create", p[1]>> \in cut
    BY DEF PayloadIsTheGroup
  <2>1. /\ p[1] \in Batches /\ p[2] \in Sigs /\ JobFor(JobOf(p), p[1], p[2])
        /\ JobOf(p) \in JobIds /\ store[p[1]].items # {}
    BY DEF BatchInv, StoreInv, StoredGroups, JobOf, JobFor, SigsOf
  <2> QED
    BY <2>1 DEF BatchInv, PayloadsInv, CreatingInv
<1> QED
  BY <1>1, BatchInvariant, PTL
=============================================================================
