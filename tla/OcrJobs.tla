------------------------------- MODULE OcrJobs -------------------------------
(***************************************************************************)
(* Local OCR of a matter's records: the start, status and cancel routes of *)
(* api.py, the worker thread each start spawns, and run_local_ocr, on top  *)
(* of the durable job kernel.                                              *)
(*                                                                         *)
(* The server keeps one progress record per matter in memory (_ocr_jobs,   *)
(* under _ocr_job_lock); the kernel keeps the durable job.  A worker       *)
(* thread owns neither: it reaches the progress record through the matter  *)
(* and the durable row through its worker id, so either may have passed to *)
(* another thread meanwhile.  The server process may die at any moment:    *)
(* threads and progress records vanish, the kernel and the index stay.     *)
(* Every call of the kernel may fail with a database error, which is not   *)
(* among the refusals that the thread expects.                             *)
(*                                                                         *)
(* A worker id is a fresh uuid per start, so a thread is its worker id and *)
(* is used once.                                                           *)
(***************************************************************************)
EXTENDS JobKernel

CONSTANTS
    Pages,      \* the candidate records of a matter that lack text
    ClaimLease, \* the lease an OCR worker asks for (300 seconds)
    ListLimit,  \* how many of a matter's newest jobs the start route looks at (20)
    MaxErrors   \* bound: the database errors that end a thread or cut a cancellation

ASSUME OcrConstants ==
    /\ "local_ocr" \in Types
    /\ ClaimLease \in Nat /\ ListLimit \in Nat \ {0}
    /\ MaxErrors \in Nat

VARIABLES
    opened,  \* this server process has opened the kernel
    thr,     \* the worker threads
    ocr,     \* _ocr_jobs: the progress record of each matter
    index    \* private_search_index.json: the OCR status of each page

ocrVars == <<jobs, log, now, opened, thr, ocr, index>>

NoJob == 0
PageStatuses == {"ocr_not_run", "ocr_completed", "ocr_failed"}
RunStatuses == {"not_ready", "completed", "cancelled"}

\* Where a thread is: in worker(), in run_local_ocr(), settling, or gone.
Live == {"claim", "reread", "report", "announce", "load", "check", "engine",
         "write", "summary", "result", "finish", "fail", "failfinish"}
Ended == {"done",    \* it returned
          "dead",    \* its process died
          "broken"}  \* a database error left it

\* Whether the kernel was told of a cancellation that set an event.
Hearings == {"heard", "unheard"}

NotRun == [p \in Pages |-> "ocr_not_run"]
NoThread == [pc |-> "unused", matter |-> CHOOSE m \in Matters : TRUE, job |-> NoJob,
             cancelled |-> {}, says |-> "none", rows |-> NotRun]

Thread == {NoThread} \cup
          [pc : Live \cup Ended,
           matter : Matters,
           job : JobIds,
           cancelled : SUBSET Hearings, \* the cancellations that set its cancel_event
           says : {"none"} \cup RunStatuses \cup ACTIVE_STATUSES \cup TERMINAL_STATUSES,
                                        \* what it reports; of a broken one, the last it told
           rows : [Pages -> PageStatuses]] \* its copy of the records

NoProgress == [status |-> "none", job |-> NoJob, worker |-> NoWorker]

Progress == {NoProgress} \cup
            [status : RunStatuses \cup ACTIVE_STATUSES \cup TERMINAL_STATUSES,
             job : JobIds,
             worker : Workers]          \* the thread whose cancel_event it holds

OcrInit ==
    /\ KernelInit
    /\ opened = FALSE
    /\ thr = [w \in Workers |-> NoThread]
    /\ ocr = [m \in Matters |-> NoProgress]
    /\ index = [m \in Matters |-> NotRun]

Candidates(rows) == {p \in Pages : rows[p] = "ocr_not_run"}

\* Deviation: a run that has not announced itself yet is not seen.
BusyOnceRunning(m) == ocr[m].status = "running"
Busy(m) == ocr[m].status \in {"queued", "running"}

\* The errors that left their mark on a thread are fewer than the bound.
ErrorsAllowed ==
    Cardinality({w \in Workers : thr[w].pc = "broken"})
        + Cardinality({w \in Workers : "unheard" \in thr[w].cancelled}) < MaxErrors

-----------------------------------------------------------------------------
(* The server process and its routes. *)

\* get_runtime_kernel: the first use of the kernel in a process recovers the
\* expired leases; every route below needs an open kernel.
OpenKernel(S) ==
    /\ ~opened
    /\ RecoverExpired(S)
    /\ opened' = TRUE
    /\ UNCHANGED <<thr, ocr, index>>

\* The jobs of a matter that list_jobs returns, newest first.
Window(m) ==
    LET ofMatter == {j \in JobIds : Present(j) /\ jobs[j].matter = m}
    IN  {j \in ofMatter : Cardinality({i \in ofMatter : i > j}) < ListLimit}

ActiveOcr(j) ==
    Present(j) /\ jobs[j].type = "local_ocr" /\ jobs[j].status \in ACTIVE_STATUSES

\* Deviation: a job that was asked to stop is not resumed but made anew.
ResumableUnlessStopping(m) ==
    {j \in Window(m) : /\ ActiveOcr(j) /\ jobs[j].status # "cancel_requested"
                       /\ \A i \in Window(m) : ActiveOcr(i) => i <= j}

\* The durable job a start resumes: the newest active OCR job in the window.
Resumable(m) == {j \in Window(m) : /\ ActiveOcr(j)
                                   /\ \A i \in Window(m) : ActiveOcr(i) => i <= j}

\* corpus_ocr_start, for an approved request, when no run is under way.
Start(m, w) ==
    /\ opened
    /\ thr[w].pc = "unused"
    /\ Candidates(index[m]) # {}
    /\ ~Busy(m)
    /\ \E j \in JobIds :
           /\ \/ j \in Resumable(m) /\ UNCHANGED kernelVars
              \/ Resumable(m) = {} /\ CreateJob(j, "local_ocr", m, NoKey)
           /\ ocr' = [ocr EXCEPT ![m] = [status |-> "queued", job |-> j, worker |-> w]]
           /\ thr' = [thr EXCEPT ![w] = [NoThread EXCEPT !.pc = "claim", !.matter = m,
                                                         !.job = j]]
    /\ UNCHANGED <<opened, index>>

SetEvent(m, hearing) ==
    thr' = [thr EXCEPT ![ocr[m].worker].cancelled = @ \cup {hearing}]

\* Deviation: the kernel is not asked, and the caller is told that it was.
CancelEventOnly(m) ==
    /\ opened /\ Busy(m)
    /\ SetEvent(m, "heard")
    /\ UNCHANGED <<kernelVars, opened, ocr, index>>

\* corpus_ocr_cancel: sets the event the progress record holds and asks the
\* kernel, under the lock; without a run under way it answers "idle".
Cancel(m) ==
    /\ opened
    /\ Busy(m)
    /\ SetEvent(m, "heard")
    /\ \/ RequestCancel(ocr[m].job)
       \/ ~Stoppable(ocr[m].job) /\ UNCHANGED kernelVars
    /\ UNCHANGED <<opened, ocr, index>>

\* The event is set and the kernel is not asked: a database error, or the death
\* of the process, comes between the two, and the caller gets no answer.  With
\* Cancel after it, this is also the moment between the two steps of one call,
\* in which the lock is held but the thread already sees the event.
CancelUnheard(m) ==
    /\ opened
    /\ Busy(m) /\ ErrorsAllowed
    /\ SetEvent(m, "unheard")
    /\ UNCHANGED <<kernelVars, opened, ocr, index>>

\* The job routes of production.py: cancel a durable job, recover expired
\* leases, and schedule other work in the matter.
RuntimeCancel(j) == opened /\ RequestCancel(j) /\ UNCHANGED <<opened, thr, ocr, index>>
RuntimeRecover(S) == opened /\ RecoverExpired(S) /\ UNCHANGED <<opened, thr, ocr, index>>
OtherWork(m) ==
    /\ opened
    /\ \E j \in JobIds, t \in Types \ {"local_ocr"} : CreateJob(j, t, m, NoKey)
    /\ UNCHANGED <<opened, thr, ocr, index>>

\* The process dies and another one starts.
Crash ==
    /\ opened
    /\ opened' = FALSE
    /\ thr' = [w \in Workers |-> IF thr[w].pc \in Live
                                 THEN [thr[w] EXCEPT !.pc = "dead", !.says = "none",
                                                     !.rows = NotRun]
                                 ELSE thr[w]]
    /\ ocr' = [m \in Matters |-> NoProgress]
    /\ UNCHANGED <<kernelVars, index>>

-----------------------------------------------------------------------------
(* The worker thread.  update_progress writes the status into the progress  *)
(* record of the matter, whoever's it is now, and then heartbeats; a        *)
(* refused heartbeat is ignored, a database error is not.                   *)

Tell(w, status) == ocr' = [ocr EXCEPT ![thr[w].matter].status = status]

UpdateProgress(w, status) ==
    /\ Tell(w, status)
    /\ IF Owns(thr[w].job, w)
       THEN \E p \in 0..FullProgress : Heartbeat(thr[w].job, w, p)
       ELSE UNCHANGED kernelVars

\* cancellation_requested
CancellationRequested(w) ==
    thr[w].cancelled # {} \/ jobs[thr[w].job].status \in {"cancel_requested", "cancelled"}

At(w, pc) == thr[w].pc = pc
Goto(w, pc) == thr' = [thr EXCEPT ![w].pc = pc]
GotoSaying(w, pc, status) == thr' = [thr EXCEPT ![w].pc = pc, ![w].says = status]

ThreadClaim(w) ==
    /\ At(w, "claim")
    /\ \/ ClaimJob(thr[w].job, w, ClaimLease) /\ Goto(w, "announce")
       \/ ~Claimable(thr[w].job) /\ Goto(w, "reread") /\ UNCHANGED kernelVars
    /\ UNCHANGED <<opened, ocr, index>>

\* A refused claim: a job that is running is taken for this thread's own.
Reread(w) ==
    /\ At(w, "reread")
    /\ \/ jobs[thr[w].job].status = "running" /\ Goto(w, "announce")
       \/ /\ jobs[thr[w].job].status # "running"
          /\ GotoSaying(w, "report", jobs[thr[w].job].status)
    /\ UNCHANGED <<kernelVars, opened, ocr, index>>

Report(w) ==
    /\ At(w, "report")
    /\ UpdateProgress(w, thr[w].says)
    /\ Goto(w, "done")
    /\ UNCHANGED <<opened, index>>

Announce(w) ==
    /\ At(w, "announce")
    /\ UpdateProgress(w, "running")
    /\ Goto(w, "load")
    /\ UNCHANGED <<opened, index>>

\* run_local_ocr reads the records once, and returns when no candidate is left
\* or the engine is gone since the start route looked.
Load(w) ==
    /\ At(w, "load")
    /\ LET rows == index[thr[w].matter]
       IN  \/ GotoSaying(w, "result", "not_ready")
           \/ /\ Candidates(rows) # {}
              /\ thr' = [thr EXCEPT ![w].pc = "check", ![w].rows = rows]
    /\ UNCHANGED <<kernelVars, opened, ocr, index>>

\* The head of the loop over the candidates.
Check(w) ==
    /\ At(w, "check")
    /\ \/ /\ Candidates(thr[w].rows) # {}
          /\ CancellationRequested(w)
          /\ GotoSaying(w, "write", "cancelled")
          /\ UNCHANGED <<kernelVars, ocr>>
       \/ /\ Candidates(thr[w].rows) # {}
          /\ ~CancellationRequested(w)
          /\ UpdateProgress(w, "running")
          /\ Goto(w, "engine")
       \/ /\ Candidates(thr[w].rows) = {}
          /\ GotoSaying(w, "write", "completed")
          /\ UNCHANGED <<kernelVars, ocr>>
    /\ UNCHANGED <<opened, index>>

\* The engine fails on a page: the page is marked and the loop goes on.
PageFails(w) ==
    /\ At(w, "engine")
    /\ \E p \in Candidates(thr[w].rows) :
           thr' = [thr EXCEPT ![w].rows[p] = "ocr_failed", ![w].pc = "check"]
    /\ UNCHANGED <<kernelVars, opened, ocr, index>>

\* Deviation: nobody asks again after the engine returned.
AlwaysWanted(w) == TRUE

\* The engine returns text, and cancellation is asked about once more.
StillWanted(w) == ~CancellationRequested(w)

PageReturns(w) ==
    /\ At(w, "engine")
    /\ \/ /\ ~StillWanted(w)
          /\ GotoSaying(w, "write", "cancelled")
          /\ UNCHANGED <<kernelVars, ocr>>
       \/ /\ StillWanted(w)
          /\ \E p \in Candidates(thr[w].rows) :
                 thr' = [thr EXCEPT ![w].rows[p] = "ocr_completed", ![w].pc = "check"]
          /\ UpdateProgress(w, "running")
    /\ UNCHANGED <<opened, index>>

\* The inventory and the index are rewritten from the thread's own copy.
Write(w) ==
    /\ At(w, "write")
    /\ index' = [index EXCEPT ![thr[w].matter] = thr[w].rows]
    /\ Goto(w, "summary")
    /\ UNCHANGED <<kernelVars, opened, ocr>>

\* progress(summary) in run_local_ocr, then update_progress(result) in worker.
Summary(w) ==
    /\ At(w, "summary")
    /\ UpdateProgress(w, thr[w].says)
    /\ Goto(w, "result")
    /\ UNCHANGED <<opened, index>>

Result(w) ==
    /\ At(w, "result")
    /\ UpdateProgress(w, thr[w].says)
    /\ Goto(w, "finish")
    /\ UNCHANGED <<opened, index>>

\* Deviation: a refused finish_job is ignored.
FinishIgnored(w) ==
    /\ At(w, "finish")
    /\ \/ FinishJob(thr[w].job, w, "value", "null")
       \/ ~Owns(thr[w].job, w) /\ UNCHANGED kernelVars
    /\ Goto(w, "done") /\ UNCHANGED <<opened, ocr, index>>

\* A refused finish_job raises, and the handler treats it as a failed run.
Finish(w) ==
    /\ At(w, "finish")
    /\ \/ FinishJob(thr[w].job, w, "value", "null") /\ Goto(w, "done")
       \/ ~Owns(thr[w].job, w) /\ Goto(w, "fail") /\ UNCHANGED kernelVars
    /\ UNCHANGED <<opened, ocr, index>>

\* Reading the index raises, or writing it, before or after the records are
\* replaced, or writing the proof of a run, or asking the kernel about a
\* cancellation.
Raise(w) ==
    /\ \/ At(w, "load") \/ At(w, "write") \/ At(w, "summary") \/ At(w, "engine")
       \/ At(w, "check") /\ Candidates(thr[w].rows) # {}
       \/ At(w, "result") /\ thr[w].says # "not_ready"
    /\ Goto(w, "fail")
    /\ UNCHANGED <<kernelVars, opened, ocr, index>>

Fail(w) ==
    /\ At(w, "fail")
    /\ UpdateProgress(w, "failed")
    /\ Goto(w, "failfinish")
    /\ UNCHANGED <<opened, index>>

\* Deviation: a failed run keeps its lease.
FailKeepsLease(w) ==
    At(w, "failfinish") /\ Goto(w, "done") /\ UNCHANGED <<kernelVars, opened, ocr, index>>

FailFinish(w) ==
    /\ At(w, "failfinish")
    /\ \/ FinishJob(thr[w].job, w, "null", "value")
       \/ ~Owns(thr[w].job, w) /\ UNCHANGED kernelVars
    /\ Goto(w, "done")
    /\ UNCHANGED <<opened, ocr, index>>

\* A database error inside the try of the thread, in the heartbeat of a report
\* that is already in the record or in finish_job, makes it a failed run.
RunErrs(w) ==
    /\ \/ At(w, "check") /\ Candidates(thr[w].rows) # {} /\ Tell(w, "running")
       \/ At(w, "engine") /\ Tell(w, "running")
       \/ (At(w, "summary") \/ At(w, "result")) /\ Tell(w, thr[w].says)
       \/ At(w, "finish") /\ UNCHANGED ocr
    /\ Goto(w, "fail")
    /\ UNCHANGED <<kernelVars, opened, index>>

\* A database error before the try or in the handler ends the thread, whatever
\* it holds: in the claim, in the second look at the job, in the heartbeat of a
\* report, in the finish_job of a failed run.
ThreadErrs(w) ==
    /\ ErrorsAllowed
    /\ \/ /\ At(w, "claim") \/ At(w, "reread")
          /\ GotoSaying(w, "broken", "queued") /\ UNCHANGED ocr
       \/ At(w, "report") /\ Tell(w, thr[w].says) /\ Goto(w, "broken")
       \/ At(w, "announce") /\ Tell(w, "running") /\ GotoSaying(w, "broken", "running")
       \/ At(w, "fail") /\ Tell(w, "failed") /\ GotoSaying(w, "broken", "failed")
       \/ At(w, "failfinish") /\ GotoSaying(w, "broken", "failed") /\ UNCHANGED ocr
    /\ UNCHANGED <<kernelVars, opened, index>>

ThreadStep(w) ==
    \/ ThreadClaim(w) \/ Reread(w) \/ Report(w) \/ Announce(w) \/ Load(w)
    \/ Check(w) \/ PageFails(w) \/ PageReturns(w) \/ Write(w) \/ Summary(w)
    \/ Result(w) \/ Finish(w) \/ Raise(w) \/ Fail(w) \/ FailFinish(w)
    \/ RunErrs(w) \/ ThreadErrs(w)

OcrTick == Tick /\ UNCHANGED <<opened, thr, ocr, index>>

OcrNext ==
    \/ \E S \in SUBSET JobIds : OpenKernel(S) \/ RuntimeRecover(S)
    \/ \E m \in Matters : Cancel(m) \/ CancelUnheard(m) \/ OtherWork(m)
    \/ \E m \in Matters, w \in Workers : Start(m, w)
    \/ \E j \in JobIds : RuntimeCancel(j)
    \/ \E w \in Workers : ThreadStep(w)
    \/ Crash
    \/ OcrTick

OcrSpec == OcrInit /\ [][OcrNext]_ocrVars

\* A thread that can take a step takes one: the operating system schedules it,
\* the kernel answers within its busy timeout and the engine is bounded by its
\* own.  Nothing is assumed of users, recovery, crashes or the clock.
OcrFairSpec == OcrSpec /\ \A w \in Workers : WF_ocrVars(ThreadStep(w))

-----------------------------------------------------------------------------
(* Properties. *)

\* Threads, progress records and indexes are ones the program can hold.
OcrTypeOK ==
    /\ TypeOK
    /\ opened \in BOOLEAN
    /\ thr \in [Workers -> Thread]
    /\ ocr \in [Matters -> Progress]
    /\ index \in [Matters -> [Pages -> PageStatuses]]

\* A matter has a second active OCR job only where the start route could not
\* see the first: at least ListLimit of the matter's jobs were made in between.
DuplicatesOutOfWindow ==
    \A i, j \in JobIds :
        /\ i < j /\ ActiveOcr(i) /\ ActiveOcr(j) /\ jobs[i].matter = jobs[j].matter
        => Cardinality({k \in JobIds : /\ i < k /\ k < j
                                       /\ jobs[k].matter = jobs[i].matter}) >= ListLimit

\* An acknowledged cancellation holds on both sides: once a thread's event is
\* set and the kernel heard of it, its durable job is never queued or running
\* again, whether the thread finishes it, loses it to recovery, or ends.
CancelHoldsOnBothSides ==
    \A w \in Workers :
        "heard" \in thr[w].cancelled => jobs[thr[w].job].status \notin {"queued", "running"}

\* A run that stopped because of a cancellation never ends its durable job as
\* completed: a completed job has a thread that returned after it ran to the end
\* or found nothing to do, or whose event was set by a cancellation that the
\* kernel never heard of and the caller got no answer to.
CompletedRanToTheEnd ==
    \A j \in JobIds :
        jobs[j].status = "completed" /\ jobs[j].type = "local_ocr" =>
            \E w \in Workers : /\ At(w, "done") /\ thr[w].job = j
                               /\ \/ thr[w].says \in {"completed", "not_ready"}
                                  \/ "unheard" \in thr[w].cancelled

\* A lease has its thread: who holds a job claimed it and is still at work on it,
\* died with its process, or was ended by a database error.  A thread that
\* returned holds nothing, whatever failed on its way.
LeasesHaveThreads ==
    \A j \in JobIds, w \in Workers :
        Owns(j, w) => /\ thr[w].job = j
                      /\ thr[w].pc \notin {"unused", "claim", "reread", "report", "done"}

\* A durable job and the threads that worked on it agree: it is completed only
\* by a run that was not cancelled, and held only by a thread that did not return.
JobsMatchThreads == CompletedRanToTheEnd /\ LeasesHaveThreads

\* No thread of this process works for the matter.
Idle(m) == \A w \in Workers : thr[w].matter = m => thr[w].pc \notin Live

\* What the status route shows when nothing runs is the outcome of a run that
\* ended, though not always of the last one (a slower thread may report after
\* it): completed or cancelled in memory is settled in the kernel, and cancelled
\* is cancelled there, unless the kernel never heard of the cancellation.
IdleReportIsSettled ==
    \A m \in Matters :
        Idle(m) /\ ocr[m].status \in {"completed", "cancelled"}
        => \E w \in Workers :
               /\ At(w, "done") \/ At(w, "broken")
               /\ thr[w].matter = m /\ thr[w].says = ocr[m].status
               /\ \/ jobs[thr[w].job].status \in {ocr[m].status, "cancelled"}
                  \/ /\ jobs[thr[w].job].status = "completed"
                     /\ "unheard" \in thr[w].cancelled

\* A progress record that says a run is under way has a thread, but for two ways
\* to leave it behind.  A recovery between the refused claim of a thread and its
\* second look at the job leaves "queued"; a database error that ends a thread
\* leaves what the thread told last, "running" with a lease that nobody renews
\* included.
OrphansAreAccounted ==
    \A m \in Matters :
        Busy(m) /\ Idle(m) =>
            \E w \in Workers :
                /\ thr[w].matter = m /\ thr[w].says = ocr[m].status
                /\ \/ At(w, "broken")
                   \/ /\ At(w, "done") /\ ocr[m].status = "queued"
                      /\ \E i \in 1..Len(log[thr[w].job]) :
                             log[thr[w].job][i].name = "job_recovered"

\* What the progress record of a matter says when no thread works for it is
\* accounted for by a thread that ended so.
ProgressIsEarned == IdleReportIsSettled /\ OrphansAreAccounted

\* A page that has its text loses it only to a third run: two runs of a matter
\* do not overlap between reading and rewriting its index, whether the process
\* was restarted, the job recovered or the run cancelled in between (a third one
\* can be let in by the late report of an ended one).
TextSurvivesTwoRuns ==
    [][\A m \in Matters, p \in Pages :
          index[m][p] = "ocr_completed" /\ index'[m][p] # "ocr_completed" =>
              Cardinality({w \in Workers : thr[w].pc # "unused" /\ thr[w].matter = m}) > 2]_ocrVars

\* A thread whose event is set derives no further page.
CancelledDerivesNothing ==
    [][\A w \in Workers : thr[w].cancelled # {} =>
           \A p \in Pages : thr'[w].rows[p] = "ocr_completed" =>
               thr[w].rows[p] = "ocr_completed" \/ At(w, "load")]_ocrVars

\* Every thread ends, whatever the kernel answers it, or dies with its process.
ThreadsEnd == \A w \in Workers : thr[w].pc \in Live ~> thr[w].pc \in Ended

\* A durable job that is asked to stop while its thread lives is settled by that
\* thread or taken from it, unless the thread dies or a database error ends it.
StoppingIsSettled ==
    \A j \in JobIds, w \in Workers :
        /\ jobs[j].status = "cancel_requested" /\ jobs[j].owner = w
        /\ thr[w].pc \in Live
        ~> jobs[j].status = "cancelled" \/ At(w, "dead") \/ At(w, "broken")

\* Threads end, and those that return leave no job stopping.
ThreadsEndAndSettle == ThreadsEnd /\ StoppingIsSettled
=============================================================================
