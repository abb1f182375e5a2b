# A verification development for nh-family-law-llm

The repository is a local-first legal workbench for New Hampshire family law: a
FastAPI server on the user's machine, a browser or desktop shell in front of it,
and files, SQLite tables and local model processes behind it. Most of its source
is sequential work on text and documents. What is hard to test is the part that
keeps track of work: jobs that outlive a request, threads that share records,
requests that are retried, files that are rewritten, processes that die.

This directory models that part in TLA+, checks it with TLC, and proves the
theorems of its core with TLAPS. Paths below are relative to the repository.

- [1. Inventory](#1-inventory)
- [2. Modules and how they correspond to the code](#2-modules-and-how-they-correspond-to-the-code)
- [3. Runs: what they check and what they show](#3-runs-what-they-check-and-what-they-show)
- [4. Proofs](#4-proofs)
- [5. Where the code and its documents disagree](#5-where-the-code-and-its-documents-disagree)
- [6. Assumptions and what is left out](#6-assumptions-and-what-is-left-out)
- [7. Plan](#7-plan)
- [8. Running it](#8-running-it)

## 1. Inventory

For each component: the state it keeps, its operations, whom it meets, what is
hard about it, and what makes it correct.

**Durable job kernel** (`src/nh_family_law_llm/runtime_kernel.py`). A SQLite
table of jobs and an append-only table of events, one transaction per operation
under a process lock. Operations: `create_job` (with an idempotency key),
`claim_job` (a lease for a worker id), `heartbeat`, `finish_job`,
`request_cancel`, `recover_expired`. Called by the OCR routes, the batch
scheduler and the job routes of `app/api/production.py`. Hard: the callers are
threads that may be slow or belong to a process that was restarted, so every
operation can be called late, by somebody who no longer holds the job. Correct
when a job has one holder at a time, is settled once, by its holder, as cancelled
whenever a cancellation was accepted before, and the event table explains the
job table. **Modelled and proved.**

**Local OCR jobs** (`src/nh_family_law_llm/api.py`, `local_corpus_index.py`). An
in-memory progress record per matter under a lock, a cancel event per thread, the
records of the private index, and a kernel job. Operations: the start, status and
cancel routes, the worker thread, `run_local_ocr` with its two cancellation checks
per page. Hard: three views of one job (memory, kernel, index) that a restart, a
recovery or a slow thread pull apart; a database error, which the thread catches in
some places and not in others. Correct when a cancellation that was acknowledged holds
in both views, a completed job has a run that ended, no thread returns with a lease,
and what the status route shows is accountable to a run or to a thread known to have
been lost.
**Modelled and proved.**

**Batch inference scheduler** (`legal/runtime/batch_scheduler.py`). An encrypted
file of batches, items and groups; one kernel job per group. Operations: `create`,
`cancel_item`, read-outs. Hard: kernel and file are changed one after the other
and a call may end in between; the job routes reach the same jobs. Correct when
items that are all cancelled never leave work behind, live items have a job, and a
job was made for its group's items. **Modelled and proved.**

**Idempotency registry and middleware** (`legal/runtime/idempotency.py`). An
encrypted registry of reservations and responses with expiry and a size limit.
Operations: `begin`, `complete`, `release`, `status`, and the middleware that runs
the handler in between with no lock held. Meets: every mutating route; the
workbench retries a mutation once. Hard: handlers that outlive a reservation,
reservations that name no request, pruning, crashes. Correct when a replay is the
recorded response of the same request, and two handlers of one request overlap
only for a reason the design accepts. **Modelled and proved.**

**Hot swap worker** (`legal/fast_interchange/worker.py`, `process_backend.py`,
`snapshot.py`). The manager keeps a table of requests under the state lock, a slot
(the worker lock, tried and never waited for), the adapter it believes is active,
the releases it has verified and a private snapshot of their files; a child process
holds the model. Operations: `prepare`, `cancel`, `complete`, `close`. Hard: a
completion runs for minutes while cancellations, second completions and expiry come
in on other threads; every step of a swap can fail or be interrupted; the child can
die. Correct when a request is generated from once, by its own adapter, loaded from
a whole copy; when what the manager believes about the child and the snapshot is so;
when no text stays in the child; when the slot always comes back. **Modelled and
proved.**

**Local agent runs** (`app/services/local_agent_run_service.py`, the run and cancel
routes of `api.py`, `FastInterchangeLocalClient` in `legal/agent_runtime/providers.py`).
A store of single-use runs and, per run, a client with a cancel event and a prepared
flag. Operations: `register`, `claim`, `cancel`, `finish`, and the client's
`generate_response` and `cancel`. Meets the hot swap worker over HTTP. Hard: a
cancellation has to reach a run that is being reserved, sent, generated or finished
at that moment, through two threads and two processes. Correct when a cancelled run
delivers nothing and its worker stops. **Modelled, composed with the worker, and
proved.**

**Model pack service** (`app/services/model_pack_service.py`). One encrypted state
file (jobs, the active and the previous pack, installed and removed packs, a pending
intent), the uploads, the directories of installed and removed packs, and the pointer
a worker starts from. Operations: `begin`, `chunk`, `resume`, `inspect`, `cancel`,
`discard`, `activate`, `activate_installed`, `remove`, `restore`, `recover`. Several
app processes may use it; inspecting and resuming hold a lease of the operating system
and give the lock back while they read. Hard: every operation makes several writes and
may stop between any two; an intent must be finished or undone later; a cancellation
comes from another process. Correct when state file, files and pointer agree except
where a pending intent accounts for it, the pack a worker starts from is admitted, and
an upload is a prefix of the user's file. **Modelled and proved.**

**Admission authority** (`legal/fast_interchange/admission.py`). Signed catalogs with
a sequence, revocation, and a high-water mark on disk that must never go back; some
callers record the catalog they verify and some only check it. **Modelled with the
model pack service**, as far as it decides which pack may be active.

**Warm model pool and context cache** (`legal/runtime/warm_model_pool.py`,
`legal/runtime/context_cache.py`). Encrypted registries of warm workers and of
cached contexts, with limits, expiry and invalidation by source. Not modelled: an
operation is one step under one lock.

**Durable files** (`legal/security/durable_io.py`). `exclusive_file_lock`,
`durable_append_text`, `atomic_write_bytes`. Hard: what is on disk when power goes
between write, sync, rename and directory sync. Correct when a reader finds the old
or the new content and a caller that was answered is not contradicted later.
**`atomic_write_bytes` is modelled**; the batch and registry models go on assuming
that a file is replaced atomically, which is what it comes to.

**Deliberation host and broker** (`legal/deliberation/`). A run file, three files
beside it (claims, positions, synthesis), tool tokens, call counts and an audit log
in memory. Operations: `create_run`, `confirm_run`, `start_run` (which works through
all rounds), `cancel_run`, `invoke_tool` under one lock, and `get_run` under none.
Hard: a run is saved several times while it works, each time in four writes; a
reading writes back what it read; the log that limits a run belongs to all runs; the
process may die. Correct when a run moves along the declared table, is worked on
once, and a completed run has the positions that were verified. **Modelled and
proved.**

**Review ledger and filing packets** (`legal/review/`, with the revisions of
`legal/documents/workspace.py`). Revisions of a document, review requests that are
decided once, a chain of decisions, reviewer assignments, and immutable packets with
a pointer per document. Operations: propose, commit, reject; prepare, decide; assign,
build. Hard: a decision and a commit are two writes each; a packet is put together
from four reads under three locks. Correct when the chain verifies, a request is
decided once, no packet is cleared by a decision about something else, and the
pointer names a packet in place. **Modelled and proved.** The reports about what a
changed authority makes stale are read-only and not modelled.

**Authority library and signed updates** (`legal/production/`). Bundles under a
directory each, an active pointer with a sequence; operations `install` and
`import_archive`, which calls it. Hard: verify, copy, verify, rename, pointer, with
a stop, a power loss or an exchanged source between any two. Correct when the
sequence never goes back and the pointer names a whole bundle. **Modelled and proved.** The
authority product is one step of the review ledger (`Publish`); the library and its
search are not modelled.

**Governance policy packs** (`legal/governance/service.py`). Draft, review,
activate, roll back, expire, supersede, each appended to a ledger. Not modelled yet.

**Crash recovery report** (`legal/runtime/crash_recovery.py`, `job_journal.py`).
`recover` is the kernel's `recover_expired`; the rest are views of the table. Not
modelled on its own.

**Local security boundary** (`legal/security/`, `app/api/local_gateway.py`).
Unlock, keys, rate limits: cryptography and request checks. Not modelled.

**Matter workbenches** (documents, evidence, forms, communications and the like
under `legal/`). Each is a file under a lock with a revision check, used by one
person at a time. Not modelled: the pattern is that of the batch file.

**Conversation, orchestration registry, retrieval, verification, drafting, corpus
import and search.** Sequential functions on text and tables; the question there
is whether the text is right, which a model checker cannot ask. Not modelled,
except for what OCR reads and writes.

**Launcher, user interface, release, evaluation and operations tooling.** Process
start, pages, reports run by hand. Not modelled. `nh_family_law_llm/` at the top of
the repository is a copy of `src/nh_family_law_llm/` kept for packaging.

### How the components interact

```
 browser --HTTP--> middleware (Idempotency) --> routes
                                                 |  start/cancel OCR      create/cancel batch
                                                 v                        v
                         _ocr_jobs, cancel events, threads (OcrJobs)   batches file (BatchScheduler)
                                                 \                       /
                                                  v                     v
                                     durable job kernel (JobKernel)  <-- job routes: create, cancel, recover
                                                  |
                                     promises: JobLifecycle
```

```
 run route, cancel route --> run store, client (AgentRuns)
                                  |  prepare, complete, cancel: HTTP on loopback
                                  v
                      hot swap manager (HotSwap) --pipe--> child process, snapshot
                                  |  starts from the pointer
                                  v
 import and recovery routes --> model pack service (ModelPacks)
```

OcrJobs and BatchScheduler EXTEND JobKernel: their steps are made of the kernel's
actions, on the kernel's variables. The middleware meets the routes only by
deciding whether a handler runs, so it stands alone. AgentRuns EXTENDS HotSwap: the
worker is a process of its own, and the host's steps call its actions. The worker
reads the pack store once, when it starts, under the store's lock, and changes nothing
there that the activation has not recorded; so ModelPacks stands alone.

```
 edits --> workspace revisions --+          publish --> authority product
                                 v                          |
 reviewers --> review ledger (ReviewLedger) <---------------+
                                 |  reads                   |
                                 v                          v
 assignments --> reviewed filing packets (FilingPackets), pointer per document

 update inbox --> install --> bundles/, pointer (AuthorityUpdates) --> atomic_write_bytes (DurableFile)
                                                                        promises: StableRegister
```

FilingPackets EXTENDS ReviewLedger and AuthorityUpdates EXTENDS DurableFile. The host of
the deliberations meets other components through the tools only, which change nothing,
so Deliberation stands alone.

## 2. Modules and how they correspond to the code

| module | what it is | code |
| --- | --- | --- |
| `JobLifecycle` | abstract: opened once, one holder, settled once | what the kernel promises its callers |
| `JobKernel` | the kernel, one action per operation | `runtime_kernel.py` |
| `JobKernelProofs` | theorems about `JobKernel` | |
| `OcrJobs` | routes, threads and `run_local_ocr` over the kernel | `api.py`, `local_corpus_index.py` |
| `BatchScheduler` | batches over the kernel | `batch_scheduler.py` |
| `Idempotency` | registry and middleware | `idempotency.py` |
| `HotSwap` | the manager, its child process and the snapshot | `worker.py`, `process_backend.py`, `snapshot.py` |
| `AgentRuns` | run store, routes and client over the worker | `local_agent_run_service.py`, `providers.py`, `api.py` |
| `ActivePack` | abstract: one register that is closed while it changes | what the pack store promises to those who start workers |
| `ModelPacks` | pack store, pointer and high-water mark | `model_pack_service.py`, `admission.py` |
| `Deliberation` | a deliberation run, its readers and the broker | `host.py`, `broker.py` |
| `StableRegister` | abstract: a number that rises and settles | what a durable replacement promises |
| `DurableFile` | a file that is replaced durably | `durable_io.py` |
| `AuthorityUpdates` | the update channel over the durable file | `signed_authority_updates.py` |
| `ReviewLedger` | revisions, review requests and decisions | `workspace.py`, `review_ledger.py` |
| `FilingPackets` | assignments, packets and the pointer | `filing_packet.py` |
| `FilingProofs` | theorems about `ReviewLedger` and `FilingPackets` | |
| `AuthorityProofs` | theorems about `AuthorityUpdates` | |
| `IdempotencyProofs` | theorems about `Idempotency` | |
| `KernelClientProofs` | theorems about `OcrJobs` and `BatchScheduler` | |
| `SwapProofs` | theorems about `HotSwap` and `AgentRuns` | |
| `PackProofs` | theorems about `ModelPacks` | |
| `DeliberationProofs` | theorems about `Deliberation` | |
| `MC...` | instances for TLC: symmetry sets and small functions | |

`map` in `PROJECT.json` gives the lines of each definition.

Definitions whose comment begins with "Deviation" are not part of the model. Each
is the form a plausible mistake would give to the definition after it (a dropped
guard, a forgotten reset, a swapped order); replacing the definition by it makes a
property fail, which shows that the property is about that code. Where a property is
a conjunction, its parts are defined by name before it.

### JobKernel

A row of `jobs` is a record: type, matter, key, status, owner, lease expiry,
attempt, progress, result, error and whether `completed_at` is set. `log` holds
the events of each job with the status each one reports. `now` is the wall clock.
Job ids stand for the uuids and are dealt in creation order. An operation is one
step because it is one `BEGIN IMMEDIATE` transaction; a call that raises rolls
back, so refusals are simply steps that are not enabled (callers that go on after
a refusal, as the OCR thread does, say so in their own guards).

Details the model keeps because they decide something:

- ownership is the worker id alone. `heartbeat` and `finish_job` never look at the
  expiry, so a worker whose lease ran out still owns the job until recovery comes;
- `result_json` and `error_json` distinguish NULL, an empty object and another
  object: `if error` treats an empty error object as success;
- leases, and the progress of a heartbeat, are clamped;
- expiry is compared as text, and ISO timestamps drop zero microseconds, so within
  one second a lease may compare either way: `RecoverExpired` takes any set between
  `MustExpire` and `MayExpire`;
- `heartbeat` writes no event and `recover_expired` writes one per job.

The version column, payloads and creation times are left out: no operation reads
them. `list_jobs` changes nothing; its limit is modelled where it matters
(`OcrJobs!Window`).

### JobLifecycle

Three variables: who holds a job, which jobs were asked to stop, and the outcome.
The kernel is shown to implement it with `owner` as the holder, the statuses
`cancel_requested` and `cancelled` as "asked", and the terminal statuses as
outcomes. Attempts, leases, progress, keys and the trail are gone, and so is the
reason for which a holder is reaped.

### OcrJobs

A thread is its worker id (a fresh uuid per start), so the record `thr[w]` is the
thread and `ocr[m].worker` the thread whose cancel event the progress record
holds. `pc` follows `worker()` and `run_local_ocr`: claim, second look at the job,
announce, load, check, engine, write, summary, result, finish; and fail,
failfinish for the handler. A step ends where another thread, a route or a crash
can come between: at each kernel transaction and each use of the progress lock.
`UpdateProgress` is both halves of `update_progress`: the status goes to whatever
record the matter has now (`Tell`), and the heartbeat is sent, its refusal ignored.

Only the refusals of the kernel are ignored there. A database error (a table that stays
locked, a full disk) is another exception, and what becomes of it depends on where the
thread is: inside its `try` it makes the run a failed one (`RunErrs`, and `Raise` where
the kernel is asked about a cancellation); in the claim, in the second look, in the
report before the `try`, or in the handler itself it ends the thread (`ThreadErrs`, place
"broken"), which leaves its lease in the table and in the progress record whatever it had
told last. In a report the record is written before the heartbeat, so the error comes
after it.

`Cancel` is the cancel route as it should go: the event is set and the kernel is asked.
`CancelUnheard` is the event alone: the process died or the database failed before the
kernel was asked, or it has not been asked yet, and `Cancel` follows. A thread's
`cancelled` holds which of the two kinds set its event ("heard", "unheard"); the code
looks only at whether it is set, and so do the actions.

Two merges: the loop's cancellation check with the progress report that follows it,
and the check after the engine with the page result; what lies between reads and
writes only the thread's own copy of the records. "completed_with_warnings" is
"completed".

The server may die in any state in which it has opened the kernel (`Crash`): the
threads are dead, `_ocr_jobs` is empty, kernel and index stay. `OpenKernel` is the
first use of the kernel in the new process, with its one recovery.

`Load` and `Write` carry the whole copy of the records, so overlapping runs lose
each other's pages exactly as in the code.

### BatchScheduler

`store` is the file, `call` the call that holds the file lock with what it has
computed so far, `payload` what each job was given. `create` is begin, one step per
group (in the order of the group digests), and the write; `cancel_item` is begin,
the kernel's cancellation when the group has no other live item, and the write.
`CutShort` ends a call anywhere: the process died, or the kernel or the disk
refused. `JobRouteCancel` is the cancel route of the jobs. `cut` and `outside` are
history: which batches had a call cut short, and which jobs a route cancelled.
No worker of the repository claims these jobs, so the kernel's other operations do
not occur. An item id that repeats within a batch is refused by the code, so items
are a set.

### Idempotency

`entries` is the registry, one entry per binding (method, route, tenant, role, session,
matter and key); `calls` are the requests. `Block`, `Replay`, `Reserve` and `Unavailable`
are the outcomes of `begin`; `Handle` is the handler, with the response recordable or not;
`Complete`, `Release` and `Unwritten` are what the middleware does with it; `Escape` is
the request that comes to none of them, because it is cancelled while the handler runs (a
cancellation is not an `Exception`) or because the body of its response fails while it is
read; `Crash` loses the requests and keeps the file. `Keeps` says what a pruning keeps:
what is not expired, and of that the `MaxEntries` entries updated last, ties in any order.
An operation that raises does not save, so a `complete` whose pruning displaced its own
reservation leaves that reservation in the file; `Complete` does the same.

### HotSwap

`rows` is the table of requests, `calls` the completion calls with the place each
has reached in `complete`, `slot` the worker lock. `pc` follows the method: enter
(try the lock), begin (admission under the state lock), copy, clear, activate, ready
(the look before the text is sent), engine, deliver, publish, and canceling, failing
and end for the handlers and `finally`. A step ends wherever a cancellation, another
call or the death of the child can come between. The checks of the registry
(`select`, `admission`, bindings), the deadline and the disk are what can make a
step go to "failing"; which of them it was is not told apart.

`child` is the child process: alive, dead and not noticed, or none; with the adapter
that is set and the request whose text it holds. `ClearSucceeds` and `ClearFails` are
`clear_context` through the pipe: it does nothing without a child, and every refusal
or silence stops the child. `copied` says how much of each release is in the
snapshot. All releases share a base; the model gives each release its own extent and
lets any copy fail, which covers a file of the base that is half there.

`Mark` writes the state of a request through the row that the call holds: a row that
was pruned in the meantime is changed out of sight ("forgotten"). Ids are fresh
uuids, so a name that the table has forgotten and no call carries stands for the next
request, and a call that has returned for the next call: the instance is small and its
behaviours are not. There is no clock; a reservation that is over carries a flag
(`Expire`), which may be set at any moment. `ran` is history: how often the model was
given the request's text, counted to 2. `Restart` is the death of the worker process
in any state. `NoCall` in `slot` is the free lock; `close` waits for it.

### AgentRuns

`runs` is the store's row together with the place the run route has reached,
`client` the cancel event and the prepared flag, `cancels` the cancel route. The two
routes meet without a common lock: the run route sets the flag (`Prepared`) and then
looks at the event (`Recheck`), the cancel route sets the event (`SetEvent`) and then
looks at the flag (`Look`); each is a step. HTTP calls end in an answer, in an error,
or in an error although the worker did what it was asked (`Reserve`, `Tell`). The
answer to a completion may be given up at any time while the worker goes on
(`Wait`). `HostDies` forgets all runs and leaves the worker as it is. A cancellation
may be asked for again once the route has answered.

### ModelPacks

`jobs`, `active`, `previous`, `installed`, `removed` and `transaction` are the state
file; `uploads`, `packs`, `trash` and `pointer` the disk; `mark` the high-water mark
of the catalog the packs belong to; `lease` the verification lease together with the
flag and the place of the thread that holds it. A pack is named by the digest of its
signed catalog, so a pack is its directory name, and `SeqOf` is its catalog's sequence.

Every operation runs under the store's lock from reading the state file to the last
write. Nobody sees the writes in between, so an operation is one step, and what it
leaves behind when it stops early (an error of the audit or of the disk, or death) is
a step of its own: `ChunkStops`, `ActivateStops` (behind the mark, or behind mark and
pointer), `MoveStops`, and the second branches of `Discard`, `ResumeCommit`,
`InspectCommit` and `VerificationFails`. An operation that stops before its first
write changes nothing. The intents of `activate`, `remove` and `restore` are steps of
their own because they are saved before anything else happens; `Finish` is
`_finish_transaction`, which the operation calls at once and `recover` calls later: in
the model the two are not told apart. `GiveUp` is the recovery that saves its decision
first ("deactivate", "abandon").

`resume` and `inspect` hold the lease and give the lock back: `Take`, `Read` (the flag
and the state file are looked at before every block), commit, and the handler. Whatever
else can be wrong with the upload is a choice of `Read`. `AppDies` frees the lease and
takes the in-memory flag with it; the rows of that app then belong to nobody, which is
what a fresh owner id means. `Seen` is the state a job has for an app (`_job`).

`LoadActivePack` is what the start of a worker is given, which writes nothing: its
admission records the mark that is there already. Through it the store is an `ActivePack`
(`ImplementsStore`): `given` is what a start would get now, `open` that no intent is
pending, `newest` the mark.

### Deliberation

`file` is the run file and `sides` the three files beside it, taken as one value, the
round they tell of: they are written one after the other behind the run file, and what
matters is that they lag behind it. `work` is the call that holds the host's lock, with
what it has loaded and what it is about to save; `SaveFile` and `SaveSides` are
`_save_run`, and `then` says what the call does after it. Every answer saves the run
again (`_run_response`), so `AfterSaving` goes round once more. After the last phase the
code saves three times and the model twice; the last two are of the same value.

`_advance` is `Begin`, one `Round` per round, `FinalPositions` for the phases that a
small `max_rounds` leaves out, and `Verify` or `VerificationRefused`; a refusal is
whatever `invoke` of the broker raises, before the call is counted or after it (limits,
scope, an unknown matter, arguments or a result that are too large, a tool that raises).
The same holds for `ToolRefused`. `Fails` ends a call of the host anywhere because a file
cannot be read or written. `max_rounds` is what the request says: the host takes it as a
number without a bound, more than five rounds are five, because the fifth is the last,
and none or a negative number is no round at all. A round may find
the time or the tool budget spent. `readers` are the requests that read without the
lock; a reading becomes `stale` when something is saved behind it, and its writing back
is noted in `past`. `checked` and `past` are history, reset when the run is created
anew. `OtherRuns` is any other run of the process, seen as a longer audit log.

### DurableFile, StableRegister and AuthorityUpdates

`shown` is what a reader finds, `kept` the set of what a power loss may leave. Writing
and syncing the temporary file change neither; the rename changes `shown` and adds to
`kept`; the directory sync makes `kept` the one value. A rename before the sync would
add a torn content. `Flush` is the system's own writing, at any time.

`AuthorityUpdates` goes through `install`: verify the source against the sequence
(`Begin`), copy (`Copy`), verify the stage (`Check`), rename, and the pointer as a
durable file. `bundles` are the directories, each with the bundle its manifest is of,
whole or torn, on the disk or not. `Stops` ends a call anywhere; `PowerLoss` loses any
part of what was not synced. A pointer that is in place is a bundle's name.

Refinement: the register's number is the sequence of the pointer, its stable number the
least that a power loss may leave. Installing is Raise, syncing Settle, answering
Answer, and a power loss Lose: the number may fall, but not behind an answer.

### ReviewLedger and FilingPackets

An operation of the workspace is one step, except that the second of the two writes of a
commit may fail, with the process or without it, which leaves a committed revision that
is not current. The
ledger's operations exclude each other (`LedgerFree` is the module's lock, `Lock` its
taking); a decision is `CommitReviewDecision`, all that is read and checked,
`WriteDecision` and `ConsumeRequest`, and between the last two the request is decided
and pending. A decision's hash is its request, which no other decision has; a decision
names the one before it.

`build` is one read after the other: document and authority, the ledger's verification,
the latest decision with its request. Its own lock excludes assignments and other
builds. `builds` holds packets by what they say, because a packet is named by its hash.
`WorkflowBlockers` are the blockers that reviews, publications and assignments decide.

The authority product is read twice, when a review request is prepared and when a packet
is built, and either reading may find a product that cannot be read or does not verify
(`Unverified`, an empty build id in the code). The two generations are compared when both
are known, and only then (`filing_packet.py:407`).

## 3. Runs: what they check and what they show

Most runs end in states where nothing more can happen: ids and requests are used
up, the clock is at its bound, every job is settled. The program stops there too
when no user does anything, so those do not check deadlock (`CHECK_DEADLOCK FALSE`);
`packs_safety` does. Symmetry is used for threads, workers, calls, requests, keys,
hashes, apps and generations, whose identity no definition uses, and never with a liveness property
(`ImplementsLifecycle` states no fairness: it is a safety property).

| run | question | bounds |
| --- | --- | --- |
| `kernel_safety` | do rows, leases, outcomes, keys and the trail stay consistent whoever calls what, and is it the abstract life cycle? | 2 jobs, 2 workers, 1 key, 2 attempts, leases 1..2, clock 0..3 |
| `ocr_overlap` | do memory, kernel and index stay accountable when threads overlap, and when does a matter get two active jobs? | 2 threads, 3 jobs of 2 types, 2 attempts, 1 page, a window of 1, clock 0..1, 1 database error |
| `ocr_liveness` | do threads end, and are stopped jobs settled? | 2 threads, 1 job, 2 attempts, 2 database errors |
| `batch_cut` | what can calls that are cut short leave behind? | 1 batch, 4 items in 2 groups |
| `registry_safety` | are replays faithful, overlaps explained, reservations settled, responses kept? | 3 requests, 2 keys, 2 bodies, 1 entry, clock 0..3 |
| `swap_safety` | right adapter, true beliefs, no retained text, generated once? | 2 requests and 2 calls at a time, 2 releases, 1 live request |
| `agent_runs` | does a cancellation hold on both sides, and does every run end? | 1 run at a time, 1 release |
| `packs_safety` | do state file, files and pointer agree, whatever is cut short, and is the store one register? | 1 job at a time, 2 packs, 2 apps, 2 chunks |
| `packs_stuck` | can an interrupted removal always be finished or undone? | see section 5 |
| `deliberation_safety` | does a run keep to its table, once, with verified positions? | 2 rounds, 1 reader, tool limit 1, call limit 1 |
| `authority_updates` | is every pointer and directory explained, and is the pointer a durable register? | 3 bundles, sequences 1, 2, 2 |
| `filing_packets` | does the ledger verify, and is no packet cleared by mistake? | 2 reviewers, 2 revisions, 2 requests, 2 generations, 1 packet |

Each module states a type invariant. `TypeOK` of the kernel is checked and proved; the
other components' are proved, and no run is spent on them.

Why the bounds are enough for the cases that matter:

- *kernel*: two jobs are the fewest with which recovery takes several at once, one
  of them queued and the other cancelled, and with which a key can collide. Two
  workers are a holder and a late one. Two attempts allow a claim, a recovery and a
  second claim with the first worker still calling. A clock to 3 lets a lease of
  each clamped length expire and be renewed.
- *OCR*: two threads are a dead or slow one and the one that comes after, and resumes
  its job without a lease; three jobs are a first, one that hides it and a second, with
  a window of one. One page is enough for "before, during and after the engine": the
  loop's iterations are alike, and the index keeps its own copy per thread. The lease
  is one second and the clock runs to 1, so recovery is possible before, between and
  after any two steps. A third thread makes one thing possible that two cannot:
  `TextSurvivesTwoRuns` fails with three, because the late report of an ended run frees
  the progress record for a third run while the second still works. `MaxErrors` counts the
  errors that leave a mark on a thread (it is broken, or its event is set and the kernel
  does not know); those that only fail a run are not counted. One is enough to lose a
  thread at any place beside one that goes on, or to cut one cancellation, which any
  number of later ones may follow.
- *batch*: two items per group make the difference between the last live item and
  another one; two groups make partial creation possible. Batches meet only in the
  kernel, where a group's key is its own, so one is enough.
- *registry*: three requests are the one that outlives its reservation, the one
  that takes it over, and the one that is let in when the first settles it. One
  entry and two keys make every second reservation push the first one out. The
  clock covers a reservation that expires, a response that expires and one second
  more.
- *hot swap*: two releases are a swap. Requests and calls are used again without
  bound, so two names give any number of requests, one at work and one that is refused,
  reserved or forgotten beside it. The limit of live reservations (4) is 1 and is
  reached; the limit of remembered requests (128) is 2 and is not.
- *agent runs*: one run has a run route, a cancel route that may come back, and a call
  in the worker, whose place may be anything when it is reached. Contention for the slot
  is the business of `swap_safety`, adapters too, so one release is enough.
- *packs*: an older and a newer pack are all that the high-water mark and "previous"
  need; the one job is discarded and begun again for either pack, any number of times,
  and resumed from every state. Two apps are the one that holds the lease and the one
  that cancels, recovers or removes meanwhile. Two chunks are a prefix and a tail. Two
  jobs at the same time are beyond the run's size; what they would add is that one is
  ready to be activated while the other is inspected, and `begin` refuses that unless
  `resume` takes up the older one.
- *deliberation*: two rounds are one that goes on and one that is the last, and leave
  phases to skip. One reader is enough to write back any older copy at any moment, and
  readings that follow each other are allowed. A limit of one call is reached by the
  run itself, by a caller, and by another run.
- *authority*: an older bundle and two newer ones of the same sequence, of which one
  excludes the other, and each of which may be put in the place of another.
- *filing*: two revisions make a decision stale, two requests make a decision follow
  another and two be decided at once, two generations change and change back, and any
  reading may find none. One packet is placed, the others are found in place or given up:
  `CanEnd` keeps builds out that could do neither. The theorems have no such bound.

Fairness. `RunsEnd` (`agent_runs`): weak fairness of each completion call in the worker, of
the run route and of the cancel route. The waits of a completion are bounded, because
every call through the pipe has a deadline (5 or 120 seconds) after which the child is
stopped; every HTTP call of the client has a timeout. Nothing is assumed of prepare,
cancel, the child's life, restarts or expiry. `ocr_liveness`:
weak fairness of each thread's steps. The operating
system schedules a thread that can run, a kernel call returns within SQLite's busy
timeout, and the engine is bounded by its own timeout. Nothing is assumed of users,
recovery, crashes or the clock.

What the properties say that one would not have guessed from the code's names:

- `ReclaimNeedsRecovery`: an expired lease alone gives nothing away. Between two
  claims of a job there is always a recovery in the trail.
- `ProgressIsEarned`: a progress record can stay busy with no thread behind it, in two
  ways. A thread's claim is refused, recovery requeues the job before the thread looks
  again, and it reports "queued" and ends; or a database error ends the thread, and the
  record says what it told last. Every later start of that matter returns that record
  until the process restarts. And the outcome on display belongs to a run that really
  ended that way, but not always to the last one.
- `JobsMatchThreads`: a thread that returns has given its lease back, however its run
  failed, a refused `finish_job` included; a lease is held by a thread that works, died,
  or was ended by a database error. And a job never ends as completed for a run that
  stopped early, unless the cancellation that stopped it never came to the kernel.
- `DuplicatesOutOfWindow`: the start route looks at the newest 20 jobs of the
  matter, and a second active OCR job needs exactly that many in between.
- `ItemsMatchJobs`: items that are all cancelled leave no work that waits, and live
  items have a job, except after a call that was cut short or a job route's doing.
- `PayloadIsTheGroup`: a second `create` of a batch whose first one was cut short
  keeps the first one's jobs and payloads; otherwise every job has its group's items.
- `OverlapIsEarned`: two handlers of one binding overlap only after a reservation
  was outlived or pushed out; the reservation outlived need not be that of either
  of the two, because a slow request settles whichever reservation it finds.
- `NoStrandedReservation`: an answer of the handler that is recorded or released leaves
  no reservation behind. A cancelled request, a body that fails while it is read, death, a
  registry that cannot be written and displacement do, and then retries are locked out
  for `PendingTTL` from the beginning of that request and no longer.
- `BeliefsAreTrue`: a cancellation does not quarantine the
  worker, so it has to leave the beliefs about the child and the snapshot true in
  every place it can strike; forgetting one of them makes the next request fail.
- `CancelIsNeverLost`: after an answered cancellation the worker never works on the
  request with its event unset. It depends on the order of flag and event on both
  sides, and on `prepare` being answered before the flag is set.
- `TableIsTruthful`: what the worker alone does not guarantee (section 5) holds with
  the client of this repository, which completes a request once.
- `ImplementsStore`: what a start is given depends on state file, pointer, directory, mark
  and trust at once, and those are written one after the other. The high-water mark moves
  before the pointer and is never lowered, so an activation that is given up must leave
  no pack active: the one that was active before may be too old by then. And an
  inspection must not move it.
- `StateMatchesFiles`: the pointer is the active pack, the previous pack can be gone
  back to, and an inspection that commits while an intent is pending can change the
  files of the intent's pack, and of no other.
- `CancelHolds`: the flag in memory reaches only the app that verifies; the state file
  is what makes another app's cancellation hold, up to the commit.
- `FollowsTheTable`: most statuses are assigned without a look at the table of
  transitions, and still the file only moves along its paths, with two exceptions: the
  run is created anew, or a reading writes back an older copy. The second takes back a
  cancellation that was answered.
- `RunsOnceToRest`: a run rests in the middle of its phases after a crash or a file error
  ("cut"), a verification that the broker refused for whatever reason ("refused"; the
  calls of other runs can cause one), or a reading that wrote an older copy back.
- `CompletedIsVerified`: depends on the positions being saved with every phase.
- `InstallsAreAccounted`: the bundles that cannot be installed and were never active
  are those whose install ended between the rename and the pointer, those whose source
  was exchanged, and those a power loss caught.
- `ClearedByTheLatest`: the ledger is verified before the latest decision is read, so a
  packet may rest on a decision newer than the head it records; it never rests on an
  older one. No publication is passed over between the request and the packet, but a
  product that does not verify at either end is.

## 4. Proofs

Eight modules of theorems, all for every value of the constants.

| module | theorem | property |
| --- | --- | --- |
| `JobKernelProofs` | `KernelTypes` | `TypeOK` |
| | `KernelLeases` | `LeaseIffHeld` |
| | `KernelAccounts` | `RowsAreAccountable`, from `KernelKeys`, `KernelOutcomes` and `KernelTrail` |
| | `KernelCancel` | `CancelPrevails` |
| | `KernelReclaims` | `ReclaimNeedsRecovery` |
| | `KernelSettled` | a settled row and its trail never change |
| | `KernelRefinesLifecycle` | `ImplementsLifecycle` |
| `FilingProofs` | `FilingTypes`, `ReviewTypes` | `FilingTypeOK`, `ReviewTypeOK` |
| | `LedgerSound` | `LedgerIsSound` |
| | `PacketsCleared` | `ClearedByTheLatest` |
| | `PointerInPlace` | `PointerHasItsPacket` |
| `AuthorityProofs` | `UpdatesTypes` | `UpdatesTypeOK` |
| | `InstallsAccounted` | `InstallsAreAccounted` |
| | `PointerIsRegister` | `ImplementsRegister`, where directories can be synced |
| `IdempotencyProofs` | `RegistryTypes` | `RegistryTypeOK` |
| | `ReplaysIdentical` | `ReplaysAreIdentical` |
| | `OverlapEarned` | `OverlapIsEarned` |
| | `NothingStranded` | `NoStrandedReservation` |
| | `RecordedStays` | `RecordedIsStable` |
| `KernelClientProofs` | `OcrUsesTheKernel` | every behaviour of `OcrSpec` is one of `KernelSpec` |
| | `OcrTypes` | `OcrTypeOK`, from `OcrInvAlways` |
| | `CancelHoldsOnBothSidesAlways` | `CancelHoldsOnBothSides` |
| | `JobsMatchThreadsAlways` | `JobsMatchThreads` |
| | `ProgressIsEarnedAlways` | `ProgressIsEarned` |
| | `CancelledDerivesNothingAlways` | `CancelledDerivesNothing` |
| | `TextSurvivesTwoRunsAlways` | `TextSurvivesTwoRuns` |
| | `DuplicatesOutOfWindowAlways` | `DuplicatesOutOfWindow` |
| | `BatchUsesTheKernel` | every behaviour of `BatchSpec` is one of `KernelSpec` |
| | `BatchTypes` | `BatchTypeOK` |
| | `BatchMatchesJobs` | `ItemsMatchJobs` |
| | `BatchPayloads` | `PayloadIsTheGroup` |
| `SwapProofs` | `SwapTypes` | `SwapTypeOK` |
| | `RightAdapterAlways` | `RightAdapter` |
| | `BeliefsAreTrueAlways` | `BeliefsAreTrue` |
| | `NothingRetainedAlways` | `NothingRetained` |
| | `GeneratedOnceAlways` | `GeneratedOnce` |
| | `AgentsUseTheWorker` | every behaviour of `AgentSpec` is one of `SwapSpec` |
| | `AgentTypes` | `AgentTypeOK` |
| | `CanceledIsWithheldAlways` | `CanceledIsWithheld` |
| | `CancelIsNeverLostAlways` | `CancelIsNeverLost` |
| | `TableIsTruthfulAlways` | `TableIsTruthful` |
| | `RunsAreServedRight` | `RightAdapter` under `AgentSpec` |
| `DeliberationProofs` | `DeliberationTypes` | `DeliberationTypeOK` |
| | `RunsOnceToRestAlways` | `RunsOnceToRest` |
| | `CompletedIsVerifiedAlways` | `CompletedIsVerified` |
| | `NoCallAfterCancelAlways` | `NoCallAfterCancel` |
| | `FollowsTheTableAlways` | `FollowsTheTable` |
| `PackProofs` | `PackTypes` | `PackTypeOK`, from `PackInvAlways` |
| | `StateMatchesFilesAlways` | `StateMatchesFiles` |
| | `PacksImplementStore` | `ImplementsStore` |
| | `UploadIsAPrefixAlways` | `UploadIsAPrefix` |
| | `CancelHoldsAlways` | `CancelHolds` |

They assume the named assumptions on the constants alone, and the finiteness of sets
whose cardinality occurs follows from the bounds:

- `KernelConstants`: null values outside the sets of real ones, bounds that are natural
  numbers, a type and a matter;
- `OcrConstants`: "local_ocr" is a job type, the lease and the bound on errors are natural
  numbers, the window of the lists is positive;
- `BatchConstants`: a batch, and a key for every batch and group;
- `IdempotencyConstants`: positive life times and a positive limit;
- `SwapConstants`: null values outside the sets, a release per request, natural bounds;
- `OneCallPerRun`: a run, its request and its one completion call bear one name, because
  the client completes a run once under a fresh id;
- `DeliberationConstants`: none to five rounds, which is what any `max_rounds` comes to
  (section 2), and positive bounds;
- `PackConstants`: null values outside the sets, different positive sequences, uploads of
  at least one chunk, a pack (a row that is absent still has a value);
- `ReviewConstants`, `PacketConstants`: positive bounds, a generation;
- `FileConstants`, `UpdateConstants`: every bundle has a positive sequence.

*The kernel.* Every operation but `recover_expired` and the clock changes one row
and appends one event to it, and `recover_expired` changes each row it takes in the
same way. So the invariant is a conjunction of facts about one row and its events,
and the lemmas are per row: what a new, claimed, beaten, finished, stopped or
recovered row looks like when the old one was right. A lemma carries such a fact
from rows to a step, and the theorems read their parts off the invariant. The
strengthening is mutual: `OutcomeIsConsistent` needs the types (a status outside
the seven would be neither terminal nor active), `CancelPrevails` needs that the
trail's last event reports the status and that an absent job has no events, and the
refinement needs `LeaseIffHeld`, because the abstract holder is the owner column and
the abstract guard "nobody holds it" is the code's `status = 'queued'`.
`KeyNamesOneJob` is the one fact about two rows: it holds because an insert happens
only when no row has the key, and no operation changes a key. The refinement maps
create to Open, claim to Grant, cancel to Ask, finish to Settle, recovery to Reap of
the set it takes, heartbeat and clock to stuttering. `KernelReclaims` compares positions in a
trail: between two claims lies a recovery. It is inductive once "while the row is queued,
every claim has a later recovery" and "the attempts are the claims" are added.

*Clients of the kernel.* Every step of `OcrJobs` and `BatchScheduler` is one operation of
the kernel or leaves its variables alone, so `OcrSpec` and `BatchSpec` imply `KernelSpec`
and every theorem of `JobKernelProofs` holds beneath them.

*OCR.* `OcrInv` says of each thread what it works for and what it is about to report
(`LinkedInv`, `SaysInv`), of each row which thread may own or have completed it (`OwnInv`,
`CompletedInv`), of each progress record who wrote it (`RecordInv`, `EarnedInv`,
`BusyInv`). A step changes at most one thread, but rows may move under the others:
`RowMoves` says how a kernel step may move a row (a settled row stays, a row is queued
again by a recovery only), and every part about threads is shown to survive it. A database
error is a step of the thread that moves no row: `OwnInv` lets a broken thread keep what
it held, `EarnedInv` and `BusyInv` name it as the author of the record it left, and an
event that an unheard cancellation set is the one way for `CompletedInv` to have a thread
that stopped early. Two runs overlap only after a lease was reclaimed under a live thread.
`FreedInv` says that a record that tells of no run although one is on its way was written
by another thread of the matter; so two runs on their way are two of at least three
(`TwoInv`), and with fewer, a thread's copy has every text of the index (`CopyInv`).
`DuplicatesOutOfWindow` needs that ids are dealt in order: a start that finds no job to
resume has the active one behind `ListLimit` newer ones. The newest active job exists by
well-founded induction on the ids.

*The ledger.* `LedgerIsSound` is not inductive: a decision that has been computed and
not written must still fit when it is written. The strengthening says of every thread
between its checks and its write that its decision continues the chain (its sequence is
one more than the number of decisions, it names the last one, and its request has
none), and that at most one thread is in that place, which is what the module's lock
gives. A thread that fails or dies there leaves nothing; one that dies behind the write
leaves a request that is pending and decided, which `Undecided` refuses.

*The packets.* The invariant says of the packet under construction, at each place of the
build, what its parts come from: its revision was committed, its head is a number of
decisions the ledger had, and once it has its decision, that is one of the ledger and
every later one is past the head, and its generation of the review is the one of that
decision's request. Decisions are only added, with higher numbers, and the generation of a
request that was made never changes (`MadeStays`), so this survives every edit, review and
publication, and becomes the property when the packet is placed. The pointer is written
for a packet that was placed, and packets are never taken away.

*The updates.* Neither property is inductive. `CallInv` follows an install: up to the
rename the directory of its bundle is absent; from the second verification on, what is in
the stage is newer than the pointer; from the rename on, the bundle the pointer is about to
name lies whole under its name, or its source was exchanged. `KeptInv` is about the disk: the names a
power loss may bring back were all pointers with their bundles in place, none is newer
than the pointer, one of them is the oldest, and when a write has returned there is only
one. A rename alone may leave two. `InstallsAreAccounted` is read off the two. For the
refinement, the abstract stable number is the least sequence among those names: replacing the
pointer maps to Raise (the new one is not the least), the sync of the directory and the
system's write-back to Settle, the answer to Answer, a power loss to Lose, the rest to
stuttering. `DirectorySync` is assumed there because without it an install is answered
while two names may still come back.

*The registry.* `RegistryInv` accounts for each entry by the request that wrote it last:
it has the entry's key and body, it wrote when the entry says, and it is in flight or left
without settling (died, escaped, could not write, was displaced) if the entry is pending,
and recorded if it is completed. The first four theorems are read off it.
`OverlapIsEarned` speaks of the past (somebody's reservation was outlived, or so many
others came after it), so its invariant says that a request being served holds its
reservation or there is an excuse already. An excuse only grows: the clock goes on, and
requests that pushed stay. A reservation is lost to its expiry or to the limit, which are
excuses, or to another request that settles it; that one was running beside the owner, so
the two had an excuse before. That the entries in use are finitely many is part of the
invariant, because the limit counts them and `Keys` may be infinite.

*The batches.* A job's key names its batch and group, so each part of `BatchInv` is about the
one job of a group: what the call under way has done between kernel and file
(`CreatingInv`, `CancellingInv`), why a job is cancelled (`ReasonsInv`: a job route, a group
with no live item, a cancellation under way or cut short), and whose items its payload has
(`PayloadsInv`). A create that was cut short leaves jobs whose batch was
never written, and the next create takes them as they are: that is the exception in
`PayloadsInv`.

*The worker and the agents' host.* One completion call is past the slot, and what the
worker believes of its base model, its adapters and its text is judged at the place of
that call: between the steps of a switch the beliefs are wrong, and the invariant says
how. `SlotInv` and `RunInv` say which call that is and what its row says, `LoadedInv` where the
adapter believed active is loaded, `CopyInv` that a verified release is whole and a call past its copy
has one, `TextInv` that the child holds a text only while the engine works on it. `AgentSpec` implies `SwapSpec`, since each route of the host calls one
operation of the worker or none; what is left for the host are the facts that cross the
two (`RouteInv`, `WireInv`): for each place of the start and cancel routes, what the
store's row, the client's event and the worker's row may be together. A cancel lost
between two of the three would have to be at a place that the invariant names and excludes.

*The deliberation.* The lock of a run makes the work at hand its only writer, but for
readings, which write back a copy they took earlier. The ghost `past` remembers with
"undone" that an older copy was written back, and until then `WorkSees` and `ReadersSee`
hold: the work's copy is the file where it acts, and a reading that is not stale writes
what is there. `BegunInv`, `RestInv`, `CheckInv`, `CancelInv` and `TableInv` rest on the
two. The properties except the write-back for the same reason (section 5).

*The packs.* While a transaction is pending, nothing but the verification that is under way and
the recovery moves, so what the intent was written for (`IntentInv`) stays true until it is
finished or undone. `RecordsInv` ties the records of a pack to its files where no intent
to move them is pending, `ReadyInv` a job that can be activated to a recorded pack,
`MarkInv` the active pack to the mark, and `LeaseInv` the job of the lease to its upload.
For the refinement, `GivenInv` says what a start is given in terms of the state file alone. An
intent maps to Close, a stop behind the mark to Admit, the end of an activation to Reopen or, if it was
given up, to ReopenEmpty, the end of a move to a Reopen with the pack that was active, a revocation to Bar,
the rest to stuttering.

*Model-checked only.* The liveness properties `ThreadsEndAndSettle` and `RunsEnd`, which
are out of the prover's reach as is ENABLED, and the counterexample of `packs_stuck`. Every
safety invariant and every action property of a passing run is proved. No module uses
RECURSIVE operators.

## 5. Where the code and its documents disagree

One run checks what the repository says of itself and finds a counterexample.

- `packs_stuck`: "An interrupted remove/restore can finish, or be explicitly reversed"
  (`docs/FAST_INTERCHANGE_PACK_RECOVERY_VERIFICATION.md:53-54`). An inspection asks for
  a pending intent when it starts and not when it commits, and a removal looks only at
  jobs that already carry the pack. A pack that is inspected again can be removed
  meanwhile; if the removal is interrupted behind its move, the inspection puts a second
  copy under `packs/`. Then source and target both exist, `_finish_transaction` refuses
  in both directions, and with the intent pending so does everything else.

Others were met while modelling. No run is spent on them; the models contain what the
code does.

- The docstring of `get_runtime_kernel` says it recovers "work abandoned by a dead
  process" (`src/nh_family_law_llm/runtime_kernel.py:398`). It recovers expired leases;
  after a quick restart the dead thread's lease (120 to 300 seconds) has not expired,
  the job stays running, and the next start works on it without a lease and reports
  failure.

- A thread of local OCR that meets a database error before its `try`, or in its handler,
  ends with its job running or asked to stop and its lease held (`api.py:6759-6762` and
  `6796-6808` ignore `KeyError` and `RuntimeError` only). Before the `try` the progress
  record stays at "queued" or "running", and the start route answers with it until the
  process restarts, although recovery requeues the job; in the handler it is at "failed",
  and the next start works on the running job without a lease (`OcrJobs!ThreadErrs`).
- The cancel route sets the event before it asks the kernel (`api.py:6870-6875`). If the
  kernel cannot be asked, the caller gets an error, the run stops all the same, and its
  job ends as completed (`OcrJobs!CancelUnheard`).
- A comment says a cancellation that arrives while the OCR engine works wins at the
  boundary and the candidate stays pending (`local_corpus_index.py:1194-1197`). When the
  engine fails on that page, the page is marked failed first and is no longer a
  candidate (`OcrJobs!PageFails`).
- The registry exists so that a retry cannot create "a second private work product"
  (`idempotency.py:4-6`). A reservation lasts five minutes and is not renewed, so a retry
  of a slower handler runs beside it (`OverlapIsEarned` says when). And a request that is
  cancelled, or whose body cannot be read to its end, leaves its reservation pending
  (`idempotency.py:302` catches `Exception`, and `313-318` nothing): the work may be done,
  retries are refused for five minutes, and then do it again (`Idempotency!Escape`).
- The plan of the worker says that cancelling must "leave truthful canceled/quarantined
  state" (`docs/FAST_INTERCHANGE_OPERATIONAL_VERIFICATION_PLAN.md:142`). A completion call
  that finds the slot taken writes "rejected_busy" over the state of its request, the
  running one included; the table then denies the running request, and a cancellation
  does nothing (`HotSwap!RejectBusy`). The client of this repository does not complete a
  request twice: `TableIsTruthful`.
- "Identity, cleanup, or completion failures quarantine the worker"
  (`docs/FAST_INTERCHANGE_SIGNED_WORKER_VERIFICATION.md:39-40`). When the child cannot be
  closed while an interrupted copy is cleaned up, the error skips the rest of the
  cleanup: the half-copied release stays, the worker goes on, and the next request for
  that release fails on the file that is already there (`HotSwap!Canceling`).
- The class of the pack service promises "One explicit import at a time"
  (`model_pack_service.py:183`). `begin` sees to that; `resume` takes up any older job
  beside the present one.
- The state table of the deliberations has no way out of `cancelled`. A reading that
  began before the cancellation was saved writes the older run back (`host.py:491-492`,
  `Deliberation!WriteBack`), after the cancellation was answered.
- "Keeps worker turns blind during the first pass so no worker sees the other worker
  identities or raw positions." (`docs/local-deliberation-workspace.md:8`). In the first
  round a worker after the first is given the names and claims of the ones before it
  (`host.py:656-664`).
- Assignments are "matter-local and revision-bound"
  (`docs/V5_14_0_REVIEWED_FILING_PACKET.md:7`); the build accepts an active
  assignment of any revision of the document, and nothing ends one
  (`FilingPackets!WorkflowBlockers`).
- "a stale or superseded authority" should remain "a visible packet blocker"
  (`docs/V5_14_0_REVIEWED_FILING_PACKET.md:17`). The builds are compared only when both
  are known (`filing_packet.py:407`): while the authority product does not verify, a packet
  is built with no generation, and a review that was prepared while it did not verify has
  none, so another build passes without the blocker (`FilingPackets!WorkflowBlockers`).
- `build` looks for the gate in the review packet (`filing_packet.py:532`), and the ledger
  stores it beside the packet (`review_ledger.py:440-441`): the part of the gate that comes from the
  review is always empty, and such packets stay blocked. The model leaves the gate out.
- A packet that is found in place is the answer of `build`, and the document's pointer
  is not set to it (`FilingPackets!FoundInPlace`).
- Nothing takes back a pending review request: fifty of them, for revisions that are
  long past, refuse every new one (`ReviewLedger!PrepareReviewRequest`).
- A commit of an edit whose second write fails or never comes leaves a revision that is
  committed and not current, and can be neither committed nor rejected
  (`ReviewLedger!CommitRevision`).
- An install cut short behind its rename leaves a bundle that is refused as installed
  and is not active; its own sequence can then only be passed by a higher one
  (`AuthorityUpdates!Stops`).

## 6. Assumptions and what is left out

- SQLite transactions are atomic and durable, and the wall clock does not go back.
- An encrypted file is replaced atomically and its lock excludes other processes
  (for the replacement see `DurableFile`).
- `/api/runtime/jobs` accepts any job type. The OCR model assumes it is not used to
  make "local_ocr" jobs and the batch model that it is not used to make
  "batch_inference" jobs with a batch's key.
- The cancel route holds the OCR lock while it sets the event and asks the kernel, and the
  thread looks at the event without it. `CancelUnheard` followed by `Cancel` is that call
  in two steps.
- A transaction that fails is rolled back, a failed COMMIT included. A failed write of the
  progress record does not exist: it is a dictionary.
- The four index files (inventory, CSV, JSON, FTS table) are rewritten in one step.
- The engine's installation state may change between the start route and the
  thread; the model lets the run return "not ready" at any load.
- Request ids are fresh uuids, so a forgotten id does not come back; a preview
  that expired is a claim that does not happen; at most one cancel route per run is
  under way at a time.
- The in-process adapter backend, completions without a request id and the figures of
  the worker's status are left out; the production entry point uses the isolated
  backend and the client always sends an id.
- The child obeys its protocol: after it acknowledges `clear` it holds no text. What
  the ML libraries keep is outside the model.
- The pack store is used by one owner: scopes and sessions are left out, as are the
  limits of 32 jobs, 16 and 32 packs, progress figures, free disk space and the life times of
  catalogs and keys (a start is refused for a revocation only). All packs
  belong to one catalog, whose sequences differ (equal ones are refused as a conflict).
  A lock or a lease is freed when its process dies.
- A file system that can sync a directory (`DirectorySync` in the instance); where it
  cannot, `_fsync_directory` goes on without, and an answered install can be taken back
  by a power loss.
- The three files beside a deliberation run are one value, one tool stands for all, and
  workers do not fail (the broker's refusals and file errors are modelled). One review
  document and one matter; the review route reads the document twice, and the model once;
  a failed append to the assignments is left out.
- The processes of the review ledger, the packets and the deliberations are one: their
  locks are locks of threads.
- Left out: the hash chain and the encryption of the batch file, the audit chain of
  the registry, requests without a key and exempt routes, logging, and every string.

## 7. Plan

Done so far: `JobLifecycle`, `JobKernel`, `OcrJobs`, `BatchScheduler`, `Idempotency`,
`HotSwap`, `AgentRuns`, `ActivePack`, `ModelPacks`, `Deliberation`, `StableRegister`, `DurableFile`,
`AuthorityUpdates`, `ReviewLedger`, `FilingPackets`, and the proofs of section 4. Next,
most important first:

1. `GovernancePacks`: draft, review, activation, rollback, expiry over one ledger.
2. The reports about a changed authority, over `ReviewLedger`.

## 8. Running it

```
tlc -workers 2 -config kernel_safety.cfg MCJobKernel
tlc -workers 2 -config ocr_overlap.cfg MCOcrJobs
tlc -workers 2 -config agent_runs.cfg MCAgentRuns
tlc -workers 2 -config packs_safety.cfg MCModelPacks
tlc -workers 2 -config deliberation_safety.cfg MCDeliberation
tlc -workers 2 -config filing_packets.cfg MCFilingPackets
tlapm JobKernelProofs.tla
tlapm FilingProofs.tla
tlapm AuthorityProofs.tla
tlapm IdempotencyProofs.tla
tlapm KernelClientProofs.tla
tlapm SwapProofs.tla
tlapm DeliberationProofs.tla
tlapm PackProofs.tla
```

`runs` in `PROJECT.json` names the module and configuration of each run. The
largest, `deliberation_safety`, has 11.3 million distinct states; each takes from
seconds to about three minutes.
