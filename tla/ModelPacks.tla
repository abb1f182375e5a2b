------------------------------ MODULE ModelPacks ------------------------------
(***************************************************************************)
(* The store of offline model packs (ModelPackService,                     *)
(* model_pack_service.py).                                                 *)
(*                                                                         *)
(* A pack is uploaded in chunks, inspected, and activated, removed or      *)
(* restored with the user's consent.  The store is one encrypted state     *)
(* file, the uploads, the directories of installed and of removed packs,   *)
(* and the pointer a worker starts from.  Several app processes may use    *)
(* it.  Every operation holds the lock of the store; inspecting and        *)
(* resuming also hold the verification lease, and give the lock back while *)
(* they read the upload.                                                   *)
(*                                                                         *)
(* An operation can stop between any two of its writes, because it fails   *)
(* or its process dies.  Nobody can look in between, so it is one step     *)
(* with a shorter form for each place where it can stop.  Activation,      *)
(* removal and restoring write an intent first; going on from there is the *)
(* same whether it is the first call or a recovery (Finish).               *)
(***************************************************************************)
EXTENDS Integers, Sequences

CONSTANTS
    Jobs,           \* the imports (32 at most); a discarded one can be begun again
    Packs, NoPack,
    SeqOf,          \* the sequence of a pack's signed catalog
    Apps, NoApp,    \* the app processes; one that died is NoApp to its rows
    NoJob,
    Total           \* the chunks of an upload

ASSUME PackConstants ==
    /\ Packs # {} /\ NoPack \notin Packs /\ NoApp \notin Apps /\ NoJob \notin Jobs
    /\ SeqOf \in [Packs -> Nat \ {0}] /\ Total \in Nat \ {0}
    /\ \A p, q \in Packs : SeqOf[p] = SeqOf[q] => p = q

VARIABLES
    jobs, active, previous, installed, removed, transaction,  \* the state file
    uploads,   \* the chunks of each upload on disk
    packs,     \* the directories under packs/
    trash,     \* the directories under trash/
    pointer,   \* active.json
    mark,      \* the high-water mark of admitted catalogs
    revoked,   \* the packs the trust file has revoked
    lease      \* the verification that is going on

stateVars == <<jobs, active, previous, installed, removed, transaction>>
diskVars == <<uploads, packs, trash, pointer>>
trustVars == <<mark, revoked>>
packVars == <<stateVars, diskVars, trustVars, lease>>

Busy == {"resuming", "verifying", "canceling"}
ActiveStates == Busy \cup {"uploading", "ready_to_activate", "activating"}

\* content is the pack in the user's file, pack the one that was verified.
Row == [status : ActiveStates \cup {"absent", "interrupted", "canceled", "failed", "activated"},
        received : 0..Total, owner : Apps \cup {NoApp},
        content : Packs, pack : Packs \cup {NoPack}]

Transaction == [kind : {"activate", "remove", "restore"}, pack : Packs,
                job : Jobs \cup {NoJob}, given_up : BOOLEAN,
                prior_active : Packs \cup {NoPack}, prior_previous : Packs \cup {NoPack}]
NoTransaction == [kind |-> "none"]

Lease == [job : Jobs, app : Apps, kind : {"resume", "inspect"}, flag : BOOLEAN,
          pc : {"work", "commit", "failing"}]
NoLease == [job |-> NoJob]

Absent == [status |-> "absent", received |-> 0, owner |-> NoApp,
           content |-> CHOOSE p \in Packs : TRUE, pack |-> NoPack]

PackInit ==
    /\ jobs = [j \in Jobs |-> Absent]
    /\ active = NoPack /\ previous = NoPack
    /\ installed = {} /\ removed = {}
    /\ transaction = NoTransaction
    /\ uploads = [j \in Jobs |-> <<>>]
    /\ packs = {} /\ trash = {} /\ pointer = NoPack
    /\ mark = 0 /\ revoked = {}
    /\ lease = NoLease

-----------------------------------------------------------------------------

\* Every operation but recovery wants no intent pending.
NoIntent == transaction = NoTransaction

\* The state of a job as an app reads it: a verification that nobody is at, and
\* that is not its own, was interrupted.
Seen(a, j) ==
    IF jobs[j].owner # a /\ jobs[j].status \in Busy /\ lease = NoLease
    THEN "interrupted" ELSE jobs[j].status

\* The trust policy of today, without recording anything.
Admissible(p) == p \notin revoked /\ SeqOf[p] >= mark

\* The owner matters while a verification is on record, and is kept no longer.
StatusOf(j, status) == [jobs[j] EXCEPT !.status = status,
                                       !.owner = IF status \in Busy THEN @ ELSE NoApp]
SetStatus(j, status) == jobs' = [jobs EXCEPT ![j] = StatusOf(j, status)]

-----------------------------------------------------------------------------
(* Uploading. *)

BeginImport(j, p) ==
    /\ NoIntent
    /\ \A i \in Jobs : jobs[i].status \notin ActiveStates
    /\ jobs[j].status = "absent"
    /\ jobs' = [jobs EXCEPT ![j] = [Absent EXCEPT !.status = "uploading", !.content = p]]
    /\ UNCHANGED <<active, previous, installed, removed, transaction, diskVars, trustVars, lease>>

Append1(j) == uploads' = [uploads EXCEPT ![j] = Append(@, jobs[j].received + 1)]

\* Deviation: the size of the file is not looked at.
WantedAnyhow(j) == jobs[j].status = "uploading" /\ jobs[j].received < Total

\* The next chunk, onto a file that has just what was received.
Wanted(j) ==
    /\ jobs[j].status = "uploading" /\ jobs[j].received < Total
    /\ Len(uploads[j]) = jobs[j].received

Chunk(j) ==
    /\ NoIntent /\ Wanted(j)
    /\ Append1(j)
    /\ jobs' = [jobs EXCEPT ![j].received = @ + 1]
    /\ UNCHANGED <<active, previous, installed, removed, transaction,
                   packs, trash, pointer, trustVars, lease>>

ChunkStops(j) ==
    /\ NoIntent /\ Wanted(j)
    /\ Append1(j)
    /\ UNCHANGED <<stateVars, packs, trash, pointer, trustVars, lease>>

-----------------------------------------------------------------------------
(* Resuming and inspecting: the holder of the lease. *)

Verifying(kind, pc) == lease # NoLease /\ lease.kind = kind /\ lease.pc = pc
Proceed(pc) == lease' = [lease EXCEPT !.pc = pc]
Lost == lease.flag \/ jobs[lease.job].status \in {"canceling", "canceled"}

Take(a, j, kind, status) ==
    /\ lease = NoLease /\ NoIntent
    /\ jobs' = [jobs EXCEPT ![j].status = status, ![j].owner = a]
    /\ lease' = [job |-> j, app |-> a, kind |-> kind, flag |-> FALSE, pc |-> "work"]
    /\ UNCHANGED <<active, previous, installed, removed, transaction, diskVars, trustVars>>

\* Any job of the user can be resumed but one that is being activated.
Resume(a, j) ==
    /\ jobs[j].status \notin {"absent", "activating"}
    /\ Take(a, j, "resume", "resuming")

Inspect(a, j) ==
    /\ jobs[j].status = "uploading" /\ jobs[j].received = Total
    /\ Take(a, j, "inspect", "verifying")

\* Reading the upload, with a look at the flag and at the state file before
\* every block.
Read ==
    /\ lease # NoLease /\ lease.pc = "work"
    /\ LET j == lease.job
           readable == IF lease.kind = "resume" THEN Len(uploads[j]) >= jobs[j].received
                       ELSE Len(uploads[j]) = Total /\ Admissible(jobs[j].content)
       IN  \/ Lost /\ lease' = [lease EXCEPT !.flag = TRUE, !.pc = "failing"]
           \/ ~Lost /\ readable /\ Proceed("commit")
           \/ ~Lost /\ Proceed("failing")
    /\ UNCHANGED <<stateVars, diskVars, trustVars>>

\* The prefix is what was received: a torn tail is cut off.
ResumeCommit ==
    /\ Verifying("resume", "commit")
    /\ LET j == lease.job
       IN  \/ /\ jobs[j].status = "resuming" /\ ~lease.flag
              /\ uploads' = [uploads EXCEPT ![j] = SubSeq(@, 1, jobs[j].received)]
              /\ \/ SetStatus(j, "uploading") /\ lease' = NoLease
                 \/ UNCHANGED jobs /\ Proceed("failing")
           \/ /\ jobs[j].status # "resuming" \/ lease.flag
              /\ Proceed("failing") /\ UNCHANGED <<jobs, uploads>>
    /\ UNCHANGED <<active, previous, installed, removed, transaction,
                   packs, trash, pointer, trustVars>>

\* Deviation: the last look at the flag and at the state is left out.
StillWantedAlways(j) == jobs[j].content \notin removed
\* Deviation: a removed pack can be imported again.
StillWantedThough(j) == ~Lost /\ jobs[j].status = "verifying"
StillWanted(j) ==
    /\ ~Lost /\ jobs[j].status = "verifying"
    /\ jobs[j].content \notin removed

\* The staged directory becomes the pack, unless the pack is already there: then
\* that one is verified.
InspectCommit ==
    /\ Verifying("inspect", "commit")
    /\ LET j == lease.job
           p == jobs[j].content
       IN  \/ /\ StillWanted(j) /\ (p \in packs => Admissible(p))
              /\ packs' = packs \cup {p}
              /\ \/ /\ jobs' = [jobs EXCEPT ![j] = [StatusOf(j, "ready_to_activate") EXCEPT !.pack = p]]
                    /\ installed' = installed \cup {p}
                    /\ lease' = NoLease
                 \/ Proceed("failing") /\ UNCHANGED <<jobs, installed>>
           \/ /\ lease' = [lease EXCEPT !.pc = "failing", !.flag = Lost]
              /\ UNCHANGED <<jobs, installed, packs>>
    /\ UNCHANGED <<active, previous, removed, transaction, uploads, trash, pointer, trustVars>>

\* The handlers; the one of resume looks at the state again.  When it cannot
\* write, the job keeps its state and the lease is gone.
VerificationFails ==
    /\ lease # NoLease /\ lease.pc = "failing"
    /\ LET j == lease.job
           canceled == lease.flag \/ (lease.kind = "resume" /\ Lost)
       IN  SetStatus(j, IF canceled THEN "canceled" ELSE "failed") \/ UNCHANGED jobs
    /\ lease' = NoLease
    /\ UNCHANGED <<active, previous, installed, removed, transaction, diskVars, trustVars>>

Cancel(a, j) ==
    /\ NoIntent /\ jobs[j].status # "absent"
    /\ SetStatus(j, CASE Seen(a, j) \in {"verifying", "resuming"} -> "canceling"
                      [] Seen(a, j) \in {"uploading", "ready_to_activate", "interrupted"}
                             -> "canceled"
                      [] OTHER -> Seen(a, j))
    /\ lease' = IF lease # NoLease /\ lease.job = j /\ lease.app = a
                   /\ jobs[j].status \in {"verifying", "resuming"}
                THEN [lease EXCEPT !.flag = TRUE] ELSE lease
    /\ UNCHANGED <<active, previous, installed, removed, transaction, diskVars, trustVars>>

\* The upload goes first: stopped in between, the job has lost its file.
Discard(a, j) ==
    /\ NoIntent
    /\ Seen(a, j) \notin Busy \cup {"absent", "activating"}
    /\ uploads' = [uploads EXCEPT ![j] = <<>>]
    /\ jobs' = [jobs EXCEPT ![j] = Absent] \/ UNCHANGED jobs
    /\ UNCHANGED <<active, previous, installed, removed, transaction,
                   packs, trash, pointer, trustVars, lease>>

-----------------------------------------------------------------------------
(* Intents.  Each operation checks, writes its intent, and goes on in Finish. *)

Intend(kind, p, j) ==
    transaction' = [kind |-> kind, pack |-> p, job |-> j, given_up |-> FALSE,
                    prior_active |-> active, prior_previous |-> previous]

Activate(a, j) ==
    /\ NoIntent
    /\ Seen(a, j) = "ready_to_activate"
    /\ jobs[j].pack \in packs /\ Admissible(jobs[j].pack)
    /\ Intend("activate", jobs[j].pack, j)
    /\ SetStatus(j, "activating")
    /\ UNCHANGED <<active, previous, installed, removed, diskVars, trustVars, lease>>

ActivateInstalled(p) ==
    /\ NoIntent
    /\ p \in installed \cap packs /\ Admissible(p)
    /\ Intend("activate", p, NoJob)
    /\ UNCHANGED <<jobs, active, previous, installed, removed, diskVars, trustVars, lease>>

Unused(p) ==
    /\ p \notin {active, previous}
    /\ \A j \in Jobs : ~(jobs[j].pack = p /\ jobs[j].status \in ActiveStates)

Remove(p) ==
    /\ NoIntent
    /\ p \in installed /\ Unused(p)
    /\ Intend("remove", p, NoJob)
    /\ UNCHANGED <<jobs, active, previous, installed, removed, diskVars, trustVars, lease>>

Restore(p) ==
    /\ NoIntent
    /\ p \in removed \cap trash /\ Admissible(p)
    /\ Intend("restore", p, NoJob)
    /\ UNCHANGED <<jobs, active, previous, installed, removed, diskVars, trustVars, lease>>

\* A recovery that is to undo an intent records that first.
GiveUp ==
    /\ ~NoIntent /\ ~transaction.given_up
    /\ transaction' = [transaction EXCEPT !.given_up = TRUE]
    /\ UNCHANGED <<jobs, active, previous, installed, removed, diskVars, trustVars, lease>>

-----------------------------------------------------------------------------
(* Going on from an intent, for the first time or in a recovery. *)

Of(kind) == ~NoIntent /\ transaction.kind = kind

\* Deviation: giving up brings back what was active before.
TargetOrPrior ==
    IF transaction.given_up THEN transaction.prior_active ELSE transaction.pack
\* Giving up an activation leaves no pack active.
Target == IF transaction.given_up THEN NoPack ELSE transaction.pack

Activatable == transaction.given_up \/ (transaction.pack \in packs /\ Admissible(transaction.pack))
AdmittedMark == IF transaction.given_up THEN mark ELSE SeqOf[transaction.pack]

SettledStatus == IF transaction.given_up THEN "canceled" ELSE "activated"

FinishActivate ==
    /\ Of("activate") /\ Activatable
    /\ mark' = AdmittedMark
    /\ pointer' = Target /\ active' = Target
    /\ previous' = IF transaction.prior_active # Target THEN transaction.prior_active
                   ELSE transaction.prior_previous
    /\ IF transaction.job \in Jobs /\ jobs[transaction.job].status # "absent"
       THEN SetStatus(transaction.job, SettledStatus) ELSE UNCHANGED jobs
    /\ transaction' = NoTransaction
    /\ UNCHANGED <<installed, removed, uploads, packs, trash, revoked, lease>>

\* Stopped behind the mark, or behind the mark and the pointer.
ActivateStops ==
    /\ Of("activate") /\ Activatable
    /\ mark' = AdmittedMark
    /\ pointer' \in {pointer, Target}
    /\ UNCHANGED <<stateVars, uploads, packs, trash, revoked, lease>>

\* The files are in the one place or in the other.
OnePlace(p) == (p \in packs) # (p \in trash)

\* Where the files belong when the intent is through.
BackInPacks == (transaction.kind = "restore") # transaction.given_up

Movable ==
    /\ OnePlace(transaction.pack)
    /\ (transaction.kind = "restore" /\ ~transaction.given_up) => Admissible(transaction.pack)

MoveFiles ==
    IF BackInPacks
    THEN packs' = packs \cup {transaction.pack} /\ trash' = trash \ {transaction.pack}
    ELSE packs' = packs \ {transaction.pack} /\ trash' = trash \cup {transaction.pack}

FinishMove ==
    /\ Of("remove") \/ Of("restore")
    /\ Movable /\ MoveFiles
    /\ IF BackInPacks
       THEN /\ installed' = installed \cup {transaction.pack}
            /\ removed' = removed \ {transaction.pack}
       ELSE /\ installed' = installed \ {transaction.pack}
            /\ removed' = removed \cup {transaction.pack}
    /\ transaction' = NoTransaction
    /\ UNCHANGED <<jobs, active, previous, uploads, pointer, trustVars, lease>>

MoveStops ==
    /\ Of("remove") \/ Of("restore")
    /\ Movable /\ MoveFiles
    /\ UNCHANGED <<stateVars, uploads, pointer, trustVars, lease>>

Finish == FinishActivate \/ ActivateStops \/ FinishMove \/ MoveStops

-----------------------------------------------------------------------------
(* Around the store. *)

\* An app dies or is restarted: the system frees its lease, and the next app
\* to start has another name.
AppDies(a) ==
    /\ jobs' = [j \in Jobs |-> IF jobs[j].owner = a THEN [jobs[j] EXCEPT !.owner = NoApp]
                               ELSE jobs[j]]
    /\ lease' = IF lease # NoLease /\ lease.app = a THEN NoLease ELSE lease
    /\ UNCHANGED <<active, previous, installed, removed, transaction, diskVars, trustVars>>

\* The trust file is the operator's.
Revoke(p) ==
    /\ revoked' = revoked \cup {p}
    /\ UNCHANGED <<stateVars, diskVars, mark, lease>>

PackNext ==
    \/ \E j \in Jobs, p \in Packs : BeginImport(j, p)
    \/ \E a \in Apps, j \in Jobs :
          \/ Resume(a, j) \/ Inspect(a, j) \/ Cancel(a, j) \/ Discard(a, j) \/ Activate(a, j)
    \/ \E j \in Jobs : Chunk(j) \/ ChunkStops(j)
    \/ Read \/ ResumeCommit \/ InspectCommit \/ VerificationFails
    \/ \E p \in Packs : ActivateInstalled(p) \/ Remove(p) \/ Restore(p) \/ Revoke(p)
    \/ GiveUp \/ Finish
    \/ \E a \in Apps : AppDies(a)

PackSpec == PackInit /\ [][PackNext]_packVars

\* What the start of a worker is given (_load_active_pack_locked): nothing while
\* an intent is pending, where pointer and state file differ, where the files are
\* missing, and where the trust policy refuses.
LoadActivePack ==
    IF NoIntent /\ pointer = active /\ pointer \in packs /\ Admissible(pointer)
    THEN pointer ELSE NoPack

-----------------------------------------------------------------------------
(* Properties. *)

\* The state file, the files and the lease are what the code can write.
PackTypeOK ==
    /\ jobs \in [Jobs -> Row]
    /\ {active, previous, pointer} \subseteq Packs \cup {NoPack}
    /\ installed \cup removed \cup packs \cup trash \cup revoked \subseteq Packs
    /\ transaction \in Transaction \cup {NoTransaction}
    /\ uploads \in [Jobs -> Seq(1..Total)]
    /\ mark \in Nat /\ lease \in Lease \cup {NoLease}

\* The active and the previous pack are installed and their files are there,
\* whatever was removed, given up or cut short in between (remove,
\* _finish_transaction).
KeptPacks == {active, previous} \ {NoPack} \subseteq installed \cap packs

\* A worker starts from the pointer: it is the active pack, unless an intent
\* to activate is pending, which refuses the start (_load_active_pack_locked).
PointerIsActive == pointer # active => Of("activate")

\* A pack is on record where its files are, but for the pack of a pending
\* intent (_inspect, _finish_transaction).
RecordsMatchFiles ==
    \A p \in Packs : NoIntent \/ transaction.pack # p =>
        /\ p \in installed => p \in packs
        /\ p \in removed => p \in trash /\ p \notin packs

\* Wherever operations are cut short, finished later or given up, the state file,
\* the pointer and the directories of packs agree.
StateMatchesFiles == KeptPacks /\ PointerIsActive /\ RecordsMatchFiles

\* Whatever is cut short, finished later or given up, to those who start workers
\* the store is one register: with no intent pending they are given the pack that
\* is active unless it was revoked, and it is never older than one admitted
\* before (load_active_pack, _finish_transaction).
Store == INSTANCE ActivePack WITH
    chosen <- active, open <- NoIntent, barred <- revoked, newest <- mark,
    given <- LoadActivePack
ImplementsStore == Store!StoreSpec

\* An upload is a prefix of the user's file, torn tails, lost answers, retries
\* and resumptions included (chunk, resume).
UploadIsAPrefix ==
    \A j \in Jobs : \A i \in 1..Len(uploads[j]) : uploads[j][i] = i

\* A cancellation of a verification holds, whichever app asked for it: only
\* resuming with the user's consent takes the job up again (_inspect, resume).
CancelHolds ==
    [][\A j \in Jobs : jobs[j].status = "canceling" =>
          jobs'[j].status \in {"canceling", "canceled", "failed", "absent", "resuming"}]_packVars

\* Claimed by the repository, and wrong: an interrupted removal or restoring
\* can be finished or undone.
RecoveryCanFinish == Of("remove") \/ Of("restore") => OnePlace(transaction.pack)
=============================================================================
