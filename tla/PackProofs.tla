------------------------------ MODULE PackProofs ------------------------------
(***************************************************************************)
(* Proofs about the store of offline model packs (ModelPacks).             *)
(*                                                                         *)
(* While an intent is pending nothing but the verification at hand and the *)
(* recovery itself moves, so an intent still says at the end what was true *)
(* when it was written: what was active, that a pack to activate is on     *)
(* record, that a pack to remove is not in use (IntentInv).  That is what  *)
(* lets a half-done intent be finished or undone at any later time.  The   *)
(* verification moves beside it, and meets it in two places only: the job  *)
(* of the lease is in a state no intent has its job in (LeaseInv), and the *)
(* pack it adds is not a removed one.                                      *)
(*                                                                         *)
(* A lemma named ...Moves says what an action does to the jobs, the lease  *)
(* or the intent; one named ...Kept that every step keeps a part of the    *)
(* invariant.                                                              *)
(***************************************************************************)
EXTENDS ModelPacks, TLAPS, SequenceTheorems

-----------------------------------------------------------------------------
(* What the helpers of the actions do. *)

JobStates == ActiveStates \cup {"absent", "interrupted", "canceled", "failed", "activated"}

\* The row of a discarded job, and of one that was just begun.
LEMMA AbsentIs ==
    /\ Absent \in Row /\ Absent.status = "absent" /\ Absent.received = 0 /\ Absent.pack = NoPack
    /\ \A p \in Packs : LET fresh == [Absent EXCEPT !.status = "uploading", !.content = p]
                        IN  fresh \in Row /\ fresh.status = "uploading" /\ fresh.received = 0
<1>1. (CHOOSE p \in Packs : TRUE) \in Packs
  BY PackConstants
<1>2. Absent \in Row /\ Absent.status = "absent" /\ Absent.received = 0 /\ Absent.pack = NoPack
  BY <1>1, PackConstants DEF Absent, Row
<1> QED
  BY <1>2 DEF Row, ActiveStates, Absent

\* SetStatus changes the status of one job, and forgets its owner where it may.
LEMMA StatusMoves ==
    ASSUME PackTypeOK, NEW j \in Jobs, NEW status \in JobStates, SetStatus(j, status)
    PROVE  /\ jobs' \in [Jobs -> Row]
           /\ jobs'[j].status = status /\ jobs'[j].received = jobs[j].received
           /\ jobs'[j].pack = jobs[j].pack /\ jobs'[j].content = jobs[j].content
           /\ \A i \in Jobs : i # j => jobs'[i] = jobs[i]
<1>1. jobs[j] \in Row
  BY DEF PackTypeOK
<1>2. /\ StatusOf(j, status) \in Row /\ StatusOf(j, status).status = status
      /\ StatusOf(j, status).received = jobs[j].received
      /\ StatusOf(j, status).pack = jobs[j].pack
      /\ StatusOf(j, status).content = jobs[j].content
  BY <1>1 DEF StatusOf, Row, JobStates, ActiveStates
<1> QED
  BY <1>2 DEF SetStatus, PackTypeOK

\* What an app sees of a job is its status, or that its verification was interrupted.
LEMMA SeenIs ==
    ASSUME PackTypeOK, NEW a \in Apps, NEW j \in Jobs
    PROVE  /\ Seen(a, j) \in JobStates
           /\ Seen(a, j) \in {jobs[j].status, "interrupted"}
           /\ Seen(a, j) # jobs[j].status => jobs[j].status \in Busy /\ lease = NoLease
BY DEF Seen, PackTypeOK, Row, JobStates

\* The parts of the lease.
LEMMA LeaseIs ==
    ASSUME PackTypeOK, lease # NoLease
    PROVE  /\ lease \in Lease /\ lease.job \in Jobs /\ lease.app \in Apps
           /\ lease.kind \in {"resume", "inspect"} /\ lease.pc \in {"work", "commit", "failing"}
           /\ jobs[lease.job] \in Row
BY DEF PackTypeOK, Lease

\* The lease goes on with the same job.
LEMMA LeaseMoves ==
    ASSUME PackTypeOK, lease # NoLease
    PROVE  \A pc \in {"work", "commit", "failing"}, flag \in BOOLEAN :
              /\ LET next == [lease EXCEPT !.pc = pc]
                 IN  /\ next \in Lease /\ next # NoLease /\ next.pc = pc
                     /\ next.job = lease.job /\ next.kind = lease.kind
              /\ LET next == [lease EXCEPT !.flag = flag, !.pc = pc]
                 IN  /\ next \in Lease /\ next # NoLease /\ next.pc = pc
                     /\ next.job = lease.job /\ next.kind = lease.kind
              /\ LET next == [lease EXCEPT !.flag = flag]
                 IN  /\ next \in Lease /\ next # NoLease /\ next.pc = lease.pc
                     /\ next.job = lease.job /\ next.kind = lease.kind
<1>1. lease \in Lease
  BY DEF PackTypeOK
<1>2. \A next \in Lease : next # NoLease
  BY PackConstants DEF Lease, NoLease
<1> TAKE pc \in {"work", "commit", "failing"}, flag \in BOOLEAN
<1> DEFINE gone == [lease EXCEPT !.pc = pc]
           both == [lease EXCEPT !.flag = flag, !.pc = pc]
           told == [lease EXCEPT !.flag = flag]
<1>3. gone \in Lease /\ gone.pc = pc /\ gone.job = lease.job /\ gone.kind = lease.kind
  BY <1>1 DEF Lease
<1>4. both \in Lease /\ both.pc = pc /\ both.job = lease.job /\ both.kind = lease.kind
  BY <1>1 DEF Lease
<1>5. told \in Lease /\ told.pc = lease.pc /\ told.job = lease.job /\ told.kind = lease.kind
  BY <1>1 DEF Lease
<1> HIDE DEF gone, both, told
<1>6. /\ gone \in Lease /\ gone # NoLease /\ gone.pc = pc
      /\ gone.job = lease.job /\ gone.kind = lease.kind
      /\ both \in Lease /\ both # NoLease /\ both.pc = pc
      /\ both.job = lease.job /\ both.kind = lease.kind
      /\ told \in Lease /\ told # NoLease /\ told.pc = lease.pc
      /\ told.job = lease.job /\ told.kind = lease.kind
  BY <1>2, <1>3, <1>4, <1>5
<1> QED
  BY <1>6, Zenon DEF gone, both, told

\* A lease is not the absent one.
LEMMA LeaseIsThere ==
    \A l \in Lease : l # NoLease
BY PackConstants DEF Lease, NoLease

\* The parts of a pending intent.
LEMMA IntentIs ==
    ASSUME PackTypeOK, ~NoIntent
    PROVE  /\ transaction \in Transaction /\ transaction.pack \in Packs
           /\ transaction.kind \in {"activate", "remove", "restore"}
           /\ transaction.given_up \in BOOLEAN /\ transaction.job \in Jobs \cup {NoJob}
           /\ transaction.prior_active \in Packs \cup {NoPack}
           /\ transaction.prior_previous \in Packs \cup {NoPack}
BY DEF PackTypeOK, Transaction, NoIntent

\* A new intent records what is active.
LEMMA IntendMoves ==
    ASSUME PackTypeOK, NEW kind \in {"activate", "remove", "restore"}, NEW p \in Packs,
           NEW j \in Jobs \cup {NoJob}, Intend(kind, p, j)
    PROVE  /\ transaction' \in Transaction /\ ~NoIntent'
           /\ transaction'.kind = kind /\ transaction'.pack = p /\ transaction'.job = j
           /\ transaction'.prior_active = active /\ transaction'.prior_previous = previous
BY DEF PackTypeOK, Transaction, Intend, NoIntent, NoTransaction

\* Giving up keeps the rest of the intent.
LEMMA GiveUpMoves ==
    ASSUME PackTypeOK, GiveUp
    PROVE  /\ ~NoIntent /\ ~NoIntent'
           /\ transaction'.kind = transaction.kind /\ transaction'.pack = transaction.pack
           /\ transaction'.job = transaction.job
           /\ transaction'.prior_active = transaction.prior_active
           /\ transaction'.prior_previous = transaction.prior_previous
<1>1. ~NoIntent /\ transaction \in Transaction
  BY IntentIs DEF GiveUp
<1>2. transaction' = [transaction EXCEPT !.given_up = TRUE]
  BY DEF GiveUp
<1> QED
  BY <1>1, <1>2 DEF Transaction, NoIntent, NoTransaction

\* Taking the lease sets the status of its job.
LEMMA TakeMoves ==
    ASSUME PackTypeOK, NEW a \in Apps, NEW j \in Jobs, NEW kind \in {"resume", "inspect"},
           NEW status \in Busy, Take(a, j, kind, status)
    PROVE  /\ jobs' \in [Jobs -> Row] /\ \A i \in Jobs : i # j => jobs'[i] = jobs[i]
           /\ jobs'[j].status = status /\ jobs'[j].received = jobs[j].received
           /\ lease' \in Lease /\ lease' # NoLease
           /\ lease'.job = j /\ lease'.kind = kind /\ lease'.pc = "work"
<1>1. jobs[j] \in Row
  BY DEF PackTypeOK
<1>2. DEFINE row == [[jobs[j] EXCEPT !.status = status] EXCEPT !.owner = a]
<1>3. row \in Row /\ row.status = status /\ row.received = jobs[j].received
  BY <1>1 DEF Row, JobStates, ActiveStates
<1>4. jobs' = [jobs EXCEPT ![j] = row]
  BY DEF Take, PackTypeOK
<1>5. /\ jobs' \in [Jobs -> Row] /\ \A i \in Jobs : i # j => jobs'[i] = jobs[i]
      /\ jobs'[j] = row
  <2> HIDE DEF row
  <2> QED
    BY <1>3, <1>4 DEF PackTypeOK
<1>6. /\ lease' \in Lease /\ lease' # NoLease
      /\ lease'.job = j /\ lease'.kind = kind /\ lease'.pc = "work"
  BY PackConstants DEF Take, Lease, NoLease
<1> QED
  <2> HIDE DEF row
  <2> QED
    BY <1>3, <1>5, <1>6

\* A chunk makes the upload longer by one.
LEMMA AppendIsUpload ==
    ASSUME PackTypeOK, NEW j \in Jobs, jobs[j].received < Total, Append1(j)
    PROVE  /\ uploads' \in [Jobs -> Seq(1..Total)]
           /\ uploads'[j] = Append(uploads[j], jobs[j].received + 1)
           /\ \A i \in Jobs : i # j => uploads'[i] = uploads[i]
<1>1. jobs[j] \in Row /\ uploads[j] \in Seq(1..Total)
  BY DEF PackTypeOK
<1>2. jobs[j].received + 1 \in 1..Total
  BY <1>1, PackConstants DEF Row
<1>3. Append(uploads[j], jobs[j].received + 1) \in Seq(1..Total)
  BY <1>1, <1>2, AppendProperties
<1>4. uploads' = [uploads EXCEPT ![j] = Append(uploads[j], jobs[j].received + 1)]
  BY DEF Append1
<1> QED
  BY <1>3, <1>4 DEF PackTypeOK

\* An acknowledged chunk counts as received.
LEMMA ChunkMoves ==
    ASSUME PackTypeOK, NEW j \in Jobs, jobs[j].received < Total,
           jobs' = [jobs EXCEPT ![j].received = @ + 1]
    PROVE  /\ jobs' \in [Jobs -> Row] /\ \A i \in Jobs : i # j => jobs'[i] = jobs[i]
           /\ jobs'[j].received = jobs[j].received + 1
           /\ jobs'[j].status = jobs[j].status /\ jobs'[j].pack = jobs[j].pack
<1>1. jobs[j] \in Row
  BY DEF PackTypeOK
<1>2. jobs[j].received + 1 \in 0..Total
  BY <1>1, PackConstants DEF Row
<1>3. DEFINE row == [jobs[j] EXCEPT !.received = @ + 1]
<1>4. /\ row \in Row /\ row.received = jobs[j].received + 1
      /\ row.status = jobs[j].status /\ row.pack = jobs[j].pack
  <2> DEFINE next == jobs[j].received + 1
  <2>1. next \in 0..Total
    BY <1>2
  <2>2. row = [jobs[j] EXCEPT !.received = next]
    OBVIOUS
  <2> HIDE DEF next, row
  <2>3. /\ row \in Row /\ row.received = next
        /\ row.status = jobs[j].status /\ row.pack = jobs[j].pack
    BY <1>1, <2>1, <2>2 DEF Row
  <2> QED
    BY <2>3 DEF next
<1>5. jobs' = [jobs EXCEPT ![j] = row]
  OBVIOUS
<1> QED
  <2> HIDE DEF row
  <2> QED
    BY <1>4, <1>5 DEF PackTypeOK

\* Discarding empties the upload, and forgets the job unless it stops in between.
LEMMA DiscardMoves ==
    ASSUME PackTypeOK, NEW a \in Apps, NEW j \in Jobs, Discard(a, j)
    PROVE  /\ jobs' \in [Jobs -> Row] /\ \A i \in Jobs : i # j => jobs'[i] = jobs[i]
           /\ jobs'[j] = Absent \/ jobs'[j] = jobs[j]
           /\ uploads' \in [Jobs -> Seq(1..Total)] /\ uploads'[j] = <<>>
           /\ \A i \in Jobs : i # j => uploads'[i] = uploads[i]
<1>1. /\ jobs' \in [Jobs -> Row] /\ \A i \in Jobs : i # j => jobs'[i] = jobs[i]
      /\ jobs'[j] = Absent \/ jobs'[j] = jobs[j]
  <2>1. CASE jobs' = [jobs EXCEPT ![j] = Absent]
    BY <2>1, AbsentIs DEF PackTypeOK
  <2>2. CASE jobs' = jobs
    BY <2>2 DEF PackTypeOK
  <2> QED
    BY <2>1, <2>2 DEF Discard
<1>2. <<>> \in Seq(1..Total)
  OBVIOUS
<1>3. uploads' = [uploads EXCEPT ![j] = <<>>]
  BY DEF Discard
<1>4. /\ uploads' \in [Jobs -> Seq(1..Total)] /\ uploads'[j] = <<>>
      /\ \A i \in Jobs : i # j => uploads'[i] = uploads[i]
  BY <1>2, <1>3 DEF PackTypeOK
<1> QED
  BY <1>1, <1>4

\* A verified job names its pack.
LEMMA ReadyMoves ==
    ASSUME PackTypeOK, NEW j \in Jobs, NEW p \in Packs,
           jobs' = [jobs EXCEPT ![j] = [StatusOf(j, "ready_to_activate") EXCEPT !.pack = p]]
    PROVE  /\ jobs' \in [Jobs -> Row] /\ \A i \in Jobs : i # j => jobs'[i] = jobs[i]
           /\ jobs'[j].status = "ready_to_activate" /\ jobs'[j].pack = p
           /\ jobs'[j].received = jobs[j].received
<1>1. jobs[j] \in Row
  BY DEF PackTypeOK
<1>2. DEFINE row == [StatusOf(j, "ready_to_activate") EXCEPT !.pack = p]
<1>3. /\ row \in Row /\ row.status = "ready_to_activate" /\ row.pack = p
      /\ row.received = jobs[j].received
  BY <1>1 DEF StatusOf, Row, JobStates, ActiveStates
<1> HIDE DEF row
<1>4. jobs' = [jobs EXCEPT ![j] = row]
  BY DEF row
<1> QED
  BY <1>3, <1>4 DEF PackTypeOK

\* A verification was canceled or was not.
LEMMA LostIsBoolean ==
    ASSUME PackTypeOK, lease # NoLease
    PROVE  Lost \in BOOLEAN
<1>1. lease.flag \in BOOLEAN
  BY DEF PackTypeOK, Lease
<1> QED
  BY <1>1, Zenon DEF Lost

\* The death of an app changes the owners of jobs, and frees its lease.
LEMMA DeathMoves ==
    ASSUME PackTypeOK, NEW a \in Apps, AppDies(a)
    PROVE  /\ jobs' \in [Jobs -> Row]
           /\ \A j \in Jobs : /\ jobs'[j].status = jobs[j].status
                              /\ jobs'[j].received = jobs[j].received
                              /\ jobs'[j].pack = jobs[j].pack
           /\ lease' = lease \/ lease' = NoLease
<1>1. \A j \in Jobs : /\ jobs'[j] \in Row /\ jobs'[j].status = jobs[j].status
                      /\ jobs'[j].received = jobs[j].received /\ jobs'[j].pack = jobs[j].pack
  <2> SUFFICES ASSUME NEW j \in Jobs
               PROVE  /\ jobs'[j] \in Row /\ jobs'[j].status = jobs[j].status
                      /\ jobs'[j].received = jobs[j].received /\ jobs'[j].pack = jobs[j].pack
    OBVIOUS
  <2>1. jobs[j] \in Row
    BY DEF PackTypeOK
  <2>2. jobs'[j] = IF jobs[j].owner = a THEN [jobs[j] EXCEPT !.owner = NoApp] ELSE jobs[j]
    BY DEF AppDies
  <2> QED
    BY <2>1, <2>2 DEF Row
<1>2. jobs' = [j \in Jobs |-> jobs'[j]]
  BY DEF AppDies
<1> QED
  BY <1>1, <1>2 DEF AppDies

\* A cancellation leads a job away from being ready, and one being verified to
\* "canceling".
LEMMA CancelMoves ==
    ASSUME PackTypeOK, NEW a \in Apps, NEW j \in Jobs, Cancel(a, j)
    PROVE  /\ \A i \in Jobs : i # j => jobs'[i] = jobs[i]
           /\ jobs'[j].pack = jobs[j].pack /\ jobs'[j].received = jobs[j].received
           /\ jobs'[j].status \notin {"ready_to_activate", "resuming"}
           /\ jobs[j].status \in Busy /\ lease # NoLease => jobs'[j].status = "canceling"
           /\ jobs[j].status = "canceling" => jobs'[j].status \in {"canceling", "canceled"}
           /\ lease # NoLease => /\ lease' # NoLease /\ lease'.job = lease.job
                                 /\ lease'.kind = lease.kind /\ lease'.pc = lease.pc
           /\ lease = NoLease => lease' = NoLease
           /\ NoIntent /\ UNCHANGED <<active, previous, installed, removed, transaction>>
           /\ UNCHANGED <<diskVars, trustVars>>
<1> DEFINE next == CASE Seen(a, j) \in {"verifying", "resuming"} -> "canceling"
                     [] Seen(a, j) \in {"uploading", "ready_to_activate", "interrupted"}
                            -> "canceled"
                     [] OTHER -> Seen(a, j)
<1>1. Seen(a, j) \in JobStates
  BY SeenIs
<1>2. /\ next \in JobStates /\ next \notin {"ready_to_activate", "resuming", "verifying"}
      /\ Seen(a, j) \in Busy => next = "canceling"
      /\ Seen(a, j) = "interrupted" => next = "canceled"
  BY <1>1 DEF JobStates, ActiveStates, Busy
<1>3. SetStatus(j, next)
  BY DEF Cancel
<1> HIDE DEF next
<1>4. /\ \A i \in Jobs : i # j => jobs'[i] = jobs[i]
      /\ jobs'[j].pack = jobs[j].pack /\ jobs'[j].received = jobs[j].received
      /\ jobs'[j].status = next
  BY <1>2, <1>3, StatusMoves
<1>5. jobs[j].status \in Busy /\ lease # NoLease => next = "canceling"
  BY <1>2, SeenIs
<1>6. jobs[j].status = "canceling" => next \in {"canceling", "canceled"}
  BY <1>2, SeenIs DEF Busy
<1>7. /\ lease # NoLease => /\ lease' # NoLease /\ lease'.job = lease.job
                            /\ lease'.kind = lease.kind /\ lease'.pc = lease.pc
      /\ lease = NoLease => lease' = NoLease
  <2>1. lease' = lease \/ (lease # NoLease /\ lease' = [lease EXCEPT !.flag = TRUE])
    BY DEF Cancel
  <2>2. CASE lease # NoLease
    <3>1. lease \in Lease
      BY <2>2, LeaseIs
    <3>2. /\ [lease EXCEPT !.flag = TRUE] \in Lease
          /\ [lease EXCEPT !.flag = TRUE].job = lease.job
          /\ [lease EXCEPT !.flag = TRUE].kind = lease.kind
          /\ [lease EXCEPT !.flag = TRUE].pc = lease.pc
      BY <3>1 DEF Lease
    <3> QED
      BY <2>1, <2>2, <3>1, <3>2, LeaseIsThere
  <2> QED
    BY <2>1, <2>2
<1> QED
  BY <1>2, <1>4, <1>5, <1>6, <1>7 DEF Cancel

\* Only a job that is ready on disk is activated.
LEMMA ActivateMoves ==
    ASSUME PackTypeOK, NEW a \in Apps, NEW j \in Jobs, Activate(a, j)
    PROVE  /\ \A i \in Jobs : i # j => jobs'[i] = jobs[i]
           /\ jobs[j].status = "ready_to_activate" /\ jobs'[j].status = "activating"
           /\ jobs[j].pack \in packs
           /\ Intend("activate", jobs[j].pack, j)
           /\ ~NoIntent' /\ transaction'.kind = "activate" /\ transaction'.pack = jobs[j].pack
           /\ transaction'.job = j
           /\ transaction'.prior_active = active /\ transaction'.prior_previous = previous
           /\ NoIntent /\ UNCHANGED <<active, previous, installed, removed>>
           /\ UNCHANGED <<diskVars, trustVars, lease>>
<1>1. jobs[j].status = "ready_to_activate"
  BY SeenIs DEF Activate
<1>2. jobs[j].pack \in Packs
  <2>1. jobs[j].pack \in packs /\ packs \subseteq Packs
    BY DEF Activate, PackTypeOK
  <2> QED
    BY <2>1
<1>3. "activating" \in JobStates
  BY DEF JobStates, ActiveStates
<1>4. SetStatus(j, "activating") /\ Intend("activate", jobs[j].pack, j)
  BY DEF Activate
<1>5. \A i \in Jobs : i # j => jobs'[i] = jobs[i]
  BY <1>3, <1>4, StatusMoves
<1>6. jobs'[j].status = "activating"
  BY <1>3, <1>4, StatusMoves
<1>7. /\ ~NoIntent' /\ transaction'.kind = "activate" /\ transaction'.pack = jobs[j].pack
      /\ transaction'.job = j
      /\ transaction'.prior_active = active /\ transaction'.prior_previous = previous
  <2> DEFINE p == jobs[j].pack
  <2>1. p \in Packs /\ Intend("activate", p, j)
    BY <1>2, <1>4
  <2> HIDE DEF p
  <2>2. /\ ~NoIntent' /\ transaction'.kind = "activate" /\ transaction'.pack = p
        /\ transaction'.job = j
        /\ transaction'.prior_active = active /\ transaction'.prior_previous = previous
    BY <2>1, IntendMoves
  <2> QED
    BY <2>2 DEF p
<1> QED
  BY <1>1, <1>4, <1>5, <1>6, <1>7 DEF Activate

\* A resumption is committed for a job that is still resuming, or fails.
LEMMA ResumeMoves ==
    ASSUME PackTypeOK, ResumeCommit
    PROVE  /\ lease # NoLease /\ lease.job \in Jobs
           /\ \/ /\ jobs' = jobs /\ lease' # NoLease
                 /\ lease'.job = lease.job /\ lease'.pc = "failing"
              \/ /\ \A i \in Jobs : i # lease.job => jobs'[i] = jobs[i]
                 /\ jobs[lease.job].status = "resuming" /\ jobs'[lease.job].status = "uploading"
                 /\ lease' = NoLease
           /\ UNCHANGED <<active, previous, installed, removed, transaction>>
           /\ UNCHANGED <<packs, trash, pointer, trustVars>>
<1>1. lease # NoLease /\ lease.job \in Jobs /\ "uploading" \in JobStates
  BY LeaseIs DEF ResumeCommit, Verifying, JobStates, ActiveStates
<1>2. CASE jobs' = jobs /\ Proceed("failing")
  <2>1. lease' = [lease EXCEPT !.pc = "failing"]
    BY <1>2 DEF Proceed
  <2>2. lease' # NoLease /\ lease'.job = lease.job /\ lease'.pc = "failing"
    BY <1>1, <2>1, LeaseMoves
  <2> QED
    BY <1>1, <1>2, <2>2 DEF ResumeCommit
<1>3. CASE /\ jobs[lease.job].status = "resuming" /\ SetStatus(lease.job, "uploading")
           /\ lease' = NoLease
  <2>1. /\ \A i \in Jobs : i # lease.job => jobs'[i] = jobs[i]
        /\ jobs'[lease.job].status = "uploading"
    BY <1>1, <1>3, StatusMoves
  <2> QED
    BY <1>1, <1>3, <2>1 DEF ResumeCommit
<1> QED
  BY <1>2, <1>3 DEF ResumeCommit

\* An inspection is committed for a job that is still being verified, and adds no
\* removed pack.
LEMMA InspectMoves ==
    ASSUME PackTypeOK, InspectCommit
    PROVE  /\ lease # NoLease /\ lease.job \in Jobs /\ lease.kind = "inspect"
           /\ jobs[lease.job].content \in Packs
           /\ \/ /\ jobs' = jobs /\ installed' = installed /\ lease' # NoLease
                 /\ lease'.job = lease.job /\ lease'.pc = "failing"
              \/ /\ \A i \in Jobs : i # lease.job => jobs'[i] = jobs[i]
                 /\ jobs[lease.job].status = "verifying"
                 /\ jobs'[lease.job].status = "ready_to_activate"
                 /\ jobs'[lease.job].pack = jobs[lease.job].content
                 /\ installed' = installed \cup {jobs[lease.job].content}
                 /\ packs' = packs \cup {jobs[lease.job].content}
                 /\ lease' = NoLease
           /\ \/ packs' = packs
              \/ /\ jobs[lease.job].content \notin removed
                 /\ packs' = packs \cup {jobs[lease.job].content}
           /\ UNCHANGED <<active, previous, removed, transaction>>
           /\ UNCHANGED <<uploads, trash, pointer, trustVars>>
<1>1. /\ lease # NoLease /\ lease.job \in Jobs /\ lease.kind = "inspect"
      /\ jobs[lease.job].content \in Packs
  BY LeaseIs DEF InspectCommit, Verifying, Row
<1>2. Lost \in BOOLEAN
  BY <1>1, LostIsBoolean
<1>3. UNCHANGED <<active, previous, removed, transaction, uploads, trash, pointer, trustVars>>
  BY DEF InspectCommit
<1>4. ASSUME lease' = [lease EXCEPT !.pc = "failing", !.flag = Lost] \/ Proceed("failing")
      PROVE  lease' # NoLease /\ lease'.job = lease.job /\ lease'.pc = "failing"
  <2>1. CASE Proceed("failing")
    BY <1>1, <2>1, LeaseMoves DEF Proceed
  <2>2. CASE lease' = [lease EXCEPT !.pc = "failing", !.flag = Lost]
    <3>1. lease' \in Lease /\ lease'.job = lease.job /\ lease'.pc = "failing"
      BY <1>1, <1>2, <2>2, LeaseIs DEF Lease
    <3> QED
      BY <3>1, LeaseIsThere
  <2> QED
    BY <1>4, <2>1, <2>2
<1> DEFINE p == jobs[lease.job].content
<1>5. CASE /\ StillWanted(lease.job) /\ packs' = packs \cup {p}
           /\ jobs' = [jobs EXCEPT ![lease.job] =
                          [StatusOf(lease.job, "ready_to_activate") EXCEPT !.pack = p]]
           /\ installed' = installed \cup {p} /\ lease' = NoLease
  <2> HIDE DEF p
  <2>1. p \in Packs
    BY <1>1 DEF p
  <2>2. /\ \A i \in Jobs : i # lease.job => jobs'[i] = jobs[i]
        /\ jobs'[lease.job].status = "ready_to_activate" /\ jobs'[lease.job].pack = p
    BY <1>1, <1>5, <2>1, ReadyMoves
  <2>3. jobs[lease.job].status = "verifying" /\ p \notin removed
    BY <1>5 DEF StillWanted, p
  <2> QED
    BY <1>1, <1>3, <1>5, <2>2, <2>3 DEF p
<1>6. CASE /\ StillWanted(lease.job) /\ packs' = packs \cup {p}
           /\ Proceed("failing") /\ UNCHANGED <<jobs, installed>>
  <2>1. p \notin removed
    BY <1>6 DEF StillWanted
  <2> QED
    BY <1>1, <1>3, <1>4, <1>6, <2>1
<1>7. CASE /\ lease' = [lease EXCEPT !.pc = "failing", !.flag = Lost]
           /\ UNCHANGED <<jobs, installed, packs>>
  BY <1>1, <1>3, <1>4, <1>7
<1> QED
  BY <1>5, <1>6, <1>7 DEF InspectCommit

\* A verification that failed settles its job, or leaves it.
LEMMA FailureMoves ==
    ASSUME PackTypeOK, VerificationFails
    PROVE  /\ lease # NoLease /\ lease.job \in Jobs /\ lease' = NoLease
           /\ \A i \in Jobs : i # lease.job => jobs'[i] = jobs[i]
           /\ jobs'[lease.job] = jobs[lease.job]
                 \/ jobs'[lease.job].status \in {"canceled", "failed"}
           /\ UNCHANGED <<active, previous, installed, removed, transaction>>
           /\ UNCHANGED <<diskVars, trustVars>>
<1>1. lease # NoLease /\ lease.job \in Jobs /\ {"canceled", "failed"} \subseteq JobStates
  BY LeaseIs DEF VerificationFails, JobStates
<1>2. CASE jobs' = jobs
  BY <1>1, <1>2 DEF VerificationFails
<1>3. CASE jobs' # jobs
  <2>1. PICK status \in {"canceled", "failed"} : SetStatus(lease.job, status)
    BY <1>3 DEF VerificationFails
  <2>2. /\ \A i \in Jobs : i # lease.job => jobs'[i] = jobs[i]
        /\ jobs'[lease.job].status = status
    BY <1>1, <2>1, StatusMoves
  <2> QED
    BY <1>1, <2>1, <2>2 DEF VerificationFails
<1> QED
  BY <1>2, <1>3

\* A finished activation settles no job but its own.
LEMMA FinishMoves ==
    ASSUME PackTypeOK, FinishActivate
    PROVE  /\ ~NoIntent /\ transaction.kind = "activate" /\ NoIntent'
           /\ \A i \in Jobs : jobs'[i] = jobs[i]
                 \/ (i = transaction.job /\ jobs'[i].status \in {"canceled", "activated"})
           /\ UNCHANGED <<installed, removed, uploads, packs, trash, revoked, lease>>
<1>1. SettledStatus \in {"canceled", "activated"} /\ SettledStatus \in JobStates
  BY DEF SettledStatus, JobStates
<1>2. /\ ~NoIntent /\ transaction.kind = "activate"
      /\ UNCHANGED <<installed, removed, uploads, packs, trash, revoked, lease>>
  BY DEF FinishActivate, Of
<1>3. NoIntent'
  BY DEF FinishActivate, NoIntent
<1>4. CASE jobs' = jobs
  BY <1>4, <1>2, <1>3
<1>5. CASE transaction.job \in Jobs /\ SetStatus(transaction.job, SettledStatus)
  <2>1. /\ \A i \in Jobs : i # transaction.job => jobs'[i] = jobs[i]
        /\ jobs'[transaction.job].status = SettledStatus
    BY <1>1, <1>5, StatusMoves
  <2> QED
    BY <1>1, <1>5, <1>2, <1>3, <2>1
<1> QED
  BY <1>4, <1>5 DEF FinishActivate

-----------------------------------------------------------------------------
(* The inductive invariant. *)

\* The records of a pack are right unless an intent to remove or restore it is
\* pending: an intent to activate moves no files.
Settled(p) == NoIntent \/ transaction.kind = "activate" \/ transaction.pack # p

RecordsInv ==
    \A p \in Packs : Settled(p) =>
        /\ p \in installed => p \in packs
        /\ p \in removed => p \in trash /\ p \notin packs

\* What an intent was written for is still so: nothing else moves while it is
\* pending, but for the verification that is going on.
IntentInv ==
    ~NoIntent =>
        /\ transaction.prior_active = active /\ transaction.prior_previous = previous
        /\ transaction.kind = "activate" => transaction.pack \in installed
        /\ transaction.kind \in {"remove", "restore"} => transaction.pack \notin {active,
          previous}
        /\ transaction.job \in Jobs =>
              /\ transaction.kind = "activate"
              /\ jobs[transaction.job].status = "activating"

\* A job that can be activated names a pack of the store.
ReadyInv ==
    \A j \in Jobs : jobs[j].status = "ready_to_activate" => jobs[j].pack \in installed \cup
      removed

\* The mark is the sequence of the active pack, unless an activation is pending.
MarkInv == Of("activate") \/ active = NoPack \/ SeqOf[active] = mark

\* The job of the lease is being verified, and before a resumption is committed
\* the upload was found to have what was received.
LeaseInv ==
    lease # NoLease =>
        /\ jobs[lease.job].status \in Busy
        /\ (lease.kind = "resume" /\ lease.pc = "commit" /\ jobs[lease.job].status = "resuming")
              => Len(uploads[lease.job]) >= jobs[lease.job].received

\* The invariant.
PackInv ==
    /\ PackTypeOK /\ KeptPacks /\ PointerIsActive /\ RecordsInv /\ IntentInv
    /\ ReadyInv /\ MarkInv /\ LeaseInv /\ UploadIsAPrefix

\* Committing a resumption cuts uploads, and changes nothing in front of the cut.
LEMMA CutMoves ==
    ASSUME PackTypeOK, LeaseInv, ResumeCommit
    PROVE  /\ uploads' \in [Jobs -> Seq(1..Total)]
           /\ \A j \in Jobs : /\ Len(uploads'[j]) <= Len(uploads[j])
                              /\ \A i \in 1..Len(uploads'[j]) : uploads'[j][i] = uploads[j][i]
<1>1. CASE uploads' = uploads
  BY <1>1 DEF PackTypeOK
<1>2. CASE uploads' # uploads
  <2>1. /\ lease # NoLease /\ lease.kind = "resume" /\ lease.pc = "commit"
        /\ jobs[lease.job].status = "resuming"
        /\ uploads' = [uploads EXCEPT ![lease.job] = SubSeq(@, 1, jobs[lease.job].received)]
    BY <1>2 DEF ResumeCommit, Verifying
  <2> DEFINE s == uploads[lease.job]
             n == jobs[lease.job].received
  <2>2. lease.job \in Jobs /\ s \in Seq(1..Total) /\ n \in Nat /\ n <= Len(s)
    BY <2>1, LeaseIs, PackConstants DEF PackTypeOK, Row, LeaseInv
  <2>3. uploads' = [uploads EXCEPT ![lease.job] = SubSeq(s, 1, n)]
    BY <2>1
  <2> HIDE DEF s, n
  <2>4. /\ SubSeq(s, 1, n) \in Seq(1..Total) /\ Len(SubSeq(s, 1, n)) <= Len(s)
        /\ \A i \in 1..Len(SubSeq(s, 1, n)) : SubSeq(s, 1, n)[i] = s[i]
    <3>1. \A i \in 1..n : s[i] \in 1..Total
      <4>1. \A i \in 1..Len(s) : s[i] \in 1..Total
        BY <2>2, ElementOfSeq
      <4> QED
        BY <2>2, <4>1
    <3>2. /\ SubSeq(s, 1, n) \in Seq(1..Total) /\ Len(SubSeq(s, 1, n)) = n
          /\ \A i \in 1..n : SubSeq(s, 1, n)[i] = s[i]
      <4>1. /\ SubSeq(s, 1, n) \in Seq(1..Total)
            /\ Len(SubSeq(s, 1, n)) = IF 1 <= n THEN n - 1 + 1 ELSE 0
            /\ \A i \in 1..n - 1 + 1 : SubSeq(s, 1, n)[i] = s[1 + i - 1]
        BY <2>2, <3>1, SubSeqProperties
      <4> QED
        BY <2>2, <4>1
    <3> QED
      BY <2>2, <3>2
  <2>5. uploads' \in [Jobs -> Seq(1..Total)]
    BY <2>2, <2>3, <2>4 DEF PackTypeOK
  <2>6. ASSUME NEW j \in Jobs
        PROVE  /\ Len(uploads'[j]) <= Len(uploads[j])
               /\ \A i \in 1..Len(uploads'[j]) : uploads'[j][i] = uploads[j][i]
    <3>1. CASE j = lease.job
      <4>1. uploads'[j] = SubSeq(s, 1, n) /\ uploads[j] = s
        BY <3>1, <2>2, <2>3 DEF PackTypeOK, s
      <4> QED
        BY <4>1, <2>4
    <3>2. CASE j # lease.job
      <4>1. uploads'[j] = uploads[j] /\ uploads[j] \in Seq(1..Total)
        BY <3>2, <2>3 DEF PackTypeOK
      <4> QED
        BY <4>1
    <3> QED
      BY <3>1, <3>2
  <2> QED
    BY <2>5, <2>6
<1> QED
  BY <1>1, <1>2

-----------------------------------------------------------------------------
(* Every step keeps each part of the invariant. *)

\* Every step keeps the types.
LEMMA TypesKept ==
    PackTypeOK /\ LeaseInv /\ [PackNext]_packVars => PackTypeOK'
<1> SUFFICES ASSUME PackTypeOK, LeaseInv, [PackNext]_packVars
             PROVE  PackTypeOK'
  OBVIOUS
<1>1. ASSUME NEW j \in Jobs, NEW p \in Packs, BeginImport(j, p) PROVE PackTypeOK'
  BY <1>1, AbsentIs DEF BeginImport, diskVars, trustVars, PackTypeOK
<1>2. ASSUME NEW a \in Apps, NEW j \in Jobs, Resume(a, j) PROVE PackTypeOK'
  BY <1>2, TakeMoves DEF Resume, Busy, Take, diskVars, trustVars, PackTypeOK
<1>3. ASSUME NEW a \in Apps, NEW j \in Jobs, Inspect(a, j) PROVE PackTypeOK'
  BY <1>3, TakeMoves DEF Inspect, Busy, Take, diskVars, trustVars, PackTypeOK
<1>4. ASSUME NEW a \in Apps, NEW j \in Jobs, Cancel(a, j) PROVE PackTypeOK'
  <2>1. jobs' \in [Jobs -> Row]
    BY <1>4, SeenIs, StatusMoves, LeaseIs, LeaseMoves
    DEF Cancel, diskVars, trustVars, PackTypeOK, Row, JobStates, ActiveStates, Busy
  <2>2. /\ {active', previous', pointer'} \subseteq Packs \cup {NoPack}
        /\ installed' \cup removed' \cup packs' \cup trash' \cup revoked' \subseteq Packs
    BY <1>4, SeenIs, StatusMoves, LeaseIs, LeaseMoves
    DEF Cancel, diskVars, trustVars, PackTypeOK
  <2>3. transaction' \in Transaction \cup {NoTransaction}
    BY <1>4, SeenIs, StatusMoves, LeaseIs, LeaseMoves
    DEF Cancel, diskVars, trustVars, PackTypeOK
  <2>4. uploads' \in [Jobs -> Seq(1..Total)]
    BY <1>4, SeenIs, StatusMoves, LeaseIs, LeaseMoves
    DEF Cancel, diskVars, trustVars, PackTypeOK, Row
  <2>5. mark' \in Nat
    BY <1>4, SeenIs, StatusMoves, LeaseIs, LeaseMoves, PackConstants
    DEF Cancel, diskVars, trustVars, PackTypeOK
  <2>6. lease' \in Lease \cup {NoLease}
    BY <1>4, SeenIs, StatusMoves, LeaseIs, LeaseMoves, PackConstants
    DEF Cancel, diskVars, trustVars, PackTypeOK, Lease
  <2> QED
    BY <2>1, <2>2, <2>3, <2>4, <2>5, <2>6 DEF PackTypeOK
<1>5. ASSUME NEW a \in Apps, NEW j \in Jobs, Discard(a, j) PROVE PackTypeOK'
  BY <1>5, DiscardMoves DEF Discard, trustVars, PackTypeOK
<1>6. ASSUME NEW a \in Apps, NEW j \in Jobs, Activate(a, j) PROVE PackTypeOK'
  <2>1. jobs' \in [Jobs -> Row]
    BY <1>6, SeenIs, StatusMoves, IntendMoves
    DEF Activate, diskVars, trustVars, PackTypeOK, Row, JobStates, ActiveStates, Busy
  <2>2. /\ {active', previous', pointer'} \subseteq Packs \cup {NoPack}
        /\ installed' \cup removed' \cup packs' \cup trash' \cup revoked' \subseteq Packs
    BY <1>6, SeenIs, StatusMoves, IntendMoves
    DEF Activate, diskVars, trustVars, PackTypeOK
  <2>3. transaction' \in Transaction \cup {NoTransaction}
    BY <1>6, SeenIs, StatusMoves, IntendMoves, PackConstants
    DEF Activate, diskVars, trustVars, PackTypeOK, Row
  <2>4. uploads' \in [Jobs -> Seq(1..Total)]
    BY <1>6, SeenIs, StatusMoves, IntendMoves
    DEF Activate, diskVars, trustVars, PackTypeOK, Row
  <2>5. mark' \in Nat
    BY <1>6, SeenIs, StatusMoves, IntendMoves, PackConstants
    DEF Activate, diskVars, trustVars, PackTypeOK
  <2>6. lease' \in Lease \cup {NoLease}
    BY <1>6, SeenIs, StatusMoves, IntendMoves, PackConstants
    DEF Activate, diskVars, trustVars, PackTypeOK, Lease
  <2> QED
    BY <2>1, <2>2, <2>3, <2>4, <2>5, <2>6 DEF PackTypeOK
<1>7. ASSUME NEW j \in Jobs, Chunk(j) PROVE PackTypeOK'
  BY <1>7, AppendIsUpload, ChunkMoves DEF Chunk, Wanted, trustVars, PackTypeOK
<1>8. ASSUME NEW j \in Jobs, ChunkStops(j) PROVE PackTypeOK'
  BY <1>8, AppendIsUpload DEF ChunkStops, Wanted, stateVars, trustVars, PackTypeOK
<1>9. CASE Read
  <2>1. jobs' \in [Jobs -> Row]
    BY <1>9, LeaseIs, LeaseMoves
    DEF Read, Proceed, stateVars, diskVars, trustVars, PackTypeOK, Row, JobStates, ActiveStates,
        Busy
  <2>2. /\ {active', previous', pointer'} \subseteq Packs \cup {NoPack}
        /\ installed' \cup removed' \cup packs' \cup trash' \cup revoked' \subseteq Packs
    BY <1>9 DEF Read, stateVars, diskVars, trustVars, PackTypeOK
  <2>3. transaction' \in Transaction \cup {NoTransaction}
    BY <1>9 DEF Read, stateVars, diskVars, trustVars, PackTypeOK
  <2>4. uploads' \in [Jobs -> Seq(1..Total)]
    BY <1>9 DEF Read, diskVars, PackTypeOK
  <2>5. mark' \in Nat
    BY <1>9 DEF Read, trustVars, PackTypeOK
  <2>6. lease' \in Lease \cup {NoLease}
    BY <1>9, LeaseMoves DEF Read, Proceed
  <2> QED
    BY <2>1, <2>2, <2>3, <2>4, <2>5, <2>6 DEF PackTypeOK
<1>10. CASE ResumeCommit
  <2>1. jobs' \in [Jobs -> Row]
    BY <1>10, StatusMoves, LeaseIs, LeaseMoves
    DEF ResumeCommit, Proceed, Verifying, trustVars, PackTypeOK, Row, JobStates, ActiveStates,
        Busy
  <2>2. /\ {active', previous', pointer'} \subseteq Packs \cup {NoPack}
        /\ installed' \cup removed' \cup packs' \cup trash' \cup revoked' \subseteq Packs
    BY <1>10 DEF ResumeCommit, trustVars, PackTypeOK
  <2>3. transaction' \in Transaction \cup {NoTransaction}
    BY <1>10 DEF ResumeCommit, trustVars, PackTypeOK
  <2>4. uploads' \in [Jobs -> Seq(1..Total)]
    BY <1>10, CutMoves
  <2>5. mark' \in Nat
    BY <1>10 DEF ResumeCommit, trustVars, PackTypeOK
  <2>6. lease' \in Lease \cup {NoLease}
    BY <1>10, LeaseMoves DEF ResumeCommit, Proceed, Verifying
  <2> QED
    BY <2>1, <2>2, <2>3, <2>4, <2>5, <2>6 DEF PackTypeOK
<1>11. CASE InspectCommit
  <2>1. jobs' \in [Jobs -> Row]
    <3>1. jobs[lease.job].content \in Packs /\ lease.job \in Jobs
      BY <1>11, LeaseIs DEF InspectCommit, Verifying, Row
    <3>2. CASE jobs' = jobs
      BY <3>2 DEF PackTypeOK
    <3>3. CASE jobs' # jobs
      BY <1>11, <3>1, <3>3, ReadyMoves DEF InspectCommit
    <3> QED
      BY <3>2, <3>3
  <2>2. /\ {active', previous', pointer'} \subseteq Packs \cup {NoPack}
        /\ installed' \cup removed' \cup packs' \cup trash' \cup revoked' \subseteq Packs
    <3>1. jobs[lease.job].content \in Packs
      BY <1>11, LeaseIs DEF InspectCommit, Verifying, Row
    <3>2. /\ UNCHANGED <<active, previous, pointer, removed, trash, revoked>>
          /\ installed' \subseteq installed \cup {jobs[lease.job].content}
          /\ packs' \subseteq packs \cup {jobs[lease.job].content}
      BY <1>11 DEF InspectCommit, trustVars
    <3> QED
      BY <3>1, <3>2 DEF PackTypeOK
  <2>3. transaction' \in Transaction \cup {NoTransaction}
    BY <1>11 DEF InspectCommit, PackTypeOK
  <2>4. uploads' \in [Jobs -> Seq(1..Total)]
    BY <1>11 DEF InspectCommit, PackTypeOK
  <2>5. mark' \in Nat
    BY <1>11 DEF InspectCommit, trustVars, PackTypeOK
  <2>6. lease' \in Lease \cup {NoLease}
    <3>1. lease # NoLease /\ Lost \in BOOLEAN
      BY <1>11, LostIsBoolean DEF InspectCommit, Verifying
    <3>2. [lease EXCEPT !.pc = "failing", !.flag = Lost] \in Lease
      BY <3>1 DEF PackTypeOK, Lease
    <3>3. [lease EXCEPT !.pc = "failing"] \in Lease
      BY <3>1 DEF PackTypeOK, Lease
    <3> QED
      BY <1>11, <3>2, <3>3 DEF InspectCommit, Proceed
  <2> QED
    BY <2>1, <2>2, <2>3, <2>4, <2>5, <2>6 DEF PackTypeOK
<1>12. CASE VerificationFails
  <2>1. jobs' \in [Jobs -> Row]
    BY <1>12, StatusMoves, LeaseIs, LeaseMoves
    DEF VerificationFails, diskVars, trustVars, PackTypeOK, Row, JobStates, ActiveStates, Busy
  <2>2. /\ {active', previous', pointer'} \subseteq Packs \cup {NoPack}
        /\ installed' \cup removed' \cup packs' \cup trash' \cup revoked' \subseteq Packs
    BY <1>12, StatusMoves, LeaseIs, LeaseMoves
    DEF VerificationFails, diskVars, trustVars, PackTypeOK
  <2>3. transaction' \in Transaction \cup {NoTransaction}
    BY <1>12, StatusMoves, LeaseIs, LeaseMoves
    DEF VerificationFails, diskVars, trustVars, PackTypeOK
  <2>4. uploads' \in [Jobs -> Seq(1..Total)]
    BY <1>12, StatusMoves, LeaseIs, LeaseMoves
    DEF VerificationFails, diskVars, trustVars, PackTypeOK, Row
  <2>5. mark' \in Nat
    BY <1>12, StatusMoves, LeaseIs, LeaseMoves, PackConstants
    DEF VerificationFails, diskVars, trustVars, PackTypeOK
  <2>6. lease' \in Lease \cup {NoLease}
    BY <1>12, StatusMoves, LeaseIs, LeaseMoves, PackConstants
    DEF VerificationFails, diskVars, trustVars, PackTypeOK, Lease
  <2> QED
    BY <2>1, <2>2, <2>3, <2>4, <2>5, <2>6 DEF PackTypeOK
<1>13. ASSUME NEW p \in Packs, ActivateInstalled(p) PROVE PackTypeOK'
  BY <1>13, IntendMoves DEF ActivateInstalled, diskVars, trustVars, PackTypeOK
<1>14. ASSUME NEW p \in Packs, Remove(p) PROVE PackTypeOK'
  BY <1>14, IntendMoves DEF Remove, diskVars, trustVars, PackTypeOK
<1>15. ASSUME NEW p \in Packs, Restore(p) PROVE PackTypeOK'
  BY <1>15, IntendMoves DEF Restore, diskVars, trustVars, PackTypeOK
<1>16. ASSUME NEW p \in Packs, Revoke(p) PROVE PackTypeOK'
  BY <1>16 DEF Revoke, stateVars, diskVars, PackTypeOK
<1>17. CASE GiveUp
  BY <1>17, IntentIs DEF GiveUp, Transaction, diskVars, trustVars, PackTypeOK
<1>18. CASE FinishActivate
  <2>1. jobs' \in [Jobs -> Row]
    BY <1>18, StatusMoves, IntentIs
    DEF FinishActivate, Of, Activatable, AdmittedMark, Target, SettledStatus, PackTypeOK, Row,
        JobStates, ActiveStates, Busy
  <2>2. /\ {active', previous', pointer'} \subseteq Packs \cup {NoPack}
        /\ installed' \cup removed' \cup packs' \cup trash' \cup revoked' \subseteq Packs
    BY <1>18, StatusMoves, IntentIs
    DEF FinishActivate, Of, Activatable, AdmittedMark, Target, SettledStatus, PackTypeOK
  <2>3. transaction' \in Transaction \cup {NoTransaction}
    BY <1>18, StatusMoves, IntentIs
    DEF FinishActivate, Of, Activatable, AdmittedMark, Target, SettledStatus, PackTypeOK
  <2>4. uploads' \in [Jobs -> Seq(1..Total)]
    BY <1>18, StatusMoves, IntentIs
    DEF FinishActivate, Of, Activatable, AdmittedMark, Target, SettledStatus, PackTypeOK, Row
  <2>5. mark' \in Nat
    BY <1>18, StatusMoves, IntentIs, PackConstants
    DEF FinishActivate, Of, Activatable, AdmittedMark, Target, SettledStatus, PackTypeOK
  <2>6. lease' \in Lease \cup {NoLease}
    BY <1>18, StatusMoves, IntentIs, PackConstants
    DEF FinishActivate, Of, Activatable, AdmittedMark, Target, SettledStatus, PackTypeOK, Lease
  <2> QED
    BY <2>1, <2>2, <2>3, <2>4, <2>5, <2>6 DEF PackTypeOK
<1>19. CASE ActivateStops
  <2>1. mark' \in Nat
    BY <1>19, PackConstants, IntentIs DEF ActivateStops, Of, AdmittedMark, PackTypeOK
  <2>2. pointer' \in Packs \cup {NoPack}
    BY <1>19, IntentIs DEF ActivateStops, Of, Target, PackTypeOK
  <2> QED
    BY <1>19, <2>1, <2>2 DEF ActivateStops, stateVars, PackTypeOK
<1>20. CASE FinishMove
  <2>1. transaction.pack \in Packs
    BY <1>20, IntentIs DEF FinishMove, Of
  <2>2. packs' \subseteq Packs /\ trash' \subseteq Packs
    BY <1>20, <2>1 DEF FinishMove, MoveFiles, PackTypeOK
  <2> QED
    BY <1>20, <2>1, <2>2 DEF FinishMove, trustVars, PackTypeOK
<1>21. CASE MoveStops
  <2>1. transaction.pack \in Packs
    BY <1>21, IntentIs DEF MoveStops, Of
  <2>2. packs' \subseteq Packs /\ trash' \subseteq Packs
    BY <1>21, <2>1 DEF MoveStops, MoveFiles, PackTypeOK
  <2> QED
    BY <1>21, <2>1, <2>2 DEF MoveStops, stateVars, trustVars, PackTypeOK
<1>22. ASSUME NEW a \in Apps, AppDies(a) PROVE PackTypeOK'
  BY <1>22, DeathMoves DEF AppDies, diskVars, trustVars, PackTypeOK
<1>23. CASE UNCHANGED packVars
  BY <1>23 DEF packVars, stateVars, diskVars, trustVars, PackTypeOK
<1> QED
  BY <1>1, <1>2, <1>3, <1>4, <1>5, <1>6, <1>7, <1>8, <1>9, <1>10, <1>11, <1>12, <1>13, <1>14,
     <1>15, <1>16, <1>17, <1>18, <1>19, <1>20, <1>21, <1>22, <1>23 DEF PackNext, Finish

\* Every step keeps the packs in use installed.
LEMMA PacksKept ==
    PackTypeOK /\ KeptPacks /\ IntentInv /\ [PackNext]_packVars => KeptPacks'
<1> SUFFICES ASSUME PackTypeOK, KeptPacks, IntentInv, [PackNext]_packVars
             PROVE  KeptPacks'
  OBVIOUS
<1>1. ASSUME NEW j \in Jobs, NEW p \in Packs, BeginImport(j, p) PROVE KeptPacks'
  BY <1>1
  DEF BeginImport, diskVars, PackTypeOK, KeptPacks, IntentInv
<1>2. ASSUME NEW a \in Apps, NEW j \in Jobs, Resume(a, j) PROVE KeptPacks'
  BY <1>2
  DEF Resume, Take, diskVars, PackTypeOK, KeptPacks, IntentInv
<1>3. ASSUME NEW a \in Apps, NEW j \in Jobs, Inspect(a, j) PROVE KeptPacks'
  BY <1>3
  DEF Inspect, Take, diskVars, PackTypeOK, KeptPacks, IntentInv
<1>4. ASSUME NEW a \in Apps, NEW j \in Jobs, Cancel(a, j) PROVE KeptPacks'
  BY <1>4, CancelMoves
  DEF diskVars, PackTypeOK, KeptPacks, IntentInv
<1>5. ASSUME NEW a \in Apps, NEW j \in Jobs, Discard(a, j) PROVE KeptPacks'
  BY <1>5
  DEF Discard, PackTypeOK, KeptPacks, IntentInv
<1>6. ASSUME NEW a \in Apps, NEW j \in Jobs, Activate(a, j) PROVE KeptPacks'
  BY <1>6, ActivateMoves
  DEF diskVars, PackTypeOK, KeptPacks, IntentInv
<1>7. ASSUME NEW j \in Jobs, Chunk(j) PROVE KeptPacks'
  BY <1>7
  DEF Chunk, Wanted, PackTypeOK, KeptPacks, IntentInv
<1>8. ASSUME NEW j \in Jobs, ChunkStops(j) PROVE KeptPacks'
  BY <1>8
  DEF ChunkStops, Wanted, stateVars, PackTypeOK, KeptPacks, IntentInv
<1>9. CASE Read
  BY <1>9
  DEF Read, stateVars, diskVars, PackTypeOK, KeptPacks, IntentInv
<1>10. CASE ResumeCommit
  BY <1>10, ResumeMoves
  DEF PackTypeOK, KeptPacks, IntentInv
<1>11. CASE InspectCommit
  BY <1>11, InspectMoves
  DEF PackTypeOK, KeptPacks, IntentInv
<1>12. CASE VerificationFails
  BY <1>12, FailureMoves
  DEF diskVars, PackTypeOK, KeptPacks, IntentInv
<1>13. ASSUME NEW p \in Packs, ActivateInstalled(p) PROVE KeptPacks'
  BY <1>13
  DEF ActivateInstalled, diskVars, PackTypeOK, KeptPacks, IntentInv
<1>14. ASSUME NEW p \in Packs, Remove(p) PROVE KeptPacks'
  BY <1>14
  DEF Remove, diskVars, PackTypeOK, KeptPacks, IntentInv
<1>15. ASSUME NEW p \in Packs, Restore(p) PROVE KeptPacks'
  BY <1>15
  DEF Restore, diskVars, PackTypeOK, KeptPacks, IntentInv
<1>16. ASSUME NEW p \in Packs, Revoke(p) PROVE KeptPacks'
  BY <1>16
  DEF Revoke, stateVars, diskVars, PackTypeOK, KeptPacks, IntentInv
<1>17. CASE GiveUp
  BY <1>17, IntentIs
  DEF GiveUp, diskVars, PackTypeOK, KeptPacks, IntentInv
<1>18. CASE FinishActivate
  BY <1>18, StatusMoves, IntentIs, PackConstants
  DEF FinishActivate, Of, Activatable, AdmittedMark, Target, PackTypeOK, KeptPacks, IntentInv
<1>19. CASE ActivateStops
  BY <1>19, IntentIs
  DEF ActivateStops, Of, Activatable, AdmittedMark, Target, stateVars, PackTypeOK, KeptPacks,
      IntentInv
<1>20. CASE FinishMove
  BY <1>20, IntentIs
  DEF FinishMove, Of, MoveFiles, PackTypeOK, KeptPacks, IntentInv
<1>21. CASE MoveStops
  BY <1>21, IntentIs
  DEF MoveStops, Of, MoveFiles, stateVars, PackTypeOK, KeptPacks, IntentInv
<1>22. ASSUME NEW a \in Apps, AppDies(a) PROVE KeptPacks'
  BY <1>22
  DEF AppDies, diskVars, PackTypeOK, KeptPacks, IntentInv
<1>23. CASE UNCHANGED packVars
  BY <1>23
  DEF packVars, stateVars, diskVars, PackTypeOK, KeptPacks, IntentInv
<1> QED
  BY <1>1, <1>2, <1>3, <1>4, <1>5, <1>6, <1>7, <1>8, <1>9, <1>10, <1>11, <1>12, <1>13, <1>14,
     <1>15, <1>16, <1>17, <1>18, <1>19, <1>20, <1>21, <1>22, <1>23 DEF PackNext, Finish

\* Every step keeps the pointer at the active pack, or an activation pending.
LEMMA PointerKept ==
    PackTypeOK /\ PointerIsActive /\ [PackNext]_packVars => PointerIsActive'
<1> SUFFICES ASSUME PackTypeOK, PointerIsActive, [PackNext]_packVars
             PROVE  PointerIsActive'
  OBVIOUS
<1>1. ASSUME NEW j \in Jobs, NEW p \in Packs, BeginImport(j, p) PROVE PointerIsActive'
  BY <1>1
  DEF BeginImport, diskVars, PackTypeOK, PointerIsActive, Of, NoIntent
<1>2. ASSUME NEW a \in Apps, NEW j \in Jobs, Resume(a, j) PROVE PointerIsActive'
  BY <1>2
  DEF Resume, Take, diskVars, PackTypeOK, PointerIsActive, Of, NoIntent
<1>3. ASSUME NEW a \in Apps, NEW j \in Jobs, Inspect(a, j) PROVE PointerIsActive'
  BY <1>3
  DEF Inspect, Take, diskVars, PackTypeOK, PointerIsActive, Of, NoIntent
<1>4. ASSUME NEW a \in Apps, NEW j \in Jobs, Cancel(a, j) PROVE PointerIsActive'
  BY <1>4, CancelMoves
  DEF diskVars, PackTypeOK, PointerIsActive, Of, NoIntent
<1>5. ASSUME NEW a \in Apps, NEW j \in Jobs, Discard(a, j) PROVE PointerIsActive'
  BY <1>5
  DEF Discard, PackTypeOK, PointerIsActive, Of, NoIntent
<1>6. ASSUME NEW a \in Apps, NEW j \in Jobs, Activate(a, j) PROVE PointerIsActive'
  BY <1>6, ActivateMoves
  DEF diskVars, PackTypeOK, PointerIsActive, Of, NoIntent, Intend
<1>7. ASSUME NEW j \in Jobs, Chunk(j) PROVE PointerIsActive'
  BY <1>7
  DEF Chunk, Wanted, PackTypeOK, PointerIsActive, Of, NoIntent
<1>8. ASSUME NEW j \in Jobs, ChunkStops(j) PROVE PointerIsActive'
  BY <1>8
  DEF ChunkStops, Wanted, stateVars, PackTypeOK, PointerIsActive, Of, NoIntent
<1>9. CASE Read
  BY <1>9
  DEF Read, stateVars, diskVars, PackTypeOK, PointerIsActive, Of, NoIntent
<1>10. CASE ResumeCommit
  BY <1>10, ResumeMoves
  DEF PackTypeOK, PointerIsActive, Of, NoIntent
<1>11. CASE InspectCommit
  BY <1>11, InspectMoves
  DEF PackTypeOK, PointerIsActive, Of, NoIntent
<1>12. CASE VerificationFails
  BY <1>12, FailureMoves
  DEF diskVars, PackTypeOK, PointerIsActive, Of, NoIntent
<1>13. ASSUME NEW p \in Packs, ActivateInstalled(p) PROVE PointerIsActive'
  BY <1>13, IntendMoves
  DEF ActivateInstalled, diskVars, PackTypeOK, PointerIsActive, Of, NoIntent, Intend
<1>14. ASSUME NEW p \in Packs, Remove(p) PROVE PointerIsActive'
  BY <1>14, IntendMoves
  DEF Remove, diskVars, PackTypeOK, PointerIsActive, Of, NoIntent, Intend
<1>15. ASSUME NEW p \in Packs, Restore(p) PROVE PointerIsActive'
  BY <1>15, IntendMoves
  DEF Restore, diskVars, PackTypeOK, PointerIsActive, Of, NoIntent, Intend
<1>16. ASSUME NEW p \in Packs, Revoke(p) PROVE PointerIsActive'
  BY <1>16
  DEF Revoke, stateVars, diskVars, PackTypeOK, PointerIsActive, Of, NoIntent
<1>17. CASE GiveUp
  BY <1>17, GiveUpMoves
  DEF GiveUp, diskVars, PackTypeOK, PointerIsActive, Of, NoIntent
<1>18. CASE FinishActivate
  BY <1>18, StatusMoves, IntentIs
  DEF FinishActivate, Of, Activatable, AdmittedMark, Target, PackTypeOK, PointerIsActive,
      NoIntent, NoTransaction
<1>19. CASE ActivateStops
  BY <1>19
  DEF ActivateStops, Of, Activatable, AdmittedMark, Target, stateVars, PackTypeOK,
      PointerIsActive, NoIntent
<1>20. CASE FinishMove
  BY <1>20
  DEF FinishMove, Of, PackTypeOK, PointerIsActive, NoIntent, NoTransaction
<1>21. CASE MoveStops
  BY <1>21
  DEF MoveStops, Of, stateVars, PackTypeOK, PointerIsActive, NoIntent
<1>22. ASSUME NEW a \in Apps, AppDies(a) PROVE PointerIsActive'
  BY <1>22
  DEF AppDies, diskVars, PackTypeOK, PointerIsActive, Of, NoIntent
<1>23. CASE UNCHANGED packVars
  BY <1>23
  DEF packVars, stateVars, diskVars, PackTypeOK, PointerIsActive, Of, NoIntent, Intend,
      NoTransaction
<1> QED
  BY <1>1, <1>2, <1>3, <1>4, <1>5, <1>6, <1>7, <1>8, <1>9, <1>10, <1>11, <1>12, <1>13, <1>14,
     <1>15, <1>16, <1>17, <1>18, <1>19, <1>20, <1>21, <1>22, <1>23 DEF PackNext, Finish

\* Every step keeps the records of settled packs where their files are.
LEMMA RecordsKept ==
    PackTypeOK /\ RecordsInv /\ [PackNext]_packVars => RecordsInv'
<1> SUFFICES ASSUME PackTypeOK, RecordsInv, [PackNext]_packVars
             PROVE  RecordsInv'
  OBVIOUS
<1>1. ASSUME NEW j \in Jobs, NEW p \in Packs, BeginImport(j, p) PROVE RecordsInv'
  BY <1>1
  DEF BeginImport, diskVars, PackTypeOK, RecordsInv, Settled, NoIntent
<1>2. ASSUME NEW a \in Apps, NEW j \in Jobs, Resume(a, j) PROVE RecordsInv'
  BY <1>2
  DEF Resume, Take, diskVars, PackTypeOK, RecordsInv, Settled, NoIntent
<1>3. ASSUME NEW a \in Apps, NEW j \in Jobs, Inspect(a, j) PROVE RecordsInv'
  BY <1>3
  DEF Inspect, Take, diskVars, PackTypeOK, RecordsInv, Settled, NoIntent
<1>4. ASSUME NEW a \in Apps, NEW j \in Jobs, Cancel(a, j) PROVE RecordsInv'
  BY <1>4, CancelMoves
  DEF diskVars, PackTypeOK, RecordsInv, Settled, NoIntent
<1>5. ASSUME NEW a \in Apps, NEW j \in Jobs, Discard(a, j) PROVE RecordsInv'
  BY <1>5
  DEF Discard, PackTypeOK, RecordsInv, Settled, NoIntent
<1>6. ASSUME NEW a \in Apps, NEW j \in Jobs, Activate(a, j) PROVE RecordsInv'
  BY <1>6, ActivateMoves
  DEF diskVars, PackTypeOK, RecordsInv, Settled, NoIntent
<1>7. ASSUME NEW j \in Jobs, Chunk(j) PROVE RecordsInv'
  BY <1>7
  DEF Chunk, Wanted, PackTypeOK, RecordsInv, Settled, NoIntent
<1>8. ASSUME NEW j \in Jobs, ChunkStops(j) PROVE RecordsInv'
  BY <1>8
  DEF ChunkStops, Wanted, stateVars, PackTypeOK, RecordsInv, Settled, NoIntent
<1>9. CASE Read
  BY <1>9
  DEF Read, stateVars, diskVars, PackTypeOK, RecordsInv, Settled, NoIntent
<1>10. CASE ResumeCommit
  BY <1>10, ResumeMoves
  DEF PackTypeOK, RecordsInv, Settled, NoIntent
<1>11. CASE InspectCommit
  BY <1>11, InspectMoves
  DEF PackTypeOK, RecordsInv, Settled, NoIntent
<1>12. CASE VerificationFails
  BY <1>12, FailureMoves
  DEF diskVars, PackTypeOK, RecordsInv, Settled, NoIntent
<1>13. ASSUME NEW p \in Packs, ActivateInstalled(p) PROVE RecordsInv'
  BY <1>13, IntendMoves
  DEF ActivateInstalled, diskVars, PackTypeOK, RecordsInv, Settled, NoIntent
<1>14. ASSUME NEW p \in Packs, Remove(p) PROVE RecordsInv'
  BY <1>14, IntendMoves
  DEF Remove, diskVars, PackTypeOK, RecordsInv, Settled, NoIntent
<1>15. ASSUME NEW p \in Packs, Restore(p) PROVE RecordsInv'
  BY <1>15, IntendMoves
  DEF Restore, diskVars, PackTypeOK, RecordsInv, Settled, NoIntent
<1>16. ASSUME NEW p \in Packs, Revoke(p) PROVE RecordsInv'
  BY <1>16
  DEF Revoke, stateVars, diskVars, PackTypeOK, RecordsInv, Settled, NoIntent
<1>17. CASE GiveUp
  BY <1>17, GiveUpMoves
  DEF GiveUp, diskVars, PackTypeOK, RecordsInv, Settled, NoIntent
<1>18. CASE FinishActivate
  BY <1>18, FinishMoves
  DEF PackTypeOK, RecordsInv, Settled, NoIntent, NoTransaction
<1>19. CASE ActivateStops
  BY <1>19, IntentIs
  DEF ActivateStops, Of, Activatable, AdmittedMark, Target, stateVars, PackTypeOK, RecordsInv,
      Settled, NoIntent
<1>20. CASE FinishMove
  BY <1>20, IntentIs
  DEF FinishMove, Of, Movable, MoveFiles, OnePlace, PackTypeOK, RecordsInv, Settled, NoIntent,
      NoTransaction
<1>21. CASE MoveStops
  BY <1>21, IntentIs
  DEF MoveStops, Of, Movable, MoveFiles, OnePlace, stateVars, PackTypeOK, RecordsInv, Settled,
      NoIntent
<1>22. ASSUME NEW a \in Apps, AppDies(a) PROVE RecordsInv'
  BY <1>22
  DEF AppDies, diskVars, PackTypeOK, RecordsInv, Settled, NoIntent
<1>23. CASE UNCHANGED packVars
  BY <1>23
  DEF packVars, stateVars, diskVars, PackTypeOK, RecordsInv, Settled, NoIntent, NoTransaction
<1> QED
  BY <1>1, <1>2, <1>3, <1>4, <1>5, <1>6, <1>7, <1>8, <1>9, <1>10, <1>11, <1>12, <1>13, <1>14,
     <1>15, <1>16, <1>17, <1>18, <1>19, <1>20, <1>21, <1>22, <1>23 DEF PackNext, Finish

\* Every step keeps a pending intent true.
LEMMA IntentKept ==
    PackTypeOK /\ KeptPacks /\ RecordsInv /\ IntentInv /\ ReadyInv /\ LeaseInv /\
      [PackNext]_packVars => IntentInv'
<1> SUFFICES ASSUME PackTypeOK, KeptPacks, RecordsInv, IntentInv, ReadyInv, LeaseInv,
  [PackNext]_packVars
             PROVE  IntentInv'
  OBVIOUS
<1>1. ASSUME NEW j \in Jobs, NEW p \in Packs, BeginImport(j, p) PROVE IntentInv'
  BY <1>1, PackConstants
  DEF BeginImport, PackTypeOK, IntentInv, NoIntent
<1>2. ASSUME NEW a \in Apps, NEW j \in Jobs, Resume(a, j) PROVE IntentInv'
  BY <1>2, TakeMoves, PackConstants
  DEF Resume, Take, PackTypeOK, IntentInv, NoIntent
<1>3. ASSUME NEW a \in Apps, NEW j \in Jobs, Inspect(a, j) PROVE IntentInv'
  BY <1>3, TakeMoves, PackConstants
  DEF Inspect, Take, PackTypeOK, IntentInv, NoIntent
<1>4. ASSUME NEW a \in Apps, NEW j \in Jobs, Cancel(a, j) PROVE IntentInv'
  BY <1>4, CancelMoves
  DEF IntentInv, NoIntent
<1>5. ASSUME NEW a \in Apps, NEW j \in Jobs, Discard(a, j) PROVE IntentInv'
  BY <1>5, AbsentIs, SeenIs, DiscardMoves, PackConstants
  DEF Discard, PackTypeOK, IntentInv, NoIntent
<1>6. ASSUME NEW a \in Apps, NEW j \in Jobs, Activate(a, j) PROVE IntentInv'
  <2>1. jobs[j].pack \in installed
    BY <1>6, ActivateMoves DEF ReadyInv, RecordsInv, Settled, PackTypeOK
  <2> QED
    BY <1>6, <2>1, ActivateMoves DEF IntentInv
<1>7. ASSUME NEW j \in Jobs, Chunk(j) PROVE IntentInv'
  BY <1>7, AppendIsUpload, ChunkMoves, PackConstants
  DEF Chunk, Wanted, PackTypeOK, IntentInv, NoIntent
<1>8. ASSUME NEW j \in Jobs, ChunkStops(j) PROVE IntentInv'
  BY <1>8, PackConstants
  DEF ChunkStops, stateVars, PackTypeOK, IntentInv, NoIntent
<1>9. CASE Read
  BY <1>9, PackConstants
  DEF Read, stateVars, PackTypeOK, IntentInv, NoIntent
<1>10. CASE ResumeCommit
  BY <1>10, ResumeMoves
  DEF IntentInv, NoIntent
<1>11. CASE InspectCommit
  BY <1>11, InspectMoves
  DEF IntentInv, NoIntent
<1>12. CASE VerificationFails
  BY <1>12, FailureMoves
  DEF IntentInv, NoIntent, LeaseInv, Busy
<1>13. ASSUME NEW p \in Packs, ActivateInstalled(p) PROVE IntentInv'
  BY <1>13, IntendMoves, PackConstants
  DEF ActivateInstalled, PackTypeOK, IntentInv, NoIntent
<1>14. ASSUME NEW p \in Packs, Remove(p) PROVE IntentInv'
  <2>1. p \in Packs /\ Intend("remove", p, NoJob) /\ p \notin {active, previous}
    BY <1>14, PackConstants DEF Remove, Unused, PackTypeOK
  <2>2. /\ transaction'.kind = "remove" /\ transaction'.pack = p /\ transaction'.job = NoJob
        /\ transaction'.prior_active = active /\ transaction'.prior_previous = previous
    BY <2>1, IntendMoves
  <2> QED
    BY <1>14, <2>1, <2>2, PackConstants DEF Remove, IntentInv
<1>15. ASSUME NEW p \in Packs, Restore(p) PROVE IntentInv'
  <2>1. p \in Packs /\ Intend("restore", p, NoJob) /\ p \notin {active, previous}
    BY <1>15, PackConstants DEF Restore, KeptPacks, RecordsInv, Settled, PackTypeOK
  <2>2. /\ transaction'.kind = "restore" /\ transaction'.pack = p /\ transaction'.job = NoJob
        /\ transaction'.prior_active = active /\ transaction'.prior_previous = previous
    BY <2>1, IntendMoves
  <2> QED
    BY <1>15, <2>1, <2>2, PackConstants DEF Restore, IntentInv
<1>16. ASSUME NEW p \in Packs, Revoke(p) PROVE IntentInv'
  BY <1>16, PackConstants
  DEF Revoke, stateVars, PackTypeOK, IntentInv, NoIntent
<1>17. CASE GiveUp
  BY <1>17, GiveUpMoves
  DEF GiveUp, PackTypeOK, IntentInv, NoIntent
<1>18. CASE FinishActivate
  BY <1>18, FinishMoves
  DEF IntentInv
<1>19. CASE ActivateStops
  BY <1>19, IntentIs, PackConstants
  DEF ActivateStops, Of, Activatable, AdmittedMark, Target, stateVars, PackTypeOK, IntentInv,
      NoIntent
<1>20. CASE FinishMove
  BY <1>20, IntentIs, PackConstants
  DEF FinishMove, Of, PackTypeOK, IntentInv, NoIntent
<1>21. CASE MoveStops
  BY <1>21, IntentIs, PackConstants
  DEF MoveStops, Of, stateVars, PackTypeOK, IntentInv, NoIntent
<1>22. ASSUME NEW a \in Apps, AppDies(a) PROVE IntentInv'
  BY <1>22, DeathMoves, PackConstants
  DEF AppDies, PackTypeOK, IntentInv, NoIntent
<1>23. CASE UNCHANGED packVars
  BY <1>23, PackConstants
  DEF packVars, stateVars, PackTypeOK, IntentInv, NoIntent
<1> QED
  BY <1>1, <1>2, <1>3, <1>4, <1>5, <1>6, <1>7, <1>8, <1>9, <1>10, <1>11, <1>12, <1>13, <1>14,
     <1>15, <1>16, <1>17, <1>18, <1>19, <1>20, <1>21, <1>22, <1>23 DEF PackNext, Finish

\* Every step keeps the packs of ready jobs on record.
LEMMA ReadyKept ==
    PackTypeOK /\ ReadyInv /\ [PackNext]_packVars => ReadyInv'
<1> SUFFICES ASSUME PackTypeOK, ReadyInv, [PackNext]_packVars
             PROVE  ReadyInv'
  OBVIOUS
<1>1. ASSUME NEW j \in Jobs, NEW p \in Packs, BeginImport(j, p) PROVE ReadyInv'
  <2> DEFINE fresh == [Absent EXCEPT !.status = "uploading", !.content = p]
  <2>1. fresh.status = "uploading" /\ jobs' = [jobs EXCEPT ![j] = fresh]
    BY <1>1, AbsentIs DEF BeginImport
  <2> HIDE DEF fresh
  <2> QED
    BY <1>1, <2>1 DEF BeginImport, ReadyInv, PackTypeOK
<1>2. ASSUME NEW a \in Apps, NEW j \in Jobs, Resume(a, j) PROVE ReadyInv'
  <2>1. jobs'[j].status = "resuming" /\ \A i \in Jobs : i # j => jobs'[i] = jobs[i]
    BY <1>2, TakeMoves DEF Resume, Busy
  <2>2. UNCHANGED <<installed, removed>>
    BY <1>2 DEF Resume, Take
  <2> QED
    BY <2>1, <2>2 DEF ReadyInv
<1>3. ASSUME NEW a \in Apps, NEW j \in Jobs, Inspect(a, j) PROVE ReadyInv'
  <2>1. jobs'[j].status = "verifying" /\ \A i \in Jobs : i # j => jobs'[i] = jobs[i]
    BY <1>3, TakeMoves DEF Inspect, Busy
  <2>2. UNCHANGED <<installed, removed>>
    BY <1>3 DEF Inspect, Take
  <2> QED
    BY <2>1, <2>2 DEF ReadyInv
<1>4. ASSUME NEW a \in Apps, NEW j \in Jobs, Cancel(a, j) PROVE ReadyInv'
  BY <1>4, CancelMoves
  DEF ReadyInv
<1>5. ASSUME NEW a \in Apps, NEW j \in Jobs, Discard(a, j) PROVE ReadyInv'
  BY <1>5, AbsentIs, SeenIs, DiscardMoves
  DEF Discard, ReadyInv
<1>6. ASSUME NEW a \in Apps, NEW j \in Jobs, Activate(a, j) PROVE ReadyInv'
  BY <1>6, ActivateMoves
  DEF ReadyInv
<1>7. ASSUME NEW j \in Jobs, Chunk(j) PROVE ReadyInv'
  BY <1>7, AppendIsUpload, ChunkMoves
  DEF Chunk, Wanted, ReadyInv
<1>8. ASSUME NEW j \in Jobs, ChunkStops(j) PROVE ReadyInv'
  BY <1>8
  DEF ChunkStops, stateVars, ReadyInv
<1>9. CASE Read
  BY <1>9
  DEF Read, stateVars, ReadyInv
<1>10. CASE ResumeCommit
  BY <1>10, ResumeMoves
  DEF ReadyInv
<1>11. CASE InspectCommit
  BY <1>11, InspectMoves
  DEF ReadyInv
<1>12. CASE VerificationFails
  BY <1>12, FailureMoves
  DEF ReadyInv
<1>13. ASSUME NEW p \in Packs, ActivateInstalled(p) PROVE ReadyInv'
  BY <1>13
  DEF ActivateInstalled, ReadyInv
<1>14. ASSUME NEW p \in Packs, Remove(p) PROVE ReadyInv'
  BY <1>14
  DEF Remove, ReadyInv
<1>15. ASSUME NEW p \in Packs, Restore(p) PROVE ReadyInv'
  BY <1>15
  DEF Restore, ReadyInv
<1>16. ASSUME NEW p \in Packs, Revoke(p) PROVE ReadyInv'
  BY <1>16
  DEF Revoke, stateVars, ReadyInv
<1>17. CASE GiveUp
  BY <1>17
  DEF GiveUp, ReadyInv
<1>18. CASE FinishActivate
  BY <1>18, FinishMoves
  DEF ReadyInv
<1>19. CASE ActivateStops
  BY <1>19
  DEF ActivateStops, Of, Activatable, AdmittedMark, Target, stateVars, ReadyInv
<1>20. CASE FinishMove
  BY <1>20
  DEF FinishMove, Of, ReadyInv
<1>21. CASE MoveStops
  BY <1>21
  DEF MoveStops, Of, stateVars, ReadyInv
<1>22. ASSUME NEW a \in Apps, AppDies(a) PROVE ReadyInv'
  BY <1>22, DeathMoves
  DEF AppDies, ReadyInv
<1>23. CASE UNCHANGED packVars
  BY <1>23
  DEF packVars, stateVars, ReadyInv
<1> QED
  BY <1>1, <1>2, <1>3, <1>4, <1>5, <1>6, <1>7, <1>8, <1>9, <1>10, <1>11, <1>12, <1>13, <1>14,
     <1>15, <1>16, <1>17, <1>18, <1>19, <1>20, <1>21, <1>22, <1>23 DEF PackNext, Finish

\* Every step keeps the active pack as new as the mark.
LEMMA MarkKept ==
    PackTypeOK /\ MarkInv /\ [PackNext]_packVars => MarkInv'
<1> SUFFICES ASSUME PackTypeOK, MarkInv, [PackNext]_packVars
             PROVE  MarkInv'
  OBVIOUS
<1>1. ASSUME NEW j \in Jobs, NEW p \in Packs, BeginImport(j, p) PROVE MarkInv'
  BY <1>1, PackConstants
  DEF BeginImport, trustVars, PackTypeOK, MarkInv, Of, NoIntent
<1>2. ASSUME NEW a \in Apps, NEW j \in Jobs, Resume(a, j) PROVE MarkInv'
  BY <1>2, PackConstants
  DEF Resume, Take, trustVars, PackTypeOK, MarkInv, Of, NoIntent
<1>3. ASSUME NEW a \in Apps, NEW j \in Jobs, Inspect(a, j) PROVE MarkInv'
  BY <1>3, PackConstants
  DEF Inspect, Take, trustVars, PackTypeOK, MarkInv, Of, NoIntent
<1>4. ASSUME NEW a \in Apps, NEW j \in Jobs, Cancel(a, j) PROVE MarkInv'
  BY <1>4, CancelMoves, PackConstants
  DEF trustVars, PackTypeOK, MarkInv, Of, NoIntent
<1>5. ASSUME NEW a \in Apps, NEW j \in Jobs, Discard(a, j) PROVE MarkInv'
  BY <1>5, PackConstants
  DEF Discard, trustVars, PackTypeOK, MarkInv, Of, NoIntent
<1>6. ASSUME NEW a \in Apps, NEW j \in Jobs, Activate(a, j) PROVE MarkInv'
  BY <1>6, ActivateMoves, PackConstants
  DEF trustVars, PackTypeOK, MarkInv, Of, NoIntent, Intend
<1>7. ASSUME NEW j \in Jobs, Chunk(j) PROVE MarkInv'
  BY <1>7, PackConstants
  DEF Chunk, Wanted, trustVars, PackTypeOK, MarkInv, Of, NoIntent
<1>8. ASSUME NEW j \in Jobs, ChunkStops(j) PROVE MarkInv'
  BY <1>8, PackConstants
  DEF ChunkStops, Wanted, stateVars, trustVars, PackTypeOK, MarkInv, Of, NoIntent
<1>9. CASE Read
  BY <1>9, PackConstants
  DEF Read, stateVars, trustVars, PackTypeOK, MarkInv, Of, NoIntent
<1>10. CASE ResumeCommit
  BY <1>10, ResumeMoves, PackConstants
  DEF trustVars, PackTypeOK, MarkInv, Of, NoIntent
<1>11. CASE InspectCommit
  BY <1>11, InspectMoves, PackConstants
  DEF trustVars, PackTypeOK, MarkInv, Of, NoIntent
<1>12. CASE VerificationFails
  BY <1>12, FailureMoves, PackConstants
  DEF trustVars, PackTypeOK, MarkInv, Of, NoIntent
<1>13. ASSUME NEW p \in Packs, ActivateInstalled(p) PROVE MarkInv'
  BY <1>13, IntendMoves, PackConstants
  DEF ActivateInstalled, trustVars, PackTypeOK, MarkInv, Of, NoIntent, Intend
<1>14. ASSUME NEW p \in Packs, Remove(p) PROVE MarkInv'
  BY <1>14, IntendMoves, PackConstants
  DEF Remove, trustVars, PackTypeOK, MarkInv, Of, NoIntent, Intend
<1>15. ASSUME NEW p \in Packs, Restore(p) PROVE MarkInv'
  BY <1>15, IntendMoves, PackConstants
  DEF Restore, trustVars, PackTypeOK, MarkInv, Of, NoIntent, Intend
<1>16. ASSUME NEW p \in Packs, Revoke(p) PROVE MarkInv'
  BY <1>16, PackConstants
  DEF Revoke, stateVars, PackTypeOK, MarkInv, Of, NoIntent
<1>17. CASE GiveUp
  BY <1>17, GiveUpMoves
  DEF GiveUp, trustVars, PackTypeOK, MarkInv, Of, NoIntent
<1>18. CASE FinishActivate
  BY <1>18, StatusMoves, IntentIs, PackConstants
  DEF FinishActivate, Of, Activatable, AdmittedMark, Target, PackTypeOK, MarkInv, NoIntent,
      NoTransaction
<1>19. CASE ActivateStops
  BY <1>19, PackConstants
  DEF ActivateStops, Of, Activatable, AdmittedMark, Target, stateVars, PackTypeOK, MarkInv,
      NoIntent
<1>20. CASE FinishMove
  BY <1>20, PackConstants
  DEF FinishMove, Of, trustVars, PackTypeOK, MarkInv, NoIntent, NoTransaction
<1>21. CASE MoveStops
  BY <1>21, PackConstants
  DEF MoveStops, Of, stateVars, trustVars, PackTypeOK, MarkInv, NoIntent
<1>22. ASSUME NEW a \in Apps, AppDies(a) PROVE MarkInv'
  BY <1>22, PackConstants
  DEF AppDies, trustVars, PackTypeOK, MarkInv, Of, NoIntent
<1>23. CASE UNCHANGED packVars
  BY <1>23, PackConstants
  DEF packVars, stateVars, trustVars, PackTypeOK, MarkInv, Of, NoIntent, Intend, NoTransaction
<1> QED
  BY <1>1, <1>2, <1>3, <1>4, <1>5, <1>6, <1>7, <1>8, <1>9, <1>10, <1>11, <1>12, <1>13, <1>14,
     <1>15, <1>16, <1>17, <1>18, <1>19, <1>20, <1>21, <1>22, <1>23 DEF PackNext, Finish

\* Every step keeps the job of the lease in verification.
LEMMA LeaseKept ==
    PackTypeOK /\ IntentInv /\ LeaseInv /\ [PackNext]_packVars => LeaseInv'
<1> SUFFICES ASSUME PackTypeOK, IntentInv, LeaseInv, [PackNext]_packVars
             PROVE  LeaseInv'
  OBVIOUS
<1>1. ASSUME NEW j \in Jobs, NEW p \in Packs, BeginImport(j, p) PROVE LeaseInv'
  <2>1. lease # NoLease => lease.job \in Jobs /\ lease.job # j
    BY <1>1, LeaseIs DEF BeginImport, LeaseInv, Busy
  <2>2. \A i \in Jobs : i # j => jobs'[i] = jobs[i]
    BY <1>1 DEF BeginImport, PackTypeOK
  <2> QED
    BY <1>1, <2>1, <2>2 DEF BeginImport, LeaseInv, diskVars
<1>2. ASSUME NEW a \in Apps, NEW j \in Jobs, Resume(a, j) PROVE LeaseInv'
  BY <1>2, TakeMoves DEF Resume, LeaseInv, Busy
<1>3. ASSUME NEW a \in Apps, NEW j \in Jobs, Inspect(a, j) PROVE LeaseInv'
  BY <1>3, TakeMoves DEF Inspect, LeaseInv, Busy
<1>4. ASSUME NEW a \in Apps, NEW j \in Jobs, Cancel(a, j) PROVE LeaseInv'
  <2>1. lease # NoLease => lease.job \in Jobs
    BY LeaseIs
  <2> QED
    BY <1>4, <2>1, CancelMoves DEF LeaseInv, Busy, diskVars
<1>5. ASSUME NEW a \in Apps, NEW j \in Jobs, Discard(a, j) PROVE LeaseInv'
  <2>1. /\ jobs[j].status \notin Busy \/ lease = NoLease
        /\ \A i \in Jobs : i # j => jobs'[i] = jobs[i] /\ uploads'[i] = uploads[i]
        /\ lease' = lease
    BY <1>5, SeenIs, DiscardMoves DEF Discard
  <2>2. lease # NoLease => lease.job \in Jobs
    BY LeaseIs
  <2> QED
    BY <2>1, <2>2 DEF LeaseInv
<1>6. ASSUME NEW a \in Apps, NEW j \in Jobs, Activate(a, j) PROVE LeaseInv'
  <2>1. lease # NoLease => lease.job \in Jobs /\ lease.job # j
    BY <1>6, LeaseIs, ActivateMoves DEF LeaseInv, Busy
  <2> QED
    BY <1>6, <2>1, ActivateMoves DEF LeaseInv, diskVars
<1>7. ASSUME NEW j \in Jobs, Chunk(j) PROVE LeaseInv'
  <2>1. lease # NoLease => lease.job \in Jobs /\ lease.job # j
    BY <1>7, LeaseIs DEF Chunk, Wanted, LeaseInv, Busy
  <2>2. \A i \in Jobs : i # j => jobs'[i] = jobs[i] /\ uploads'[i] = uploads[i]
    BY <1>7, AppendIsUpload, ChunkMoves DEF Chunk, Wanted
  <2> QED
    BY <1>7, <2>1, <2>2 DEF Chunk, LeaseInv
<1>8. ASSUME NEW j \in Jobs, ChunkStops(j) PROVE LeaseInv'
  <2>1. lease # NoLease => lease.job \in Jobs /\ lease.job # j
    BY <1>8, LeaseIs DEF ChunkStops, Wanted, LeaseInv, Busy
  <2>2. \A i \in Jobs : i # j => jobs'[i] = jobs[i] /\ uploads'[i] = uploads[i]
    BY <1>8, AppendIsUpload DEF ChunkStops, Wanted, stateVars
  <2> QED
    BY <1>8, <2>1, <2>2 DEF ChunkStops, LeaseInv
<1>9. CASE Read
  <2>1. lease # NoLease /\ jobs' = jobs /\ uploads' = uploads
    BY <1>9 DEF Read, stateVars, diskVars
  <2>2. CASE lease' = [lease EXCEPT !.flag = TRUE, !.pc = "failing"] \/ Proceed("failing")
    <3>1. lease'.job = lease.job /\ lease'.pc = "failing"
      BY <2>1, <2>2, LeaseMoves DEF Proceed
    <3> QED
      BY <2>1, <3>1 DEF LeaseInv
  <2>3. CASE /\ Proceed("commit")
             /\ lease.kind = "resume" => Len(uploads[lease.job]) >= jobs[lease.job].received
    <3>1. lease'.job = lease.job /\ lease'.kind = lease.kind
      BY <2>1, <2>3, LeaseMoves DEF Proceed
    <3> QED
      BY <2>1, <2>3, <3>1 DEF LeaseInv
  <2> QED
    BY <1>9, <2>2, <2>3 DEF Read
<1>10. CASE ResumeCommit
  <2>1. CASE lease' = NoLease
    BY <2>1 DEF LeaseInv
  <2>2. CASE /\ jobs' = jobs /\ lease'.job = lease.job /\ lease'.pc = "failing"
             /\ lease # NoLease
    BY <2>2 DEF LeaseInv
  <2> QED
    BY <1>10, <2>1, <2>2, ResumeMoves
<1>11. CASE InspectCommit
  <2>1. CASE lease' = NoLease
    BY <2>1 DEF LeaseInv
  <2>2. CASE /\ jobs' = jobs /\ lease'.job = lease.job /\ lease'.pc = "failing"
             /\ lease # NoLease
    BY <2>2 DEF LeaseInv
  <2> QED
    BY <1>11, <2>1, <2>2, InspectMoves
<1>12. CASE VerificationFails
  BY <1>12, FailureMoves DEF LeaseInv
<1>13. ASSUME NEW p \in Packs, ActivateInstalled(p) PROVE LeaseInv'
  BY <1>13
  DEF ActivateInstalled, diskVars, LeaseInv
<1>14. ASSUME NEW p \in Packs, Remove(p) PROVE LeaseInv'
  BY <1>14
  DEF Remove, diskVars, LeaseInv
<1>15. ASSUME NEW p \in Packs, Restore(p) PROVE LeaseInv'
  BY <1>15
  DEF Restore, diskVars, LeaseInv
<1>16. ASSUME NEW p \in Packs, Revoke(p) PROVE LeaseInv'
  BY <1>16
  DEF Revoke, stateVars, diskVars, LeaseInv
<1>17. CASE GiveUp
  BY <1>17
  DEF GiveUp, diskVars, LeaseInv
<1>18. CASE FinishActivate
  <2>1. /\ \A i \in Jobs : jobs'[i] = jobs[i] \/ i = transaction.job
        /\ lease' = lease /\ uploads' = uploads /\ ~NoIntent
    BY <1>18, FinishMoves
  <2>2. lease # NoLease => lease.job \in Jobs /\ lease.job # transaction.job
    BY <2>1, LeaseIs DEF LeaseInv, IntentInv, Busy
  <2> QED
    BY <2>1, <2>2 DEF LeaseInv
<1>19. CASE ActivateStops
  BY <1>19
  DEF ActivateStops, Of, Activatable, AdmittedMark, Target, SettledStatus, stateVars, LeaseInv
<1>20. CASE FinishMove
  BY <1>20
  DEF FinishMove, Of, Movable, OnePlace, LeaseInv
<1>21. CASE MoveStops
  BY <1>21
  DEF MoveStops, Of, Movable, OnePlace, stateVars, LeaseInv
<1>22. ASSUME NEW a \in Apps, AppDies(a) PROVE LeaseInv'
  <2>1. lease # NoLease => lease.job \in Jobs
    BY LeaseIs
  <2> QED
    BY <1>22, <2>1, DeathMoves DEF AppDies, LeaseInv, diskVars
<1>23. CASE UNCHANGED packVars
  BY <1>23
  DEF packVars, stateVars, diskVars, LeaseInv
<1> QED
  BY <1>1, <1>2, <1>3, <1>4, <1>5, <1>6, <1>7, <1>8, <1>9, <1>10, <1>11, <1>12, <1>13, <1>14,
     <1>15, <1>16, <1>17, <1>18, <1>19, <1>20, <1>21, <1>22, <1>23 DEF PackNext, Finish

\* Every step keeps uploads prefixes of the file.
LEMMA UploadsKept ==
    PackTypeOK /\ LeaseInv /\ UploadIsAPrefix /\ [PackNext]_packVars => UploadIsAPrefix'
<1> SUFFICES ASSUME PackTypeOK, LeaseInv, UploadIsAPrefix, [PackNext]_packVars
             PROVE  UploadIsAPrefix'
  OBVIOUS
<1>1. ASSUME NEW j \in Jobs, NEW p \in Packs, BeginImport(j, p) PROVE UploadIsAPrefix'
  BY <1>1
  DEF BeginImport, diskVars, UploadIsAPrefix
<1>2. ASSUME NEW a \in Apps, NEW j \in Jobs, Resume(a, j) PROVE UploadIsAPrefix'
  BY <1>2, TakeMoves
  DEF Resume, Take, diskVars, UploadIsAPrefix
<1>3. ASSUME NEW a \in Apps, NEW j \in Jobs, Inspect(a, j) PROVE UploadIsAPrefix'
  BY <1>3, TakeMoves
  DEF Inspect, Take, diskVars, UploadIsAPrefix
<1>4. ASSUME NEW a \in Apps, NEW j \in Jobs, Cancel(a, j) PROVE UploadIsAPrefix'
  BY <1>4, CancelMoves
  DEF diskVars, UploadIsAPrefix
<1>5. ASSUME NEW a \in Apps, NEW j \in Jobs, Discard(a, j) PROVE UploadIsAPrefix'
  <2>1. /\ uploads'[j] = <<>>
        /\ \A i \in Jobs : i # j => uploads'[i] = uploads[i]
    BY <1>5, DiscardMoves
  <2>2. Len(<<>>) = 0
    OBVIOUS
  <2> QED
    BY <2>1, <2>2 DEF UploadIsAPrefix
<1>6. ASSUME NEW a \in Apps, NEW j \in Jobs, Activate(a, j) PROVE UploadIsAPrefix'
  BY <1>6, ActivateMoves
  DEF diskVars, UploadIsAPrefix
<1>7. ASSUME NEW j \in Jobs, Chunk(j) PROVE UploadIsAPrefix'
  <2> DEFINE n == jobs[j].received
  <2>1. /\ uploads[j] \in Seq(1..Total) /\ n \in Nat /\ Len(uploads[j]) = n
        /\ uploads'[j] = Append(uploads[j], n + 1)
        /\ \A i \in Jobs : i # j => uploads'[i] = uploads[i]
    BY <1>7, AppendIsUpload, PackConstants DEF Chunk, Wanted, PackTypeOK, Row
  <2> HIDE DEF n
  <2>2. \A k \in 1..Len(uploads'[j]) : uploads'[j][k] = k
    BY <2>1, AppendProperties DEF UploadIsAPrefix
  <2> QED
    BY <2>1, <2>2 DEF UploadIsAPrefix
<1>8. ASSUME NEW j \in Jobs, ChunkStops(j) PROVE UploadIsAPrefix'
  <2> DEFINE n == jobs[j].received
  <2>1. /\ uploads[j] \in Seq(1..Total) /\ n \in Nat /\ Len(uploads[j]) = n
        /\ uploads'[j] = Append(uploads[j], n + 1)
        /\ \A i \in Jobs : i # j => uploads'[i] = uploads[i]
    BY <1>8, AppendIsUpload, PackConstants DEF ChunkStops, Wanted, PackTypeOK, Row
  <2> HIDE DEF n
  <2>2. \A k \in 1..Len(uploads'[j]) : uploads'[j][k] = k
    BY <2>1, AppendProperties DEF UploadIsAPrefix
  <2> QED
    BY <2>1, <2>2 DEF UploadIsAPrefix
<1>9. CASE Read
  BY <1>9
  DEF Read, diskVars, UploadIsAPrefix
<1>10. CASE ResumeCommit
  <2>1. ASSUME NEW j \in Jobs, NEW k \in 1..Len(uploads'[j])
        PROVE  uploads'[j][k] = k
    <3>1. Len(uploads'[j]) <= Len(uploads[j]) /\ uploads'[j][k] = uploads[j][k]
      BY <1>10, CutMoves
    <3>2. Len(uploads[j]) \in Nat /\ Len(uploads'[j]) \in Nat
      BY <1>10, CutMoves, LenProperties DEF PackTypeOK
    <3> QED
      BY <3>1, <3>2 DEF UploadIsAPrefix
  <2> QED
    BY <2>1 DEF UploadIsAPrefix
<1>11. CASE InspectCommit
  BY <1>11, InspectMoves
  DEF UploadIsAPrefix
<1>12. CASE VerificationFails
  BY <1>12, FailureMoves
  DEF diskVars, UploadIsAPrefix
<1>13. ASSUME NEW p \in Packs, ActivateInstalled(p) PROVE UploadIsAPrefix'
  BY <1>13
  DEF ActivateInstalled, diskVars, UploadIsAPrefix
<1>14. ASSUME NEW p \in Packs, Remove(p) PROVE UploadIsAPrefix'
  BY <1>14
  DEF Remove, diskVars, UploadIsAPrefix
<1>15. ASSUME NEW p \in Packs, Restore(p) PROVE UploadIsAPrefix'
  BY <1>15
  DEF Restore, diskVars, UploadIsAPrefix
<1>16. ASSUME NEW p \in Packs, Revoke(p) PROVE UploadIsAPrefix'
  BY <1>16
  DEF Revoke, diskVars, UploadIsAPrefix
<1>17. CASE GiveUp
  BY <1>17
  DEF GiveUp, diskVars, UploadIsAPrefix
<1>18. CASE FinishActivate
  BY <1>18, FinishMoves
  DEF UploadIsAPrefix
<1>19. CASE ActivateStops
  BY <1>19
  DEF ActivateStops, Of, Activatable, AdmittedMark, Target, UploadIsAPrefix
<1>20. CASE FinishMove
  BY <1>20
  DEF FinishMove, Of, UploadIsAPrefix
<1>21. CASE MoveStops
  BY <1>21
  DEF MoveStops, Of, UploadIsAPrefix
<1>22. ASSUME NEW a \in Apps, AppDies(a) PROVE UploadIsAPrefix'
  BY <1>22
  DEF AppDies, diskVars, UploadIsAPrefix
<1>23. CASE UNCHANGED packVars
  BY <1>23
  DEF packVars, diskVars, UploadIsAPrefix
<1> QED
  BY <1>1, <1>2, <1>3, <1>4, <1>5, <1>6, <1>7, <1>8, <1>9, <1>10, <1>11, <1>12, <1>13, <1>14,
     <1>15, <1>16, <1>17, <1>18, <1>19, <1>20, <1>21, <1>22, <1>23 DEF PackNext, Finish

\* What CancelHolds asks of one step.
CanceledMoves ==
    \A j \in Jobs : jobs[j].status = "canceling" =>
       jobs'[j].status \in {"canceling", "canceled", "failed", "absent", "resuming"}

\* No step takes a cancellation back.
LEMMA CancellationsHold ==
    PackTypeOK /\ IntentInv /\ [PackNext]_packVars => CanceledMoves
<1> SUFFICES ASSUME PackTypeOK, IntentInv, [PackNext]_packVars
             PROVE  CanceledMoves
  OBVIOUS
<1>1. ASSUME NEW j \in Jobs, NEW p \in Packs, BeginImport(j, p) PROVE CanceledMoves
  <2>1. jobs[j].status = "absent" /\ \A i \in Jobs : i # j => jobs'[i] = jobs[i]
    BY <1>1 DEF BeginImport, PackTypeOK
  <2> QED
    BY <2>1 DEF CanceledMoves
<1>2. ASSUME NEW a \in Apps, NEW j \in Jobs, Resume(a, j) PROVE CanceledMoves
  BY <1>2, TakeMoves DEF Resume, Busy, CanceledMoves
<1>3. ASSUME NEW a \in Apps, NEW j \in Jobs, Inspect(a, j) PROVE CanceledMoves
  BY <1>3, TakeMoves DEF Inspect, Busy, CanceledMoves
<1>4. ASSUME NEW a \in Apps, NEW j \in Jobs, Cancel(a, j) PROVE CanceledMoves
  BY <1>4, CancelMoves DEF CanceledMoves
<1>5. ASSUME NEW a \in Apps, NEW j \in Jobs, Discard(a, j) PROVE CanceledMoves
  BY <1>5, DiscardMoves, AbsentIs DEF CanceledMoves
<1>6. ASSUME NEW a \in Apps, NEW j \in Jobs, Activate(a, j) PROVE CanceledMoves
  BY <1>6, ActivateMoves DEF CanceledMoves
<1>7. ASSUME NEW j \in Jobs, Chunk(j) PROVE CanceledMoves
  BY <1>7, ChunkMoves DEF Chunk, Wanted, CanceledMoves
<1>8. ASSUME NEW j \in Jobs, ChunkStops(j) PROVE CanceledMoves
  BY <1>8 DEF ChunkStops, CanceledMoves, stateVars
<1>9. CASE Read
  BY <1>9 DEF Read, CanceledMoves, stateVars
<1>10. CASE ResumeCommit
  BY <1>10, ResumeMoves DEF CanceledMoves
<1>11. CASE InspectCommit
  BY <1>11, InspectMoves DEF CanceledMoves
<1>12. CASE VerificationFails
  BY <1>12, FailureMoves DEF CanceledMoves
<1>13. ASSUME NEW p \in Packs, ActivateInstalled(p) PROVE CanceledMoves
  BY <1>13 DEF ActivateInstalled, CanceledMoves
<1>14. ASSUME NEW p \in Packs, Remove(p) PROVE CanceledMoves
  BY <1>14 DEF Remove, CanceledMoves
<1>15. ASSUME NEW p \in Packs, Restore(p) PROVE CanceledMoves
  BY <1>15 DEF Restore, CanceledMoves
<1>16. ASSUME NEW p \in Packs, Revoke(p) PROVE CanceledMoves
  BY <1>16 DEF Revoke, CanceledMoves, stateVars
<1>17. CASE GiveUp
  BY <1>17 DEF GiveUp, CanceledMoves
<1>18. CASE FinishActivate
  BY <1>18, FinishMoves DEF CanceledMoves, IntentInv
<1>19. CASE ActivateStops
  BY <1>19 DEF ActivateStops, CanceledMoves, stateVars
<1>20. CASE FinishMove
  BY <1>20 DEF FinishMove, CanceledMoves
<1>21. CASE MoveStops
  BY <1>21 DEF MoveStops, CanceledMoves, stateVars
<1>22. ASSUME NEW a \in Apps, AppDies(a) PROVE CanceledMoves
  BY <1>22, DeathMoves DEF CanceledMoves
<1>23. CASE UNCHANGED packVars
  BY <1>23 DEF packVars, CanceledMoves, stateVars
<1> QED
  BY <1>1, <1>2, <1>3, <1>4, <1>5, <1>6, <1>7, <1>8, <1>9, <1>10, <1>11, <1>12, <1>13, <1>14,
     <1>15, <1>16, <1>17, <1>18, <1>19, <1>20, <1>21, <1>22, <1>23 DEF PackNext, Finish

-----------------------------------------------------------------------------
(* The theorems. *)

\* The store starts in its invariant.
LEMMA PackInvInit == PackInit => PackInv
<1> SUFFICES ASSUME PackInit PROVE PackInv
  OBVIOUS
<1>1. jobs \in [Jobs -> Row] /\ \A j \in Jobs : jobs[j].status = "absent"
  BY AbsentIs DEF PackInit
<1>2. uploads \in [Jobs -> Seq(1..Total)] /\ \A j \in Jobs : Len(uploads[j]) = 0
  <2>1. <<>> \in Seq(1..Total) /\ Len(<<>>) = 0
    OBVIOUS
  <2> QED
    BY <2>1 DEF PackInit
<1>3. PackTypeOK
  BY <1>1, <1>2 DEF PackInit, PackTypeOK
<1>4. UploadIsAPrefix
  BY <1>2 DEF UploadIsAPrefix
<1>5. NoIntent /\ lease = NoLease
  BY DEF PackInit, NoIntent
<1>6. KeptPacks /\ PointerIsActive /\ RecordsInv /\ MarkInv
  BY DEF PackInit, KeptPacks, PointerIsActive, RecordsInv, MarkInv
<1>7. IntentInv /\ LeaseInv
  BY <1>5 DEF IntentInv, LeaseInv
<1>8. ReadyInv
  BY <1>1 DEF ReadyInv
<1> QED
  BY <1>3, <1>4, <1>6, <1>7, <1>8 DEF PackInv

\* Every step keeps the invariant.
LEMMA PackInvStep == PackInv /\ [PackNext]_packVars => PackInv'
<1> SUFFICES ASSUME PackInv, [PackNext]_packVars PROVE PackInv'
  OBVIOUS
<1>1. /\ PackTypeOK /\ KeptPacks /\ PointerIsActive /\ RecordsInv /\ IntentInv
      /\ ReadyInv /\ MarkInv /\ LeaseInv /\ UploadIsAPrefix
  BY DEF PackInv
<1>2. PackTypeOK' /\ KeptPacks' /\ PointerIsActive' /\ RecordsInv'
  BY <1>1, TypesKept, PacksKept, PointerKept, RecordsKept
<1>3. IntentInv' /\ ReadyInv' /\ MarkInv' /\ LeaseInv' /\ UploadIsAPrefix'
  BY <1>1, IntentKept, ReadyKept, MarkKept, LeaseKept, UploadsKept
<1> QED
  BY <1>2, <1>3 DEF PackInv

\* The inductive invariant holds of every store, whatever the numbers of apps, jobs,
\* packs and chunks.
THEOREM PackInvAlways == PackSpec => []PackInv
BY PackInvInit, PackInvStep, PTL DEF PackSpec

\* The state file, the files and the lease are always what the code can write.
THEOREM PackTypes == PackSpec => []PackTypeOK
<1>1. PackInv => PackTypeOK
  BY DEF PackInv
<1> QED
  BY <1>1, PackInvAlways, PTL

\* Wherever activations, removals and restorings are cut short, finished later or
\* given up, the state file, the pointer and the directories agree
\* (_finish_transaction, _load_active_pack_locked).
THEOREM StateMatchesFilesAlways == PackSpec => []StateMatchesFiles
<1>1. PackInv => StateMatchesFiles
  <2> SUFFICES ASSUME PackInv PROVE StateMatchesFiles
    OBVIOUS
  <2>1. KeptPacks /\ PointerIsActive /\ RecordsInv
    BY DEF PackInv
  <2>2. RecordsMatchFiles
    BY <2>1 DEF RecordsInv, RecordsMatchFiles, Settled
  <2> QED
    BY <2>1, <2>2 DEF StateMatchesFiles
<1> QED
  BY <1>1, PackInvAlways, PTL

\* A start is given the active pack, unless it was revoked or an intent is pending:
\* pointer, files and mark are in order.
GivenInv == LoadActivePack = IF NoIntent /\ active \notin revoked THEN active ELSE NoPack

\* The invariant says so.
LEMMA GivenIsActive == PackInv => GivenInv
<1> SUFFICES ASSUME PackInv
             PROVE  LoadActivePack = IF NoIntent /\ active \notin revoked THEN active ELSE NoPack
  BY DEF GivenInv
<1>1. PackTypeOK /\ KeptPacks /\ PointerIsActive /\ MarkInv
  BY DEF PackInv
<1>2. CASE NoIntent /\ active # NoPack
  <2>1. active \in Packs /\ active \in packs /\ pointer = active
    BY <1>1, <1>2 DEF PackTypeOK, KeptPacks, PointerIsActive, Of
  <2>2. SeqOf[active] >= mark
    <3>1. SeqOf[active] = mark /\ mark \in Nat
      BY <1>1, <1>2 DEF MarkInv, Of, PackTypeOK
    <3> QED
      BY <3>1
  <2> QED
    BY <1>2, <2>1, <2>2 DEF LoadActivePack, Admissible
<1>3. CASE NoIntent /\ active = NoPack
  BY <1>3 DEF LoadActivePack
<1>4. CASE ~NoIntent
  BY <1>4 DEF LoadActivePack
<1> QED
  BY <1>2, <1>3, <1>4

\* A step that leaves the active pack, the mark and the revocations alone, and
\* writes or clears no intent, is not seen.
LEMMA Unseen ==
    ASSUME GivenInv, GivenInv', NoIntent' <=> NoIntent, UNCHANGED <<active, trustVars>>
    PROVE  UNCHANGED Store!storeVars
<1>1. LoadActivePack' = LoadActivePack
  BY DEF GivenInv, trustVars
<1>2. NoIntent' = NoIntent
  BY DEF NoIntent
<1> QED
  BY <1>1, <1>2 DEF Store!storeVars, trustVars

\* An intent closes the store.
LEMMA IntendCloses ==
    ASSUME NoIntent, NEW kind \in {"activate", "remove", "restore"}, NEW p, NEW j,
           Intend(kind, p, j), UNCHANGED <<active, trustVars>>
    PROVE  Store!StoreNext
<1>1. NoIntent = TRUE /\ NoIntent' = FALSE
  BY DEF Intend, NoIntent, NoTransaction
<1>2. LoadActivePack' = NoPack
  BY <1>1 DEF LoadActivePack
<1>3. Store!Close
  BY <1>1, <1>2 DEF Store!Close, trustVars
<1> QED
  BY <1>3 DEF Store!StoreNext

\* Every step of the service is one of the store, or is not seen.
LEMMA StepIsStore ==
    ASSUME PackInv, PackInv', GivenInv, GivenInv', [PackNext]_packVars
    PROVE  [Store!StoreNext]_Store!storeVars
<1> DEFINE Seen1 == [Store!StoreNext]_Store!storeVars
<1>0. PackTypeOK /\ IntentInv /\ MarkInv /\ PackTypeOK' /\ MarkInv'
  BY DEF PackInv
<1>1. ASSUME UNCHANGED <<active, transaction, trustVars>> PROVE Seen1
  BY <1>1, Unseen DEF NoIntent
<1>2. ASSUME NEW j \in Jobs, NEW p \in Packs, BeginImport(j, p) PROVE Seen1
  BY <1>1, <1>2 DEF BeginImport
<1>3. ASSUME NEW a \in Apps, NEW j \in Jobs,
             Resume(a, j) \/ Inspect(a, j) \/ Cancel(a, j) \/ Discard(a, j)
      PROVE  Seen1
  BY <1>1, <1>3 DEF Resume, Inspect, Take, Cancel, Discard
<1>4. ASSUME NEW a \in Apps, NEW j \in Jobs, Activate(a, j) PROVE Seen1
  BY <1>4, IntendCloses DEF Activate
<1>5. ASSUME NEW j \in Jobs, Chunk(j) \/ ChunkStops(j) PROVE Seen1
  BY <1>1, <1>5 DEF Chunk, ChunkStops, stateVars
<1>6. CASE Read \/ ResumeCommit \/ InspectCommit \/ VerificationFails
  BY <1>1, <1>6 DEF Read, ResumeCommit, InspectCommit, VerificationFails, stateVars
<1>7. ASSUME NEW p \in Packs, ActivateInstalled(p) PROVE Seen1
  BY <1>7, IntendCloses DEF ActivateInstalled
<1>8. ASSUME NEW p \in Packs, Remove(p) PROVE Seen1
  BY <1>8, IntendCloses DEF Remove
<1>9. ASSUME NEW p \in Packs, Restore(p) PROVE Seen1
  BY <1>9, IntendCloses DEF Restore
<1>10. ASSUME NEW p \in Packs, Revoke(p) PROVE Seen1
  <2>1. revoked' = revoked \cup {p} /\ UNCHANGED <<active, transaction, mark>>
    BY <1>10 DEF Revoke, stateVars
  <2>2. NoIntent' = NoIntent
    BY <2>1 DEF NoIntent
  <2>3. LoadActivePack' = IF LoadActivePack = p THEN NoPack ELSE LoadActivePack
    BY <1>10, <2>1, <2>2, PackConstants DEF GivenInv
  <2>4. Store!Bar(p)
    BY <2>1, <2>2, <2>3 DEF Store!Bar
  <2> QED
    BY <2>4 DEF Store!StoreNext
<1>11. CASE GiveUp
  <2>1. ~NoIntent /\ ~NoIntent'
    BY <1>0, <1>11 DEF GiveUp, NoIntent, NoTransaction, PackTypeOK, Transaction
  <2> QED
    BY <1>11, <2>1, Unseen DEF GiveUp
<1>12. CASE FinishActivate
  <2>1. NoIntent = FALSE /\ NoIntent' = TRUE /\ UNCHANGED revoked /\ active' = Target
        /\ Activatable /\ mark' = AdmittedMark
    BY <1>12 DEF FinishActivate, Of, NoIntent
  <2>2. CASE transaction.given_up
    <3>1. active' = NoPack /\ mark' = mark
      BY <2>1, <2>2 DEF Target, AdmittedMark
    <3>2. LoadActivePack' = NoPack
      BY <3>1 DEF GivenInv
    <3>3. Store!ReopenEmpty
      BY <2>1, <3>1, <3>2 DEF Store!ReopenEmpty
    <3> QED
      BY <3>3 DEF Store!StoreNext
  <2>3. CASE ~transaction.given_up
    <3> DEFINE p == transaction.pack
    <3>1. p \in Packs
      BY <1>0, <2>1 DEF NoIntent, PackTypeOK, Transaction
    <3>2. active' = p /\ mark' = SeqOf[p] /\ p \notin revoked /\ SeqOf[p] >= mark
      BY <2>1, <2>3 DEF Target, AdmittedMark, Activatable, Admissible
    <3>3. LoadActivePack' = p
      BY <2>1, <3>2 DEF GivenInv
    <3>4. Store!Reopen(p)
      BY <2>1, <3>2, <3>3 DEF Store!Reopen
    <3> QED
      BY <3>1, <3>4 DEF Store!StoreNext
  <2> QED
    BY <2>2, <2>3
<1>13. CASE ActivateStops
  <2>1. NoIntent = FALSE /\ NoIntent' = FALSE /\ UNCHANGED <<revoked, active>>
        /\ Activatable /\ mark' = AdmittedMark
    BY <1>13 DEF ActivateStops, Of, NoIntent, stateVars
  <2>2. CASE transaction.given_up
    BY <2>1, <2>2, Unseen DEF AdmittedMark, trustVars
  <2>3. CASE ~transaction.given_up
    <3> DEFINE p == transaction.pack
    <3>1. p \in Packs
      BY <1>0, <2>1 DEF NoIntent, PackTypeOK, Transaction
    <3>2. mark' = SeqOf[p] /\ p \notin revoked /\ SeqOf[p] >= mark
      BY <2>1, <2>3 DEF AdmittedMark, Activatable, Admissible
    <3>3. LoadActivePack' = NoPack /\ LoadActivePack = NoPack
      BY <2>1 DEF GivenInv
    <3>4. Store!Admit(p)
      BY <2>1, <3>2, <3>3 DEF Store!Admit
    <3> QED
      BY <3>1, <3>4 DEF Store!StoreNext
  <2> QED
    BY <2>2, <2>3
<1>14. CASE FinishMove
  <2>1. NoIntent = FALSE /\ NoIntent' = TRUE /\ ~Of("activate")
        /\ UNCHANGED <<active, mark, revoked>>
    BY <1>14 DEF FinishMove, Of, NoIntent, trustVars
  <2>2. CASE active = NoPack
    <3>1. LoadActivePack' = NoPack
      BY <2>1, <2>2 DEF GivenInv
    <3>2. Store!ReopenEmpty
      BY <2>1, <2>2, <3>1 DEF Store!ReopenEmpty
    <3> QED
      BY <3>2 DEF Store!StoreNext
  <2>3. CASE active # NoPack
    <3>1. active \in Packs /\ SeqOf[active] = mark /\ mark \in Nat
      BY <1>0, <2>1, <2>3 DEF MarkInv, PackTypeOK
    <3>2. LoadActivePack' = IF active \in revoked THEN NoPack ELSE active
      BY <2>1 DEF GivenInv
    <3>3. Store!Reopen(active)
      BY <2>1, <3>1, <3>2 DEF Store!Reopen
    <3> QED
      BY <3>1, <3>3 DEF Store!StoreNext
  <2> QED
    BY <2>2, <2>3
<1>15. CASE MoveStops
  BY <1>1, <1>15 DEF MoveStops, stateVars
<1>16. ASSUME NEW a \in Apps, AppDies(a) PROVE Seen1
  BY <1>1, <1>16 DEF AppDies
<1>17. CASE UNCHANGED packVars
  BY <1>1, <1>17 DEF packVars, stateVars
<1> QED
  BY <1>2, <1>3, <1>4, <1>5, <1>6, <1>7, <1>8, <1>9, <1>10, <1>11, <1>12, <1>13, <1>14, <1>15,
     <1>16, <1>17 DEF PackNext, Finish

\* To those who start workers the store is one register: with no intent pending
\* they are given the active pack unless it was revoked, and it is never older
\* than one admitted before (load_active_pack, _finish_transaction).
THEOREM PacksImplementStore == PackSpec => ImplementsStore
<1>1. PackInit => Store!StoreInit
  BY PackConstants DEF PackInit, Store!StoreInit, NoIntent, LoadActivePack
<1>2. PackInv /\ PackInv' /\ GivenInv /\ GivenInv' /\ [PackNext]_packVars
      => [Store!StoreNext]_Store!storeVars
  BY StepIsStore
<1> QED
  BY <1>1, <1>2, GivenIsActive, PackInvAlways, PTL
  DEF PackSpec, ImplementsStore, Store!StoreSpec

\* An upload is a prefix of the user's file, after torn tails, retries and resumptions
\* (chunk, resume).
THEOREM UploadIsAPrefixAlways == PackSpec => []UploadIsAPrefix
<1>1. PackInv => UploadIsAPrefix
  BY DEF PackInv
<1> QED
  BY <1>1, PackInvAlways, PTL

\* A canceled verification is not taken up again except by resuming (_inspect, resume).
THEOREM CancelHoldsAlways == PackSpec => CancelHolds
<1>1. PackInv /\ [PackNext]_packVars => [CanceledMoves]_packVars
  BY CancellationsHold DEF PackInv
<1>2. [][PackNext]_packVars /\ []PackInv => [][CanceledMoves]_packVars
  BY <1>1, PTL
<1> QED
  BY <1>2, PackInvAlways, PTL DEF PackSpec, CancelHolds, CanceledMoves
=============================================================================
