---------------------------- MODULE ReviewLedger ----------------------------
(***************************************************************************)
(* The revisions of one document (documents/workspace.py) and its human    *)
(* review (review/review_ledger.py, the review routes of api.py).          *)
(*                                                                         *)
(* An edit is proposed and then committed or rejected; a review is         *)
(* prepared for the current revision and then decided, once.  Each of the  *)
(* two modules has a lock of its own, in this process only: an operation   *)
(* of the workspace is one step, cut short or not; the operations of the   *)
(* ledger exclude each other and read the workspace on their way.          *)
(*                                                                         *)
(* The process may die between any two writes; each file is replaced       *)
(* whole.  Confirmation tokens, deletion, texts and the contents of        *)
(* reports are left out, and so is the audit file of the workspace.        *)
(***************************************************************************)
EXTENDS Naturals, FiniteSets

CONSTANTS
    Threads,       \* threads that serve review routes
    MaxRevisions,  \* bound: revisions of the document
    MaxRequests,   \* bound: review requests
    MAX_PENDING_REQUESTS,
    Generations    \* builds of the authority product

ASSUME ReviewConstants ==
    /\ MaxRevisions \in Nat \ {0} /\ MaxRequests \in Nat \ {0}
    /\ MAX_PENDING_REQUESTS \in Nat \ {0}
    /\ 0 \notin Generations /\ Generations # {}

VARIABLES
    current,    \* the document's current_revision_id in the index
    revisions,  \* the revision files
    authority,  \* the active build of the authority product
    requests,   \* reviews/<document>/requests
    decisions,  \* reviews/<document>/decisions
    thread      \* where each thread is

reviewVars == <<current, revisions, authority, requests, decisions, thread>>
workspaceVars == <<current, revisions>>

RevisionIds == 1..MaxRevisions
\* What a reading of the authority product gives: a build, or nothing when the
\* product cannot be read or does not verify.
Unverified == 0
Readings == Generations \cup {Unverified}
RequestIds == 1..MaxRequests
ALLOWED_DECISIONS == {"approve_review", "reject"}   \* request_changes is as reject

Revision == [status : {"absent", "proposed", "committed", "rejected"}, parent : 0..MaxRevisions]
Request == [status : {"absent", "pending", "consumed"}, revision : 0..MaxRevisions,
            generation : Readings]
\* A decision repeats the revision of its request; its hash is its request.
Decision == [sequence : Nat \ {0}, request : RequestIds, revision : RevisionIds,
             verdict : ALLOWED_DECISIONS, previous : 0..MaxRequests]

NoRequest == [status |-> "absent", revision |-> 0, generation |-> Unverified]
Idle == [pc |-> "idle"]

ReviewInit ==
    /\ current = 1
    /\ revisions = [r \in RevisionIds |->
           IF r = 1 THEN [status |-> "committed", parent |-> 0]
           ELSE [status |-> "absent", parent |-> 0]]
    /\ authority \in Generations
    /\ requests = [q \in RequestIds |-> NoRequest]
    /\ decisions = {}
    /\ thread = [t \in Threads |-> Idle]

-----------------------------------------------------------------------------
(* The workspace. *)

\* Revision ids are fresh; here they are numbered as they are made.
ProposeRevision(r) ==
    /\ revisions[r].status = "absent" /\ revisions[r - 1].status # "absent"
    /\ revisions' = [revisions EXCEPT ![r] = [status |-> "proposed", parent |-> current]]
    /\ UNCHANGED <<current, authority, requests, decisions, thread>>

\* The file of the revision is written first, then the index; the second write
\* may fail, and the process may die before it (ProcessDies is the next step),
\* which leaves a committed revision that is not current.
CommitRevision(r, indexed) ==
    /\ revisions[r] = [status |-> "proposed", parent |-> current]
    /\ revisions' = [revisions EXCEPT ![r].status = "committed"]
    /\ current' = IF indexed THEN r ELSE current
    /\ UNCHANGED <<authority, requests, decisions, thread>>

RejectRevision(r) ==
    /\ revisions[r].status = "proposed"
    /\ revisions' = [revisions EXCEPT ![r].status = "rejected"]
    /\ UNCHANGED <<current, authority, requests, decisions, thread>>

\* Publishing replaces the authority product, by an earlier build too.
Publish(g) ==
    /\ g # authority
    /\ authority' = g
    /\ UNCHANGED <<workspaceVars, requests, decisions, thread>>

-----------------------------------------------------------------------------
(* The ledger. *)

At(t, pc) == thread[t].pc = pc
LedgerFree == \A t \in Threads : ~At(t, "decide") /\ ~At(t, "consume")
Pending == {q \in RequestIds : requests[q].status = "pending"}

\* The prepare route: refused at the limit.  When verify_output raises or blocks,
\* the request is made all the same and names no build.  Nothing takes a pending
\* request back, whether its revision is still current or not.
PrepareReviewRequest(q, reading) ==
    /\ reading \in {authority, Unverified}
    /\ LedgerFree
    /\ requests[q].status = "absent" /\ \A p \in 1..(q - 1) : requests[p].status # "absent"
    /\ Cardinality(Pending) < MAX_PENDING_REQUESTS
    /\ requests' = [requests EXCEPT ![q] =
           [status |-> "pending", revision |-> current, generation |-> reading]]
    /\ UNCHANGED <<workspaceVars, authority, decisions, thread>>

\* Sorted by sequence, the last; Deviation: in the order of the directory.
LatestOfDirectory(d) == d \in decisions
Latest(d) == d \in decisions /\ \A e \in decisions : e.sequence <= d.sequence

Undecided(q) == requests[q].status = "pending" /\ \A d \in decisions : d.request # q

\* Deviation: commit_review_decision takes no lock.
LockFree(t) == TRUE
Lock(t) == LedgerFree

\* commit_review_decision up to its first write.
CommitReviewDecision(t, q, v) ==
    /\ At(t, "idle") /\ Lock(t)
    /\ Undecided(q)
    /\ requests[q].revision = current
    /\ \E last \in {d \in decisions : Latest(d)} \cup {[sequence |-> 0, request |-> 0]} :
           /\ last.sequence = 0 => decisions = {}
           /\ thread' = [thread EXCEPT ![t] =
                  [pc |-> "decide",
                   decision |-> [sequence |-> last.sequence + 1, request |-> q,
                                 revision |-> current, verdict |-> v,
                                 previous |-> last.request]]]
    /\ UNCHANGED <<workspaceVars, authority, requests, decisions>>

WriteDecision(t) ==
    /\ At(t, "decide")
    /\ decisions' = decisions \cup {thread[t].decision}
    /\ thread' = [thread EXCEPT ![t].pc = "consume"]
    /\ UNCHANGED <<workspaceVars, authority, requests>>

ConsumeRequest(t) ==
    /\ At(t, "consume")
    /\ requests' = [requests EXCEPT ![thread[t].decision.request].status = "consumed"]
    /\ thread' = [thread EXCEPT ![t] = Idle]
    /\ UNCHANGED <<workspaceVars, authority, decisions>>

\* A write fails and the route answers with an error.
WriteFails(t) ==
    /\ At(t, "decide") \/ At(t, "consume")
    /\ thread' = [thread EXCEPT ![t] = Idle]
    /\ UNCHANGED <<workspaceVars, authority, requests, decisions>>

Step ==
    \/ \E r \in 2..MaxRevisions : ProposeRevision(r) \/ RejectRevision(r)
    \/ \E r \in RevisionIds, indexed \in BOOLEAN : CommitRevision(r, indexed)
    \/ \E g \in Generations : Publish(g)
    \/ \E q \in RequestIds, reading \in Readings : PrepareReviewRequest(q, reading)

ThreadStep(t) ==
    \/ \E q \in RequestIds, v \in ALLOWED_DECISIONS : CommitReviewDecision(t, q, v)
    \/ WriteDecision(t) \/ ConsumeRequest(t) \/ WriteFails(t)

ProcessDies ==
    /\ thread' = [t \in Threads |-> Idle]
    /\ UNCHANGED <<workspaceVars, authority, requests, decisions>>

-----------------------------------------------------------------------------
(* Properties. *)

ReviewTypeOK ==
    /\ current \in RevisionIds /\ revisions[current].status = "committed"
    /\ revisions \in [RevisionIds -> Revision]
    /\ authority \in Generations
    /\ requests \in [RequestIds -> Request]
    /\ decisions \subseteq Decision
    /\ thread \in [Threads -> {Idle} \cup [pc : {"decide", "consume"}, decision : Decision]]

\* verify_review_ledger: the decisions are numbered without a gap and each
\* names the one before it.
ChainHolds ==
    /\ {d.sequence : d \in decisions} = 1..Cardinality(decisions)
    /\ \A d \in decisions :
        IF d.sequence = 1 THEN d.previous = 0
        ELSE \E e \in decisions : e.sequence = d.sequence - 1 /\ e.request = d.previous

\* However reviewers overlap and wherever a commit is cut short and tried again,
\* the ledger verifies, and a request is decided once.
LedgerIsSound ==
    /\ ChainHolds
    /\ \A d, e \in decisions : d.request = e.request => d = e
=============================================================================
