---------------------------- MODULE FilingProofs ----------------------------
(***************************************************************************)
(* Theorems about the review ledger under filing packets, for any number   *)
(* of threads, revisions, requests, builds and authority generations.      *)
(***************************************************************************)
EXTENDS FilingPackets, FiniteSetTheorems, TLAPS

Committing(t) == At(t, "decide") \/ At(t, "consume")

\* At most one thread is inside commit_review_decision.
Alone == \A s, t \in Threads : Committing(s) /\ Committing(t) => s = t

\* What a thread is about to write continues the chain, for a request that no
\* decision names.
Continues(d) ==
    /\ d.sequence = Cardinality(decisions) + 1
    /\ IF d.sequence = 1 THEN d.previous = 0
       ELSE \E e \in decisions : e.sequence = d.sequence - 1 /\ e.request = d.previous
    /\ \A e \in decisions : e.request # d.request

Made(q) == requests[q].status # "absent"

LedgerInv ==
    /\ ReviewTypeOK
    /\ IsFiniteSet(decisions)
    /\ \A d \in decisions : Made(d.request)
    /\ \A t \in Threads : At(t, "decide") => Made(thread[t].decision.request)
    /\ Alone
    /\ \A t \in Threads : At(t, "decide") => Continues(thread[t].decision)
    /\ LedgerIsSound

-----------------------------------------------------------------------------
(* The types. *)

\* The steps of the workspace, the authority product and the ledger that build
\* nothing; what the packets do leaves them alone.
LedgerStep == Step \/ (\E t \in Threads : ThreadStep(t)) \/ ProcessDies \/ UNCHANGED reviewVars

LEMMA StepOfLedger == [FilingNext]_filingVars => LedgerStep
BY DEF FilingNext, LedgerStep, filingVars, Assign, BuildBegin, ReadsOnly, ReadLedger,
       ReadDecision, FoundInPlace, Place, Point, BuildFails, Dies

LEMMA TypesKept == ReviewTypeOK /\ LedgerStep => ReviewTypeOK'
<1> SUFFICES ASSUME ReviewTypeOK, LedgerStep PROVE ReviewTypeOK'
  OBVIOUS
<1> USE ReviewConstants DEF RevisionIds, RequestIds
<1>1. ASSUME NEW r \in 2..MaxRevisions, ProposeRevision(r) PROVE ReviewTypeOK'
  BY <1>1 DEF ReviewTypeOK, ProposeRevision, Revision
<1>2. ASSUME NEW r \in RevisionIds, NEW indexed \in BOOLEAN, CommitRevision(r, indexed)
      PROVE  ReviewTypeOK'
  BY <1>2 DEF ReviewTypeOK, CommitRevision, Revision
<1>3. ASSUME NEW r \in 2..MaxRevisions, RejectRevision(r) PROVE ReviewTypeOK'
  BY <1>3 DEF ReviewTypeOK, RejectRevision, Revision
<1>4. ASSUME NEW g \in Generations, Publish(g) PROVE ReviewTypeOK'
  BY <1>4 DEF ReviewTypeOK, Publish, workspaceVars
<1>5. ASSUME NEW q \in RequestIds, NEW reading \in Readings, PrepareReviewRequest(q, reading)
      PROVE  ReviewTypeOK'
  BY <1>5 DEF ReviewTypeOK, PrepareReviewRequest, Request, Readings, workspaceVars
<1>6. ASSUME NEW t \in Threads, ThreadStep(t) PROVE ReviewTypeOK'
  <2>1. ASSUME NEW q \in RequestIds, NEW v \in ALLOWED_DECISIONS, CommitReviewDecision(t, q, v)
        PROVE  ReviewTypeOK'
    <3>1. PICK last \in {d \in decisions : Latest(d)} \cup {[sequence |-> 0, request |-> 0]} :
             thread' = [thread EXCEPT ![t] =
                  [pc |-> "decide",
                   decision |-> [sequence |-> last.sequence + 1, request |-> q,
                                 revision |-> current, verdict |-> v,
                                 previous |-> last.request]]]
      BY <2>1 DEF CommitReviewDecision
    <3>2. last.sequence \in Nat /\ last.request \in 0..MaxRequests
      BY DEF ReviewTypeOK, Decision
    <3>3. [sequence |-> last.sequence + 1, request |-> q, revision |-> current, verdict |-> v,
           previous |-> last.request] \in Decision
      BY <3>2 DEF ReviewTypeOK, Decision
    <3> QED
      BY <2>1, <3>1, <3>3 DEF ReviewTypeOK, CommitReviewDecision, workspaceVars
  <2>2. CASE WriteDecision(t)
    BY <2>2 DEF ReviewTypeOK, WriteDecision, At, workspaceVars, Idle
  <2>3. CASE ConsumeRequest(t)
    <3>1. thread[t] # Idle
      BY <2>3 DEF ConsumeRequest, At, Idle
    <3>2. thread[t].decision \in Decision
      BY <3>1 DEF ReviewTypeOK
    <3>3. thread[t].decision.request \in RequestIds
      BY <3>2 DEF Decision
    <3>4. requests' \in [RequestIds -> Request]
      BY <2>3, <3>3 DEF ReviewTypeOK, ConsumeRequest, Request
    <3> QED
      BY <2>3, <3>4 DEF ReviewTypeOK, ConsumeRequest, workspaceVars
  <2>4. CASE WriteFails(t)
    BY <2>4 DEF ReviewTypeOK, WriteFails, workspaceVars
  <2> QED
    BY <1>6, <2>1, <2>2, <2>3, <2>4 DEF ThreadStep
<1>7. CASE ProcessDies
  BY <1>7 DEF ReviewTypeOK, ProcessDies, workspaceVars
<1>8. CASE UNCHANGED reviewVars
  BY <1>8 DEF ReviewTypeOK, reviewVars
<1>9. CASE Step
  <2> HIDE DEF RevisionIds, RequestIds
  <2> QED
    BY <1>1, <1>2, <1>3, <1>4, <1>5, <1>9 DEF Step
<1> QED
  BY <1>6, <1>7, <1>8, <1>9 DEF LedgerStep

\* The document, its reviews and the threads that decide them are of their types.
THEOREM ReviewTypes == FilingSpec => []ReviewTypeOK
<1>1. FilingInit => ReviewTypeOK
  BY ReviewConstants DEF FilingInit, ReviewInit, ReviewTypeOK, RevisionIds, RequestIds,
     Revision, Request, NoRequest, Readings
<1> QED
  BY <1>1, StepOfLedger, TypesKept, PTL DEF FilingSpec

-----------------------------------------------------------------------------
(* The ledger. *)

\* A ledger whose decisions are numbered without a gap ends at their number.
LEMMA LastIsTheCount ==
    ASSUME ReviewTypeOK, IsFiniteSet(decisions), ChainHolds,
           NEW d \in decisions, Latest(d)
    PROVE  d.sequence = Cardinality(decisions)
<1>1. Cardinality(decisions) \in Nat /\ Cardinality(decisions) # 0
  BY FS_CardinalityType, FS_EmptySet
<1>2. PICK e \in decisions : e.sequence = Cardinality(decisions)
  BY <1>1 DEF ChainHolds
<1>3. d.sequence \in 1..Cardinality(decisions)
  BY DEF ChainHolds
<1> QED
  BY <1>1, <1>2, <1>3 DEF Latest

\* A decision that a thread prepares under the lock continues the chain.
LEMMA PreparedContinues ==
    ASSUME LedgerInv, NEW t \in Threads, NEW q \in RequestIds, NEW v \in ALLOWED_DECISIONS,
           CommitReviewDecision(t, q, v)
    PROVE  /\ thread'[t].pc = "decide" /\ Continues(thread'[t].decision)
           /\ Made(thread'[t].decision.request)
           /\ \A s \in Threads \ {t} : thread'[s] = thread[s] /\ ~Committing(s)
           /\ decisions' = decisions /\ requests' = requests
<1> USE DEF LedgerInv
<1>1. PICK last \in {d \in decisions : Latest(d)} \cup {[sequence |-> 0, request |-> 0]} :
         /\ last.sequence = 0 => decisions = {}
         /\ thread' = [thread EXCEPT ![t] =
                [pc |-> "decide",
                 decision |-> [sequence |-> last.sequence + 1, request |-> q,
                               revision |-> current, verdict |-> v,
                               previous |-> last.request]]]
  BY DEF CommitReviewDecision
<1> DEFINE new == [sequence |-> last.sequence + 1, request |-> q, revision |-> current,
                   verdict |-> v, previous |-> last.request]
<1>2. thread'[t] = [pc |-> "decide", decision |-> new]
  BY <1>1 DEF ReviewTypeOK
<1>3. Continues(new)
  <2>1. \A e \in decisions : e.request # q
    BY DEF CommitReviewDecision, Undecided
  <2>2. CASE last \in decisions /\ Latest(last)
    <3>1. last.sequence = Cardinality(decisions)
      BY <2>2, LastIsTheCount DEF LedgerIsSound
    <3>2. last.sequence \in Nat \ {0}
      BY <2>2 DEF ReviewTypeOK, Decision
    <3> QED
      BY <2>1, <2>2, <3>1, <3>2 DEF Continues
  <2>3. CASE last = [sequence |-> 0, request |-> 0]
    <3>1. decisions = {} /\ Cardinality(decisions) = 0
      BY <1>1, <2>3, FS_EmptySet
    <3> QED
      BY <2>1, <2>3, <3>1 DEF Continues
  <2> QED
    BY <1>1, <2>2, <2>3
<1>4. \A s \in Threads \ {t} : thread'[s] = thread[s] /\ ~Committing(s)
  BY <1>1 DEF ReviewTypeOK, CommitReviewDecision, Lock, LedgerFree, Committing
<1>5. decisions' = decisions /\ requests' = requests /\ Made(q)
  BY DEF CommitReviewDecision, Undecided, Made
<1> QED
  BY <1>2, <1>3, <1>4, <1>5

\* Writing a decision that continues the chain keeps the ledger sound.
LEMMA WrittenIsSound ==
    ASSUME LedgerInv, NEW t \in Threads, WriteDecision(t)
    PROVE  /\ IsFiniteSet(decisions') /\ LedgerIsSound'
           /\ \A d \in decisions' : Made(d.request)
<1> USE DEF LedgerInv
<1> DEFINE new == thread[t].decision
<1>1. Continues(new) /\ decisions' = decisions \cup {new}
  BY DEF WriteDecision
<1>2. new \notin decisions
  BY <1>1 DEF Continues
<1>3. new \in Decision
  BY DEF WriteDecision, At, ReviewTypeOK, Idle
<1>4. /\ IsFiniteSet(decisions') /\ Cardinality(decisions) \in Nat
      /\ Cardinality(decisions') = Cardinality(decisions) + 1
  BY <1>1, <1>2, FS_AddElement, FS_CardinalityType
<1>5. {d.sequence : d \in decisions'} = 1..Cardinality(decisions')
  <2>1. {d.sequence : d \in decisions'} = {d.sequence : d \in decisions} \cup {new.sequence}
    BY <1>1
  <2>2. {d.sequence : d \in decisions} = 1..Cardinality(decisions)
    BY DEF LedgerIsSound, ChainHolds
  <2>3. new.sequence = Cardinality(decisions) + 1
    BY <1>1 DEF Continues
  <2> QED
    <3>1. \A n \in Nat : 1..(n + 1) = (1..n) \cup {n + 1}
      OBVIOUS
    <3>2. {d.sequence : d \in decisions'} =
              (1..Cardinality(decisions)) \cup {Cardinality(decisions) + 1}
      BY <2>1, <2>2, <2>3
    <3> QED
      BY <1>4, <3>1, <3>2
<1>6. \A d \in decisions' :
        IF d.sequence = 1 THEN d.previous = 0
        ELSE \E e \in decisions' : e.sequence = d.sequence - 1 /\ e.request = d.previous
  <2> SUFFICES ASSUME NEW d \in decisions', d.sequence # 1 \/ d.previous # 0
               PROVE  /\ d.sequence # 1
                      /\ \E e \in decisions' : e.sequence = d.sequence - 1
                                               /\ e.request = d.previous
    OBVIOUS
  <2>1. CASE d \in decisions
    BY <1>1, <2>1 DEF LedgerIsSound, ChainHolds
  <2>2. CASE d = new
    BY <1>1, <2>2 DEF Continues
  <2> QED
    BY <1>1, <2>1, <2>2
<1>7. \A d, e \in decisions' : d.request = e.request => d = e
  BY <1>1 DEF Continues, LedgerIsSound
<1>8. \A d \in decisions' : Made(d.request)
  BY <1>1 DEF WriteDecision
<1> QED
  BY <1>4, <1>5, <1>6, <1>7, <1>8 DEF LedgerIsSound, ChainHolds

\* A request that was made is there for good, with the build it was made with.
LEMMA MadeStays ==
    ASSUME LedgerInv, LedgerStep, NEW q \in RequestIds, Made(q)
    PROVE  Made(q)' /\ requests'[q].generation = requests[q].generation
<1> USE DEF Made
<1>1. ASSUME NEW p \in RequestIds, NEW reading, PrepareReviewRequest(p, reading)
      PROVE  requests'[q] = requests[q]
  BY <1>1 DEF PrepareReviewRequest, LedgerInv, ReviewTypeOK
<1>2. ASSUME NEW t \in Threads, ConsumeRequest(t)
      PROVE  Made(q)' /\ requests'[q].generation = requests[q].generation
  BY <1>2 DEF ConsumeRequest, LedgerInv, ReviewTypeOK, Request
<1>3. CASE requests' = requests
  BY <1>3
<1>4. \/ requests' = requests
      \/ \E p \in RequestIds, reading \in Readings : PrepareReviewRequest(p, reading)
      \/ \E t \in Threads : ConsumeRequest(t)
  BY DEF LedgerStep, Step, ThreadStep, ProcessDies, ProposeRevision, CommitRevision,
     RejectRevision, Publish, CommitReviewDecision, WriteDecision, WriteFails, reviewVars
<1> QED
  BY <1>1, <1>2, <1>3, <1>4

\* Every step keeps the invariant.
LEMMA LedgerKept == LedgerInv /\ LedgerStep => LedgerInv'
<1> SUFFICES ASSUME LedgerInv, LedgerStep PROVE LedgerInv'
  OBVIOUS
<1> USE DEF LedgerInv
<1>1. /\ ReviewTypeOK'
      /\ \A q \in RequestIds :
             Made(q) => Made(q)' /\ requests'[q].generation = requests[q].generation
  BY TypesKept, MadeStays
<1>a. /\ \A d \in decisions : d.request \in RequestIds
      /\ \A t \in Threads : Committing(t) => thread[t].decision.request \in RequestIds
  BY DEF ReviewTypeOK, Decision, Committing, At, Idle
<1>2. ASSUME decisions' = decisions,
             \A s \in Threads : thread'[s] \in {thread[s], Idle}
      PROVE  LedgerInv'
  <2>1. /\ \A d \in decisions' : Made(d.request)'
        /\ \A t \in Threads : At(t, "decide")' => Made(thread[t].decision.request)'
    BY <1>1, <1>a, <1>2 DEF At, Idle, Committing, Made
  <2> QED
    BY <1>1, <1>2, <2>1 DEF Alone, Committing, At, Idle, Continues, LedgerIsSound, ChainHolds
<1>3. CASE UNCHANGED <<decisions, thread>>
  BY <1>2, <1>3
<1>4. CASE ProcessDies
  <2>1. decisions' = decisions /\ thread' = [s \in Threads |-> Idle]
    BY <1>4 DEF ProcessDies, CommitRevision
  <2> QED
    BY <1>2, <2>1
<1>5. ASSUME NEW t \in Threads, NEW q \in RequestIds, NEW v \in ALLOWED_DECISIONS,
             CommitReviewDecision(t, q, v)
      PROVE  LedgerInv'
  <2>1. /\ thread'[t].pc = "decide" /\ Continues(thread'[t].decision)
        /\ Made(thread'[t].decision.request)
        /\ \A s \in Threads \ {t} : thread'[s] = thread[s] /\ ~Committing(s)
        /\ decisions' = decisions /\ requests' = requests
    BY <1>5, PreparedContinues
  <2>2. Alone'
    BY <2>1 DEF Alone, Committing, At
  <2>3. \A s \in Threads : At(s, "decide")' => /\ Continues(thread[s].decision)'
                                               /\ Made(thread[s].decision.request)'
    BY <2>1 DEF Committing, At, Continues, Made
  <2> QED
    BY <1>1, <2>1, <2>2, <2>3 DEF LedgerIsSound, ChainHolds, Made
<1>6. ASSUME NEW t \in Threads, WriteDecision(t) PROVE LedgerInv'
  <2>1. /\ IsFiniteSet(decisions') /\ LedgerIsSound'
        /\ \A d \in decisions' : Made(d.request)'
    BY <1>6, WrittenIsSound DEF WriteDecision, Made
  <2>2. /\ Committing(t) /\ thread'[t].pc = "consume"
        /\ \A s \in Threads \ {t} : thread'[s] = thread[s]
    BY <1>6 DEF WriteDecision, Committing, At, ReviewTypeOK
  <2>3. \A s \in Threads \ {t} : ~Committing(s)
    BY <2>2 DEF Alone
  <2>4. Alone' /\ \A s \in Threads : ~At(s, "decide")'
    BY <2>2, <2>3 DEF Alone, Committing, At
  <2> QED
    BY <1>1, <2>1, <2>4
<1>7. ASSUME NEW t \in Threads, ConsumeRequest(t) \/ WriteFails(t) PROVE LedgerInv'
  <2>1. decisions' = decisions /\ thread' = [thread EXCEPT ![t] = Idle]
    BY <1>7 DEF ConsumeRequest, WriteFails
  <2>2. \A s \in Threads : thread'[s] \in {thread[s], Idle}
    BY <2>1 DEF ReviewTypeOK
  <2> QED
    BY <1>2, <2>1, <2>2
<1>8. CASE Step
  BY <1>3, <1>8 DEF Step, ProposeRevision, CommitRevision, RejectRevision, Publish,
     PrepareReviewRequest
<1>9. CASE UNCHANGED reviewVars
  BY <1>3, <1>9 DEF reviewVars
<1> QED
  BY <1>4, <1>5, <1>6, <1>7, <1>8, <1>9 DEF LedgerStep, ThreadStep

\* The invariant holds throughout.
LEMMA LedgerInvariant == FilingSpec => []LedgerInv
<1>1. FilingInit /\ ReviewTypeOK => LedgerInv
  BY FS_EmptySet DEF FilingInit, ReviewInit, LedgerInv, Alone, Committing, At, Idle,
     LedgerIsSound, ChainHolds
<1> QED
  BY <1>1, StepOfLedger, LedgerKept, ReviewTypes, PTL DEF FilingSpec

\* Whoever decides at once and wherever a decision is cut short, the ledger
\* verifies and each request is decided once.
THEOREM LedgerSound == FilingSpec => []LedgerIsSound
<1>1. LedgerInv => LedgerIsSound
  BY DEF LedgerInv
<1> QED
  BY <1>1, LedgerInvariant, PTL

-----------------------------------------------------------------------------
(* The packets. *)

\* What a packet says of the review it read: the decision is in the ledger, every
\* later one came after the ledger the packet verified, and the build it names is
\* that of the request.
Sourced(p) ==
    /\ p.head <= Cardinality(decisions)
    /\ p.decision # NoDecision =>
        /\ p.decision \in decisions
        /\ \A d \in decisions : d.sequence > p.decision.sequence => d.sequence > p.head
        /\ p.reviewed = requests[p.decision.request].generation

OfCommitted(p) == revisions[p.revision].status = "committed"

PacketInv ==
    /\ FilingTypeOK
    /\ LedgerInv
    /\ \A p \in builds : Sourced(p) /\ OfCommitted(p)
    /\ work # NoWork =>
        /\ OfCommitted(work.packet) /\ work.packet.head <= Cardinality(decisions)
        /\ work.pc \in {"document", "ledger"} => work.packet.decision = NoDecision
        /\ work.pc \in {"place", "point"} => Sourced(work.packet)
        /\ work.pc = "point" => work.packet \in builds
    /\ pointer # NoPacket => pointer \in builds

\* Decisions are only added, each numbered past the ones before it, and a
\* committed revision stays committed.
LEMMA LedgerGrows ==
    ASSUME LedgerInv, LedgerStep
    PROVE  /\ decisions \subseteq decisions'
           /\ \A d \in decisions' \ decisions : d.sequence = Cardinality(decisions) + 1
           /\ Cardinality(decisions) \in Nat /\ Cardinality(decisions') \in Nat
           /\ Cardinality(decisions) <= Cardinality(decisions')
           /\ \A r \in RevisionIds :
                  revisions[r].status = "committed" => revisions'[r].status = "committed"
<1> USE DEF LedgerInv
<1>1. Cardinality(decisions) \in Nat
  BY FS_CardinalityType
<1>2. \A r \in RevisionIds :
          revisions[r].status = "committed" => revisions'[r].status = "committed"
  BY DEF LedgerStep, Step, ThreadStep, ProcessDies, ProposeRevision, CommitRevision,
     RejectRevision, Publish, PrepareReviewRequest, CommitReviewDecision, WriteDecision,
     ConsumeRequest, WriteFails, reviewVars, workspaceVars, ReviewTypeOK, RevisionIds
<1>3. CASE decisions' = decisions
  BY <1>1, <1>2, <1>3
<1>4. ASSUME NEW t \in Threads, WriteDecision(t)
      PROVE  /\ decisions \subseteq decisions'
             /\ \A d \in decisions' \ decisions : d.sequence = Cardinality(decisions) + 1
             /\ Cardinality(decisions') = Cardinality(decisions) + 1
  <2>1. Continues(thread[t].decision) /\ decisions' = decisions \cup {thread[t].decision}
    BY <1>4 DEF WriteDecision
  <2>2. thread[t].decision \notin decisions
    BY <2>1 DEF Continues
  <2>3. Cardinality(decisions') = Cardinality(decisions) + 1
    BY <2>1, <2>2, FS_AddElement
  <2> QED
    BY <2>1, <2>3 DEF Continues
<1>5. decisions' = decisions \/ \E t \in Threads : WriteDecision(t)
  BY DEF LedgerStep, Step, ThreadStep, ProcessDies, ProposeRevision, CommitRevision,
     RejectRevision, Publish, PrepareReviewRequest, CommitReviewDecision,
     ConsumeRequest, WriteFails, reviewVars
<1> QED
  BY <1>1, <1>2, <1>3, <1>4, <1>5

\* A packet that was sound stays so while the ledger and the document go on.
LEMMA SourcedKept ==
    ASSUME LedgerInv, LedgerStep, NEW p \in Packet
    PROVE  /\ Sourced(p) => Sourced(p)'
           /\ OfCommitted(p) => OfCommitted(p)'
           /\ p.head <= Cardinality(decisions) => p.head <= Cardinality(decisions')
<1>1. p.head \in Nat /\ p.revision \in RevisionIds
  BY DEF Packet
<1>2. \A d \in decisions : requests'[d.request].generation = requests[d.request].generation
  BY MadeStays DEF LedgerInv, ReviewTypeOK, Decision
<1> QED
  BY <1>1, <1>2, LedgerGrows DEF Sourced, OfCommitted

\* Every step of a build keeps the types; so does what leaves the build alone.
LEMMA FilingTypesKept ==
    FilingTypeOK /\ LedgerInv /\ ReviewTypeOK' /\ [FilingNext]_filingVars => FilingTypeOK'
<1> SUFFICES ASSUME FilingTypeOK, LedgerInv, ReviewTypeOK', [FilingNext]_filingVars
             PROVE  FilingTypeOK'
  OBVIOUS
<1> USE DEF FilingTypeOK
<1>1. CASE UNCHANGED packetVars
  BY <1>1 DEF packetVars
<1>2. CASE Assign
  BY <1>2 DEF Assign, ReviewTypeOK
<1>3. CASE BuildBegin
  <2>1. ASSUME NEW reading \in {authority, Unverified}
        PROVE  [revision |-> current, generation |-> reading, head |-> 0,
                decision |-> NoDecision, reviewed |-> Unverified, reviewers |-> assigned]
               \in Packet
    BY DEF Packet, ReviewTypeOK, Readings
  <2> QED
    BY <1>3, <2>1 DEF BuildBegin, Goto, ReadsOnly
<1>4. CASE ReadLedger
  <2>1. work.packet \in Packet
    BY <1>4 DEF ReadLedger, Reading, NoWork
  <2>2. Cardinality(decisions) \in Nat
    BY FS_CardinalityType DEF LedgerInv
  <2>3. [work.packet EXCEPT !.head = Cardinality(decisions)] \in Packet
    BY <2>1, <2>2 DEF Packet
  <2> QED
    BY <1>4, <2>3 DEF ReadLedger, Goto, ReadsOnly
<1>5. CASE ReadDecision
  <2>1. work.packet \in Packet
    <3>1. Reading("ledger")
      BY <1>5 DEF ReadDecision
    <3> QED
      BY <3>1 DEF Reading, NoWork
  <2>2. ASSUME NEW d \in decisions
        PROVE  [work.packet EXCEPT !.decision = d,
                                   !.reviewed = requests[d.request].generation] \in Packet
    <3>1. d \in Decision /\ requests[d.request] \in Request
      BY DEF ReviewTypeOK, Decision
    <3> QED
      BY <2>1, <3>1 DEF Packet, Request
  <2>3. \E p \in Packet : Goto("place", p)
    <3>1. CASE Goto("place", work.packet)
      BY <2>1, <3>1
    <3>2. CASE \E d \in decisions :
                  Goto("place", [work.packet EXCEPT
                      !.decision = d, !.reviewed = requests[d.request].generation])
      BY <2>2, <3>2
    <3> QED
      BY <1>5, <3>1, <3>2 DEF ReadDecision
  <2>4. ReadsOnly
    BY <1>5 DEF ReadDecision
  <2> QED
    BY <2>3, <2>4 DEF Goto, ReadsOnly
<1>6. CASE FoundInPlace \/ BuildFails \/ Dies
  BY <1>6 DEF FoundInPlace, BuildFails, Dies
<1>7. CASE Place
  BY <1>7 DEF Place, Reading, NoWork, Goto
<1>8. CASE Point
  BY <1>8 DEF Point, Reading, NoWork
<1> QED
  BY <1>1, <1>2, <1>3, <1>4, <1>5, <1>6, <1>7, <1>8 DEF FilingNext, filingVars, packetVars

\* Packets, pointer and the build under way are of their types.
THEOREM FilingTypes == FilingSpec => []FilingTypeOK
<1>1. FilingInit /\ ReviewTypeOK => FilingTypeOK
  BY DEF FilingInit, FilingTypeOK
<1> QED
  BY <1>1, FilingTypesKept, LedgerInvariant, ReviewTypes, PTL DEF FilingSpec

\* A packet nothing blocks carries an approving decision of its own revision, and
\* names one build, unless it names none at one of two places.
LEMMA ClearedHasApproval ==
    ASSUME NEW p, WorkflowBlockers(p) = {}
    PROVE  /\ p.decision # NoDecision /\ p.decision.revision = p.revision
           /\ p.decision.verdict = "approve_review"
           /\ p.reviewed = p.generation \/ Unverified \in {p.reviewed, p.generation}
<1>1. p.decision # NoDecision
  <2> SUFFICES ASSUME p.decision = NoDecision PROVE "decision_missing" \in WorkflowBlockers(p)
    OBVIOUS
  <2> QED
    BY DEF WorkflowBlockers
<1>2. p.decision.revision = p.revision
  <2> SUFFICES ASSUME p.decision.revision # p.revision
               PROVE  "review_stale" \in WorkflowBlockers(p)
    OBVIOUS
  <2> QED
    BY <1>1 DEF WorkflowBlockers
<1>3. p.decision.verdict = "approve_review"
  <2> SUFFICES ASSUME p.decision.verdict # "approve_review"
               PROVE  "not_approval" \in WorkflowBlockers(p)
    OBVIOUS
  <2> QED
    BY <1>1 DEF WorkflowBlockers
<1>4. p.reviewed = p.generation \/ Unverified \in {p.reviewed, p.generation}
  <2> SUFFICES ASSUME p.reviewed # p.generation, Unverified \notin {p.reviewed, p.generation}
               PROVE  "generation_changed" \in WorkflowBlockers(p)
    OBVIOUS
  <2> QED
    BY DEF WorkflowBlockers
<1> QED
  BY <1>1, <1>2, <1>3, <1>4

\* A step that the review takes leaves packets, pointer and build sound.
LEMMA PacketsKept ==
    ASSUME PacketInv, LedgerStep, FilingTypeOK', LedgerInv',
           UNCHANGED <<builds, pointer>>, work' = work \/ work' = NoWork
    PROVE  PacketInv'
<1> USE DEF PacketInv
<1>1. builds \subseteq Packet /\ (work # NoWork => work.packet \in Packet)
  BY DEF FilingTypeOK
<1>2. \A p \in builds : Sourced(p)' /\ OfCommitted(p)'
  BY <1>1, SourcedKept
<1>3. CASE work' = NoWork
  BY <1>2, <1>3
<1>4. CASE work # NoWork /\ work' = work
  <2>1. /\ OfCommitted(work.packet)' /\ work.packet.head <= Cardinality(decisions')
        /\ Sourced(work.packet) => Sourced(work.packet)'
    BY <1>1, <1>4, SourcedKept
  <2> QED
    BY <1>2, <1>4, <2>1
<1> QED
  BY <1>3, <1>4

\* Every step keeps the packets sound.
LEMMA PacketInvKept ==
    PacketInv /\ FilingTypeOK' /\ LedgerInv' /\ [FilingNext]_filingVars => PacketInv'
<1> SUFFICES ASSUME PacketInv, FilingTypeOK', LedgerInv', [FilingNext]_filingVars
             PROVE  PacketInv'
  OBVIOUS
<1>0. LedgerStep
  BY StepOfLedger
<1>1. CASE UNCHANGED packetVars
  BY <1>0, <1>1, PacketsKept DEF packetVars
<1>2. CASE Assign \/ BuildFails \/ Dies \/ FoundInPlace
  BY <1>0, <1>2, PacketsKept DEF Assign, BuildFails, Dies, FoundInPlace
<1>3. CASE BuildBegin
  <2>1. /\ \E reading \in Readings : work' = [pc |-> "document", packet |->
              [revision |-> current, generation |-> reading, head |-> 0,
               decision |-> NoDecision, reviewed |-> Unverified, reviewers |-> assigned]]
        /\ UNCHANGED <<builds, pointer, decisions, revisions, requests>>
    BY <1>3 DEF BuildBegin, Goto, ReadsOnly, reviewVars, Readings, PacketInv, LedgerInv,
       ReviewTypeOK
  <2>2. revisions[current].status = "committed" /\ Cardinality(decisions) \in Nat
    BY FS_CardinalityType DEF PacketInv, LedgerInv, ReviewTypeOK
  <2> QED
    BY <2>1, <2>2 DEF PacketInv, OfCommitted, Sourced
<1>4. CASE ReadLedger
  <2>1. /\ Reading("document")
        /\ work' = [pc |-> "ledger",
                    packet |-> [work.packet EXCEPT !.head = Cardinality(decisions)]]
        /\ UNCHANGED <<builds, pointer, decisions, revisions, requests>>
    BY <1>4 DEF ReadLedger, Goto, ReadsOnly, reviewVars
  <2>2. work # NoWork /\ work.packet \in Packet /\ Cardinality(decisions) \in Nat
    BY <2>1, FS_CardinalityType DEF Reading, NoWork, PacketInv, FilingTypeOK, LedgerInv
  <2>3. /\ work'.packet.revision = work.packet.revision
        /\ work'.packet.decision = work.packet.decision
        /\ work'.packet.head = Cardinality(decisions)
    BY <2>1, <2>2 DEF Packet
  <2> QED
    BY <2>1, <2>2, <2>3 DEF PacketInv, OfCommitted, Sourced, Reading
<1>5. CASE ReadDecision
  <2>1. Reading("ledger") /\ UNCHANGED <<builds, pointer, decisions, revisions, requests>>
    BY <1>5 DEF ReadDecision, ReadsOnly, reviewVars
  <2>2. work # NoWork /\ work.packet \in Packet /\ work.packet.decision = NoDecision
    BY <2>1 DEF Reading, NoWork, PacketInv, FilingTypeOK
  <2>3. CASE Goto("place", work.packet)
    BY <2>1, <2>2, <2>3 DEF PacketInv, OfCommitted, Sourced, Goto
  <2>4. ASSUME NEW d \in decisions, Latest(d),
               Goto("place", [work.packet EXCEPT
                   !.decision = d, !.reviewed = requests[d.request].generation])
        PROVE  PacketInv'
    <3>1. /\ work'.pc = "place"
          /\ work'.packet.revision = work.packet.revision
          /\ work'.packet.head = work.packet.head
          /\ work'.packet.decision = d
          /\ work'.packet.reviewed = requests[d.request].generation
      BY <2>2, <2>4 DEF Goto, Packet
    <3>2. \A e \in decisions : ~(e.sequence > d.sequence)
      BY <2>4 DEF Latest, PacketInv, LedgerInv, ReviewTypeOK, Decision
    <3> QED
      BY <2>1, <2>2, <3>1, <3>2 DEF PacketInv, OfCommitted, Sourced
  <2> QED
    BY <1>5, <2>3, <2>4 DEF ReadDecision
<1>6. CASE Place
  BY <1>6 DEF Place, PacketInv, Goto, Reading, NoWork, OfCommitted, Sourced, reviewVars
<1>7. CASE Point
  BY <1>7 DEF Point, PacketInv, Reading, NoWork, OfCommitted, Sourced, reviewVars
<1> QED
  BY <1>1, <1>2, <1>3, <1>4, <1>5, <1>6, <1>7 DEF FilingNext, filingVars, packetVars

LEMMA PacketInvariant == FilingSpec => []PacketInv
<1>1. FilingInit /\ FilingTypeOK /\ LedgerInv => PacketInv
  BY DEF FilingInit, PacketInv
<1> QED
  BY <1>1, PacketInvKept, FilingTypes, LedgerInvariant, PTL DEF FilingSpec

\* What clears a packet is an approval of its own revision, the latest of every
\* ledger it can have seen, of a request that was prepared with the packet's own
\* authority build, unless the product did not verify for one of the two.
THEOREM PacketsCleared == FilingSpec => []ClearedByTheLatest
<1>1. PacketInv => ClearedByTheLatest
  BY ClearedHasApproval DEF PacketInv, ClearedByTheLatest, Sourced
<1> QED
  BY <1>1, PacketInvariant, PTL

\* The pointer names a packet in place, of a committed revision.
THEOREM PointerInPlace == FilingSpec => []PointerHasItsPacket
<1>1. PacketInv => PointerHasItsPacket
  BY DEF PacketInv, PointerHasItsPacket, OfCommitted
<1> QED
  BY <1>1, PacketInvariant, PTL
=============================================================================
