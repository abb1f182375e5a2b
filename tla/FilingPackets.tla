---------------------------- MODULE FilingPackets ----------------------------
(***************************************************************************)
(* Reviewed filing packets (ReviewedFilingPacketStore, filing_packet.py)   *)
(* over the document and its review ledger.                                *)
(*                                                                         *)
(* build puts together what it reads from the workspace, the ledger and    *)
(* the assignments, one read after another: its own lock keeps other       *)
(* builds and assignments out and neither edits nor reviews.  The packet   *)
(* is immutable, named for what it says, and written to a directory of     *)
(* that name; then the pointer of the document is replaced.                *)
(*                                                                         *)
(* Of the blockers of a packet the model has the workflow blockers that    *)
(* other actors can change under a build; forms, records and the contents  *)
(* of the gate are left out.  The matter-wide pointer, which is written    *)
(* just before the document's, is read by nobody and left out.             *)
(***************************************************************************)
EXTENDS ReviewLedger

CONSTANT MaxBuilds    \* bound: packets

ASSUME PacketConstants == MaxBuilds \in Nat \ {0}

VARIABLES
    assigned,  \* the revisions with an active reviewer assignment
    builds,    \* builds/: the packets, by their contents
    pointer,   \* ACTIVE_<document>.json: the packet it names, or NoPacket
    work       \* the build that holds the lock, or NoWork

packetVars == <<assigned, builds, pointer, work>>
filingVars == <<reviewVars, packetVars>>

NoDecision == [sequence |-> 0]
NoPacket == [revision |-> 0]

Packet == [revision : RevisionIds,
           generation : Readings,               \* the build that verified as the active one
           head : Nat,                          \* decisions in the ledger it verified
           decision : Decision \cup {NoDecision},
           reviewed : Readings,                 \* the build the review was prepared with
           reviewers : SUBSET RevisionIds]
NoWork == [pc |-> "none"]

FilingInit ==
    /\ ReviewInit
    /\ assigned = {} /\ builds = {} /\ pointer = NoPacket /\ work = NoWork

\* The blockers of a packet that review and assignment account for.
WorkflowBlockers(p) ==
    {b \in {"decision_missing", "review_stale", "not_approval", "generation_changed",
            "assignment_missing"} :
        CASE b = "decision_missing" -> p.decision = NoDecision
          [] b = "review_stale" -> p.decision # NoDecision /\ p.decision.revision # p.revision
          [] b = "not_approval" -> p.decision # NoDecision /\ p.decision.verdict # "approve_review"
          [] b = "generation_changed" ->
                Unverified \notin {p.reviewed, p.generation} /\ p.reviewed # p.generation
          [] b = "assignment_missing" -> p.reviewers = {}}

-----------------------------------------------------------------------------

\* An exclusive assignment of the revision the caller saw.
Assign ==
    /\ work = NoWork
    /\ current \notin assigned
    /\ assigned' = assigned \cup {current}
    /\ UNCHANGED <<reviewVars, builds, pointer, work>>

Reading(pc) == work.pc = pc
Goto(pc, p) == work' = [pc |-> pc, packet |-> p]
ReadsOnly == UNCHANGED <<reviewVars, assigned, builds, pointer>>

\* Bound: when there are MaxBuilds packets, only a build is begun that may still
\* find its own in place; any other would stop in front of Place.
CanEnd(reading) ==
    \/ Cardinality(builds) < MaxBuilds
    \/ \E p \in builds : /\ p.revision = current /\ p.generation = reading
                         /\ p.reviewers = assigned

\* The route asks for the active generation and gets none when the product does
\* not verify, build for the document; what it reads of the assignments cannot
\* change before it is done.
BuildBegin ==
    /\ work = NoWork
    /\ \E reading \in {authority, Unverified} :
           /\ CanEnd(reading)
           /\ Goto("document", [revision |-> current, generation |-> reading, head |-> 0,
                                decision |-> NoDecision, reviewed |-> Unverified,
                                reviewers |-> assigned])
    /\ ReadsOnly

\* verify_review_ledger and list_review_history wait for a review in progress.
ReadLedger ==
    /\ Reading("document") /\ LedgerFree
    /\ Goto("ledger", [work.packet EXCEPT !.head = Cardinality(decisions)])
    /\ ReadsOnly

\* _latest_review_context
ReadDecision ==
    /\ Reading("ledger") /\ LedgerFree
    /\ \/ decisions = {} /\ Goto("place", work.packet)
       \/ \E d \in decisions :
            /\ Latest(d)
            /\ Goto("place", [work.packet EXCEPT
                   !.decision = d, !.reviewed = requests[d.request].generation])
    /\ ReadsOnly

\* A packet that says the same is in place: it is the answer, and the pointer
\* of the document stays where it is.
FoundInPlace ==
    /\ Reading("place") /\ work.packet \in builds
    /\ work' = NoWork
    /\ UNCHANGED <<reviewVars, assigned, builds, pointer>>

Place ==
    /\ Reading("place") /\ work.packet \notin builds /\ Cardinality(builds) < MaxBuilds
    /\ builds' = builds \cup {work.packet}
    /\ Goto("point", work.packet)
    /\ UNCHANGED <<reviewVars, assigned, pointer>>

\* Deviation: the pointer is written before the packet is in place.
PointFirst ==
    /\ Reading("place") \/ Reading("point")
    /\ pointer' = work.packet
    /\ UNCHANGED <<reviewVars, assigned, builds, work>>

Point ==
    /\ Reading("point")
    /\ pointer' = work.packet
    /\ work' = NoWork
    /\ UNCHANGED <<reviewVars, assigned, builds>>

\* A read or a write raises; the staging directory is removed.
BuildFails ==
    /\ work # NoWork
    /\ work' = NoWork
    /\ UNCHANGED <<reviewVars, assigned, builds, pointer>>

Dies ==
    /\ ProcessDies
    /\ work' = NoWork
    /\ UNCHANGED <<assigned, builds, pointer>>

FilingNext ==
    \/ (Step \/ \E t \in Threads : ThreadStep(t)) /\ UNCHANGED packetVars
    \/ Assign
    \/ BuildBegin \/ ReadLedger \/ ReadDecision
    \/ FoundInPlace \/ Place \/ Point \/ BuildFails
    \/ Dies

FilingSpec == FilingInit /\ [][FilingNext]_filingVars

-----------------------------------------------------------------------------
(* Properties. *)

FilingTypeOK ==
    /\ ReviewTypeOK
    /\ assigned \subseteq RevisionIds
    /\ builds \subseteq Packet
    /\ pointer \in Packet \cup {NoPacket}
    /\ work = NoWork \/ work \in [pc : {"document", "ledger", "place", "point"}, packet : Packet]

\* A packet that nothing blocks rests on an approval of its own revision which
\* is the last word of every ledger it can have seen: edits and reviews between
\* its reads can block it and cannot clear it.  The approved request was prepared
\* with the build that the packet was built with, or one of the two knew of no
\* build: no publication is passed over, but an authority product that does not
\* verify is, at either end.
ClearedByTheLatest ==
    \A p \in builds :
        WorkflowBlockers(p) = {} =>
            /\ p.decision \in decisions
            /\ p.decision.verdict = "approve_review" /\ p.decision.revision = p.revision
            /\ \A d \in decisions : d.sequence > p.decision.sequence => d.sequence > p.head
            /\ LET prepared == requests[p.decision.request].generation
               IN  prepared = p.generation \/ Unverified \in {prepared, p.generation}

\* Wherever a build is cut short, the pointer of the document names a packet
\* that is in place, and one of the document as it was at some build: its
\* revision was committed.
PointerHasItsPacket ==
    pointer # NoPacket =>
        /\ pointer \in builds
        /\ revisions[pointer.revision].status = "committed"
=============================================================================
