------------------------ MODULE DeliberationProofs ------------------------
(***************************************************************************)
(* Proofs about the deliberation host and its broker (Deliberation).       *)
(*                                                                         *)
(* The one lock makes the work at hand the only writer of a run, but for   *)
(* the readings, which write back what they read.  So the invariant says   *)
(* what the work and the readings know of the disk: until an older copy    *)
(* was written back ("undone" in past), the work's document is the one on  *)
(* disk whenever it is about to act, and a reading that is not stale       *)
(* writes what is there already.  Everything else follows the document     *)
(* from the act to the save: which phase a start is in, which positions    *)
(* were verified, which status comes next.                                 *)
(*                                                                         *)
(* A lemma named ...Moves says what an operation does to the work at hand; *)
(* one named ...Kept that every step keeps a part of the invariant.        *)
(***************************************************************************)
EXTENDS Deliberation, TLAPS

-----------------------------------------------------------------------------
(* What the helpers of the actions do. *)

WorkAt(pcs) == work # NoWork /\ work.pc \in pcs

\* The six phases are different statuses.
LEMMA PhasesAre ==
    /\ DOMAIN Phases = 1..6
    /\ \A i \in 1..6 : Phases[i] \in MidPhases
    /\ \A i \in 2..6 : Phases[i] # Phases[1]
    /\ MidPhases = {"running_independent", "aligning_claims", "cross_review", "rebuttal",
                    "omission_hunt", "final_positions"}
    /\ Phases[1] = "running_independent" /\ Phases[6] = "final_positions"
<1>1. DOMAIN Phases = 1..6
  BY DEF Phases
<1>2. /\ Phases[1] = "running_independent" /\ Phases[2] = "aligning_claims"
      /\ Phases[3] = "cross_review" /\ Phases[4] = "rebuttal"
      /\ Phases[5] = "omission_hunt" /\ Phases[6] = "final_positions"
  BY DEF Phases
<1>3. \A i \in 1..6 : i = 1 \/ i = 2 \/ i = 3 \/ i = 4 \/ i = 5 \/ i = 6
  OBVIOUS
<1>4. MidPhases = {Phases[1], Phases[2], Phases[3], Phases[4], Phases[5], Phases[6]}
  BY <1>1, <1>3 DEF MidPhases
<1> QED
  BY <1>1, <1>2, <1>3, <1>4

\* What is to be saved is what the operation hands over.
LEMMA SavingMoves ==
    ASSUME work \in Work, NEW doc \in Doc, NEW round \in 0..MaxRounds,
           NEW then \in {"act", "respond", "done"}
    PROVE  LET next == Saving(doc, round, then)
           IN  /\ next \in Work /\ next # NoWork
               /\ next.op = work.op /\ next.pc = "save" /\ next.then = then
               /\ next.doc = doc /\ next.sides = round /\ next.round = work.round
BY DEF Work, Saving, NoWork, Ops

\* The parts of the work at hand.
LEMMA WorkIs ==
    ASSUME DeliberationTypeOK, work # NoWork
    PROVE  /\ work \in Work /\ work.op \in Ops /\ work.doc \in Doc /\ work.sides \in 0..MaxRounds
           /\ work.round \in 0..(MaxRounds + 1) /\ work.then \in {"act", "respond", "done"}
           /\ work.pc \in {"read", "sides", "act", "save", "saveSides"}
           /\ work.doc.status \in Statuses
BY DEF DeliberationTypeOK, Work, Doc

\* An operation acts on the work at hand.
LEMMA DoingIs ==
    ASSUME DeliberationTypeOK, NEW op \in Ops, Doing(op)
    PROVE  work # NoWork /\ work.op = op /\ work.pc = "act"
BY DEF Doing, NoWork, Ops

\* A save makes every reading under way stale and leaves it otherwise alone.
LEMMA StaleMoves ==
    ASSUME DeliberationTypeOK
    PROVE  /\ NowStale \in [Readers -> Reading \cup {NoReading}]
           /\ \A d \in Readers :
                /\ NowStale[d] # NoReading => readers[d] # NoReading /\ NowStale[d].stale
                /\ NowStale[d] # NoReading => /\ NowStale[d].pc = readers[d].pc
                                              /\ NowStale[d].doc = readers[d].doc
<1> DEFINE New(d) == IF readers[d] = NoReading THEN NoReading
                     ELSE [readers[d] EXCEPT !.stale = TRUE]
<1>1. NowStale = [d \in Readers |-> New(d)]
  BY DEF NowStale
<1>2. ASSUME NEW d \in Readers
      PROVE  /\ New(d) \in Reading \cup {NoReading}
             /\ New(d) # NoReading => /\ readers[d] # NoReading /\ New(d).stale
                                      /\ New(d).pc = readers[d].pc /\ New(d).doc = readers[d].doc
  BY DEF DeliberationTypeOK, Reading
<1> HIDE DEF New
<1> QED
  BY <1>1, <1>2

\* A draft is a run, and not an absent one.
LEMMA FirstDocs ==
    /\ Draft \in Doc /\ Absent \in Doc /\ Absent.status = "absent"
    /\ Draft.status = "draft_scope" /\ Absent # Draft
BY DeliberationConstants DEF Draft, Absent, Doc, Statuses, Scopes

\* What is noted is something that can happen to a run.
LEMMA NoteIs ==
    ASSUME DeliberationTypeOK, NEW events \in SUBSET Past
    PROVE  Note(events) \subseteq Past
BY DEF Note, DeliberationTypeOK

\* After saving, the work goes on with what it saved, or answers, or is over.
LEMMA SavedMoves ==
    ASSUME DeliberationTypeOK, WorkAt({"saveSides"})
    PROVE  /\ AfterSaving \in Work \cup {NoWork}
           /\ AfterSaving # NoWork =>
                /\ AfterSaving.op = work.op /\ AfterSaving.doc = work.doc
                /\ AfterSaving.sides = work.sides /\ AfterSaving.round = work.round
                /\ \/ work.then = "act" /\ AfterSaving.pc = "act" /\ AfterSaving.then = "act"
                   \/ /\ work.then = "respond"
                      /\ AfterSaving.pc = "save" /\ AfterSaving.then = "done"
           /\ AfterSaving = NoWork <=> work.then = "done"
<1>1. work \in Work /\ work.then \in {"act", "respond", "done"}
  BY WorkIs DEF WorkAt
<1>2. CASE work.then = "act"
  <2>1. AfterSaving = [work EXCEPT !.pc = "act"]
    BY <1>2 DEF AfterSaving
  <2> QED
    BY <1>1, <1>2, <2>1 DEF Work, NoWork, Ops
<1>3. CASE work.then = "respond"
  <2>1. AfterSaving = [work EXCEPT !.pc = "save", !.then = "done"]
    BY <1>3 DEF AfterSaving
  <2> QED
    BY <1>1, <1>3, <2>1 DEF Work, NoWork, Ops
<1>4. CASE work.then = "done"
  BY <1>4 DEF AfterSaving
<1> QED
  BY <1>1, <1>2, <1>3, <1>4

\* A capped count stays below its cap.
LEMMA CappedIs ==
    ASSUME NEW n \in Nat, NEW most \in Nat PROVE Capped(n, most) \in 0..most
BY DEF Capped

\* The count of calls stays below its cap.
LEMMA CountedIs ==
    ASSUME DeliberationTypeOK, Counted PROVE calls' \in 0..CallLimit
<1>1. calls + 1 \in Nat /\ CallLimit \in Nat
  BY DeliberationConstants DEF DeliberationTypeOK
<1> QED
  BY <1>1, CappedIs DEF Counted

\* What a round does.
Worked(asked) ==
    LET tools == Capped(work.doc.tools + asked, ToolLimit + 1)
    IN  \/ /\ tools <= ToolLimit
           /\ work' = [Saving([work.doc EXCEPT !.status = Phases[work.round + 1],
                                               !.tools = tools], work.round, "act")
                       EXCEPT !.round = @ + 1]
        \/ /\ asked = 0 \/ tools > ToolLimit
           /\ work' = Saving([work.doc EXCEPT !.status = "budget_exhausted",
                                              !.tools = tools], work.sides, "respond")

\* A round ends in its next phase, with its own positions, or with the budget spent
\* and the positions of the round before.
LEMMA RoundMoves ==
    ASSUME DeliberationTypeOK, work # NoWork, work.round \in 1..MaxRounds,
           NEW asked \in 0..1, Worked(asked)
    PROVE  /\ work' \in Work /\ work' # NoWork /\ work'.op = work.op /\ work'.pc = "save"
           /\ \/ /\ work'.then = "act" /\ work'.sides = work.round
                 /\ work'.round = work.round + 1 /\ work'.doc.status = Phases[work'.round]
              \/ /\ work'.then = "respond" /\ work'.sides = work.sides
                 /\ work'.round = work.round /\ work'.doc.status = "budget_exhausted"
<1> DEFINE tools == Capped(work.doc.tools + asked, ToolLimit + 1)
<1>1. work \in Work /\ work.doc \in Doc /\ work.sides \in 0..MaxRounds
  BY WorkIs
<1>2. tools \in 0..(ToolLimit + 1)
  <2>1. work.doc.tools \in 0..(ToolLimit + 1)
    BY <1>1 DEF Doc
  <2>2. work.doc.tools + asked \in Nat /\ ToolLimit + 1 \in Nat
    BY <2>1, DeliberationConstants
  <2> QED
    BY <2>2, CappedIs
<1>3. work.round + 1 \in 1..6 /\ work.round \in 0..MaxRounds /\ work.round \in Nat
  BY DeliberationConstants
<1>4. Phases[work.round + 1] \in Statuses /\ "budget_exhausted" \in Statuses
  BY <1>3, PhasesAre DEF Statuses
<1> HIDE DEF tools
<1>5. CASE work' = [Saving([work.doc EXCEPT !.status = Phases[work.round + 1], !.tools = tools],
                           work.round, "act") EXCEPT !.round = @ + 1]
  <2> DEFINE doc == [work.doc EXCEPT !.status = Phases[work.round + 1], !.tools = tools]
             next == Saving(doc, work.round, "act")
  <2>1. doc \in Doc /\ doc.status = Phases[work.round + 1]
    BY <1>1, <1>2, <1>4 DEF Doc
  <2> HIDE DEF doc
  <2>2. /\ next \in Work /\ next.op = work.op /\ next.pc = "save" /\ next.then = "act"
        /\ next.doc = doc /\ next.sides = work.round /\ next.round = work.round
    BY <1>1, <1>3, <2>1, SavingMoves
  <2>3. work' = [next EXCEPT !.round = @ + 1]
    BY <1>5 DEF doc
  <2> HIDE DEF next
  <2>4. work.round + 1 \in 0..(MaxRounds + 1)
    BY <1>3, DeliberationConstants
  <2> QED
    BY <2>1, <2>2, <2>3, <2>4 DEF Work, NoWork, Ops
<1>6. CASE work' = Saving([work.doc EXCEPT !.status = "budget_exhausted", !.tools = tools],
                          work.sides, "respond")
  <2> DEFINE doc == [work.doc EXCEPT !.status = "budget_exhausted", !.tools = tools]
  <2>1. doc \in Doc /\ doc.status = "budget_exhausted"
    BY <1>1, <1>2, <1>4 DEF Doc
  <2>2. work' = Saving(doc, work.sides, "respond")
    BY <1>6
  <2> HIDE DEF doc
  <2> QED
    BY <1>1, <2>1, <2>2, SavingMoves
<1> QED
  BY <1>5, <1>6 DEF Worked, tools

-----------------------------------------------------------------------------
(* What the operations that save do to the work at hand. *)

Saves(op, then, status) ==
    /\ work # NoWork /\ work.pc = "act"
    /\ work' \in Work /\ work' # NoWork /\ work'.pc = "save"
    /\ work'.op = op /\ work'.then = then /\ work'.doc.status = status
    /\ UNCHANGED <<file, sides, readers>>

\* Saving the run file puts the work's document there.
LEMMA FileMoves ==
    ASSUME DeliberationTypeOK, SaveFile
    PROVE  /\ work # NoWork /\ work.pc = "save" /\ work \in Work
           /\ work' # NoWork /\ work'.pc = "saveSides" /\ file' = work.doc
           /\ work'.op = work.op /\ work'.then = work.then /\ work'.doc = work.doc
           /\ work'.sides = work.sides /\ work'.round = work.round
           /\ readers' = NowStale /\ UNCHANGED <<sides, checked>>
<1>1. work # NoWork /\ work \in Work /\ work' = [work EXCEPT !.pc = "saveSides"]
  BY WorkIs DEF SaveFile
<1>2. /\ work'.op = work.op /\ work'.pc = "saveSides" /\ work'.then = work.then
      /\ work'.doc = work.doc /\ work'.sides = work.sides /\ work'.round = work.round
  BY <1>1 DEF Work
<1>3. work' # NoWork
  BY <1>1, <1>2 DEF Work, Ops, NoWork
<1> QED
  BY <1>1, <1>2, <1>3 DEF SaveFile

\* A confirmation saves a run that waits, and answers.
LEMMA ConfirmMoves ==
    ASSUME DeliberationTypeOK, NEW scope \in {"full", "narrow"}, ConfirmRun(scope)
    PROVE  /\ Saves("confirm", "respond", "awaiting_local_confirmation") /\ UNCHANGED past
           /\ work.op = "confirm" /\ work'.sides = work.sides
           /\ work.doc.status \in Confirmable
<1> DEFINE doc == [work.doc EXCEPT !.status = "awaiting_local_confirmation", !.scope = scope]
<1>1. /\ work # NoWork /\ work.op = "confirm" /\ work.pc = "act" /\ work \in Work
      /\ work.doc \in Doc /\ work.sides \in 0..MaxRounds
  BY DoingIs, WorkIs DEF ConfirmRun, Ops
<1>2. doc \in Doc /\ doc.status = "awaiting_local_confirmation"
  BY <1>1 DEF Doc, Statuses, Scopes
<1>3. work' = Saving(doc, work.sides, "respond")
  BY DEF ConfirmRun
<1> HIDE DEF doc
<1> QED
  BY <1>1, <1>2, <1>3, SavingMoves DEF ConfirmRun, Saves

\* A settled run is saved as it is.
LEMMA AnswerMoves ==
    ASSUME DeliberationTypeOK, AnswerSettled
    PROVE  /\ Saves(work.op, "done", work.doc.status) /\ UNCHANGED past
           /\ work.op \in {"start", "cancel"} /\ work'.doc = work.doc /\ work'.sides = work.sides
           /\ work.doc.status \in Settled
BY SavingMoves, DoingIs, WorkIs DEF AnswerSettled, Ops, Saves

\* A start that begins saves the first phase.
LEMMA BeginMoves ==
    ASSUME DeliberationTypeOK, Begin
    PROVE  /\ Saves("advance", "act", Phases[1]) /\ UNCHANGED past
           /\ work.op = "start" /\ work'.sides = work.sides /\ work'.round = 1
           /\ work.doc.status = "awaiting_local_confirmation"
<1> DEFINE doc == [work.doc EXCEPT !.status = Phases[1]]
           next == Saving(doc, work.sides, "act")
<1>0. work \in Work /\ work.doc \in Doc /\ work.sides \in 0..MaxRounds
  BY DoingIs, WorkIs DEF Begin, Ops
<1>4. doc \in Doc /\ doc.status = Phases[1]
  BY <1>0, PhasesAre DEF Doc, Statuses
<1>2. work' = [next EXCEPT !.op = "advance", !.round = 1]
  BY DEF Begin
<1> HIDE DEF doc
<1>1. /\ next \in Work /\ next.pc = "save" /\ next.then = "act" /\ next.doc = doc
      /\ next.sides = work.sides
  BY <1>0, <1>4, SavingMoves
<1> HIDE DEF next
<1>3. /\ work'.op = "advance" /\ work'.round = 1 /\ work'.pc = next.pc /\ work'.then = next.then
      /\ work'.doc = next.doc /\ work'.sides = next.sides
  BY <1>1, <1>2 DEF Work
<1>5. 1 \in 0..(MaxRounds + 1) /\ "advance" \in Ops
  BY DeliberationConstants DEF Ops
<1>6. work' \in Work
  BY <1>1, <1>2, <1>5 DEF Work
<1> QED
  BY <1>1, <1>3, <1>4, <1>6, DoingIs DEF Begin, Saves, Ops, NoWork, Startable

\* A round is RoundMoves' round, on the work at hand.
LEMMA RoundWorks ==
    ASSUME DeliberationTypeOK, Round
    PROVE  /\ work.op = "advance" /\ work.round \in 1..MaxRounds /\ UNCHANGED past
           /\ \/ /\ Saves("advance", "act", Phases[work.round + 1])
                 /\ work'.sides = work.round /\ work'.round = work.round + 1
              \/ /\ Saves("advance", "respond", "budget_exhausted")
                 /\ work'.sides = work.sides /\ work'.round = work.round
<1>1. work # NoWork /\ work.op = "advance" /\ work.pc = "act" /\ work.round \in 1..MaxRounds
  BY DoingIs DEF Round, Ops
<1>2. PICK asked \in 0..1 : Worked(asked)
  BY DEF Round, Worked
<1> QED
  BY <1>1, <1>2, RoundMoves DEF Round, Saves

\* After the last round the run is moved to its final positions.
LEMMA FinalMoves ==
    ASSUME DeliberationTypeOK, FinalPositions
    PROVE  /\ Saves("advance", "act", "final_positions") /\ UNCHANGED past
           /\ work.op = "advance" /\ work.round = MaxRounds + 1
           /\ work'.sides = work.sides /\ work'.round = work.round
           /\ work.doc.status # "final_positions"
<1> DEFINE doc == [work.doc EXCEPT !.status = "final_positions"]
<1>1. /\ work # NoWork /\ work.op = "advance" /\ work.pc = "act" /\ work \in Work
      /\ work.doc \in Doc /\ work.sides \in 0..MaxRounds
  BY DoingIs, WorkIs DEF FinalPositions, Ops
<1>2. doc \in Doc /\ doc.status = "final_positions"
  BY <1>1, PhasesAre DEF Doc, Statuses
<1>3. work' = Saving(doc, work.sides, "act")
  BY DEF FinalPositions
<1> HIDE DEF doc
<1> QED
  BY <1>1, <1>2, <1>3, SavingMoves DEF FinalPositions, Saves

\* A cancellation saves a cancelled run, and answers.
LEMMA CancelMoves ==
    ASSUME DeliberationTypeOK, CancelRun
    PROVE  /\ Saves("cancel", "respond", "cancelled") /\ UNCHANGED past
           /\ work.op = "cancel" /\ work'.sides = work.sides
           /\ work.doc.status \notin Settled
<1> DEFINE doc == [work.doc EXCEPT !.status = "cancelled"]
<1>1. /\ work # NoWork /\ work.op = "cancel" /\ work.pc = "act" /\ work \in Work
      /\ work.doc \in Doc /\ work.sides \in 0..MaxRounds
  BY DoingIs, WorkIs DEF CancelRun, Ops
<1>2. doc \in Doc /\ doc.status = "cancelled"
  BY <1>1 DEF Doc, Statuses, Settled
<1>3. work' = Saving(doc, work.sides, "respond")
  BY DEF CancelRun
<1> HIDE DEF doc
<1> QED
  BY <1>1, <1>2, <1>3, SavingMoves DEF CancelRun, Saves

\* A verification that is served saves a completed run with the same positions.
LEMMA VerifyMoves ==
    ASSUME DeliberationTypeOK, Verify
    PROVE  /\ Saves("advance", "respond", "completed_review_required") /\ UNCHANGED past
           /\ work.op = "advance" /\ work'.sides = work.sides /\ work'.round = work.round
           /\ work.doc.status = "final_positions"
<1> DEFINE doc == [work.doc EXCEPT !.status = "completed_review_required"]
<1>1. /\ work # NoWork /\ work.op = "advance" /\ work.pc = "act" /\ work \in Work
      /\ work.doc \in Doc /\ work.sides \in 0..MaxRounds
  BY DoingIs, WorkIs DEF Verify, Ops
<1>2. doc \in Doc /\ doc.status = "completed_review_required"
  BY <1>1 DEF Doc, Statuses, Settled
<1>3. work' = Saving(doc, work.sides, "respond")
  BY DEF Verify
<1> HIDE DEF doc
<1> QED
  BY <1>1, <1>2, <1>3, SavingMoves DEF Verify, Saves

\* A tool that is served saves the run in the status it has, which is not cancelled.
LEMMA ToolMoves ==
    ASSUME DeliberationTypeOK, ToolServed
    PROVE  /\ Saves("tool", "done", work.doc.status)
           /\ work.op = "tool" /\ work'.sides = work.sides
           /\ work.doc.status # "cancelled"
<1> DEFINE doc == [work.doc EXCEPT !.tools = Capped(@ + 1, ToolLimit + 1)]
<1>1. work # NoWork /\ work.op = "tool" /\ work.pc = "act" /\ work \in Work /\ work.doc \in Doc
  BY DoingIs, WorkIs DEF ToolServed, Ops
<1>2. work.doc.tools + 1 \in Nat /\ ToolLimit + 1 \in Nat
  BY <1>1, DeliberationConstants DEF Doc
<1>3. doc \in Doc /\ doc.status = work.doc.status
  BY <1>1, <1>2, CappedIs DEF Doc
<1>4. work' = Saving(doc, work.sides, "done")
  BY DEF ToolServed
<1> HIDE DEF doc
<1>5. work.sides \in 0..MaxRounds
  BY <1>1 DEF Work
<1> QED
  BY <1>1, <1>3, <1>4, <1>5, SavingMoves DEF ToolServed, Saves, Denied

-----------------------------------------------------------------------------
(* The invariant. *)

\* A run that is worked on or read is there.
ThereInv ==
    /\ file = Absent \/ file.status # "absent"
    /\ work # NoWork => file # Absent /\ (work.pc # "read" => work.doc.status # "absent")
    /\ \A d \in Readers :
         readers[d] # NoReading =>
             /\ file # Absent
             /\ readers[d].pc \in {"sides", "write"} => readers[d].doc.status # "absent"

\* Nothing is noted once an older copy was written back.
PastInv == "undone" \in past => past = {"undone"}

\* Where the work of a start is.
StartInv ==
    /\ work.op = "advance" =>
        /\ WorkAt({"act", "save", "saveSides"}) /\ work.round \in 1..(MaxRounds + 1)
        /\ WorkAt({"act"}) \/ work.then = "act" =>
             \/ work.doc.status = Phases[work.round]
             \/ work.round = MaxRounds + 1 /\ work.doc.status = "final_positions"
        /\ work.pc # "act" /\ work.then # "act" =>
             work.doc.status \in {"budget_exhausted", "completed_review_required"}
    /\ work.op \notin {"none", "advance"} /\ WorkAt({"save", "saveSides"}) => work.then # "act"

\* No older copy was written back.
Calm == "undone" \notin past

\* The work knows what is on disk, but for what it is about to save.
WorkSees ==
    Calm => /\ WorkAt({"sides", "act", "saveSides"}) => work.doc = file
            /\ WorkAt({"act"}) => work.sides = sides

\* So does a reading that is not stale.
ReaderSees(d) ==
    readers[d] # NoReading /\ ~readers[d].stale =>
        /\ readers[d].pc \in {"sides", "write"} => readers[d].doc = file
        /\ readers[d].pc \in {"write", "writeSides"} => readers[d].sides = sides
ReadersSee == Calm => \A d \in Readers : ReaderSees(d)

\* Work is begun from a run that waits, and a run that was begun never waits again.
BegunInv ==
    /\ "again" \notin past
    /\ Calm /\ "begun" \in past =>
          /\ file.status \notin Confirmable
          /\ WorkAt({"save"}) => /\ work.doc.status \notin Confirmable
                                 /\ work.op = "advance" => work.doc.status # Phases[1]

\* A run in the middle of its phases is being worked on, unless it is noted why not.
RestInv ==
    Calm => /\ file.status \in MidPhases /\ past \cap {"cut", "refused"} = {} =>
                 work.op = "advance"
            /\ WorkAt({"save"}) /\ work.op # "advance" =>
                 work.doc.status = file.status \/ work.doc.status \notin MidPhases

\* The positions of a completed run were verified, from the save of it on.
CheckInv ==
    Calm => /\ file.status = "completed_review_required" => sides = checked
            /\ WorkAt({"save", "saveSides"}) /\ work.doc.status = "completed_review_required"
                 => work.sides = checked /\ sides = checked

\* A cancelled run is saved as cancelled only.
CancelInv ==
    /\ "late" \notin past
    /\ Calm /\ "cancelled" \in past =>
         /\ file.status = "cancelled"
         /\ WorkAt({"save"}) => work.doc.status = "cancelled"

\* What is about to be saved follows the table.
TableInv ==
    Calm /\ WorkAt({"save"}) =>
        \/ work.doc.status = file.status \/ work.doc.status = "draft_scope"
        \/ work.doc.status \in Paths[file.status]

\* Every step keeps the types.
LEMMA TypesKept ==
    DeliberationTypeOK /\ [DeliberationNext]_deliberationVars
    => DeliberationTypeOK'
<1> SUFFICES ASSUME DeliberationTypeOK,
                    [DeliberationNext]_deliberationVars
             PROVE  DeliberationTypeOK'
  OBVIOUS
<1>1. CASE CreateRun
  <2>1. work' \in Work \cup {NoWork}
    BY <1>1, FirstDocs, DeliberationConstants DEF CreateRun, Work, Ops, DeliberationTypeOK
  <2>2. readers' \in [Readers -> Reading \cup {NoReading}]
    BY <1>1, StaleMoves DEF CreateRun, DeliberationTypeOK
  <2>3. file' \in Doc /\ sides' \in 0..MaxRounds /\ checked' \in 0..MaxRounds
    BY <1>1, FirstDocs, DeliberationConstants DEF CreateRun, DeliberationTypeOK
  <2>4. token' \in BOOLEAN /\ calls' \in 0..CallLimit /\ audit' \in 0..ToolLimit
    BY <1>1 DEF CreateRun, DeliberationTypeOK
  <2>5. past' \subseteq Past
    BY <1>1 DEF CreateRun, DeliberationTypeOK, Past
  <2> QED
    BY <2>1, <2>2, <2>3, <2>4, <2>5 DEF DeliberationTypeOK
<1>2. ASSUME NEW op \in {"confirm", "start", "cancel", "tool"}, Take(op) PROVE DeliberationTypeOK'
  <2>1. work' \in Work \cup {NoWork}
    BY <1>2, FirstDocs, DeliberationConstants DEF Take, Work, Ops, DeliberationTypeOK
  <2>2. readers' \in [Readers -> Reading \cup {NoReading}]
    BY <1>2 DEF Take, DeliberationTypeOK
  <2>3. file' \in Doc /\ sides' \in 0..MaxRounds /\ checked' \in 0..MaxRounds
    BY <1>2 DEF Take, DeliberationTypeOK
  <2>4. token' \in BOOLEAN /\ calls' \in 0..CallLimit /\ audit' \in 0..ToolLimit
    BY <1>2 DEF Take, DeliberationTypeOK
  <2>5. past' \subseteq Past
    BY <1>2 DEF Take, DeliberationTypeOK, Past
  <2> QED
    BY <2>1, <2>2, <2>3, <2>4, <2>5 DEF DeliberationTypeOK
<1>3. CASE LoadFile
  <2>1. work' \in Work \cup {NoWork}
    BY <1>3, WorkIs DEF LoadFile, Work, DeliberationTypeOK
  <2>2. readers' \in [Readers -> Reading \cup {NoReading}]
    BY <1>3 DEF LoadFile, DeliberationTypeOK
  <2>3. file' \in Doc /\ sides' \in 0..MaxRounds /\ checked' \in 0..MaxRounds
    BY <1>3 DEF LoadFile, DeliberationTypeOK
  <2>4. token' \in BOOLEAN /\ calls' \in 0..CallLimit /\ audit' \in 0..ToolLimit
    BY <1>3 DEF LoadFile, DeliberationTypeOK
  <2>5. past' \subseteq Past
    BY <1>3 DEF LoadFile, DeliberationTypeOK, Past
  <2> QED
    BY <2>1, <2>2, <2>3, <2>4, <2>5 DEF DeliberationTypeOK
<1>4. CASE LoadSides
  <2>1. work' \in Work \cup {NoWork}
    BY <1>4, WorkIs DEF LoadSides, Work, DeliberationTypeOK
  <2>2. readers' \in [Readers -> Reading \cup {NoReading}]
    BY <1>4 DEF LoadSides, DeliberationTypeOK
  <2>3. file' \in Doc /\ sides' \in 0..MaxRounds /\ checked' \in 0..MaxRounds
    BY <1>4 DEF LoadSides, DeliberationTypeOK
  <2>4. token' \in BOOLEAN /\ calls' \in 0..CallLimit /\ audit' \in 0..ToolLimit
    BY <1>4 DEF LoadSides, DeliberationTypeOK
  <2>5. past' \subseteq Past
    BY <1>4 DEF LoadSides, DeliberationTypeOK, Past
  <2> QED
    BY <2>1, <2>2, <2>3, <2>4, <2>5 DEF DeliberationTypeOK
<1>5. CASE SaveFile
  <2>1. work' \in Work \cup {NoWork}
    BY <1>5, WorkIs DEF SaveFile, Work, DeliberationTypeOK
  <2>2. readers' \in [Readers -> Reading \cup {NoReading}]
    BY <1>5, StaleMoves DEF SaveFile, DeliberationTypeOK
  <2>3. file' \in Doc /\ sides' \in 0..MaxRounds /\ checked' \in 0..MaxRounds
    BY <1>5, WorkIs DEF SaveFile, DeliberationTypeOK
  <2>4. token' \in BOOLEAN /\ calls' \in 0..CallLimit /\ audit' \in 0..ToolLimit
    BY <1>5 DEF SaveFile, DeliberationTypeOK
  <2>5. past' \subseteq Past
    BY <1>5, NoteIs DEF SaveFile, DeliberationTypeOK, Past
  <2> QED
    BY <2>1, <2>2, <2>3, <2>4, <2>5 DEF DeliberationTypeOK
<1>6. CASE SaveSides
  <2>1. work' \in Work \cup {NoWork}
    BY <1>6, SavedMoves DEF SaveSides, WorkAt, DeliberationTypeOK
  <2>2. readers' \in [Readers -> Reading \cup {NoReading}]
    BY <1>6, StaleMoves DEF SaveSides, DeliberationTypeOK
  <2>3. file' \in Doc /\ sides' \in 0..MaxRounds /\ checked' \in 0..MaxRounds
    BY <1>6, WorkIs DEF SaveSides, DeliberationTypeOK
  <2>4. token' \in BOOLEAN /\ calls' \in 0..CallLimit /\ audit' \in 0..ToolLimit
    BY <1>6 DEF SaveSides, DeliberationTypeOK
  <2>5. past' \subseteq Past
    BY <1>6 DEF SaveSides, DeliberationTypeOK, Past
  <2> QED
    BY <2>1, <2>2, <2>3, <2>4, <2>5 DEF DeliberationTypeOK
<1>7. ASSUME NEW scope \in {"full", "narrow"}, ConfirmRun(scope) PROVE DeliberationTypeOK'
  <2>1. work' \in Work \cup {NoWork}
    BY <1>7, ConfirmMoves DEF Saves
  <2>2. readers' \in [Readers -> Reading \cup {NoReading}]
    BY <1>7 DEF ConfirmRun, DeliberationTypeOK
  <2>3. file' \in Doc /\ sides' \in 0..MaxRounds /\ checked' \in 0..MaxRounds
    BY <1>7 DEF ConfirmRun, DeliberationTypeOK
  <2>4. token' \in BOOLEAN /\ calls' \in 0..CallLimit /\ audit' \in 0..ToolLimit
    BY <1>7 DEF ConfirmRun, DeliberationTypeOK
  <2>5. past' \subseteq Past
    BY <1>7 DEF ConfirmRun, DeliberationTypeOK, Past
  <2> QED
    BY <2>1, <2>2, <2>3, <2>4, <2>5 DEF DeliberationTypeOK
<1>8. CASE AnswerSettled
  <2>1. work' \in Work \cup {NoWork}
    BY <1>8, AnswerMoves DEF Saves
  <2>2. readers' \in [Readers -> Reading \cup {NoReading}]
    BY <1>8 DEF AnswerSettled, DeliberationTypeOK
  <2>3. file' \in Doc /\ sides' \in 0..MaxRounds /\ checked' \in 0..MaxRounds
    BY <1>8 DEF AnswerSettled, DeliberationTypeOK
  <2>4. token' \in BOOLEAN /\ calls' \in 0..CallLimit /\ audit' \in 0..ToolLimit
    BY <1>8 DEF AnswerSettled, DeliberationTypeOK
  <2>5. past' \subseteq Past
    BY <1>8 DEF AnswerSettled, DeliberationTypeOK, Past
  <2> QED
    BY <2>1, <2>2, <2>3, <2>4, <2>5 DEF DeliberationTypeOK
<1>9. CASE RefuseState
  <2>1. work' \in Work \cup {NoWork}
    BY <1>9 DEF RefuseState, DeliberationTypeOK
  <2>2. readers' \in [Readers -> Reading \cup {NoReading}]
    BY <1>9 DEF RefuseState, DeliberationTypeOK
  <2>3. file' \in Doc /\ sides' \in 0..MaxRounds /\ checked' \in 0..MaxRounds
    BY <1>9 DEF RefuseState, DeliberationTypeOK
  <2>4. token' \in BOOLEAN /\ calls' \in 0..CallLimit /\ audit' \in 0..ToolLimit
    BY <1>9 DEF RefuseState, DeliberationTypeOK
  <2>5. past' \subseteq Past
    BY <1>9 DEF RefuseState, DeliberationTypeOK, Past
  <2> QED
    BY <2>1, <2>2, <2>3, <2>4, <2>5 DEF DeliberationTypeOK
<1>10. CASE Begin
  <2>1. work' \in Work \cup {NoWork}
    BY <1>10, BeginMoves DEF Saves
  <2>2. readers' \in [Readers -> Reading \cup {NoReading}]
    BY <1>10 DEF Begin, DeliberationTypeOK
  <2>3. file' \in Doc /\ sides' \in 0..MaxRounds /\ checked' \in 0..MaxRounds
    BY <1>10 DEF Begin, DeliberationTypeOK
  <2>4. token' \in BOOLEAN /\ calls' \in 0..CallLimit /\ audit' \in 0..ToolLimit
    BY <1>10 DEF Begin, DeliberationTypeOK
  <2>5. past' \subseteq Past
    BY <1>10 DEF Begin, DeliberationTypeOK, Past
  <2> QED
    BY <2>1, <2>2, <2>3, <2>4, <2>5 DEF DeliberationTypeOK
<1>11. CASE Round
  <2>1. work' \in Work \cup {NoWork}
    BY <1>11, RoundWorks DEF Saves
  <2>2. readers' \in [Readers -> Reading \cup {NoReading}]
    BY <1>11 DEF Round, DeliberationTypeOK
  <2>3. file' \in Doc /\ sides' \in 0..MaxRounds /\ checked' \in 0..MaxRounds
    BY <1>11 DEF Round, DeliberationTypeOK
  <2>4. token' \in BOOLEAN /\ calls' \in 0..CallLimit /\ audit' \in 0..ToolLimit
    BY <1>11 DEF Round, DeliberationTypeOK
  <2>5. past' \subseteq Past
    BY <1>11 DEF Round, DeliberationTypeOK, Past
  <2> QED
    BY <2>1, <2>2, <2>3, <2>4, <2>5 DEF DeliberationTypeOK
<1>12. CASE FinalPositions
  <2>1. work' \in Work \cup {NoWork}
    BY <1>12, FinalMoves DEF Saves
  <2>2. readers' \in [Readers -> Reading \cup {NoReading}]
    BY <1>12 DEF FinalPositions, DeliberationTypeOK
  <2>3. file' \in Doc /\ sides' \in 0..MaxRounds /\ checked' \in 0..MaxRounds
    BY <1>12 DEF FinalPositions, DeliberationTypeOK
  <2>4. token' \in BOOLEAN /\ calls' \in 0..CallLimit /\ audit' \in 0..ToolLimit
    BY <1>12 DEF FinalPositions, DeliberationTypeOK
  <2>5. past' \subseteq Past
    BY <1>12 DEF FinalPositions, DeliberationTypeOK, Past
  <2> QED
    BY <2>1, <2>2, <2>3, <2>4, <2>5 DEF DeliberationTypeOK
<1>13. CASE CancelRun
  <2>1. work' \in Work \cup {NoWork}
    BY <1>13, CancelMoves DEF Saves
  <2>2. readers' \in [Readers -> Reading \cup {NoReading}]
    BY <1>13 DEF CancelRun, DeliberationTypeOK
  <2>3. file' \in Doc /\ sides' \in 0..MaxRounds /\ checked' \in 0..MaxRounds
    BY <1>13 DEF CancelRun, DeliberationTypeOK
  <2>4. token' \in BOOLEAN /\ calls' \in 0..CallLimit /\ audit' \in 0..ToolLimit
    BY <1>13 DEF CancelRun, DeliberationTypeOK
  <2>5. past' \subseteq Past
    BY <1>13 DEF CancelRun, DeliberationTypeOK, Past
  <2> QED
    BY <2>1, <2>2, <2>3, <2>4, <2>5 DEF DeliberationTypeOK
<1>14. CASE Verify
  <2>1. work' \in Work \cup {NoWork}
    BY <1>14, VerifyMoves DEF Saves
  <2>2. readers' \in [Readers -> Reading \cup {NoReading}]
    BY <1>14 DEF Verify, DeliberationTypeOK
  <2>3. file' \in Doc /\ sides' \in 0..MaxRounds /\ checked' \in 0..MaxRounds
    BY <1>14, WorkIs, DoingIs, DeliberationConstants DEF Verify, DeliberationTypeOK, Ops
  <2>4. token' \in BOOLEAN /\ calls' \in 0..CallLimit /\ audit' \in 0..ToolLimit
    <3>1. token' = FALSE /\ Counted /\ audit' = audit + 1 /\ ~(audit >= ToolLimit)
      BY <1>14 DEF Verify, Spent
    <3>2. token' \in BOOLEAN
      BY <3>1
    <3>3. calls' \in 0..CallLimit /\ audit' \in 0..ToolLimit
      BY <3>1, DeliberationConstants, CountedIs DEF DeliberationTypeOK
    <3> QED
      BY <3>2, <3>3
  <2>5. past' \subseteq Past
    BY <1>14 DEF Verify, DeliberationTypeOK, Past
  <2> QED
    BY <2>1, <2>2, <2>3, <2>4, <2>5 DEF DeliberationTypeOK
<1>15. CASE VerificationRefused
  <2>1. work' \in Work \cup {NoWork}
    BY <1>15 DEF VerificationRefused, DeliberationTypeOK
  <2>2. readers' \in [Readers -> Reading \cup {NoReading}]
    BY <1>15 DEF VerificationRefused, DeliberationTypeOK
  <2>3. file' \in Doc /\ sides' \in 0..MaxRounds /\ checked' \in 0..MaxRounds
    BY <1>15 DEF VerificationRefused, DeliberationTypeOK
  <2>4. token' \in BOOLEAN /\ calls' \in 0..CallLimit /\ audit' \in 0..ToolLimit
    BY <1>15, DeliberationConstants, CountedIs DEF VerificationRefused, DeliberationTypeOK, Spent
  <2>5. past' \subseteq Past
    BY <1>15, NoteIs DEF VerificationRefused, DeliberationTypeOK, Past
  <2> QED
    BY <2>1, <2>2, <2>3, <2>4, <2>5 DEF DeliberationTypeOK
<1>16. CASE ToolServed
  <2>1. work' \in Work \cup {NoWork}
    BY <1>16, ToolMoves DEF Saves
  <2>2. readers' \in [Readers -> Reading \cup {NoReading}]
    BY <1>16 DEF ToolServed, DeliberationTypeOK
  <2>3. file' \in Doc /\ sides' \in 0..MaxRounds /\ checked' \in 0..MaxRounds
    BY <1>16 DEF ToolServed, DeliberationTypeOK
  <2>4. token' \in BOOLEAN /\ calls' \in 0..CallLimit /\ audit' \in 0..ToolLimit
    BY <1>16, DeliberationConstants, CountedIs DEF ToolServed, DeliberationTypeOK, Spent
  <2>5. past' \subseteq Past
    BY <1>16, NoteIs DEF ToolServed, DeliberationTypeOK, Past
  <2> QED
    BY <2>1, <2>2, <2>3, <2>4, <2>5 DEF DeliberationTypeOK
<1>17. CASE ToolRefused
  <2>1. work' \in Work \cup {NoWork}
    BY <1>17 DEF ToolRefused, DeliberationTypeOK
  <2>2. readers' \in [Readers -> Reading \cup {NoReading}]
    BY <1>17 DEF ToolRefused, DeliberationTypeOK
  <2>3. file' \in Doc /\ sides' \in 0..MaxRounds /\ checked' \in 0..MaxRounds
    BY <1>17 DEF ToolRefused, DeliberationTypeOK
  <2>4. token' \in BOOLEAN /\ calls' \in 0..CallLimit /\ audit' \in 0..ToolLimit
    BY <1>17, DeliberationConstants, CountedIs DEF ToolRefused, DeliberationTypeOK, Spent
  <2>5. past' \subseteq Past
    BY <1>17 DEF ToolRefused, DeliberationTypeOK, Past
  <2> QED
    BY <2>1, <2>2, <2>3, <2>4, <2>5 DEF DeliberationTypeOK
<1>18. CASE OtherRuns
  <2>1. work' \in Work \cup {NoWork}
    BY <1>18 DEF OtherRuns, DeliberationTypeOK
  <2>2. readers' \in [Readers -> Reading \cup {NoReading}]
    BY <1>18 DEF OtherRuns, DeliberationTypeOK
  <2>3. file' \in Doc /\ sides' \in 0..MaxRounds /\ checked' \in 0..MaxRounds
    BY <1>18 DEF OtherRuns, DeliberationTypeOK
  <2>4. token' \in BOOLEAN /\ calls' \in 0..CallLimit /\ audit' \in 0..ToolLimit
    BY <1>18, DeliberationConstants, CountedIs DEF OtherRuns, DeliberationTypeOK
  <2>5. past' \subseteq Past
    BY <1>18 DEF OtherRuns, DeliberationTypeOK, Past
  <2> QED
    BY <2>1, <2>2, <2>3, <2>4, <2>5 DEF DeliberationTypeOK
<1>19. ASSUME NEW d \in Readers, ReadFile(d) PROVE DeliberationTypeOK'
  <2>1. work' \in Work \cup {NoWork}
    BY <1>19 DEF ReadFile, DeliberationTypeOK
  <2>2. readers' \in [Readers -> Reading \cup {NoReading}]
    BY <1>19, DeliberationConstants, FirstDocs DEF ReadFile, DeliberationTypeOK, Reading,
       NoReading
  <2>3. file' \in Doc /\ sides' \in 0..MaxRounds /\ checked' \in 0..MaxRounds
    BY <1>19 DEF ReadFile, DeliberationTypeOK
  <2>4. token' \in BOOLEAN /\ calls' \in 0..CallLimit /\ audit' \in 0..ToolLimit
    BY <1>19 DEF ReadFile, DeliberationTypeOK
  <2>5. past' \subseteq Past
    BY <1>19 DEF ReadFile, DeliberationTypeOK, Past
  <2> QED
    BY <2>1, <2>2, <2>3, <2>4, <2>5 DEF DeliberationTypeOK
<1>20. ASSUME NEW d \in Readers, ReadSides(d) PROVE DeliberationTypeOK'
  <2>1. work' \in Work \cup {NoWork}
    BY <1>20 DEF ReadSides, DeliberationTypeOK
  <2>2. readers' \in [Readers -> Reading \cup {NoReading}]
    <3>1. readers[d] \in Reading
      BY <1>20 DEF ReadSides, DeliberationTypeOK, NoReading
    <3>2. [readers[d] EXCEPT !.pc = "write", !.sides = sides] \in Reading
      BY <3>1, FirstDocs DEF Reading, DeliberationTypeOK
    <3>3. readers' = [readers EXCEPT ![d] = [readers[d] EXCEPT !.pc = "write", !.sides = sides]]
      BY <1>20, <3>1 DEF ReadSides, DeliberationTypeOK
    <3> QED
      BY <3>2, <3>3 DEF DeliberationTypeOK
  <2>3. file' \in Doc /\ sides' \in 0..MaxRounds /\ checked' \in 0..MaxRounds
    BY <1>20 DEF ReadSides, DeliberationTypeOK
  <2>4. token' \in BOOLEAN /\ calls' \in 0..CallLimit /\ audit' \in 0..ToolLimit
    BY <1>20 DEF ReadSides, DeliberationTypeOK
  <2>5. past' \subseteq Past
    BY <1>20 DEF ReadSides, DeliberationTypeOK, Past
  <2> QED
    BY <2>1, <2>2, <2>3, <2>4, <2>5 DEF DeliberationTypeOK
<1>21. ASSUME NEW d \in Readers, WriteBack(d) PROVE DeliberationTypeOK'
  <2>1. work' \in Work \cup {NoWork}
    BY <1>21 DEF WriteBack, DeliberationTypeOK
  <2>2. readers' \in [Readers -> Reading \cup {NoReading}]
    <3>1. readers[d] \in Reading
      BY <1>21 DEF WriteBack, DeliberationTypeOK, NoReading
    <3>2. [readers[d] EXCEPT !.pc = "writeSides", !.doc = Absent] \in Reading
      BY <3>1, FirstDocs DEF Reading, DeliberationTypeOK
    <3>3. readers' = [readers EXCEPT ![d] = [readers[d] EXCEPT !.pc = "writeSides", !.doc =
      Absent]]
      BY <1>21, <3>1 DEF WriteBack, DeliberationTypeOK
    <3> QED
      BY <3>2, <3>3 DEF DeliberationTypeOK
  <2>3. file' \in Doc /\ sides' \in 0..MaxRounds /\ checked' \in 0..MaxRounds
    BY <1>21 DEF WriteBack, DeliberationTypeOK, Reading, NoReading
  <2>4. token' \in BOOLEAN /\ calls' \in 0..CallLimit /\ audit' \in 0..ToolLimit
    BY <1>21 DEF WriteBack, DeliberationTypeOK
  <2>5. past' \subseteq Past
    BY <1>21 DEF WriteBack, DeliberationTypeOK, Past, Undone
  <2> QED
    BY <2>1, <2>2, <2>3, <2>4, <2>5 DEF DeliberationTypeOK
<1>22. ASSUME NEW d \in Readers, WriteSidesBack(d) PROVE DeliberationTypeOK'
  <2>1. work' \in Work \cup {NoWork}
    BY <1>22 DEF WriteSidesBack, DeliberationTypeOK
  <2>2. readers' \in [Readers -> Reading \cup {NoReading}]
    BY <1>22 DEF WriteSidesBack, DeliberationTypeOK
  <2>3. file' \in Doc /\ sides' \in 0..MaxRounds /\ checked' \in 0..MaxRounds
    BY <1>22 DEF WriteSidesBack, DeliberationTypeOK, Reading, NoReading
  <2>4. token' \in BOOLEAN /\ calls' \in 0..CallLimit /\ audit' \in 0..ToolLimit
    BY <1>22 DEF WriteSidesBack, DeliberationTypeOK
  <2>5. past' \subseteq Past
    BY <1>22 DEF WriteSidesBack, DeliberationTypeOK, Past, Undone
  <2> QED
    BY <2>1, <2>2, <2>3, <2>4, <2>5 DEF DeliberationTypeOK
<1>23. CASE Crash
  <2>1. work' \in Work \cup {NoWork}
    BY <1>23 DEF Crash, DeliberationTypeOK
  <2>2. readers' \in [Readers -> Reading \cup {NoReading}]
    BY <1>23 DEF Crash, DeliberationTypeOK
  <2>3. file' \in Doc /\ sides' \in 0..MaxRounds /\ checked' \in 0..MaxRounds
    BY <1>23 DEF Crash, DeliberationTypeOK
  <2>4. token' \in BOOLEAN /\ calls' \in 0..CallLimit /\ audit' \in 0..ToolLimit
    <3>1. token' = FALSE /\ calls' = 0 /\ audit' = 0
      BY <1>23 DEF Crash
    <3>2. token' \in BOOLEAN
      BY <3>1
    <3>3. calls' \in 0..CallLimit /\ audit' \in 0..ToolLimit
      BY <3>1, DeliberationConstants
    <3> QED
      BY <3>2, <3>3
  <2>5. past' \subseteq Past
    BY <1>23, NoteIs DEF Crash, DeliberationTypeOK, Past
  <2> QED
    BY <2>1, <2>2, <2>3, <2>4, <2>5 DEF DeliberationTypeOK
<1>24. CASE UNCHANGED deliberationVars
  <2>1. work' \in Work \cup {NoWork}
    BY <1>24 DEF deliberationVars, DeliberationTypeOK
  <2>2. readers' \in [Readers -> Reading \cup {NoReading}]
    BY <1>24 DEF deliberationVars, DeliberationTypeOK
  <2>3. file' \in Doc /\ sides' \in 0..MaxRounds /\ checked' \in 0..MaxRounds
    BY <1>24 DEF deliberationVars, DeliberationTypeOK
  <2>4. token' \in BOOLEAN /\ calls' \in 0..CallLimit /\ audit' \in 0..ToolLimit
    BY <1>24 DEF deliberationVars, DeliberationTypeOK
  <2>5. past' \subseteq Past
    BY <1>24 DEF deliberationVars, DeliberationTypeOK, Past
  <2> QED
    BY <2>1, <2>2, <2>3, <2>4, <2>5 DEF DeliberationTypeOK
<1>25. CASE Fails
  <2>1. work' \in Work \cup {NoWork}
    BY <1>25 DEF Fails, DeliberationTypeOK
  <2>2. readers' \in [Readers -> Reading \cup {NoReading}]
    BY <1>25 DEF Fails, DeliberationTypeOK
  <2>3. file' \in Doc /\ sides' \in 0..MaxRounds /\ checked' \in 0..MaxRounds
    BY <1>25 DEF Fails, DeliberationTypeOK
  <2>4. token' \in BOOLEAN /\ calls' \in 0..CallLimit /\ audit' \in 0..ToolLimit
    BY <1>25 DEF Fails, DeliberationTypeOK
  <2>5. past' \subseteq Past
    BY <1>25, NoteIs DEF Fails, DeliberationTypeOK, Past
  <2> QED
    BY <2>1, <2>2, <2>3, <2>4, <2>5 DEF DeliberationTypeOK
<1> QED
  BY <1>1, <1>2, <1>3, <1>4, <1>5, <1>6, <1>7, <1>8, <1>9, <1>10, <1>11, <1>12, <1>13, <1>14,
     <1>15, <1>16, <1>17, <1>18, <1>19, <1>20, <1>21, <1>22, <1>23, <1>24,
     <1>25 DEF DeliberationNext

\* Every step keeps to runs that exist.
LEMMA ThereKept ==
    DeliberationTypeOK /\ ThereInv /\ [DeliberationNext]_deliberationVars
    => ThereInv'
<1> SUFFICES ASSUME DeliberationTypeOK, ThereInv,
                    [DeliberationNext]_deliberationVars
             PROVE  ThereInv'
  OBVIOUS
<1>1. CASE CreateRun
  BY <1>1, StaleMoves, FirstDocs
  DEF CreateRun, NoWork, ThereInv
<1>2. ASSUME NEW op \in {"confirm", "start", "cancel", "tool"}, Take(op) PROVE ThereInv'
  BY <1>2, FirstDocs
  DEF Take, NoWork, ThereInv
<1>3. CASE LoadFile
  BY <1>3
  DEF LoadFile, NoWork, ThereInv, DeliberationTypeOK, Work
<1>4. CASE LoadSides
  BY <1>4
  DEF LoadSides, NoWork, ThereInv, DeliberationTypeOK, Work
<1>5. CASE SaveFile
  BY <1>5, StaleMoves, FileMoves, FirstDocs
  DEF SaveFile, ThereInv, DeliberationTypeOK, Work
<1>6. CASE SaveSides
  BY <1>6, StaleMoves, SavedMoves
  DEF SaveSides, NoWork, ThereInv, WorkAt
<1>7. ASSUME NEW scope \in {"full", "narrow"}, ConfirmRun(scope) PROVE ThereInv'
  BY <1>7, ConfirmMoves
  DEF Saves, ThereInv
<1>8. CASE AnswerSettled
  BY <1>8, AnswerMoves
  DEF Saves, ThereInv, Settled
<1>9. CASE RefuseState
  BY <1>9, DoingIs
  DEF RefuseState, NoWork, Ops, ThereInv
<1>10. CASE Begin
  BY <1>10, BeginMoves, PhasesAre, DeliberationConstants
  DEF Saves, ThereInv
<1>11. CASE Round
  BY <1>11, RoundWorks, PhasesAre, DeliberationConstants
  DEF Saves, ThereInv
<1>12. CASE FinalPositions
  BY <1>12, FinalMoves
  DEF Saves, ThereInv
<1>13. CASE CancelRun
  BY <1>13, CancelMoves
  DEF Saves, ThereInv
<1>14. CASE Verify
  BY <1>14, VerifyMoves
  DEF Saves, ThereInv
<1>15. CASE VerificationRefused
  BY <1>15, DoingIs
  DEF VerificationRefused, NoWork, Ops, ThereInv
<1>16. CASE ToolServed
  BY <1>16, ToolMoves
  DEF Saves, ThereInv
<1>17. CASE ToolRefused
  BY <1>17, DoingIs
  DEF ToolRefused, NoWork, Ops, ThereInv
<1>18. CASE OtherRuns
  BY <1>18
  DEF OtherRuns, ThereInv
<1>19. ASSUME NEW d \in Readers, ReadFile(d) PROVE ThereInv'
  BY <1>19, FirstDocs
  DEF ReadFile, NoReading, Reading, DeliberationTypeOK, ThereInv
<1>20. ASSUME NEW d \in Readers, ReadSides(d) PROVE ThereInv'
  BY <1>20
  DEF ReadSides, NoReading, Reading, DeliberationTypeOK, ThereInv
<1>21. ASSUME NEW d \in Readers, WriteBack(d) PROVE ThereInv'
  BY <1>21, FirstDocs
  DEF WriteBack, Undone, NoReading, Reading, DeliberationTypeOK, ThereInv
<1>22. ASSUME NEW d \in Readers, WriteSidesBack(d) PROVE ThereInv'
  BY <1>22
  DEF WriteSidesBack, Undone, NoReading, Reading, DeliberationTypeOK, ThereInv
<1>23. CASE Crash
  BY <1>23
  DEF Crash, NoWork, ThereInv
<1>24. CASE UNCHANGED deliberationVars
  BY <1>24
  DEF deliberationVars, ThereInv
<1>25. CASE Fails
  BY <1>25
  DEF Fails, NoWork, ThereInv
<1> QED
  BY <1>1, <1>2, <1>3, <1>4, <1>5, <1>6, <1>7, <1>8, <1>9, <1>10, <1>11, <1>12, <1>13, <1>14,
     <1>15, <1>16, <1>17, <1>18, <1>19, <1>20, <1>21, <1>22, <1>23, <1>24,
     <1>25 DEF DeliberationNext

\* Nothing is noted after an older copy was written back.
LEMMA PastKept ==
    DeliberationTypeOK /\ PastInv /\ [DeliberationNext]_deliberationVars
    => PastInv'
<1> SUFFICES ASSUME DeliberationTypeOK, PastInv,
                    [DeliberationNext]_deliberationVars
             PROVE  PastInv'
  OBVIOUS
<1>1. CASE CreateRun
  BY <1>1
  DEF CreateRun, PastInv
<1>2. ASSUME NEW op \in {"confirm", "start", "cancel", "tool"}, Take(op) PROVE PastInv'
  BY <1>2
  DEF Take, PastInv
<1>3. CASE LoadFile
  BY <1>3
  DEF LoadFile, PastInv
<1>4. CASE LoadSides
  BY <1>4
  DEF LoadSides, PastInv
<1>5. CASE SaveFile
  BY <1>5
  DEF SaveFile, Note, PastInv
<1>6. CASE SaveSides
  BY <1>6
  DEF SaveSides, PastInv
<1>7. ASSUME NEW scope \in {"full", "narrow"}, ConfirmRun(scope) PROVE PastInv'
  BY <1>7
  DEF ConfirmRun, PastInv
<1>8. CASE AnswerSettled
  BY <1>8
  DEF AnswerSettled, PastInv
<1>9. CASE RefuseState
  BY <1>9
  DEF RefuseState, PastInv
<1>10. CASE Begin
  BY <1>10
  DEF Begin, PastInv
<1>11. CASE Round
  BY <1>11
  DEF Round, PastInv
<1>12. CASE FinalPositions
  BY <1>12
  DEF FinalPositions, PastInv
<1>13. CASE CancelRun
  BY <1>13
  DEF CancelRun, PastInv
<1>14. CASE Verify
  BY <1>14
  DEF Verify, PastInv
<1>15. CASE VerificationRefused
  BY <1>15
  DEF VerificationRefused, Note, PastInv
<1>16. CASE ToolServed
  BY <1>16
  DEF ToolServed, Note, PastInv
<1>17. CASE ToolRefused
  BY <1>17
  DEF ToolRefused, PastInv
<1>18. CASE OtherRuns
  BY <1>18
  DEF OtherRuns, PastInv
<1>19. ASSUME NEW d \in Readers, ReadFile(d) PROVE PastInv'
  BY <1>19
  DEF ReadFile, PastInv
<1>20. ASSUME NEW d \in Readers, ReadSides(d) PROVE PastInv'
  BY <1>20
  DEF ReadSides, PastInv
<1>21. ASSUME NEW d \in Readers, WriteBack(d) PROVE PastInv'
  BY <1>21
  DEF WriteBack, Undone, PastInv
<1>22. ASSUME NEW d \in Readers, WriteSidesBack(d) PROVE PastInv'
  BY <1>22
  DEF WriteSidesBack, Undone, PastInv
<1>23. CASE Crash
  BY <1>23
  DEF Crash, Note, PastInv
<1>24. CASE UNCHANGED deliberationVars
  BY <1>24
  DEF deliberationVars, PastInv
<1>25. CASE Fails
  BY <1>25
  DEF Fails, Note, PastInv
<1> QED
  BY <1>1, <1>2, <1>3, <1>4, <1>5, <1>6, <1>7, <1>8, <1>9, <1>10, <1>11, <1>12, <1>13, <1>14,
     <1>15, <1>16, <1>17, <1>18, <1>19, <1>20, <1>21, <1>22, <1>23, <1>24,
     <1>25 DEF DeliberationNext

\* Every step keeps a start in the phase of its round.
LEMMA StartKept ==
    DeliberationTypeOK /\ StartInv /\ [DeliberationNext]_deliberationVars
    => StartInv'
<1> SUFFICES ASSUME DeliberationTypeOK, StartInv,
                    [DeliberationNext]_deliberationVars
             PROVE  StartInv'
  OBVIOUS
<1>1. CASE CreateRun
  BY <1>1, StaleMoves, FirstDocs
  DEF CreateRun, NoWork, StartInv, WorkAt
<1>2. ASSUME NEW op \in {"confirm", "start", "cancel", "tool"}, Take(op) PROVE StartInv'
  BY <1>2, FirstDocs
  DEF Take, NoWork, StartInv, WorkAt, DeliberationTypeOK, Work
<1>3. CASE LoadFile
  BY <1>3
  DEF LoadFile, NoWork, StartInv, WorkAt, DeliberationTypeOK, Work
<1>4. CASE LoadSides
  BY <1>4
  DEF LoadSides, NoWork, StartInv, WorkAt, DeliberationTypeOK, Work
<1>5. CASE SaveFile
  BY <1>5, StaleMoves, FileMoves, FirstDocs
  DEF SaveFile, StartInv, WorkAt, DeliberationTypeOK, Work
<1>6. CASE SaveSides
  BY <1>6, StaleMoves, SavedMoves
  DEF SaveSides, NoWork, StartInv, WorkAt
<1>7. ASSUME NEW scope \in {"full", "narrow"}, ConfirmRun(scope) PROVE StartInv'
  BY <1>7, ConfirmMoves, DeliberationConstants, PhasesAre
  DEF Saves, StartInv, WorkAt
<1>8. CASE AnswerSettled
  BY <1>8, AnswerMoves, DeliberationConstants, PhasesAre
  DEF Saves, StartInv, WorkAt
<1>9. CASE RefuseState
  BY <1>9, DoingIs
  DEF RefuseState, NoWork, Ops, StartInv, WorkAt
<1>10. CASE Begin
  BY <1>10, BeginMoves, DeliberationConstants, PhasesAre
  DEF Saves, StartInv, WorkAt
<1>11. CASE Round
  BY <1>11, RoundWorks, DeliberationConstants, PhasesAre
  DEF Saves, StartInv, WorkAt
<1>12. CASE FinalPositions
  BY <1>12, FinalMoves, DeliberationConstants, PhasesAre
  DEF Saves, StartInv, WorkAt
<1>13. CASE CancelRun
  BY <1>13, CancelMoves, DeliberationConstants, PhasesAre
  DEF Saves, StartInv, WorkAt
<1>14. CASE Verify
  BY <1>14, VerifyMoves, DeliberationConstants, PhasesAre
  DEF Saves, StartInv, WorkAt
<1>15. CASE VerificationRefused
  BY <1>15, DoingIs
  DEF VerificationRefused, NoWork, Ops, StartInv, WorkAt
<1>16. CASE ToolServed
  BY <1>16, ToolMoves, DeliberationConstants, PhasesAre
  DEF Saves, StartInv, WorkAt
<1>17. CASE ToolRefused
  BY <1>17, DoingIs
  DEF ToolRefused, NoWork, Ops, StartInv, WorkAt
<1>18. CASE OtherRuns
  BY <1>18
  DEF OtherRuns, StartInv, WorkAt
<1>19. ASSUME NEW d \in Readers, ReadFile(d) PROVE StartInv'
  BY <1>19, FirstDocs
  DEF ReadFile, NoReading, Reading, DeliberationTypeOK, StartInv, WorkAt
<1>20. ASSUME NEW d \in Readers, ReadSides(d) PROVE StartInv'
  BY <1>20
  DEF ReadSides, NoReading, Reading, DeliberationTypeOK, StartInv, WorkAt
<1>21. ASSUME NEW d \in Readers, WriteBack(d) PROVE StartInv'
  BY <1>21, FirstDocs
  DEF WriteBack, Undone, NoReading, Reading, DeliberationTypeOK, StartInv, WorkAt
<1>22. ASSUME NEW d \in Readers, WriteSidesBack(d) PROVE StartInv'
  BY <1>22
  DEF WriteSidesBack, Undone, NoReading, Reading, DeliberationTypeOK, StartInv, WorkAt
<1>23. CASE Crash
  BY <1>23
  DEF Crash, NoWork, StartInv, WorkAt
<1>24. CASE UNCHANGED deliberationVars
  BY <1>24
  DEF deliberationVars, StartInv, WorkAt
<1>25. CASE Fails
  BY <1>25
  DEF Fails, NoWork, StartInv, WorkAt
<1> QED
  BY <1>1, <1>2, <1>3, <1>4, <1>5, <1>6, <1>7, <1>8, <1>9, <1>10, <1>11, <1>12, <1>13, <1>14,
     <1>15, <1>16, <1>17, <1>18, <1>19, <1>20, <1>21, <1>22, <1>23, <1>24,
     <1>25 DEF DeliberationNext

\* Every step keeps the work's knowledge of the disk.
LEMMA WorkKept ==
    DeliberationTypeOK /\ PastInv /\ ThereInv /\ ReadersSee /\ WorkSees /\
      [DeliberationNext]_deliberationVars
    => WorkSees'
<1> SUFFICES ASSUME DeliberationTypeOK, PastInv, ThereInv, ReadersSee, WorkSees,
                    [DeliberationNext]_deliberationVars
             PROVE  WorkSees'
  OBVIOUS
<1>1. CASE CreateRun
  BY <1>1, StaleMoves, FirstDocs
  DEF CreateRun, NoWork, WorkSees, WorkAt, Calm
<1>2. ASSUME NEW op \in {"confirm", "start", "cancel", "tool"}, Take(op) PROVE WorkSees'
  BY <1>2, FirstDocs
  DEF Take, NoWork, WorkSees, WorkAt, Calm, DeliberationTypeOK, Work
<1>3. CASE LoadFile
  BY <1>3
  DEF LoadFile, NoWork, WorkSees, WorkAt, Calm, DeliberationTypeOK, Work
<1>4. CASE LoadSides
  BY <1>4
  DEF LoadSides, NoWork, WorkSees, WorkAt, Calm, DeliberationTypeOK, Work
<1>5. CASE SaveFile
  BY <1>5, StaleMoves, FileMoves, FirstDocs
  DEF SaveFile, WorkSees, WorkAt, Calm, Note, DeliberationTypeOK, Work
<1>6. CASE SaveSides
  BY <1>6, StaleMoves, SavedMoves
  DEF SaveSides, NoWork, WorkSees, WorkAt, Calm
<1>7. ASSUME NEW scope \in {"full", "narrow"}, ConfirmRun(scope) PROVE WorkSees'
  BY <1>7, ConfirmMoves
  DEF Saves, WorkSees, WorkAt, Calm
<1>8. CASE AnswerSettled
  BY <1>8, AnswerMoves
  DEF Saves, WorkSees, WorkAt, Calm
<1>9. CASE RefuseState
  BY <1>9, DoingIs
  DEF RefuseState, NoWork, Ops, WorkSees, WorkAt, Calm
<1>10. CASE Begin
  BY <1>10, BeginMoves
  DEF Saves, WorkSees, WorkAt, Calm
<1>11. CASE Round
  BY <1>11, RoundWorks
  DEF Saves, WorkSees, WorkAt, Calm
<1>12. CASE FinalPositions
  BY <1>12, FinalMoves
  DEF Saves, WorkSees, WorkAt, Calm
<1>13. CASE CancelRun
  BY <1>13, CancelMoves
  DEF Saves, WorkSees, WorkAt, Calm
<1>14. CASE Verify
  BY <1>14, VerifyMoves
  DEF Saves, WorkSees, WorkAt, Calm
<1>15. CASE VerificationRefused
  BY <1>15, DoingIs
  DEF VerificationRefused, NoWork, Ops, WorkSees, WorkAt, Calm, Note
<1>16. CASE ToolServed
  BY <1>16, ToolMoves
  DEF Saves, WorkSees, WorkAt, Calm, Note, ToolServed
<1>17. CASE ToolRefused
  BY <1>17, DoingIs
  DEF ToolRefused, NoWork, Ops, WorkSees, WorkAt, Calm
<1>18. CASE OtherRuns
  BY <1>18
  DEF OtherRuns, WorkSees, WorkAt, Calm
<1>19. ASSUME NEW d \in Readers, ReadFile(d) PROVE WorkSees'
  BY <1>19, FirstDocs
  DEF ReadFile, NoReading, Reading, DeliberationTypeOK, WorkSees, WorkAt, Calm
<1>20. ASSUME NEW d \in Readers, ReadSides(d) PROVE WorkSees'
  BY <1>20
  DEF ReadSides, NoReading, Reading, DeliberationTypeOK, WorkSees, WorkAt, Calm
<1>21. ASSUME NEW d \in Readers, WriteBack(d) PROVE WorkSees'
  BY <1>21, FirstDocs
  DEF WriteBack, Undone, NoReading, Reading, DeliberationTypeOK, WorkSees, WorkAt, Calm, PastInv,
      ReadersSee, ReaderSees
<1>22. ASSUME NEW d \in Readers, WriteSidesBack(d) PROVE WorkSees'
  BY <1>22
  DEF WriteSidesBack, Undone, NoReading, Reading, DeliberationTypeOK, WorkSees, WorkAt, Calm,
      PastInv, ReadersSee, ReaderSees
<1>23. CASE Crash
  BY <1>23
  DEF Crash, NoWork, WorkSees, WorkAt, Calm, Note
<1>24. CASE UNCHANGED deliberationVars
  BY <1>24
  DEF deliberationVars, WorkSees, WorkAt, Calm
<1>25. CASE Fails
  BY <1>25
  DEF Fails, NoWork, WorkSees, WorkAt, Calm, Note
<1> QED
  BY <1>1, <1>2, <1>3, <1>4, <1>5, <1>6, <1>7, <1>8, <1>9, <1>10, <1>11, <1>12, <1>13, <1>14,
     <1>15, <1>16, <1>17, <1>18, <1>19, <1>20, <1>21, <1>22, <1>23, <1>24,
     <1>25 DEF DeliberationNext

\* Every step keeps the knowledge of the readings that are not stale.
LEMMA ReadersKept ==
    DeliberationTypeOK /\ PastInv /\ ReadersSee /\ [DeliberationNext]_deliberationVars
    => ReadersSee'
<1> SUFFICES ASSUME DeliberationTypeOK, PastInv, ReadersSee,
                    [DeliberationNext]_deliberationVars
             PROVE  ReadersSee'
  OBVIOUS
<1>1. CASE CreateRun
  BY <1>1, StaleMoves, FirstDocs
  DEF CreateRun, NoWork, ReadersSee, ReaderSees, Calm
<1>2. ASSUME NEW op \in {"confirm", "start", "cancel", "tool"}, Take(op) PROVE ReadersSee'
  BY <1>2, FirstDocs
  DEF Take, NoWork, ReadersSee, ReaderSees, Calm
<1>3. CASE LoadFile
  BY <1>3
  DEF LoadFile, NoWork, ReadersSee, ReaderSees, Calm
<1>4. CASE LoadSides
  BY <1>4
  DEF LoadSides, NoWork, ReadersSee, ReaderSees, Calm
<1>5. CASE SaveFile
  BY <1>5, StaleMoves, FileMoves, FirstDocs
  DEF SaveFile, ReadersSee, ReaderSees, Calm, Note
<1>6. CASE SaveSides
  BY <1>6, StaleMoves, SavedMoves
  DEF SaveSides, NoWork, ReadersSee, ReaderSees, Calm
<1>7. ASSUME NEW scope \in {"full", "narrow"}, ConfirmRun(scope) PROVE ReadersSee'
  BY <1>7, ConfirmMoves
  DEF Saves, ReadersSee, ReaderSees, Calm
<1>8. CASE AnswerSettled
  BY <1>8, AnswerMoves
  DEF Saves, ReadersSee, ReaderSees, Calm
<1>9. CASE RefuseState
  BY <1>9, DoingIs
  DEF RefuseState, NoWork, Ops, ReadersSee, ReaderSees, Calm
<1>10. CASE Begin
  BY <1>10, BeginMoves
  DEF Saves, ReadersSee, ReaderSees, Calm
<1>11. CASE Round
  BY <1>11, RoundWorks
  DEF Saves, ReadersSee, ReaderSees, Calm
<1>12. CASE FinalPositions
  BY <1>12, FinalMoves
  DEF Saves, ReadersSee, ReaderSees, Calm
<1>13. CASE CancelRun
  BY <1>13, CancelMoves
  DEF Saves, ReadersSee, ReaderSees, Calm
<1>14. CASE Verify
  BY <1>14, VerifyMoves
  DEF Saves, ReadersSee, ReaderSees, Calm
<1>15. CASE VerificationRefused
  BY <1>15, DoingIs
  DEF VerificationRefused, NoWork, Ops, ReadersSee, ReaderSees, Calm, Note
<1>16. CASE ToolServed
  BY <1>16, ToolMoves
  DEF Saves, ReadersSee, ReaderSees, Calm, Note, ToolServed
<1>17. CASE ToolRefused
  BY <1>17, DoingIs
  DEF ToolRefused, NoWork, Ops, ReadersSee, ReaderSees, Calm
<1>18. CASE OtherRuns
  BY <1>18
  DEF OtherRuns, ReadersSee, ReaderSees, Calm
<1>19. ASSUME NEW d \in Readers, ReadFile(d) PROVE ReadersSee'
  BY <1>19, FirstDocs
  DEF ReadFile, NoReading, Reading, DeliberationTypeOK, ReadersSee, ReaderSees, Calm
<1>20. ASSUME NEW d \in Readers, ReadSides(d) PROVE ReadersSee'
  BY <1>20
  DEF ReadSides, NoReading, Reading, DeliberationTypeOK, ReadersSee, ReaderSees, Calm
<1>21. ASSUME NEW d \in Readers, WriteBack(d) PROVE ReadersSee'
  BY <1>21, FirstDocs
  DEF WriteBack, Undone, NoReading, Reading, DeliberationTypeOK, ReadersSee, ReaderSees, Calm,
      PastInv
<1>22. ASSUME NEW d \in Readers, WriteSidesBack(d) PROVE ReadersSee'
  BY <1>22
  DEF WriteSidesBack, Undone, NoReading, Reading, DeliberationTypeOK, ReadersSee, ReaderSees,
      Calm, PastInv
<1>23. CASE Crash
  BY <1>23
  DEF Crash, NoWork, ReadersSee, ReaderSees, Calm, Note
<1>24. CASE UNCHANGED deliberationVars
  BY <1>24
  DEF deliberationVars, ReadersSee, ReaderSees, Calm
<1>25. CASE Fails
  BY <1>25
  DEF Fails, NoWork, ReadersSee, ReaderSees, Calm, Note
<1> QED
  BY <1>1, <1>2, <1>3, <1>4, <1>5, <1>6, <1>7, <1>8, <1>9, <1>10, <1>11, <1>12, <1>13, <1>14,
     <1>15, <1>16, <1>17, <1>18, <1>19, <1>20, <1>21, <1>22, <1>23, <1>24,
     <1>25 DEF DeliberationNext

\* Every step keeps a run from being begun again.
LEMMA BegunKept ==
    DeliberationTypeOK /\ PastInv /\ ThereInv /\ StartInv /\ WorkSees /\ ReadersSee /\ BegunInv
      /\ [DeliberationNext]_deliberationVars
    => BegunInv'
<1> SUFFICES ASSUME DeliberationTypeOK, PastInv, ThereInv, StartInv, WorkSees, ReadersSee,
  BegunInv,
                    [DeliberationNext]_deliberationVars
             PROVE  BegunInv'
  OBVIOUS
<1>1. CASE CreateRun
  BY <1>1, StaleMoves, FirstDocs
  DEF CreateRun, NoWork, BegunInv, WorkAt, WorkSees, Confirmable, Calm
<1>2. ASSUME NEW op \in {"confirm", "start", "cancel", "tool"}, Take(op) PROVE BegunInv'
  BY <1>2, FirstDocs
  DEF Take, NoWork, BegunInv, WorkAt, WorkSees, Confirmable, Calm
<1>3. CASE LoadFile
  BY <1>3
  DEF LoadFile, NoWork, BegunInv, WorkAt, WorkSees, Confirmable, Calm
<1>4. CASE LoadSides
  BY <1>4
  DEF LoadSides, NoWork, BegunInv, WorkAt, WorkSees, Confirmable, Calm
<1>5. CASE SaveFile
  BY <1>5, StaleMoves, FileMoves, FirstDocs, PhasesAre, DeliberationConstants
  DEF SaveFile, BegunInv, WorkAt, WorkSees, Confirmable, Calm, Note
<1>6. CASE SaveSides
  BY <1>6, StaleMoves, SavedMoves, PhasesAre, DeliberationConstants
  DEF SaveSides, NoWork, BegunInv, WorkAt, WorkSees, Confirmable, Calm, StartInv
<1>7. ASSUME NEW scope \in {"full", "narrow"}, ConfirmRun(scope) PROVE BegunInv'
  BY <1>7, ConfirmMoves
  DEF Saves, BegunInv, WorkAt, WorkSees, Confirmable, Calm, StartInv
<1>8. CASE AnswerSettled
  BY <1>8, AnswerMoves
  DEF Saves, BegunInv, WorkAt, WorkSees, Confirmable, Calm, StartInv, Settled
<1>9. CASE RefuseState
  BY <1>9, DoingIs
  DEF RefuseState, NoWork, Ops, BegunInv, WorkAt, WorkSees, Confirmable, Calm
<1>10. CASE Begin
  BY <1>10, BeginMoves, PhasesAre, DeliberationConstants
  DEF Saves, BegunInv, WorkAt, WorkSees, Confirmable, Calm, StartInv
<1>11. CASE Round
  <2>1. work.round + 1 \in 2..6
    BY <1>11, RoundWorks, DeliberationConstants
  <2>2. work'.doc.status \notin Confirmable /\ work'.doc.status # Phases[1]
    BY <1>11, <2>1, RoundWorks, PhasesAre DEF Saves, Confirmable
  <2> QED
    BY <1>11, <2>2, RoundWorks DEF Saves, BegunInv, Calm, WorkAt
<1>12. CASE FinalPositions
  BY <1>12, FinalMoves, PhasesAre, DeliberationConstants
  DEF Saves, BegunInv, WorkAt, WorkSees, Confirmable, Calm, StartInv
<1>13. CASE CancelRun
  BY <1>13, CancelMoves
  DEF Saves, BegunInv, WorkAt, WorkSees, Confirmable, Calm, StartInv
<1>14. CASE Verify
  BY <1>14, VerifyMoves, PhasesAre, DeliberationConstants
  DEF Saves, BegunInv, WorkAt, WorkSees, Confirmable, Calm, StartInv
<1>15. CASE VerificationRefused
  BY <1>15, DoingIs
  DEF VerificationRefused, NoWork, Ops, BegunInv, WorkAt, WorkSees, Confirmable, Calm, Note
<1>16. CASE ToolServed
  BY <1>16, ToolMoves
  DEF Saves, BegunInv, WorkAt, WorkSees, Confirmable, Calm, Note, ToolServed, StartInv
<1>17. CASE ToolRefused
  BY <1>17, DoingIs
  DEF ToolRefused, NoWork, Ops, BegunInv, WorkAt, WorkSees, Confirmable, Calm
<1>18. CASE OtherRuns
  BY <1>18
  DEF OtherRuns, BegunInv, WorkAt, WorkSees, Confirmable, Calm
<1>19. ASSUME NEW d \in Readers, ReadFile(d) PROVE BegunInv'
  BY <1>19, FirstDocs
  DEF ReadFile, NoReading, Reading, DeliberationTypeOK, BegunInv, WorkAt, WorkSees, Confirmable,
      Calm
<1>20. ASSUME NEW d \in Readers, ReadSides(d) PROVE BegunInv'
  BY <1>20
  DEF ReadSides, NoReading, Reading, DeliberationTypeOK, BegunInv, WorkAt, WorkSees, Confirmable,
      Calm
<1>21. ASSUME NEW d \in Readers, WriteBack(d) PROVE BegunInv'
  BY <1>21, FirstDocs
  DEF WriteBack, Undone, NoReading, Reading, DeliberationTypeOK, BegunInv, WorkAt, WorkSees,
      Confirmable, Calm, PastInv, ReadersSee, ReaderSees
<1>22. ASSUME NEW d \in Readers, WriteSidesBack(d) PROVE BegunInv'
  BY <1>22
  DEF WriteSidesBack, Undone, NoReading, Reading, DeliberationTypeOK, BegunInv, WorkAt, WorkSees,
      Confirmable, Calm, PastInv, ReadersSee, ReaderSees
<1>23. CASE Crash
  BY <1>23
  DEF Crash, NoWork, BegunInv, WorkAt, WorkSees, Confirmable, Calm, Note
<1>24. CASE UNCHANGED deliberationVars
  BY <1>24
  DEF deliberationVars, BegunInv, WorkAt, WorkSees, Confirmable, Calm
<1>25. CASE Fails
  BY <1>25
  DEF Fails, NoWork, BegunInv, WorkAt, WorkSees, Confirmable, Calm, Note
<1> QED
  BY <1>1, <1>2, <1>3, <1>4, <1>5, <1>6, <1>7, <1>8, <1>9, <1>10, <1>11, <1>12, <1>13, <1>14,
     <1>15, <1>16, <1>17, <1>18, <1>19, <1>20, <1>21, <1>22, <1>23, <1>24,
     <1>25 DEF DeliberationNext

\* Every step keeps a run in the middle of its phases worked on, or notes why not.
LEMMA RestKept ==
    DeliberationTypeOK /\ PastInv /\ ThereInv /\ StartInv /\ ReadersSee /\ WorkSees /\ RestInv /\
      [DeliberationNext]_deliberationVars
    => RestInv'
<1> SUFFICES ASSUME DeliberationTypeOK, PastInv, ThereInv, StartInv, ReadersSee, WorkSees,
  RestInv,
                    [DeliberationNext]_deliberationVars
             PROVE  RestInv'
  OBVIOUS
<1>1. CASE CreateRun
  BY <1>1, StaleMoves, FirstDocs, PhasesAre
  DEF CreateRun, NoWork, RestInv, WorkAt, WorkSees, Calm
<1>2. ASSUME NEW op \in {"confirm", "start", "cancel", "tool"}, Take(op) PROVE RestInv'
  BY <1>2, FirstDocs
  DEF Take, NoWork, RestInv, WorkAt, WorkSees, Calm
<1>3. CASE LoadFile
  BY <1>3
  DEF LoadFile, NoWork, RestInv, WorkAt, WorkSees, Calm
<1>4. CASE LoadSides
  BY <1>4
  DEF LoadSides, NoWork, RestInv, WorkAt, WorkSees, Calm
<1>5. CASE SaveFile
  BY <1>5, StaleMoves, FileMoves, FirstDocs, PhasesAre
  DEF SaveFile, RestInv, WorkAt, WorkSees, Calm, Note, StartInv
<1>6. CASE SaveSides
  BY <1>6, StaleMoves, SavedMoves, PhasesAre
  DEF SaveSides, NoWork, RestInv, WorkAt, WorkSees, Calm, StartInv
<1>7. ASSUME NEW scope \in {"full", "narrow"}, ConfirmRun(scope) PROVE RestInv'
  BY <1>7, ConfirmMoves, PhasesAre
  DEF Saves, RestInv, WorkAt, WorkSees, Calm, StartInv
<1>8. CASE AnswerSettled
  BY <1>8, AnswerMoves, PhasesAre
  DEF Saves, RestInv, WorkAt, WorkSees, Calm, StartInv, Settled
<1>9. CASE RefuseState
  BY <1>9, DoingIs
  DEF RefuseState, NoWork, Ops, RestInv, WorkAt, WorkSees, Calm
<1>10. CASE Begin
  BY <1>10, BeginMoves, PhasesAre
  DEF Saves, RestInv, WorkAt, WorkSees, Calm, StartInv
<1>11. CASE Round
  BY <1>11, RoundWorks, PhasesAre, DeliberationConstants
  DEF Saves, RestInv, WorkAt, WorkSees, Calm, StartInv
<1>12. CASE FinalPositions
  BY <1>12, FinalMoves
  DEF Saves, RestInv, WorkAt, WorkSees, Calm, StartInv
<1>13. CASE CancelRun
  BY <1>13, CancelMoves, PhasesAre
  DEF Saves, RestInv, WorkAt, WorkSees, Calm, StartInv
<1>14. CASE Verify
  BY <1>14, VerifyMoves, PhasesAre
  DEF Saves, RestInv, WorkAt, WorkSees, Calm, StartInv
<1>15. CASE VerificationRefused
  BY <1>15, DoingIs
  DEF VerificationRefused, NoWork, Ops, RestInv, WorkAt, WorkSees, Calm, Note, StartInv
<1>16. CASE ToolServed
  BY <1>16, ToolMoves
  DEF Saves, RestInv, WorkAt, WorkSees, Calm, Note, ToolServed, StartInv
<1>17. CASE ToolRefused
  BY <1>17, DoingIs
  DEF ToolRefused, NoWork, Ops, RestInv, WorkAt, WorkSees, Calm
<1>18. CASE OtherRuns
  BY <1>18
  DEF OtherRuns, RestInv, WorkAt, WorkSees, Calm
<1>19. ASSUME NEW d \in Readers, ReadFile(d) PROVE RestInv'
  BY <1>19, FirstDocs
  DEF ReadFile, NoReading, Reading, DeliberationTypeOK, RestInv, WorkAt, WorkSees, Calm
<1>20. ASSUME NEW d \in Readers, ReadSides(d) PROVE RestInv'
  BY <1>20
  DEF ReadSides, NoReading, Reading, DeliberationTypeOK, RestInv, WorkAt, WorkSees, Calm
<1>21. ASSUME NEW d \in Readers, WriteBack(d) PROVE RestInv'
  BY <1>21, FirstDocs
  DEF WriteBack, Undone, NoReading, Reading, DeliberationTypeOK, RestInv, WorkAt, WorkSees, Calm,
      PastInv, ReadersSee, ReaderSees
<1>22. ASSUME NEW d \in Readers, WriteSidesBack(d) PROVE RestInv'
  BY <1>22
  DEF WriteSidesBack, Undone, NoReading, Reading, DeliberationTypeOK, RestInv, WorkAt, WorkSees,
      Calm, PastInv, ReadersSee, ReaderSees
<1>23. CASE Crash
  BY <1>23
  DEF Crash, NoWork, RestInv, WorkAt, WorkSees, Calm, Note
<1>24. CASE UNCHANGED deliberationVars
  BY <1>24
  DEF deliberationVars, RestInv, WorkAt, WorkSees, Calm
<1>25. CASE Fails
  BY <1>25
  DEF Fails, NoWork, RestInv, WorkAt, WorkSees, Calm, Note
<1> QED
  BY <1>1, <1>2, <1>3, <1>4, <1>5, <1>6, <1>7, <1>8, <1>9, <1>10, <1>11, <1>12, <1>13, <1>14,
     <1>15, <1>16, <1>17, <1>18, <1>19, <1>20, <1>21, <1>22, <1>23, <1>24,
     <1>25 DEF DeliberationNext

\* Every step keeps a completed run beside the positions that were verified.
LEMMA CheckKept ==
    DeliberationTypeOK /\ PastInv /\ ThereInv /\ StartInv /\ ReadersSee /\ WorkSees /\ CheckInv
      /\ [DeliberationNext]_deliberationVars
    => CheckInv'
<1> SUFFICES ASSUME DeliberationTypeOK, PastInv, ThereInv, StartInv, ReadersSee, WorkSees,
  CheckInv,
                    [DeliberationNext]_deliberationVars
             PROVE  CheckInv'
  OBVIOUS
<1>1. CASE CreateRun
  BY <1>1, StaleMoves, FirstDocs
  DEF CreateRun, NoWork, CheckInv, WorkAt, WorkSees, Calm
<1>2. ASSUME NEW op \in {"confirm", "start", "cancel", "tool"}, Take(op) PROVE CheckInv'
  BY <1>2, FirstDocs
  DEF Take, NoWork, CheckInv, WorkAt, WorkSees, Calm
<1>3. CASE LoadFile
  BY <1>3
  DEF LoadFile, NoWork, CheckInv, WorkAt, WorkSees, Calm
<1>4. CASE LoadSides
  BY <1>4
  DEF LoadSides, NoWork, CheckInv, WorkAt, WorkSees, Calm
<1>5. CASE SaveFile
  BY <1>5, StaleMoves, FileMoves, FirstDocs
  DEF SaveFile, CheckInv, WorkAt, WorkSees, Calm, Note, StartInv
<1>6. CASE SaveSides
  BY <1>6, StaleMoves, SavedMoves
  DEF SaveSides, NoWork, CheckInv, WorkAt, WorkSees, Calm, StartInv
<1>7. ASSUME NEW scope \in {"full", "narrow"}, ConfirmRun(scope) PROVE CheckInv'
  BY <1>7, ConfirmMoves
  DEF Saves, CheckInv, WorkAt, WorkSees, Calm, StartInv, ConfirmRun
<1>8. CASE AnswerSettled
  BY <1>8, AnswerMoves
  DEF Saves, CheckInv, WorkAt, WorkSees, Calm, StartInv, AnswerSettled
<1>9. CASE RefuseState
  BY <1>9, DoingIs
  DEF RefuseState, NoWork, Ops, CheckInv, WorkAt, WorkSees, Calm
<1>10. CASE Begin
  BY <1>10, BeginMoves, PhasesAre
  DEF Saves, CheckInv, WorkAt, WorkSees, Calm, StartInv, Begin
<1>11. CASE Round
  BY <1>11, RoundWorks, PhasesAre, DeliberationConstants
  DEF Saves, CheckInv, WorkAt, WorkSees, Calm, StartInv
<1>12. CASE FinalPositions
  BY <1>12, FinalMoves, PhasesAre
  DEF Saves, CheckInv, WorkAt, WorkSees, Calm, StartInv, FinalPositions
<1>13. CASE CancelRun
  BY <1>13, CancelMoves
  DEF Saves, CheckInv, WorkAt, WorkSees, Calm, StartInv, CancelRun
<1>14. CASE Verify
  BY <1>14, VerifyMoves
  DEF Saves, CheckInv, WorkAt, WorkSees, Calm, StartInv, Verify
<1>15. CASE VerificationRefused
  BY <1>15, DoingIs
  DEF VerificationRefused, NoWork, Ops, CheckInv, WorkAt, WorkSees, Calm, Note, StartInv
<1>16. CASE ToolServed
  BY <1>16, ToolMoves
  DEF Saves, CheckInv, WorkAt, WorkSees, Calm, Note, ToolServed, StartInv
<1>17. CASE ToolRefused
  BY <1>17, DoingIs
  DEF ToolRefused, NoWork, Ops, CheckInv, WorkAt, WorkSees, Calm
<1>18. CASE OtherRuns
  BY <1>18
  DEF OtherRuns, CheckInv, WorkAt, WorkSees, Calm
<1>19. ASSUME NEW d \in Readers, ReadFile(d) PROVE CheckInv'
  BY <1>19, FirstDocs
  DEF ReadFile, NoReading, Reading, DeliberationTypeOK, CheckInv, WorkAt, WorkSees, Calm
<1>20. ASSUME NEW d \in Readers, ReadSides(d) PROVE CheckInv'
  BY <1>20
  DEF ReadSides, NoReading, Reading, DeliberationTypeOK, CheckInv, WorkAt, WorkSees, Calm
<1>21. ASSUME NEW d \in Readers, WriteBack(d) PROVE CheckInv'
  BY <1>21, FirstDocs
  DEF WriteBack, Undone, NoReading, Reading, DeliberationTypeOK, CheckInv, WorkAt, WorkSees,
      Calm, PastInv, ReadersSee, ReaderSees
<1>22. ASSUME NEW d \in Readers, WriteSidesBack(d) PROVE CheckInv'
  BY <1>22
  DEF WriteSidesBack, Undone, NoReading, Reading, DeliberationTypeOK, CheckInv, WorkAt, WorkSees,
      Calm, PastInv, ReadersSee, ReaderSees
<1>23. CASE Crash
  BY <1>23
  DEF Crash, NoWork, CheckInv, WorkAt, WorkSees, Calm, Note
<1>24. CASE UNCHANGED deliberationVars
  BY <1>24
  DEF deliberationVars, CheckInv, WorkAt, WorkSees, Calm
<1>25. CASE Fails
  BY <1>25
  DEF Fails, NoWork, CheckInv, WorkAt, WorkSees, Calm, Note
<1> QED
  BY <1>1, <1>2, <1>3, <1>4, <1>5, <1>6, <1>7, <1>8, <1>9, <1>10, <1>11, <1>12, <1>13, <1>14,
     <1>15, <1>16, <1>17, <1>18, <1>19, <1>20, <1>21, <1>22, <1>23, <1>24,
     <1>25 DEF DeliberationNext

\* Every step keeps a cancelled run cancelled, and unserved.
LEMMA CancelKept ==
    DeliberationTypeOK /\ PastInv /\ ThereInv /\ StartInv /\ ReadersSee /\ WorkSees /\ CancelInv
      /\ [DeliberationNext]_deliberationVars
    => CancelInv'
<1> SUFFICES ASSUME DeliberationTypeOK, PastInv, ThereInv, StartInv, ReadersSee, WorkSees,
  CancelInv,
                    [DeliberationNext]_deliberationVars
             PROVE  CancelInv'
  OBVIOUS
<1>1. CASE CreateRun
  BY <1>1, StaleMoves, FirstDocs
  DEF CreateRun, NoWork, CancelInv, WorkAt, WorkSees, Calm
<1>2. ASSUME NEW op \in {"confirm", "start", "cancel", "tool"}, Take(op) PROVE CancelInv'
  BY <1>2, FirstDocs
  DEF Take, NoWork, CancelInv, WorkAt, WorkSees, Calm
<1>3. CASE LoadFile
  BY <1>3
  DEF LoadFile, NoWork, CancelInv, WorkAt, WorkSees, Calm
<1>4. CASE LoadSides
  BY <1>4
  DEF LoadSides, NoWork, CancelInv, WorkAt, WorkSees, Calm
<1>5. CASE SaveFile
  BY <1>5, StaleMoves, FileMoves, FirstDocs
  DEF SaveFile, CancelInv, WorkAt, WorkSees, Calm, Note, StartInv
<1>6. CASE SaveSides
  BY <1>6, StaleMoves, SavedMoves
  DEF SaveSides, NoWork, CancelInv, WorkAt, WorkSees, Calm, StartInv
<1>7. ASSUME NEW scope \in {"full", "narrow"}, ConfirmRun(scope) PROVE CancelInv'
  BY <1>7, ConfirmMoves
  DEF Saves, CancelInv, WorkAt, WorkSees, Calm, StartInv, Confirmable
<1>8. CASE AnswerSettled
  BY <1>8, AnswerMoves
  DEF Saves, CancelInv, WorkAt, WorkSees, Calm, StartInv, Settled
<1>9. CASE RefuseState
  BY <1>9, DoingIs
  DEF RefuseState, NoWork, Ops, CancelInv, WorkAt, WorkSees, Calm
<1>10. CASE Begin
  BY <1>10, BeginMoves
  DEF Saves, CancelInv, WorkAt, WorkSees, Calm, StartInv
<1>11. CASE Round
  BY <1>11, RoundWorks, PhasesAre, DeliberationConstants
  DEF Saves, CancelInv, WorkAt, WorkSees, Calm, StartInv
<1>12. CASE FinalPositions
  BY <1>12, FinalMoves, PhasesAre, DeliberationConstants
  DEF Saves, CancelInv, WorkAt, WorkSees, Calm, StartInv
<1>13. CASE CancelRun
  BY <1>13, CancelMoves
  DEF Saves, CancelInv, WorkAt, WorkSees, Calm, StartInv, Settled
<1>14. CASE Verify
  BY <1>14, VerifyMoves
  DEF Saves, CancelInv, WorkAt, WorkSees, Calm, StartInv
<1>15. CASE VerificationRefused
  BY <1>15, DoingIs
  DEF VerificationRefused, NoWork, Ops, CancelInv, WorkAt, WorkSees, Calm, Note, StartInv
<1>16. CASE ToolServed
  BY <1>16, ToolMoves
  DEF Saves, CancelInv, WorkAt, WorkSees, Calm, Note, ToolServed, StartInv
<1>17. CASE ToolRefused
  BY <1>17, DoingIs
  DEF ToolRefused, NoWork, Ops, CancelInv, WorkAt, WorkSees, Calm
<1>18. CASE OtherRuns
  BY <1>18
  DEF OtherRuns, CancelInv, WorkAt, WorkSees, Calm
<1>19. ASSUME NEW d \in Readers, ReadFile(d) PROVE CancelInv'
  BY <1>19, FirstDocs
  DEF ReadFile, NoReading, Reading, DeliberationTypeOK, CancelInv, WorkAt, WorkSees, Calm
<1>20. ASSUME NEW d \in Readers, ReadSides(d) PROVE CancelInv'
  BY <1>20
  DEF ReadSides, NoReading, Reading, DeliberationTypeOK, CancelInv, WorkAt, WorkSees, Calm
<1>21. ASSUME NEW d \in Readers, WriteBack(d) PROVE CancelInv'
  BY <1>21, FirstDocs
  DEF WriteBack, Undone, NoReading, Reading, DeliberationTypeOK, CancelInv, WorkAt, WorkSees,
      Calm, PastInv, ReadersSee, ReaderSees
<1>22. ASSUME NEW d \in Readers, WriteSidesBack(d) PROVE CancelInv'
  BY <1>22
  DEF WriteSidesBack, Undone, NoReading, Reading, DeliberationTypeOK, CancelInv, WorkAt,
      WorkSees, Calm, PastInv, ReadersSee, ReaderSees
<1>23. CASE Crash
  BY <1>23
  DEF Crash, NoWork, CancelInv, WorkAt, WorkSees, Calm, Note
<1>24. CASE UNCHANGED deliberationVars
  BY <1>24
  DEF deliberationVars, CancelInv, WorkAt, WorkSees, Calm
<1>25. CASE Fails
  BY <1>25
  DEF Fails, NoWork, CancelInv, WorkAt, WorkSees, Calm, Note
<1> QED
  BY <1>1, <1>2, <1>3, <1>4, <1>5, <1>6, <1>7, <1>8, <1>9, <1>10, <1>11, <1>12, <1>13, <1>14,
     <1>15, <1>16, <1>17, <1>18, <1>19, <1>20, <1>21, <1>22, <1>23, <1>24,
     <1>25 DEF DeliberationNext

-----------------------------------------------------------------------------
(* The paths of the table. *)

\* A path may be one step, or one step after another.
LEMMA ExtendedPaths ==
    ASSUME NEW t, NEW s \in DOMAIN t
    PROVE  /\ DOMAIN Extended(t) = DOMAIN t
           /\ t[s] \subseteq Extended(t)[s]
           /\ \A u \in t[s] : t[u] \subseteq Extended(t)[s]
BY DEF Extended

\* The steps of the table that the host's shortcuts go along.
LEMMA TableSteps ==
    /\ DOMAIN Table = MidPhases \cup Settled \cup
         {"draft_scope", "awaiting_local_confirmation", "queued", "verifying", "synthesizing",
          "partial_worker_failure", "budget_exhausted", "cancelling", "failed_closed"}
    /\ {"awaiting_local_confirmation", "cancelled"} \subseteq Table["draft_scope"]
    /\ {"queued", "cancelled"} \subseteq Table["awaiting_local_confirmation"]
    /\ "running_independent" \in Table["queued"]
    /\ \A i \in 1..5 : {Phases[i + 1], "budget_exhausted", "cancelled",
                        "partial_worker_failure"} \subseteq Table[Phases[i]]
    /\ "final_positions" \in Table["partial_worker_failure"]
    /\ {"verifying", "cancelled"} \subseteq Table["final_positions"]
    /\ "synthesizing" \in Table["verifying"]
    /\ "completed_review_required" \in Table["synthesizing"]
    /\ "cancelled" \in Table["budget_exhausted"]
<1>1. DOMAIN Table = {"running_independent", "aligning_claims", "cross_review", "rebuttal",
                      "omission_hunt", "final_positions", "completed_review_required",
                      "cancelled", "draft_scope", "awaiting_local_confirmation", "queued",
                      "verifying", "synthesizing", "partial_worker_failure",
                      "budget_exhausted", "cancelling", "failed_closed"}
  BY DEF Table
<1>2. /\ {"awaiting_local_confirmation", "cancelled"} \subseteq Table["draft_scope"]
      /\ {"queued", "cancelled"} \subseteq Table["awaiting_local_confirmation"]
      /\ "running_independent" \in Table["queued"]
  <2>1. /\ Table["draft_scope"] = {"awaiting_local_confirmation", "cancelled", "failed_closed"}
        /\ Table["awaiting_local_confirmation"] = {"queued", "cancelled", "failed_closed"}
    BY DEF Table
  <2>2. Table["queued"] = {"running_independent", "cancelling", "cancelled", "failed_closed"}
    BY DEF Table
  <2> QED
    BY <2>1, <2>2
<1>6. /\ "synthesizing" \in Table["verifying"]
      /\ "completed_review_required" \in Table["synthesizing"]
      /\ "cancelled" \in Table["budget_exhausted"]
  <2>1. /\ Table["verifying"] = Later({"synthesizing"})
        /\ Table["synthesizing"] = Later({"completed_review_required"})
    BY DEF Table
  <2>2. Table["budget_exhausted"] = {"cancelled", "failed_closed"}
    BY DEF Table
  <2> QED
    BY <2>1, <2>2 DEF Later
<1>3. /\ Table["running_independent"] = Later({"aligning_claims"})
      /\ Table["aligning_claims"] = Later({"cross_review"})
      /\ Table["cross_review"] = Later({"rebuttal"})
      /\ Table["rebuttal"] = Later({"omission_hunt"})
      /\ Table["omission_hunt"] = Later({"final_positions"})
      /\ Table["final_positions"] = Later({"verifying"})
  BY DEF Table
<1>4. "final_positions" \in Table["partial_worker_failure"]
  BY PhasesAre DEF Table
<1>5. \A i \in 1..5 : Table[Phases[i]] = Later({Phases[i + 1]})
  <2> SUFFICES ASSUME NEW i \in 1..5 PROVE Table[Phases[i]] = Later({Phases[i + 1]})
    OBVIOUS
  <2>1. i = 1 \/ i = 2 \/ i = 3 \/ i = 4 \/ i = 5
    OBVIOUS
  <2> QED
    BY <2>1, <1>3 DEF Phases
<1> QED
  BY <1>1, <1>2, <1>3, <1>4, <1>5, <1>6, PhasesAre DEF Later, Settled

\* Three steps of the table, at most, are a path.
LEMMA PathsAre ==
    ASSUME NEW s \in DOMAIN Table
    PROVE  /\ Table[s] \subseteq Paths[s]
           /\ \A u \in Table[s] \cap DOMAIN Table :
                /\ Table[u] \subseteq Paths[s]
                /\ \A v \in Table[u] \cap DOMAIN Table : Table[v] \subseteq Paths[s]
<1> DEFINE one == Extended(Table)  two == Extended(one)  three == Extended(two)
<1>1. /\ DOMAIN one = DOMAIN Table /\ DOMAIN two = DOMAIN Table /\ DOMAIN three = DOMAIN Table
      /\ Paths = Extended(three)
  BY DEF Paths, Extended
<1>2. \A x \in DOMAIN Table : /\ Table[x] \subseteq one[x]
                              /\ \A u \in Table[x] : Table[u] \subseteq one[x]
  BY ExtendedPaths
<1> HIDE DEF one
<1>3. \A x \in DOMAIN Table : one[x] \subseteq two[x] /\ \A u \in one[x] : one[u] \subseteq two[x]
  BY <1>1, ExtendedPaths
<1> HIDE DEF two
<1>4. \A x \in DOMAIN Table : two[x] \subseteq three[x]
  BY <1>1, ExtendedPaths
<1> HIDE DEF three
<1>5. three[s] \subseteq Paths[s]
  BY <1>1, ExtendedPaths
<1> QED
  BY <1>2, <1>3, <1>4, <1>5

\* A start that is acting is in the phase of its round, or past its last round.
LEMMA AdvanceAt ==
    ASSUME DeliberationTypeOK, StartInv, work.op = "advance", work.pc = "act"
    PROVE  /\ work.round \in 1..(MaxRounds + 1)
           /\ \/ work.doc.status = Phases[work.round]
              \/ work.round = MaxRounds + 1 /\ work.doc.status = "final_positions"
BY DEF StartInv, WorkAt

\* The steps of the host, as paths.
LEMMA HostPaths ==
    /\ "awaiting_local_confirmation" \in Paths["draft_scope"]
    /\ "running_independent" \in Paths["awaiting_local_confirmation"]
    /\ \A i \in 1..5 : /\ Phases[i + 1] \in Paths[Phases[i]]
                       /\ "budget_exhausted" \in Paths[Phases[i]]
                       /\ "final_positions" \in Paths[Phases[i]]
    /\ "completed_review_required" \in Paths["final_positions"]
    /\ \A s \in {"draft_scope", "awaiting_local_confirmation", "budget_exhausted"}
                \cup MidPhases : "cancelled" \in Paths[s]
<1>1. /\ "awaiting_local_confirmation" \in Paths["draft_scope"]
      /\ "cancelled" \in Paths["draft_scope"] /\ "cancelled" \in Paths["budget_exhausted"]
      /\ "cancelled" \in Paths["awaiting_local_confirmation"]
      /\ "running_independent" \in Paths["awaiting_local_confirmation"]
  BY TableSteps, PathsAre
<1>2. ASSUME NEW i \in 1..5
      PROVE  /\ Phases[i + 1] \in Paths[Phases[i]] /\ "budget_exhausted" \in Paths[Phases[i]]
             /\ "final_positions" \in Paths[Phases[i]] /\ "cancelled" \in Paths[Phases[i]]
  <2>1. Phases[i] \in DOMAIN Table
    BY TableSteps, PhasesAre
  <2> QED
    BY <2>1, TableSteps, PathsAre
<1>3. /\ "completed_review_required" \in Paths["final_positions"]
      /\ "cancelled" \in Paths["final_positions"]
  <2>1. "final_positions" \in DOMAIN Table
    BY TableSteps, PhasesAre
  <2>2. /\ "verifying" \in Table["final_positions"] \cap DOMAIN Table
        /\ "synthesizing" \in Table["verifying"] \cap DOMAIN Table
    BY TableSteps
  <2> QED
    BY <2>1, <2>2, TableSteps, PathsAre
<1>4. \A s \in MidPhases : s = "final_positions" \/ \E i \in 1..5 : s = Phases[i]
  BY PhasesAre DEF MidPhases
<1> QED
  BY <1>1, <1>2, <1>3, <1>4

\* Every step keeps what is about to be saved on the paths of the table.
LEMMA TableKept ==
    DeliberationTypeOK /\ PastInv /\ ThereInv /\ StartInv /\ ReadersSee /\ WorkSees /\ TableInv
      /\ [DeliberationNext]_deliberationVars
    => TableInv'
<1> SUFFICES ASSUME DeliberationTypeOK, PastInv, ThereInv, StartInv, ReadersSee, WorkSees,
  TableInv,
                    [DeliberationNext]_deliberationVars
             PROVE  TableInv'
  OBVIOUS
<1>1. CASE CreateRun
  BY <1>1, StaleMoves, FirstDocs
  DEF CreateRun, NoWork, TableInv, WorkAt, WorkSees, Calm
<1>2. ASSUME NEW op \in {"confirm", "start", "cancel", "tool"}, Take(op) PROVE TableInv'
  BY <1>2, FirstDocs
  DEF Take, NoWork, TableInv, WorkAt, WorkSees, Calm
<1>3. CASE LoadFile
  BY <1>3
  DEF LoadFile, NoWork, TableInv, WorkAt, WorkSees, Calm
<1>4. CASE LoadSides
  BY <1>4
  DEF LoadSides, NoWork, TableInv, WorkAt, WorkSees, Calm
<1>5. CASE SaveFile
  BY <1>5, StaleMoves, FileMoves, FirstDocs
  DEF SaveFile, TableInv, WorkAt, WorkSees, Calm, Note, StartInv
<1>6. CASE SaveSides
  BY <1>6, StaleMoves, SavedMoves
  DEF SaveSides, NoWork, TableInv, WorkAt, WorkSees, Calm, StartInv
<1>7. ASSUME NEW scope \in {"full", "narrow"}, ConfirmRun(scope) PROVE TableInv'
  <2> SUFFICES ASSUME Calm PROVE work'.doc.status = file.status \/ work'.doc.status \in
    Paths[file.status]
    BY <1>7, ConfirmMoves DEF TableInv, Saves, Calm
  <2>1. work.doc = file
    BY <1>7, ConfirmMoves DEF WorkSees, WorkAt, Saves
  <2> QED
    BY <1>7, <2>1, ConfirmMoves, HostPaths DEF Saves, Confirmable
<1>8. CASE AnswerSettled
  BY <1>8, AnswerMoves
  DEF Saves, TableInv, WorkAt, WorkSees, Calm, StartInv
<1>9. CASE RefuseState
  BY <1>9, DoingIs
  DEF RefuseState, NoWork, Ops, TableInv, WorkAt, WorkSees, Calm
<1>10. CASE Begin
  <2> SUFFICES ASSUME Calm PROVE work'.doc.status = file.status \/ work'.doc.status \in
    Paths[file.status]
    BY <1>10, BeginMoves DEF TableInv, Saves, Calm
  <2>1. work.doc = file
    BY <1>10, BeginMoves DEF WorkSees, WorkAt, Saves
  <2> QED
    BY <1>10, <2>1, BeginMoves, HostPaths, PhasesAre DEF Saves
<1>11. CASE Round
  <2> SUFFICES ASSUME Calm PROVE work'.doc.status = file.status \/ work'.doc.status \in
    Paths[file.status]
    BY <1>11, RoundWorks DEF TableInv, Saves, Calm
  <2>1. work.doc = file
    BY <1>11, RoundWorks DEF WorkSees, WorkAt, Saves
  <2> QED
    BY <1>11, <2>1, RoundWorks, HostPaths, AdvanceAt, DeliberationConstants DEF Saves
<1>12. CASE FinalPositions
  <2> SUFFICES ASSUME Calm PROVE work'.doc.status = file.status \/ work'.doc.status \in
    Paths[file.status]
    BY <1>12, FinalMoves DEF TableInv, Saves, Calm
  <2>1. work.doc = file
    BY <1>12, FinalMoves DEF WorkSees, WorkAt, Saves
  <2>2. work.round \in 1..5 /\ work.doc.status = Phases[work.round]
    BY <1>12, FinalMoves, AdvanceAt, DeliberationConstants, PhasesAre DEF Saves
  <2> QED
    BY <1>12, <2>1, <2>2, FinalMoves, HostPaths DEF Saves
<1>13. CASE CancelRun
  <2> SUFFICES ASSUME Calm PROVE work'.doc.status = file.status \/ work'.doc.status \in
    Paths[file.status]
    BY <1>13, CancelMoves DEF TableInv, Saves, Calm
  <2>1. work.doc = file
    BY <1>13, CancelMoves DEF WorkSees, WorkAt, Saves
  <2> QED
    BY <1>13, <2>1, CancelMoves, HostPaths, WorkIs DEF Saves, ThereInv, Settled, Statuses
<1>14. CASE Verify
  <2> SUFFICES ASSUME Calm PROVE work'.doc.status = file.status \/ work'.doc.status \in
    Paths[file.status]
    BY <1>14, VerifyMoves DEF TableInv, Saves, Calm
  <2>1. work.doc = file
    BY <1>14, VerifyMoves DEF WorkSees, WorkAt, Saves
  <2> QED
    BY <1>14, <2>1, VerifyMoves, HostPaths DEF Saves
<1>15. CASE VerificationRefused
  BY <1>15, DoingIs
  DEF VerificationRefused, NoWork, Ops, TableInv, WorkAt, WorkSees, Calm, Note, StartInv
<1>16. CASE ToolServed
  BY <1>16, ToolMoves
  DEF Saves, TableInv, WorkAt, WorkSees, Calm, Note, ToolServed, StartInv
<1>17. CASE ToolRefused
  BY <1>17, DoingIs
  DEF ToolRefused, NoWork, Ops, TableInv, WorkAt, WorkSees, Calm
<1>18. CASE OtherRuns
  BY <1>18
  DEF OtherRuns, TableInv, WorkAt, WorkSees, Calm
<1>19. ASSUME NEW d \in Readers, ReadFile(d) PROVE TableInv'
  BY <1>19, FirstDocs
  DEF ReadFile, NoReading, Reading, DeliberationTypeOK, TableInv, WorkAt, WorkSees, Calm
<1>20. ASSUME NEW d \in Readers, ReadSides(d) PROVE TableInv'
  BY <1>20
  DEF ReadSides, NoReading, Reading, DeliberationTypeOK, TableInv, WorkAt, WorkSees, Calm
<1>21. ASSUME NEW d \in Readers, WriteBack(d) PROVE TableInv'
  BY <1>21, FirstDocs
  DEF WriteBack, Undone, NoReading, Reading, DeliberationTypeOK, TableInv, WorkAt, WorkSees,
      Calm, PastInv, ReadersSee, ReaderSees
<1>22. ASSUME NEW d \in Readers, WriteSidesBack(d) PROVE TableInv'
  BY <1>22
  DEF WriteSidesBack, Undone, NoReading, Reading, DeliberationTypeOK, TableInv, WorkAt, WorkSees,
      Calm, PastInv, ReadersSee, ReaderSees
<1>23. CASE Crash
  BY <1>23
  DEF Crash, NoWork, TableInv, WorkAt, WorkSees, Calm, Note
<1>24. CASE UNCHANGED deliberationVars
  BY <1>24
  DEF deliberationVars, TableInv, WorkAt, WorkSees, Calm
<1>25. CASE Fails
  BY <1>25
  DEF Fails, NoWork, TableInv, WorkAt, WorkSees, Calm, Note
<1> QED
  BY <1>1, <1>2, <1>3, <1>4, <1>5, <1>6, <1>7, <1>8, <1>9, <1>10, <1>11, <1>12, <1>13, <1>14,
     <1>15, <1>16, <1>17, <1>18, <1>19, <1>20, <1>21, <1>22, <1>23, <1>24,
     <1>25 DEF DeliberationNext

-----------------------------------------------------------------------------
(* The invariant of the host, and what it gives. *)

DeliberationInv ==
    /\ DeliberationTypeOK /\ PastInv /\ ThereInv /\ StartInv /\ ReadersSee /\ WorkSees
    /\ BegunInv /\ RestInv /\ CheckInv /\ CancelInv /\ TableInv

\* The host starts in its invariant.
LEMMA HostStarts == DeliberationInit => DeliberationInv
<1> SUFFICES ASSUME DeliberationInit PROVE DeliberationInv
  OBVIOUS
<1>1. DeliberationTypeOK
  <2>1. /\ readers \in [Readers -> Reading \cup {NoReading}]
        /\ file \in Doc /\ work \in Work \cup {NoWork} /\ past \subseteq Past
    BY FirstDocs DEF DeliberationInit
  <2>2. token \in BOOLEAN
    BY DEF DeliberationInit
  <2>3. /\ sides \in 0..MaxRounds /\ calls \in 0..CallLimit /\ audit \in 0..ToolLimit
        /\ checked \in 0..MaxRounds
    BY DeliberationConstants DEF DeliberationInit
  <2> QED
    BY <2>1, <2>2, <2>3 DEF DeliberationTypeOK
<1>2. work = NoWork /\ work.op = "none" /\ file.status = "absent" /\ past = {}
      /\ \A d \in Readers : readers[d] = NoReading
  BY FirstDocs DEF DeliberationInit, NoWork
<1>3. PastInv /\ ThereInv /\ StartInv /\ ReadersSee /\ WorkSees
  BY <1>2
  DEF PastInv, ThereInv, StartInv, ReadersSee, ReaderSees, WorkSees, WorkAt, DeliberationInit
<1>4. BegunInv /\ RestInv /\ CheckInv /\ CancelInv /\ TableInv
  BY <1>2, PhasesAre DEF BegunInv, RestInv, CheckInv, CancelInv, TableInv, WorkAt
<1> QED
  BY <1>1, <1>3, <1>4 DEF DeliberationInv

\* Every step keeps the invariant.
LEMMA HostKeeps == DeliberationInv /\ [DeliberationNext]_deliberationVars => DeliberationInv'
BY TypesKept, PastKept, ThereKept, StartKept, ReadersKept, WorkKept, BegunKept, RestKept,
   CheckKept, CancelKept, TableKept
DEF DeliberationInv

\* The invariant holds.
LEMMA HostInvHolds == DeliberationSpec => []DeliberationInv
BY HostStarts, HostKeeps, PTL DEF DeliberationSpec

\* The run, the work, the readings and the broker's counts are ones the host can hold.
THEOREM DeliberationTypes == DeliberationSpec => []DeliberationTypeOK
<1>1. DeliberationInv => DeliberationTypeOK
  BY DEF DeliberationInv
<1> QED
  BY <1>1, HostInvHolds, PTL

\* Whatever starts, cancellations, readings and crashes come, a run is worked on
\* once, and rests in the middle of its phases only because its work was cut short,
\* its verification refused, or an older copy written back (start and _advance).
THEOREM RunsOnceToRestAlways == DeliberationSpec => []RunsOnceToRest
<1>1. DeliberationInv => RunsOnceToRest
  BY DEF DeliberationInv, RunsOnceToRest, StartedOnce, RestsForAReason, BegunInv, RestInv, Calm
<1> QED
  BY <1>1, HostInvHolds, PTL

\* The positions beside a completed run are those the verification tool saw, for
\* every number of rounds, readers and tool calls (_advance saves them before).
THEOREM CompletedIsVerifiedAlways == DeliberationSpec => []CompletedIsVerified
<1>1. DeliberationInv => CompletedIsVerified
  BY DEF DeliberationInv, CompletedIsVerified, CheckInv, Calm
<1> QED
  BY <1>1, HostInvHolds, PTL

\* No tool serves a run once its cancellation is on disk (ToolBroker.invoke looks at
\* the status it loaded under the lock), unless an older copy was written over it.
THEOREM NoCallAfterCancelAlways == DeliberationSpec => []NoCallAfterCancel
<1>1. DeliberationInv => NoCallAfterCancel
  BY DEF DeliberationInv, NoCallAfterCancel, CancelInv
<1> QED
  BY <1>1, HostInvHolds, PTL

\* Only a save or a reading that writes back changes the status on disk.
LEMMA StatusMoves ==
    ASSUME DeliberationInv, [DeliberationNext]_deliberationVars
    PROVE  \/ file' = file \/ file'.status = "draft_scope"
           \/ SaveFile \/ \E d \in Readers : WriteBack(d)
<1>1. ASSUME NEW op \in {"confirm", "start", "cancel", "tool"}, Take(op) PROVE file' = file
  BY <1>1 DEF Take
<1>2. ASSUME NEW scope \in {"full", "narrow"}, ConfirmRun(scope) PROVE file' = file
  BY <1>2 DEF ConfirmRun
<1>3. ASSUME NEW d \in Readers, ReadFile(d) \/ ReadSides(d) \/ WriteSidesBack(d)
      PROVE  file' = file
  BY <1>3 DEF ReadFile, ReadSides, WriteSidesBack
<1>4. CASE CreateRun
  BY <1>4, FirstDocs DEF CreateRun
<1>5. CASE LoadFile \/ LoadSides \/ SaveSides \/ OtherRuns \/ Fails \/ Crash
  BY <1>5 DEF LoadFile, LoadSides, SaveSides, OtherRuns, Fails, Crash
<1>6. CASE AnswerSettled \/ RefuseState \/ Begin \/ Round \/ FinalPositions \/ CancelRun
  BY <1>6 DEF AnswerSettled, RefuseState, Begin, Round, FinalPositions, CancelRun
<1>7. CASE Verify \/ VerificationRefused \/ ToolServed \/ ToolRefused
  BY <1>7 DEF Verify, VerificationRefused, ToolServed, ToolRefused
<1>8. CASE UNCHANGED deliberationVars
  BY <1>8 DEF deliberationVars
<1> QED
  BY <1>1, <1>2, <1>3, <1>4, <1>5, <1>6, <1>7, <1>8 DEF DeliberationNext

\* The status on disk moves along the paths of the declared state machine, although
\* the host assigns most statuses without asking it.
THEOREM FollowsTheTableAlways == DeliberationSpec => FollowsTheTable
<1> DEFINE Follows == \/ file'.status = file.status \/ file'.status = "draft_scope"
                      \/ file # Absent /\ file'.status \in Paths[file.status]
                      \/ "undone" \in past'
<1>1. DeliberationInv /\ [DeliberationNext]_deliberationVars => [Follows]_deliberationVars
  <2> SUFFICES ASSUME DeliberationInv, [DeliberationNext]_deliberationVars PROVE Follows
    OBVIOUS
  <2>1. CASE SaveFile
    <3>1. "undone" \in past => "undone" \in past'
      BY <2>1 DEF SaveFile, Note
    <3> QED
      BY <2>1, <3>1, FileMoves DEF DeliberationInv, TableInv, ThereInv, Calm, WorkAt
  <2>2. ASSUME NEW d \in Readers, WriteBack(d) PROVE Follows
    <3>1. readers[d] # NoReading /\ readers[d].pc = "write" /\ file' = readers[d].doc
      BY <2>2 DEF WriteBack, NoReading
    <3>2. CASE readers[d].stale
      BY <2>2, <3>2 DEF WriteBack, Undone
    <3>3. CASE ~readers[d].stale
      BY <2>2, <3>1, <3>3 DEF WriteBack, Undone, DeliberationInv, ReadersSee, ReaderSees, Calm
    <3> QED
      BY <3>2, <3>3
  <2> QED
    BY <2>1, <2>2, StatusMoves
<1> QED
  BY <1>1, HostInvHolds, PTL DEF DeliberationSpec, FollowsTheTable

=============================================================================
