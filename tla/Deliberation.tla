---------------------------- MODULE Deliberation ----------------------------
(***************************************************************************)
(* One run of the local deliberation host (DeliberationHost, host.py), its *)
(* files, its callers and the tool broker (broker.py).                     *)
(*                                                                         *)
(* Creating, confirming, starting and cancelling a run and calling a tool  *)
(* for it hold the host's one lock from beginning to end: a start works    *)
(* through all its rounds under it, and a cancellation waits.  Reading a   *)
(* run takes no lock, and its answer is made by a function that first      *)
(* writes the run back as it was read.  The run file and the files beside  *)
(* it (claims, positions, synthesis) are each replaced at once, one after  *)
(* the other.                                                              *)
(*                                                                         *)
(* The other runs of the process are seen through the broker's audit log,  *)
(* whose length all runs share as their tool budget.  One tool is          *)
(* modelled, verification.check_claims: the caller may use it, and the     *)
(* start must.  The three files beside the run are one value, the number   *)
(* of the round they tell of.  A worker that fails leaves no trace in what *)
(* is saved before the synthesis and is left out.                          *)
(***************************************************************************)
EXTENDS Naturals, Sequences, FiniteSets

CONSTANTS
    Readers,    \* requests that read the run
    MaxRounds,  \* limits.max_rounds, which nothing bounds: the fifth round is the last
                \* in any case, and a negative number gives none
    ToolLimit,  \* limits.tool_call_limit, on the run's count and on the audit log
    CallLimit   \* max_calls_per_run of the tool

ASSUME DeliberationConstants ==
    /\ MaxRounds \in 0..5
    /\ ToolLimit \in Nat \ {0} /\ CallLimit \in Nat \ {0}

VARIABLES
    file,    \* <run>.json
    sides,   \* the round of the claims, positions and synthesis on disk
    work,    \* the call that holds the lock, or NoWork
    readers, \* what each reading request does
    token,   \* an issued token of the run has not been revoked
    calls,   \* call_counts of the run
    audit,   \* the length of the audit log
    checked, \* history: the round whose positions the last verification saw
    past     \* history: what has happened to the run since its creation

deliberationVars == <<file, sides, work, readers, token, calls, audit, checked, past>>

Phases == <<"running_independent", "aligning_claims", "cross_review", "rebuttal",
            "omission_hunt", "final_positions">>
MidPhases == {Phases[i] : i \in DOMAIN Phases}
Settled == {"completed_review_required", "cancelled"}
Statuses == MidPhases \cup Settled \cup
            {"absent", "draft_scope", "awaiting_local_confirmation", "budget_exhausted"}

\* The scope a run was confirmed with: not at all, with the verification tool
\* among the allowed ones, or without it.
Scopes == {"none", "full", "narrow"}
Doc == [status : Statuses, scope : Scopes, tools : 0..(ToolLimit + 1)]
Draft == [status |-> "draft_scope", scope |-> "none", tools |-> 0]
Absent == [Draft EXCEPT !.status = "absent"]

Ops == {"create", "confirm", "start", "advance", "cancel", "tool"}
Work == [op : Ops, pc : {"read", "sides", "act", "save", "saveSides"},
         then : {"act", "respond", "done"}, doc : Doc, sides : 0..MaxRounds,
         round : 0..(MaxRounds + 1)]
NoWork == [op |-> "none"]

Reading == [pc : {"sides", "write", "writeSides"}, doc : Doc, sides : 0..MaxRounds,
            stale : BOOLEAN]
NoReading == [pc |-> "idle"]

\* After an older copy was written back, nothing else is noted of the run.
Past == {"begun", "again", "cut", "refused", "undone", "cancelled", "late"}
Note(events) == IF "undone" \in past THEN past ELSE past \cup events
Capped(n, most) == IF n > most THEN most ELSE n

DeliberationInit ==
    /\ file = Absent /\ sides = 0
    /\ work = NoWork
    /\ readers = [d \in Readers |-> NoReading]
    /\ token = FALSE /\ calls = 0 /\ audit = 0
    /\ checked = 0 /\ past = {}

-----------------------------------------------------------------------------
(* The lock, and reading and saving under it. *)

\* A reading that is under way does not see what is saved now.
NowStale == [d \in Readers |-> IF readers[d] = NoReading THEN NoReading
                               ELSE [readers[d] EXCEPT !.stale = TRUE]]
Doing(op) == work.op = op /\ work.pc = "act"

Take(op) ==
    /\ work = NoWork /\ file # Absent
    /\ work' = [op |-> op, pc |-> "read", then |-> "done", doc |-> Absent, sides |-> 0,
                round |-> 0]
    /\ UNCHANGED <<file, sides, readers, token, calls, audit, checked, past>>

\* _load_or_raise: the run file, and then the files beside it.
LoadFile ==
    /\ work # NoWork /\ work.pc = "read"
    /\ work' = [work EXCEPT !.pc = "sides", !.doc = file]
    /\ UNCHANGED <<file, sides, readers, token, calls, audit, checked, past>>

LoadSides ==
    /\ work # NoWork /\ work.pc = "sides"
    /\ work' = [work EXCEPT !.pc = "act", !.sides = sides]
    /\ UNCHANGED <<file, sides, readers, token, calls, audit, checked, past>>

\* _save_run; every answer of _run_response begins with another one.
SaveFile ==
    /\ work # NoWork /\ work.pc = "save"
    /\ file' = work.doc
    /\ readers' = NowStale
    /\ work' = [work EXCEPT !.pc = "saveSides"]
    /\ past' = CASE work.doc.status = "cancelled" -> Note({"cancelled"})
                 [] work.op = "advance" /\ work.doc.status = Phases[1] ->
                        Note(IF "begun" \in past THEN {"again"} ELSE {"begun"})
                 [] OTHER -> past
    /\ UNCHANGED <<sides, token, calls, audit, checked>>

AfterSaving ==
    CASE work.then = "act" -> [work EXCEPT !.pc = "act"]
      [] work.then = "respond" -> [work EXCEPT !.pc = "save", !.then = "done"]
      [] work.then = "done" -> NoWork

\* Deviation: the files beside the run are written with the answer only.
SaveSidesLate ==
    /\ work # NoWork /\ work.pc = "saveSides"
    /\ sides' = IF work.then = "done" THEN work.sides ELSE sides
    /\ readers' = NowStale
    /\ work' = AfterSaving
    /\ UNCHANGED <<file, token, calls, audit, checked, past>>

SaveSides ==
    /\ work # NoWork /\ work.pc = "saveSides"
    /\ sides' = work.sides
    /\ readers' = NowStale
    /\ work' = AfterSaving
    /\ UNCHANGED <<file, token, calls, audit, checked, past>>

Saving(doc, round, then) ==
    [work EXCEPT !.pc = "save", !.doc = doc, !.sides = round, !.then = then]

-----------------------------------------------------------------------------
(* The operations. *)

\* create_run, also with the id of a run that is there: the run file is saved
\* before the answer saves everything.
CreateRun ==
    /\ work = NoWork
    /\ file' = Draft
    /\ readers' = NowStale
    /\ work' = [op |-> "create", pc |-> "save", then |-> "done", doc |-> Draft,
                sides |-> 0, round |-> 0]
    /\ checked' = 0 /\ past' = {}
    /\ UNCHANGED <<sides, token, calls, audit>>

ConfirmableUnlessRunning == Statuses \ MidPhases  \* Deviation: settled runs too.
Confirmable == {"draft_scope", "awaiting_local_confirmation"}

ConfirmRun(scope) ==
    /\ Doing("confirm") /\ work.doc.status \in Confirmable
    /\ work' = Saving([work.doc EXCEPT !.status = "awaiting_local_confirmation",
                                       !.scope = scope], work.sides, "respond")
    /\ UNCHANGED <<file, sides, readers, token, calls, audit, checked, past>>

\* start and cancel answer with a settled run as it is, and so save it again.
AnswerSettled ==
    /\ Doing("start") \/ Doing("cancel")
    /\ work.doc.status \in Settled
    /\ work' = Saving(work.doc, work.sides, "done")
    /\ UNCHANGED <<file, sides, readers, token, calls, audit, checked, past>>

StartableAfterCut == {"awaiting_local_confirmation"} \cup MidPhases \* Deviation: starts again.
Startable == {"awaiting_local_confirmation"}

RefuseState ==
    /\ \/ Doing("confirm") /\ work.doc.status \notin Confirmable
       \/ Doing("start") /\ work.doc.status \notin Settled \cup Startable
       \/ Doing("tool") /\ work.doc.scope = "none"
    /\ work' = NoWork
    /\ UNCHANGED <<file, sides, readers, token, calls, audit, checked, past>>

\* _advance begins: "queued" is passed through in memory.
Begin ==
    /\ Doing("start") /\ work.doc.status \in Startable
    /\ work' = [Saving([work.doc EXCEPT !.status = Phases[1]], work.sides, "act")
                EXCEPT !.op = "advance", !.round = 1]
    /\ UNCHANGED <<file, sides, readers, token, calls, audit, checked, past>>

\* Workers ask for sources, which counts against the run; when the budget or the
\* time is spent, work ends here with the positions of the round before.
Round ==
    /\ Doing("advance") /\ work.round \in 1..MaxRounds
    /\ \E asked \in 0..1 :
        LET tools == Capped(work.doc.tools + asked, ToolLimit + 1)
        IN  \/ /\ tools <= ToolLimit
               /\ work' = [Saving([work.doc EXCEPT !.status = Phases[work.round + 1],
                                                   !.tools = tools], work.round, "act")
                           EXCEPT !.round = @ + 1]
            \/ /\ asked = 0 \/ tools > ToolLimit
               /\ work' = Saving([work.doc EXCEPT !.status = "budget_exhausted",
                                                  !.tools = tools], work.sides, "respond")
    /\ UNCHANGED <<file, sides, readers, token, calls, audit, checked, past>>

\* _advance_to_final_positions, when the rounds end in an earlier phase.
FinalPositions ==
    /\ Doing("advance") /\ work.round = MaxRounds + 1
    /\ work.doc.status # "final_positions"
    /\ work' = Saving([work.doc EXCEPT !.status = "final_positions"], work.sides, "act")
    /\ UNCHANGED <<file, sides, readers, token, calls, audit, checked, past>>

CancelRun ==
    /\ Doing("cancel") /\ work.doc.status \notin Settled
    /\ token' = FALSE
    /\ work' = Saving([work.doc EXCEPT !.status = "cancelled"], work.sides, "respond")
    /\ UNCHANGED <<file, sides, readers, calls, audit, checked, past>>

-----------------------------------------------------------------------------
(* The broker. *)

DeniedByScope(doc) == doc.scope # "full"     \* Deviation: a cancelled run is served.
Denied(doc) == doc.status = "cancelled" \/ doc.scope # "full"

\* A call that is not denied is counted first, also when it is refused then.
Counted == calls' = Capped(calls + 1, CallLimit)
Spent == calls >= CallLimit \/ audit >= ToolLimit

\* The last step of _advance.
Verify ==
    /\ Doing("advance") /\ work.doc.status = "final_positions"
    /\ checked' = IF "undone" \in past THEN 0 ELSE work.sides
    /\ ~Denied(work.doc) /\ ~Spent
    /\ Counted /\ audit' = audit + 1
    /\ token' = FALSE
    /\ work' = Saving([work.doc EXCEPT !.status = "completed_review_required"],
                      work.sides, "respond")
    /\ UNCHANGED <<file, sides, readers, past>>

\* A refusal is an exception that leaves the start: for the scope or a limit, or
\* behind the counting for an unknown matter, for arguments or a result that are
\* too large, or because the tool raised.
VerificationRefused ==
    /\ Doing("advance") /\ work.doc.status = "final_positions"
    /\ token' = TRUE
    /\ \/ Denied(work.doc) /\ UNCHANGED calls
       \/ ~Denied(work.doc) /\ Counted
    /\ past' = Note({"refused"})
    /\ work' = NoWork
    /\ UNCHANGED <<file, sides, readers, audit, checked>>

\* invoke_tool, with a token of an earlier call or a new one.
ToolServed ==
    /\ Doing("tool") /\ work.doc.scope # "none"
    /\ ~Denied(work.doc) /\ ~Spent
    /\ token' \in {token, TRUE} /\ token'
    /\ Counted /\ audit' = audit + 1
    /\ work' = Saving([work.doc EXCEPT !.tools = Capped(@ + 1, ToolLimit + 1)], work.sides, "done")
    /\ past' = IF "cancelled" \in past THEN Note({"late"}) ELSE past
    /\ UNCHANGED <<file, sides, readers, checked>>

ToolRefused ==
    /\ Doing("tool") /\ work.doc.scope # "none"
    /\ \/ ~token /\ UNCHANGED <<token, calls>>
       \/ Denied(work.doc) /\ token' = TRUE /\ UNCHANGED calls
       \/ ~Denied(work.doc) /\ token' = TRUE /\ Counted
    /\ work' = NoWork
    /\ UNCHANGED <<file, sides, readers, audit, checked, past>>

\* Tool calls of the other runs fill the same log.
OtherRuns ==
    /\ audit < ToolLimit
    /\ audit' = audit + 1
    /\ UNCHANGED <<file, sides, work, readers, token, calls, checked, past>>

-----------------------------------------------------------------------------
(* get_run, which outbound_preview calls too: no lock anywhere. *)

Undone(d) == IF readers[d].stale THEN {"undone"} ELSE past

ReadFile(d) ==
    /\ readers[d] = NoReading /\ file # Absent
    /\ readers' = [readers EXCEPT ![d] = [pc |-> "sides", doc |-> file, sides |-> 0,
                                          stale |-> FALSE]]
    /\ UNCHANGED <<file, sides, work, token, calls, audit, checked, past>>

ReadSides(d) ==
    /\ readers[d].pc = "sides"
    /\ readers' = [readers EXCEPT ![d].pc = "write", ![d].sides = sides]
    /\ UNCHANGED <<file, sides, work, token, calls, audit, checked, past>>

WriteBack(d) ==
    /\ readers[d].pc = "write"
    /\ file' = readers[d].doc
    /\ past' = Undone(d)
    /\ readers' = [readers EXCEPT ![d].pc = "writeSides", ![d].doc = Absent]
    /\ UNCHANGED <<sides, work, token, calls, audit, checked>>

WriteSidesBack(d) ==
    /\ readers[d].pc = "writeSides"
    /\ sides' = readers[d].sides
    /\ past' = Undone(d)
    /\ readers' = [readers EXCEPT ![d] = NoReading]
    /\ UNCHANGED <<file, work, token, calls, audit, checked>>

\* A file cannot be read or written, and the call ends where it is.
Fails ==
    /\ work # NoWork
    /\ work' = NoWork
    /\ past' = IF work.op = "advance" THEN Note({"cut"}) ELSE past
    /\ UNCHANGED <<file, sides, readers, token, calls, audit, checked>>

\* The process dies: the files stay, tokens and counts do not.
Crash ==
    /\ work' = NoWork
    /\ readers' = [d \in Readers |-> NoReading]
    /\ token' = FALSE /\ calls' = 0 /\ audit' = 0
    /\ past' = IF work.op = "advance" THEN Note({"cut"}) ELSE past
    /\ UNCHANGED <<file, sides, checked>>

DeliberationNext ==
    \/ CreateRun
    \/ \E op \in {"confirm", "start", "cancel", "tool"} : Take(op)
    \/ LoadFile \/ LoadSides \/ SaveFile \/ SaveSides
    \/ \E scope \in {"full", "narrow"} : ConfirmRun(scope)
    \/ AnswerSettled \/ RefuseState \/ Begin \/ Round \/ FinalPositions \/ CancelRun
    \/ Verify \/ VerificationRefused \/ ToolServed \/ ToolRefused \/ OtherRuns
    \/ \E d \in Readers : ReadFile(d) \/ ReadSides(d) \/ WriteBack(d) \/ WriteSidesBack(d)
    \/ Fails
    \/ Crash

DeliberationSpec == DeliberationInit /\ [][DeliberationNext]_deliberationVars

-----------------------------------------------------------------------------
(* Properties. *)

DeliberationTypeOK ==
    /\ file \in Doc /\ sides \in 0..MaxRounds
    /\ work \in Work \cup {NoWork}
    /\ readers \in [Readers -> Reading \cup {NoReading}]
    /\ token \in BOOLEAN
    /\ calls \in 0..CallLimit /\ audit \in 0..ToolLimit
    /\ checked \in 0..MaxRounds /\ past \subseteq Past

\* allowed_transitions of nh_deliberation_state_machine.json, and its paths.
Later(S) == S \cup {"partial_worker_failure", "budget_exhausted", "cancelling", "cancelled",
                    "failed_closed"}
Table ==
    [draft_scope |-> {"awaiting_local_confirmation", "cancelled", "failed_closed"},
     awaiting_local_confirmation |-> {"queued", "cancelled", "failed_closed"},
     queued |-> {"running_independent", "cancelling", "cancelled", "failed_closed"},
     running_independent |-> Later({"aligning_claims"}),
     aligning_claims |-> Later({"cross_review"}),
     cross_review |-> Later({"rebuttal"}),
     rebuttal |-> Later({"omission_hunt"}),
     omission_hunt |-> Later({"final_positions"}),
     final_positions |-> Later({"verifying"}),
     verifying |-> Later({"synthesizing"}),
     synthesizing |-> Later({"completed_review_required"}),
     completed_review_required |-> {},
     partial_worker_failure |-> (MidPhases \ {"running_independent"}) \cup
         {"verifying", "synthesizing", "cancelling", "cancelled", "failed_closed"},
     budget_exhausted |-> {"cancelled", "failed_closed"},
     cancelling |-> {"cancelled", "failed_closed"},
     cancelled |-> {},
     failed_closed |-> {}]
Extended(t) == [s \in DOMAIN t |-> t[s] \cup UNION {t[u] : u \in t[s]}]
Paths == Extended(Extended(Extended(Extended(Table))))

\* Most statuses are assigned without a look at the table.  Still the status on
\* disk only moves along its paths, and so never leaves a settled one, except
\* when the run is created anew, or once a reading that began before the last
\* save has written its older copy back.
FollowsTheTable ==
    [][\/ file'.status = file.status \/ file'.status = "draft_scope"
       \/ file # Absent /\ file'.status \in Paths[file.status]
       \/ "undone" \in past']_deliberationVars

\* Work on a run is begun once, unless a reading brought back what it was before.
StartedOnce == "again" \notin past

\* A run that nobody works on rests in the middle of its phases only when its
\* work was cut short (by the death of the process or a file that could not be
\* read or written), its verification was refused (by the broker or the tool), or
\* a reading put it there.
RestsForAReason ==
    work.op # "advance" /\ file.status \in MidPhases => past \cap {"cut", "refused", "undone"} # {}

\* A run is worked on once, and abandoned only for a reason.
RunsOnceToRest == StartedOnce /\ RestsForAReason

\* The positions beside a completed run are the ones that were verified.
CompletedIsVerified ==
    file.status = "completed_review_required" /\ "undone" \notin past => sides = checked

\* No tool serves a run whose cancellation was saved.
NoCallAfterCancel == "late" \notin past
=============================================================================
