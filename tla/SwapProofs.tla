----------------------------- MODULE SwapProofs -----------------------------
(***************************************************************************)
(* Proofs about the hot swap worker (HotSwap) and about the agent runs on  *)
(* top of it (AgentRuns).                                                  *)
(*                                                                         *)
(* The worker's invariant is about the slot: one call is past the lock,    *)
(* and what the manager believes (the active adapter, the verified         *)
(* releases) is judged at that call's place, because between two of its    *)
(* steps the belief may be stale, or about to be given up.  The host's     *)
(* invariant ties the three places a cancellation is recorded in (the      *)
(* store's row, the client's event, the worker's row) to where the run     *)
(* route and the completion call are.  A step of the host is a step of the *)
(* worker or leaves it alone, so the worker's invariant is the host's too. *)
(*                                                                         *)
(* A lemma named ...Moves says what a helper, or a step, does to the       *)
(* functions it updates; one named ...Kept that every step keeps an        *)
(* invariant, action by action.                                            *)
(***************************************************************************)
EXTENDS AgentRuns, TLAPS

-----------------------------------------------------------------------------
(* The places of a call, and what the helpers of the actions do. *)

InSlot == {"begin"} \cup Working \cup Ending
Places == {"enter", "busy"} \cup InSlot \cup Returned

\* A call goes to another place and keeps its request.
LEMMA GotoMoves ==
    ASSUME SwapTypeOK, NEW c \in Calls, NEW pc \in Places, Goto(c, pc)
    PROVE  /\ calls' \in [Calls -> Call]
           /\ calls'[c].pc = pc /\ calls'[c].req = calls[c].req
           /\ \A d \in Calls : d # c => calls'[d] = calls[d]
BY DEF SwapTypeOK, Goto, Call, Places, InSlot

\* A call returns and has no request any more.
LEMMA ReturnMoves ==
    ASSUME SwapTypeOK, NEW c \in Calls, NEW pc \in Returned, Return(c, pc)
    PROVE  /\ calls' \in [Calls -> Call]
           /\ calls'[c].pc = pc /\ calls'[c].req = NoRequest
           /\ \A d \in Calls : d # c => calls'[d] = calls[d]
BY DEF SwapTypeOK, Return, Call, Idle

\* A completion sets the state of its row, unless the table has forgotten the row.
LEMMA MarkMoves ==
    ASSUME SwapTypeOK, NEW r \in Requests,
           NEW s \in {"running", "canceled", "completed", "failed", "rejected_busy"}, Mark(r, s)
    PROVE  /\ rows' \in [Requests -> Row]
           /\ rows'[r].state \in {s, rows[r].state} /\ (Known(r) => rows'[r].state = s)
           /\ ~Known(r) => rows'[r] = rows[r]
           /\ rows'[r].ran = rows[r].ran /\ rows'[r].cancel = rows[r].cancel
           /\ \A x \in Requests : x # r => rows'[x] = rows[x]
<1>1. rows[r] \in Row
  BY DEF SwapTypeOK
<1>2. /\ rows' = [rows EXCEPT ![r] = rows'[r]]
      /\ rows'[r] = [rows[r] EXCEPT !.state = IF Known(r) THEN s ELSE @]
  BY DEF SwapTypeOK, Mark
<1>3. /\ rows'[r] \in Row /\ rows'[r].ran = rows[r].ran /\ rows'[r].cancel = rows[r].cancel
      /\ rows'[r].state = IF Known(r) THEN s ELSE rows[r].state
      /\ ~Known(r) => rows'[r] = rows[r]
  BY <1>1, <1>2 DEF Row, LiveStates
<1> QED
  BY <1>2, <1>3 DEF SwapTypeOK

\* Pruning forgets rows, and alters nothing in the rows it keeps; the history
\* of a row that a call holds is kept, and running rows stay.
LEMMA PruneMoves ==
    ASSUME SwapTypeOK
    PROVE  /\ Pruned \in [Requests -> Row]
           /\ \A r \in Requests :
                /\ Pruned[r] = rows[r] \/ Pruned[r].state \in {"unknown", "forgotten"}
                /\ Held(r) => Pruned[r].ran = rows[r].ran
                /\ Pruned[r].ran \in {rows[r].ran, 0}
                /\ rows[r].state \in {"running", "canceling"} => Pruned[r] = rows[r]
<1> DEFINE Good(r) == /\ Pruned[r] \in Row
                      /\ Pruned[r] = rows[r] \/ Pruned[r].state \in {"unknown", "forgotten"}
                      /\ Held(r) => Pruned[r].ran = rows[r].ran
                      /\ Pruned[r].ran \in {rows[r].ran, 0}
                      /\ rows[r].state \in {"running", "canceling"} => Pruned[r] = rows[r]
<1> DEFINE New(r) == IF Kept(r) THEN rows[r]
                     ELSE IF Held(r) /\ Known(r) THEN [rows[r] EXCEPT !.state = "forgotten"]
                     ELSE IF Held(r) THEN rows[r] ELSE NoRow
<1>1. Pruned = [r \in Requests |-> New(r)]
  BY DEF Pruned
<1>2. ASSUME NEW r \in Requests PROVE Good(r)
  <2>1. rows[r] \in Row
    BY DEF SwapTypeOK
  <2>2. [rows[r] EXCEPT !.state = "forgotten"] \in Row
    BY <2>1 DEF Row
  <2>3. NoRow \in Row
    BY DEF NoRow, Row
  <2>4. Pruned[r] = New(r)
    BY <1>1
  <2> QED
    BY <2>1, <2>2, <2>3, <2>4 DEF Kept, Known, NoRow, Row
<1> HIDE DEF New
<1> QED
  BY <1>1, <1>2

\* A child that is cleared keeps its adapter and its life.
LEMMA ChildMoves ==
    ASSUME SwapTypeOK
    PROVE  /\ Cleared \in Child /\ NoChild \in Child
           /\ Cleared.context = NoRequest /\ Cleared.adapter = child.adapter
           /\ Cleared.status = child.status
BY DEF SwapTypeOK, Cleared, NoChild, Child

-----------------------------------------------------------------------------
(* The slot. *)

\* The call that holds the slot is the one that is past the lock, and a call
\* has a request exactly while it is under way.
SlotInv ==
    \A c \in Calls :
        /\ slot = c <=> calls[c].pc \in InSlot
        /\ calls[c].req \in Requests <=> calls[c].pc \notin Returned

\* A call under way is about a request.
LEMMA InCall ==
    ASSUME SwapTypeOK, SlotInv, NEW c \in Calls, calls[c].pc \notin Returned
    PROVE  Req(c) \in Requests /\ Rel(c) \in Releases
BY SwapConstants DEF SlotInv, Req, Rel

\* Every step of the worker keeps the types.
LEMMA TypesKept ==
    SwapTypeOK /\ SlotInv /\ [SwapNext]_swapVars => SwapTypeOK'
<1> SUFFICES ASSUME SwapTypeOK, SlotInv, [SwapNext]_swapVars
             PROVE  SwapTypeOK'
  OBVIOUS
<1>1. ASSUME NEW r \in Requests, Prepare(r) PROVE SwapTypeOK'
  BY <1>1, PruneMoves
  DEF Prepare, managerVars, SwapTypeOK, Places, InSlot, Working, Ending, Returned, Call, Row,
      Child, NoChild, NoRow, Idle, LiveStates
<1>2. ASSUME NEW r \in Requests, PrepareRefused(r) PROVE SwapTypeOK'
  BY <1>2, PruneMoves
  DEF PrepareRefused, managerVars, SwapTypeOK, Places, InSlot, Working, Ending, Returned, Call,
      Row, Child, NoChild, NoRow, Idle, LiveStates
<1>3. ASSUME NEW r \in Requests, Cancel(r) PROVE SwapTypeOK'
  <2>0. rows[r] \in Row
    BY DEF SwapTypeOK
  <2>1. rows' \in [Requests -> Row]
    <3>1. [rows[r] EXCEPT !.cancel = TRUE,
                          !.state = IF @ = "reserved" THEN "canceled" ELSE "canceling"] \in Row
      BY <2>0 DEF Row, LiveStates
    <3> QED
      BY <1>3, <3>1 DEF SwapTypeOK, Cancel
  <2> QED
    BY <1>3, <2>1 DEF SwapTypeOK, Cancel, managerVars
<1>4. ASSUME NEW c \in Calls, NEW r \in Requests, Send(c, r) PROVE SwapTypeOK'
  BY <1>4
  DEF Send, managerVars, SwapTypeOK, Places, InSlot, Working, Ending, Returned, Call, Row, Child,
      NoChild, NoRow, Idle, LiveStates
<1>5. ASSUME NEW c \in Calls, Enter(c) PROVE SwapTypeOK'
  BY <1>5, GotoMoves, InCall
  DEF Enter, At, managerVars, SwapTypeOK, Places, InSlot, Working, Ending, Returned, Call, Row,
      Child, NoChild, NoRow, Idle, LiveStates
<1>6. ASSUME NEW c \in Calls, RejectBusy(c) PROVE SwapTypeOK'
  BY <1>6, MarkMoves, ReturnMoves, InCall
  DEF RejectBusy, At, Req, managerVars, SwapTypeOK, Places, InSlot, Working, Ending, Returned,
      Call, Row, Child, NoChild, NoRow, Idle, LiveStates
<1>7. ASSUME NEW c \in Calls, Begin(c) PROVE SwapTypeOK'
  BY <1>7, MarkMoves, GotoMoves, InCall
  DEF Begin, At, Req, Admissible, managerVars, SwapTypeOK, Places, InSlot, Working, Ending,
      Returned, Call, Row, Child, NoChild, NoRow, Idle, LiveStates
<1>8. ASSUME NEW c \in Calls, Refuse(c) PROVE SwapTypeOK'
  BY <1>8, ReturnMoves, InCall
  DEF Refuse, At, managerVars, SwapTypeOK, Places, InSlot, Working, Ending, Returned, Call, Row,
      Child, NoChild, NoRow, Idle, LiveStates
<1>9. ASSUME NEW c \in Calls, Copy(c) PROVE SwapTypeOK'
  BY <1>9, GotoMoves, InCall
  DEF Copy, At, Rel, Req, managerVars, SwapTypeOK, Places, InSlot, Working, Ending, Returned,
      Call, Row, Child, NoChild, NoRow, Idle, LiveStates
<1>10. ASSUME NEW c \in Calls, CopyStops(c) PROVE SwapTypeOK'
  <2>1. calls' \in [Calls -> Call]
    BY <1>10, GotoMoves DEF CopyStops, Places, InSlot, Working, Ending
  <2>2. copied' \in [Releases -> {"none", "part", "whole"}]
    BY <1>10, InCall DEF SwapTypeOK, CopyStops, At, Working, Returned
  <2> QED
    BY <1>10, <2>1, <2>2 DEF SwapTypeOK, CopyStops, managerVars
<1>11. ASSUME NEW c \in Calls, Clear(c) PROVE SwapTypeOK'
  BY <1>11, GotoMoves, ChildMoves, InCall
  DEF Clear, At, NeedsAdapter, Rel, Req, ClearSucceeds, ClearFails, managerVars, SwapTypeOK,
      Places, InSlot, Working, Ending, Returned, Call, Row, Child, NoChild, NoRow, Idle,
      LiveStates
<1>12. ASSUME NEW c \in Calls, Activate(c) PROVE SwapTypeOK'
  BY <1>12, GotoMoves, ChildMoves, InCall
  DEF Activate, At, Rel, Req, managerVars, SwapTypeOK, Places, InSlot, Working, Ending, Returned,
      Call, Row, Child, NoChild, NoRow, Idle, LiveStates
<1>13. ASSUME NEW c \in Calls, Generate(c) PROVE SwapTypeOK'
  <2>1. Req(c) \in Requests
    BY <1>13, InCall DEF Generate, At, Returned
  <2>2. rows' \in [Requests -> Row]
    BY <1>13, <2>1 DEF SwapTypeOK, Generate, Row
  <2>3. calls' \in [Calls -> Call]
    BY <1>13, GotoMoves DEF Generate, Places, InSlot, Working, Ending
  <2>4. child' \in Child
    BY <1>13, <2>1, ChildMoves DEF SwapTypeOK, Generate, Child
  <2> QED
    BY <1>13, <2>2, <2>3, <2>4 DEF SwapTypeOK, Generate, managerVars
<1>14. ASSUME NEW c \in Calls, Engine(c) PROVE SwapTypeOK'
  BY <1>14, GotoMoves, ChildMoves, InCall
  DEF Engine, At, Req, Cancelled, managerVars, SwapTypeOK, Places, InSlot, Working, Ending,
      Returned, Call, Row, Child, NoChild, NoRow, Idle, LiveStates
<1>15. ASSUME NEW c \in Calls, Deliver(c) PROVE SwapTypeOK'
  BY <1>15, GotoMoves, InCall
  DEF Deliver, At, managerVars, SwapTypeOK, Places, InSlot, Working, Ending, Returned, Call, Row,
      Child, NoChild, NoRow, Idle, LiveStates
<1>16. ASSUME NEW c \in Calls, Publish(c) PROVE SwapTypeOK'
  <2>1. rows' \in [Requests -> Row]
    BY <1>16, InCall, MarkMoves DEF Publish, At, Returned
  <2>2. calls' \in [Calls -> Call]
    <3>1. calls[c] \in Call /\ calls \in [Calls -> Call]
      BY DEF SwapTypeOK
    <3>2. calls' = [calls EXCEPT ![c] = [calls[c] EXCEPT !.pc = "end", !.text = TRUE]]
      BY <1>16, <3>1 DEF Publish
    <3>3. [calls[c] EXCEPT !.pc = "end", !.text = TRUE] \in Call
      BY <3>1 DEF Call, Ending
    <3> QED
      BY <3>1, <3>2, <3>3
  <2> QED
    BY <1>16, <2>1, <2>2 DEF SwapTypeOK, Publish, managerVars
<1>17. ASSUME NEW c \in Calls, Canceling(c) PROVE SwapTypeOK'
  <2>1. rows' \in [Requests -> Row]
    BY <1>17, InCall, MarkMoves DEF Canceling, At, Returned
  <2>2. calls' \in [Calls -> Call]
    BY <1>17, GotoMoves DEF Canceling, Places, InSlot, Ending
  <2> QED
    BY <1>17, <2>1, <2>2, ChildMoves
    DEF SwapTypeOK, Canceling, DropSnapshot, Nothing, ActiveAfterCancel
<1>18. ASSUME NEW c \in Calls, Failing(c) PROVE SwapTypeOK'
  BY <1>18, MarkMoves, GotoMoves, ChildMoves, InCall
  DEF Failing, At, Req, ClearSucceeds, ClearFails, managerVars, SwapTypeOK, Places, InSlot,
      Working, Ending, Returned, Call, Row, Child, NoChild, NoRow, Idle, LiveStates
<1>19. ASSUME NEW c \in Calls, Leave(c) PROVE SwapTypeOK'
  BY <1>19, MarkMoves, ReturnMoves, ChildMoves, InCall
  DEF Leave, At, Req, ClearSucceeds, ClearFails, managerVars, SwapTypeOK, Places, InSlot,
      Working, Ending, Returned, Call, Row, Child, NoChild, NoRow, Idle, LiveStates
<1>20. CASE ChildDies
  BY <1>20, ChildMoves
  DEF ChildDies, managerVars, SwapTypeOK, Places, InSlot, Working, Ending, Returned, Call, Row,
      Child, NoChild, NoRow, Idle, LiveStates
<1>21. CASE Close
  BY <1>21, ChildMoves DEF SwapTypeOK, Close, Nothing
<1>22. CASE Restart
  <2>1. rows' \in [Requests -> Row]
    BY <1>22 DEF Restart, NoRow, Row
  <2>2. calls' \in [Calls -> Call]
    BY <1>22 DEF SwapTypeOK, Restart, Idle, Call, Returned
  <2> QED
    BY <1>22, <2>1, <2>2, ChildMoves DEF SwapTypeOK, Restart, Nothing
<1>23. ASSUME NEW r \in Requests, Expire(r) PROVE SwapTypeOK'
  <2>1. rows' \in [Requests -> Row]
    BY <1>23 DEF SwapTypeOK, Expire, Row
  <2> QED
    BY <1>23, <2>1 DEF SwapTypeOK, Expire, managerVars
<1>24. CASE UNCHANGED swapVars
  BY <1>24
  DEF swapVars, managerVars, SwapTypeOK, Places, InSlot, Working, Ending, Returned, Call, Row,
      Child, NoChild, NoRow, Idle, LiveStates
<1> QED
  BY <1>1, <1>2, <1>3, <1>4, <1>5, <1>6, <1>7, <1>8, <1>9, <1>10, <1>11, <1>12, <1>13, <1>14,
     <1>15, <1>16, <1>17, <1>18, <1>19, <1>20, <1>21, <1>22, <1>23, <1>24 DEF SwapNext, CallStep,
     Environment

\* Every step keeps the slot with the one call that is past the lock.
LEMMA SlotKept ==
    SwapTypeOK /\ SlotInv /\ [SwapNext]_swapVars => SlotInv'
<1> SUFFICES ASSUME SwapTypeOK, SlotInv, [SwapNext]_swapVars
             PROVE  SlotInv'
  OBVIOUS
<1>1. ASSUME NEW r \in Requests, Prepare(r) PROVE SlotInv'
  BY <1>1, PruneMoves, SwapConstants
  DEF Prepare, managerVars, SlotInv, SwapTypeOK, Places, InSlot, Working, Ending, Returned, Idle
<1>2. ASSUME NEW r \in Requests, PrepareRefused(r) PROVE SlotInv'
  BY <1>2, PruneMoves, SwapConstants
  DEF PrepareRefused, managerVars, SlotInv, SwapTypeOK, Places, InSlot, Working, Ending,
      Returned, Idle
<1>3. ASSUME NEW r \in Requests, Cancel(r) PROVE SlotInv'
  BY <1>3, SwapConstants
  DEF Cancel, managerVars, SlotInv, SwapTypeOK, Places, InSlot, Working, Ending, Returned, Idle
<1>4. ASSUME NEW c \in Calls, NEW r \in Requests, Send(c, r) PROVE SlotInv'
  BY <1>4, SwapConstants
  DEF Send, managerVars, SlotInv, SwapTypeOK, Places, InSlot, Working, Ending, Returned, Idle
<1>5. ASSUME NEW c \in Calls, Enter(c) PROVE SlotInv'
  BY <1>5, GotoMoves, InCall, SwapConstants
  DEF Enter, At, managerVars, SlotInv, SwapTypeOK, Places, InSlot, Working, Ending, Returned, Idle
<1>6. ASSUME NEW c \in Calls, RejectBusy(c) PROVE SlotInv'
  BY <1>6, MarkMoves, ReturnMoves, InCall, SwapConstants
  DEF RejectBusy, At, Req, managerVars, SlotInv, SwapTypeOK, Places, InSlot, Working, Ending,
      Returned, Idle
<1>7. ASSUME NEW c \in Calls, Begin(c) PROVE SlotInv'
  BY <1>7, MarkMoves, GotoMoves, InCall, SwapConstants
  DEF Begin, At, Req, Admissible, managerVars, SlotInv, SwapTypeOK, Places, InSlot, Working,
      Ending, Returned, Idle
<1>8. ASSUME NEW c \in Calls, Refuse(c) PROVE SlotInv'
  BY <1>8, ReturnMoves, InCall, SwapConstants
  DEF Refuse, At, managerVars, SlotInv, SwapTypeOK, Places, InSlot, Working, Ending, Returned,
      Idle
<1>9. ASSUME NEW c \in Calls, Copy(c) PROVE SlotInv'
  BY <1>9, GotoMoves, InCall, SwapConstants
  DEF Copy, At, Rel, Req, managerVars, SlotInv, SwapTypeOK, Places, InSlot, Working, Ending,
      Returned, Idle
<1>10. ASSUME NEW c \in Calls, CopyStops(c) PROVE SlotInv'
  BY <1>10, GotoMoves, InCall, SwapConstants
  DEF CopyStops, At, Rel, Req, Cancelled, managerVars, SlotInv, SwapTypeOK, Places, InSlot,
      Working, Ending, Returned, Idle
<1>11. ASSUME NEW c \in Calls, Clear(c) PROVE SlotInv'
  BY <1>11, GotoMoves, ChildMoves, InCall, SwapConstants
  DEF Clear, At, NeedsAdapter, Rel, Req, ClearSucceeds, ClearFails, managerVars, SlotInv,
      SwapTypeOK, Places, InSlot, Working, Ending, Returned, Idle
<1>12. ASSUME NEW c \in Calls, Activate(c) PROVE SlotInv'
  BY <1>12, GotoMoves, ChildMoves, InCall, SwapConstants
  DEF Activate, At, Rel, Req, managerVars, SlotInv, SwapTypeOK, Places, InSlot, Working, Ending,
      Returned, Idle
<1>13. ASSUME NEW c \in Calls, Generate(c) PROVE SlotInv'
  BY <1>13, GotoMoves, InCall, SwapConstants
  DEF Generate, At, Req, managerVars, SlotInv, SwapTypeOK, Places, InSlot, Working, Ending,
      Returned, Idle
<1>14. ASSUME NEW c \in Calls, Engine(c) PROVE SlotInv'
  BY <1>14, GotoMoves, ChildMoves, InCall, SwapConstants
  DEF Engine, At, Req, Cancelled, managerVars, SlotInv, SwapTypeOK, Places, InSlot, Working,
      Ending, Returned, Idle
<1>15. ASSUME NEW c \in Calls, Deliver(c) PROVE SlotInv'
  BY <1>15, GotoMoves, InCall, SwapConstants
  DEF Deliver, At, managerVars, SlotInv, SwapTypeOK, Places, InSlot, Working, Ending, Returned,
      Idle
<1>16. ASSUME NEW c \in Calls, Publish(c) PROVE SlotInv'
  BY <1>16, MarkMoves, InCall, SwapConstants
  DEF Publish, At, Req, managerVars, SlotInv, SwapTypeOK, Places, InSlot, Working, Ending,
      Returned, Idle
<1>17. ASSUME NEW c \in Calls, Canceling(c) PROVE SlotInv'
  BY <1>17, MarkMoves, GotoMoves, ChildMoves, InCall, SwapConstants
  DEF Canceling, At, Req, Rel, DropSnapshot, ActiveAfterCancel, managerVars, SlotInv, SwapTypeOK,
      Places, InSlot, Working, Ending, Returned, Idle
<1>18. ASSUME NEW c \in Calls, Failing(c) PROVE SlotInv'
  BY <1>18, MarkMoves, GotoMoves, ChildMoves, InCall, SwapConstants
  DEF Failing, At, Req, ClearSucceeds, ClearFails, managerVars, SlotInv, SwapTypeOK, Places,
      InSlot, Working, Ending, Returned, Idle
<1>19. ASSUME NEW c \in Calls, Leave(c) PROVE SlotInv'
  BY <1>19, MarkMoves, ReturnMoves, ChildMoves, InCall, SwapConstants
  DEF Leave, At, Req, ClearSucceeds, ClearFails, managerVars, SlotInv, SwapTypeOK, Places,
      InSlot, Working, Ending, Returned, Idle
<1>20. CASE ChildDies
  BY <1>20, SwapConstants
  DEF ChildDies, managerVars, SlotInv, SwapTypeOK, Places, InSlot, Working, Ending, Returned, Idle
<1>21. CASE Close
  BY <1>21, SwapConstants
  DEF Close, managerVars, SlotInv, SwapTypeOK, Places, InSlot, Working, Ending, Returned, Idle
<1>22. CASE Restart
  BY <1>22, SwapConstants
  DEF Restart, SlotInv, SwapTypeOK, Places, InSlot, Working, Ending, Returned, Idle
<1>23. ASSUME NEW r \in Requests, Expire(r) PROVE SlotInv'
  BY <1>23, SwapConstants
  DEF Expire, managerVars, SlotInv, SwapTypeOK, Places, InSlot, Working, Ending, Returned, Idle
<1>24. CASE UNCHANGED swapVars
  BY <1>24, SwapConstants
  DEF swapVars, managerVars, SlotInv, SwapTypeOK, Places, InSlot, Working, Ending, Returned, Idle
<1> QED
  BY <1>1, <1>2, <1>3, <1>4, <1>5, <1>6, <1>7, <1>8, <1>9, <1>10, <1>11, <1>12, <1>13, <1>14,
     <1>15, <1>16, <1>17, <1>18, <1>19, <1>20, <1>21, <1>22, <1>23, <1>24 DEF SwapNext, CallStep,
     Environment

-----------------------------------------------------------------------------
(* A request is generated from once. *)

Unrun == {"copy", "clear", "activate", "ready"}
AtWork == Working \cup Ending

\* The model has not seen a reserved request, nor one whose call is still before
\* the engine; a request whose call is at work is never reserved again.
RunInv ==
    /\ GeneratedOnce
    /\ \A r \in Requests : rows[r].state = "reserved" => rows[r].ran = 0
    /\ \A c \in Calls :
        /\ calls[c].pc \in AtWork => rows[Req(c)].state # "reserved"
        /\ calls[c].pc \in Unrun => rows[Req(c)].ran = 0

\* Every step keeps a request from being generated from again.
LEMMA RunKept ==
    SwapTypeOK /\ SlotInv /\ RunInv /\ [SwapNext]_swapVars => RunInv'
<1> SUFFICES ASSUME SwapTypeOK, SlotInv, RunInv, [SwapNext]_swapVars
             PROVE  RunInv'
  OBVIOUS
<1>1. ASSUME NEW r \in Requests, Prepare(r) PROVE RunInv'
  BY <1>1, PruneMoves
  DEF Prepare, managerVars, RunInv, GeneratedOnce, Unrun, AtWork, SwapTypeOK, SlotInv, Places,
      InSlot, Working, Ending, Returned, Req, Known, Held, LiveStates
<1>2. ASSUME NEW r \in Requests, PrepareRefused(r) PROVE RunInv'
  BY <1>2, PruneMoves
  DEF PrepareRefused, managerVars, RunInv, GeneratedOnce, Unrun, AtWork, SwapTypeOK, SlotInv,
      Places, InSlot, Working, Ending, Returned, Req, Known, Held, LiveStates
<1>3. ASSUME NEW r \in Requests, Cancel(r) PROVE RunInv'
  BY <1>3
  DEF Cancel, managerVars, RunInv, GeneratedOnce, Unrun, AtWork, SwapTypeOK, SlotInv, Places,
      InSlot, Working, Ending, Returned, Req, Row, LiveStates
<1>4. ASSUME NEW c \in Calls, NEW r \in Requests, Send(c, r) PROVE RunInv'
  BY <1>4
  DEF Send, managerVars, RunInv, GeneratedOnce, Unrun, AtWork, SwapTypeOK, SlotInv, Places,
      InSlot, Working, Ending, Returned, Req, LiveStates
<1>5. ASSUME NEW c \in Calls, Enter(c) PROVE RunInv'
  BY <1>5, GotoMoves, InCall
  DEF Enter, At, managerVars, RunInv, GeneratedOnce, Unrun, AtWork, SwapTypeOK, SlotInv, Places,
      InSlot, Working, Ending, Returned, Req, LiveStates
<1>6. ASSUME NEW c \in Calls, RejectBusy(c) PROVE RunInv'
  BY <1>6, MarkMoves, ReturnMoves, InCall
  DEF RejectBusy, At, Req, managerVars, RunInv, GeneratedOnce, Unrun, AtWork, SwapTypeOK,
      SlotInv, Places, InSlot, Working, Ending, Returned, LiveStates
<1>7. ASSUME NEW c \in Calls, Begin(c) PROVE RunInv'
  BY <1>7, MarkMoves, GotoMoves, InCall
  DEF Begin, At, Req, Admissible, managerVars, RunInv, GeneratedOnce, Unrun, AtWork, SwapTypeOK,
      SlotInv, Places, InSlot, Working, Ending, Returned, Known, Held, LiveStates
<1>8. ASSUME NEW c \in Calls, Refuse(c) PROVE RunInv'
  BY <1>8, ReturnMoves, InCall
  DEF Refuse, At, managerVars, RunInv, GeneratedOnce, Unrun, AtWork, SwapTypeOK, SlotInv, Places,
      InSlot, Working, Ending, Returned, Req, LiveStates
<1>9. ASSUME NEW c \in Calls, Copy(c) PROVE RunInv'
  BY <1>9, GotoMoves, InCall
  DEF Copy, At, Rel, Req, managerVars, RunInv, GeneratedOnce, Unrun, AtWork, SwapTypeOK, SlotInv,
      Places, InSlot, Working, Ending, Returned, LiveStates
<1>10. ASSUME NEW c \in Calls, CopyStops(c) PROVE RunInv'
  BY <1>10, GotoMoves, InCall
  DEF CopyStops, At, Rel, Req, Cancelled, managerVars, RunInv, GeneratedOnce, Unrun, AtWork,
      SwapTypeOK, SlotInv, Places, InSlot, Working, Ending, Returned, LiveStates
<1>11. ASSUME NEW c \in Calls, Clear(c) PROVE RunInv'
  BY <1>11, GotoMoves, ChildMoves, InCall
  DEF Clear, At, NeedsAdapter, Rel, Req, ClearSucceeds, ClearFails, managerVars, RunInv,
      GeneratedOnce, Unrun, AtWork, SwapTypeOK, SlotInv, Places, InSlot, Working, Ending,
      Returned, LiveStates
<1>12. ASSUME NEW c \in Calls, Activate(c) PROVE RunInv'
  BY <1>12, GotoMoves, ChildMoves, InCall
  DEF Activate, At, Rel, Req, managerVars, RunInv, GeneratedOnce, Unrun, AtWork, SwapTypeOK,
      SlotInv, Places, InSlot, Working, Ending, Returned, LiveStates
<1>13. ASSUME NEW c \in Calls, Generate(c) PROVE RunInv'
  BY <1>13, GotoMoves, InCall
  DEF Generate, At, Req, managerVars, RunInv, GeneratedOnce, Unrun, AtWork, SwapTypeOK, SlotInv,
      Places, InSlot, Working, Ending, Returned, Row, LiveStates
<1>14. ASSUME NEW c \in Calls, Engine(c) PROVE RunInv'
  BY <1>14, GotoMoves, ChildMoves, InCall
  DEF Engine, At, Req, Cancelled, managerVars, RunInv, GeneratedOnce, Unrun, AtWork, SwapTypeOK,
      SlotInv, Places, InSlot, Working, Ending, Returned, LiveStates
<1>15. ASSUME NEW c \in Calls, Deliver(c) PROVE RunInv'
  BY <1>15, GotoMoves, InCall
  DEF Deliver, At, managerVars, RunInv, GeneratedOnce, Unrun, AtWork, SwapTypeOK, SlotInv,
      Places, InSlot, Working, Ending, Returned, Req, LiveStates
<1>16. ASSUME NEW c \in Calls, Publish(c) PROVE RunInv'
  BY <1>16, MarkMoves, InCall
  DEF Publish, At, Req, managerVars, RunInv, GeneratedOnce, Unrun, AtWork, SwapTypeOK, SlotInv,
      Places, InSlot, Working, Ending, Returned, LiveStates
<1>17. ASSUME NEW c \in Calls, Canceling(c) PROVE RunInv'
  BY <1>17, MarkMoves, GotoMoves, ChildMoves, InCall
  DEF Canceling, At, Req, Rel, DropSnapshot, ActiveAfterCancel, managerVars, RunInv,
      GeneratedOnce, Unrun, AtWork, SwapTypeOK, SlotInv, Places, InSlot, Working, Ending,
      Returned, LiveStates
<1>18. ASSUME NEW c \in Calls, Failing(c) PROVE RunInv'
  BY <1>18, MarkMoves, GotoMoves, ChildMoves, InCall
  DEF Failing, At, Req, ClearSucceeds, ClearFails, managerVars, RunInv, GeneratedOnce, Unrun,
      AtWork, SwapTypeOK, SlotInv, Places, InSlot, Working, Ending, Returned, LiveStates
<1>19. ASSUME NEW c \in Calls, Leave(c) PROVE RunInv'
  BY <1>19, MarkMoves, ReturnMoves, ChildMoves, InCall
  DEF Leave, At, Req, ClearSucceeds, ClearFails, managerVars, RunInv, GeneratedOnce, Unrun,
      AtWork, SwapTypeOK, SlotInv, Places, InSlot, Working, Ending, Returned, LiveStates
<1>20. CASE ChildDies
  BY <1>20
  DEF ChildDies, managerVars, RunInv, GeneratedOnce, Unrun, AtWork, SwapTypeOK, SlotInv, Places,
      InSlot, Working, Ending, Returned, Req, LiveStates
<1>21. CASE Close
  BY <1>21
  DEF Close, managerVars, RunInv, GeneratedOnce, Unrun, AtWork, SwapTypeOK, SlotInv, Places,
      InSlot, Working, Ending, Returned, Req, LiveStates
<1>22. CASE Restart
  BY <1>22
  DEF Restart, RunInv, GeneratedOnce, Unrun, AtWork, SwapTypeOK, SlotInv, Places, InSlot,
      Working, Ending, Returned, Req, NoRow, Idle, LiveStates
<1>23. ASSUME NEW r \in Requests, Expire(r) PROVE RunInv'
  BY <1>23
  DEF Expire, managerVars, RunInv, GeneratedOnce, Unrun, AtWork, SwapTypeOK, SlotInv, Places,
      InSlot, Working, Ending, Returned, Req, Row, LiveStates
<1>24. CASE UNCHANGED swapVars
  BY <1>24
  DEF swapVars, managerVars, RunInv, GeneratedOnce, Unrun, AtWork, SwapTypeOK, SlotInv, Places,
      InSlot, Working, Ending, Returned, Req, LiveStates
<1> QED
  BY <1>1, <1>2, <1>3, <1>4, <1>5, <1>6, <1>7, <1>8, <1>9, <1>10, <1>11, <1>12, <1>13, <1>14,
     <1>15, <1>16, <1>17, <1>18, <1>19, <1>20, <1>21, <1>22, <1>23, <1>24 DEF SwapNext, CallStep,
     Environment

-----------------------------------------------------------------------------
(* What the manager believes. *)

Loaded == active # NoRelease => child.status # "none" /\ child.adapter = active

\* Unless the worker is quarantined or about to be, or a cancelled request is
\* about to give the belief up, the adapter it believes active is loaded.
LoadedInv ==
    /\ slot = NoCall /\ ~quarantined => Loaded
    /\ \A c \in Calls :
        /\ calls[c].pc \in Working => ~quarantined /\ Loaded
        /\ calls[c].pc = "canceling" => ~quarantined
        /\ calls[c].pc \in {"begin", "end"} /\ ~quarantined => Loaded
        /\ calls[c].pc \in {"ready", "engine"} => active = Rel(c)

\* A verified release is whole, and past the copy the call's release is verified.
CopyInv ==
    /\ VerifiedIsWhole
    /\ \A c \in Calls : calls[c].pc \in Working \ {"copy"} => Rel(c) \in verified

\* The child holds a text only while the engine works on it.
TextInv == child.context # NoRequest => \E c \in Calls : At(c, "engine")

\* Every step keeps the manager's belief about the adapter true where it is used.
LEMMA LoadedKept ==
    SwapTypeOK /\ SlotInv /\ LoadedInv /\ [SwapNext]_swapVars => LoadedInv'
<1> SUFFICES ASSUME SwapTypeOK, SlotInv, LoadedInv, [SwapNext]_swapVars
             PROVE  LoadedInv'
  OBVIOUS
<1>1. ASSUME NEW r \in Requests, Prepare(r) PROVE LoadedInv'
  BY <1>1, PruneMoves, SwapConstants
  DEF Prepare, managerVars, LoadedInv, Loaded, SwapTypeOK, SlotInv, Places, InSlot, Working,
      Ending, Returned, Req, Rel
<1>2. ASSUME NEW r \in Requests, PrepareRefused(r) PROVE LoadedInv'
  BY <1>2, PruneMoves, SwapConstants
  DEF PrepareRefused, managerVars, LoadedInv, Loaded, SwapTypeOK, SlotInv, Places, InSlot,
      Working, Ending, Returned, Req, Rel
<1>3. ASSUME NEW r \in Requests, Cancel(r) PROVE LoadedInv'
  BY <1>3, SwapConstants
  DEF Cancel, managerVars, LoadedInv, Loaded, SwapTypeOK, SlotInv, Places, InSlot, Working,
      Ending, Returned, Req, Rel
<1>4. ASSUME NEW c \in Calls, NEW r \in Requests, Send(c, r) PROVE LoadedInv'
  BY <1>4, SwapConstants
  DEF Send, managerVars, LoadedInv, Loaded, SwapTypeOK, SlotInv, Places, InSlot, Working, Ending,
      Returned, Req, Rel
<1>5. ASSUME NEW c \in Calls, Enter(c) PROVE LoadedInv'
  BY <1>5, GotoMoves, InCall, SwapConstants
  DEF Enter, At, managerVars, LoadedInv, Loaded, SwapTypeOK, SlotInv, Places, InSlot, Working,
      Ending, Returned, Req, Rel
<1>6. ASSUME NEW c \in Calls, RejectBusy(c) PROVE LoadedInv'
  BY <1>6, MarkMoves, ReturnMoves, InCall, SwapConstants
  DEF RejectBusy, At, Req, managerVars, LoadedInv, Loaded, SwapTypeOK, SlotInv, Places, InSlot,
      Working, Ending, Returned, Rel
<1>7. ASSUME NEW c \in Calls, Begin(c) PROVE LoadedInv'
  BY <1>7, MarkMoves, GotoMoves, InCall, SwapConstants
  DEF Begin, At, Req, Admissible, managerVars, LoadedInv, Loaded, SwapTypeOK, SlotInv, Places,
      InSlot, Working, Ending, Returned, Rel
<1>8. ASSUME NEW c \in Calls, Refuse(c) PROVE LoadedInv'
  BY <1>8, ReturnMoves, InCall, SwapConstants
  DEF Refuse, At, managerVars, LoadedInv, Loaded, SwapTypeOK, SlotInv, Places, InSlot, Working,
      Ending, Returned, Req, Rel
<1>9. ASSUME NEW c \in Calls, Copy(c) PROVE LoadedInv'
  BY <1>9, GotoMoves, InCall, SwapConstants
  DEF Copy, At, Rel, Req, managerVars, LoadedInv, Loaded, SwapTypeOK, SlotInv, Places, InSlot,
      Working, Ending, Returned
<1>10. ASSUME NEW c \in Calls, CopyStops(c) PROVE LoadedInv'
  BY <1>10, GotoMoves, InCall, SwapConstants
  DEF CopyStops, At, Rel, Req, Cancelled, managerVars, LoadedInv, Loaded, SwapTypeOK, SlotInv,
      Places, InSlot, Working, Ending, Returned
<1>11. ASSUME NEW c \in Calls, Clear(c) PROVE LoadedInv'
  BY <1>11, GotoMoves, ChildMoves, InCall, SwapConstants
  DEF Clear, At, NeedsAdapter, Rel, Req, ClearSucceeds, ClearFails, managerVars, LoadedInv,
      Loaded, SwapTypeOK, SlotInv, Places, InSlot, Working, Ending, Returned, NoChild
<1>12. ASSUME NEW c \in Calls, Activate(c) PROVE LoadedInv'
  BY <1>12, GotoMoves, ChildMoves, InCall, SwapConstants
  DEF Activate, At, Rel, Req, managerVars, LoadedInv, Loaded, SwapTypeOK, SlotInv, Places,
      InSlot, Working, Ending, Returned, NoChild
<1>13. ASSUME NEW c \in Calls, Generate(c) PROVE LoadedInv'
  <2>1. \A d \in Calls : d # c => calls'[d] = calls[d] /\ calls[d].pc \notin InSlot
    BY <1>13, GotoMoves DEF Generate, At, SlotInv, Places, InSlot, Working, Ending
  <2>2. slot' = c /\ Req(c) \in Requests /\ UNCHANGED managerVars
    BY <1>13, InCall DEF Generate, At, SlotInv, InSlot, Working, Returned
  <2>3. ~quarantined /\ Loaded /\ active = Rel(c)
    BY <1>13 DEF LoadedInv, Generate, At, Working
  <2>4. calls'[c].pc \in {"canceling", "engine", "failing"} /\ calls'[c].req = calls[c].req
    BY <1>13, GotoMoves DEF Generate, Places, InSlot, Working, Ending
  <2>5. calls'[c].pc # "failing" => Loaded'
    BY <1>13, <2>2, <2>3, <2>4, GotoMoves
    DEF Generate, Loaded, managerVars, SwapTypeOK, Child, Places, InSlot, Working, Ending
  <2> QED
    BY <2>1, <2>2, <2>3, <2>4, <2>5, SwapConstants
    DEF LoadedInv, Loaded, managerVars, InSlot, Working, Ending, Rel, Req
<1>14. ASSUME NEW c \in Calls, Engine(c) PROVE LoadedInv'
  BY <1>14, GotoMoves, ChildMoves, InCall, SwapConstants
  DEF Engine, At, Req, Cancelled, managerVars, LoadedInv, Loaded, SwapTypeOK, SlotInv, Places,
      InSlot, Working, Ending, Returned, Rel, NoChild
<1>15. ASSUME NEW c \in Calls, Deliver(c) PROVE LoadedInv'
  BY <1>15, GotoMoves, InCall, SwapConstants
  DEF Deliver, At, managerVars, LoadedInv, Loaded, SwapTypeOK, SlotInv, Places, InSlot, Working,
      Ending, Returned, Req, Rel
<1>16. ASSUME NEW c \in Calls, Publish(c) PROVE LoadedInv'
  BY <1>16, MarkMoves, InCall, SwapConstants
  DEF Publish, At, Req, managerVars, LoadedInv, Loaded, SwapTypeOK, SlotInv, Places, InSlot,
      Working, Ending, Returned, Rel
<1>17. ASSUME NEW c \in Calls, Canceling(c) PROVE LoadedInv'
  BY <1>17, MarkMoves, GotoMoves, ChildMoves, InCall, SwapConstants
  DEF Canceling, At, Req, Rel, DropSnapshot, ActiveAfterCancel, managerVars, LoadedInv, Loaded,
      SwapTypeOK, SlotInv, Places, InSlot, Working, Ending, Returned
<1>18. ASSUME NEW c \in Calls, Failing(c) PROVE LoadedInv'
  BY <1>18, MarkMoves, GotoMoves, ChildMoves, InCall, SwapConstants
  DEF Failing, At, Req, ClearSucceeds, ClearFails, managerVars, LoadedInv, Loaded, SwapTypeOK,
      SlotInv, Places, InSlot, Working, Ending, Returned, Rel
<1>19. ASSUME NEW c \in Calls, Leave(c) PROVE LoadedInv'
  BY <1>19, MarkMoves, ReturnMoves, ChildMoves, InCall, SwapConstants
  DEF Leave, At, Req, ClearSucceeds, ClearFails, managerVars, LoadedInv, Loaded, SwapTypeOK,
      SlotInv, Places, InSlot, Working, Ending, Returned, Rel, NoChild
<1>20. CASE ChildDies
  BY <1>20, SwapConstants
  DEF ChildDies, managerVars, LoadedInv, Loaded, SwapTypeOK, SlotInv, Places, InSlot, Working,
      Ending, Returned, Req, Rel
<1>21. CASE Close
  BY <1>21, SwapConstants
  DEF Close, managerVars, LoadedInv, Loaded, SwapTypeOK, SlotInv, Places, InSlot, Working,
      Ending, Returned, Req, Rel
<1>22. CASE Restart
  BY <1>22, SwapConstants
  DEF Restart, LoadedInv, Loaded, SwapTypeOK, SlotInv, Places, InSlot, Working, Ending, Returned,
      Req, Rel, Idle, NoChild
<1>23. ASSUME NEW r \in Requests, Expire(r) PROVE LoadedInv'
  BY <1>23, SwapConstants
  DEF Expire, managerVars, LoadedInv, Loaded, SwapTypeOK, SlotInv, Places, InSlot, Working,
      Ending, Returned, Req, Rel
<1>24. CASE UNCHANGED swapVars
  BY <1>24, SwapConstants
  DEF swapVars, managerVars, LoadedInv, Loaded, SwapTypeOK, SlotInv, Places, InSlot, Working,
      Ending, Returned, Req, Rel
<1> QED
  BY <1>1, <1>2, <1>3, <1>4, <1>5, <1>6, <1>7, <1>8, <1>9, <1>10, <1>11, <1>12, <1>13, <1>14,
     <1>15, <1>16, <1>17, <1>18, <1>19, <1>20, <1>21, <1>22, <1>23, <1>24 DEF SwapNext, CallStep,
     Environment

\* Every step keeps the verified releases whole.
LEMMA CopyKept ==
    SwapTypeOK /\ SlotInv /\ LoadedInv /\ CopyInv /\ [SwapNext]_swapVars => CopyInv'
<1> SUFFICES ASSUME SwapTypeOK, SlotInv, LoadedInv, CopyInv, [SwapNext]_swapVars
             PROVE  CopyInv'
  OBVIOUS
<1>1. ASSUME NEW r \in Requests, Prepare(r) PROVE CopyInv'
  BY <1>1, PruneMoves, SwapConstants
  DEF Prepare, managerVars, CopyInv, VerifiedIsWhole, SwapTypeOK, SlotInv, Places, InSlot,
      Working, Ending, Returned, Req, Rel
<1>2. ASSUME NEW r \in Requests, PrepareRefused(r) PROVE CopyInv'
  BY <1>2, PruneMoves, SwapConstants
  DEF PrepareRefused, managerVars, CopyInv, VerifiedIsWhole, SwapTypeOK, SlotInv, Places, InSlot,
      Working, Ending, Returned, Req, Rel
<1>3. ASSUME NEW r \in Requests, Cancel(r) PROVE CopyInv'
  BY <1>3, SwapConstants
  DEF Cancel, managerVars, CopyInv, VerifiedIsWhole, SwapTypeOK, SlotInv, Places, InSlot,
      Working, Ending, Returned, Req, Rel
<1>4. ASSUME NEW c \in Calls, NEW r \in Requests, Send(c, r) PROVE CopyInv'
  BY <1>4, SwapConstants
  DEF Send, managerVars, CopyInv, VerifiedIsWhole, SwapTypeOK, SlotInv, Places, InSlot, Working,
      Ending, Returned, Req, Rel
<1>5. ASSUME NEW c \in Calls, Enter(c) PROVE CopyInv'
  BY <1>5, GotoMoves, InCall, SwapConstants
  DEF Enter, At, managerVars, CopyInv, VerifiedIsWhole, SwapTypeOK, SlotInv, Places, InSlot,
      Working, Ending, Returned, Req, Rel, LoadedInv
<1>6. ASSUME NEW c \in Calls, RejectBusy(c) PROVE CopyInv'
  BY <1>6, MarkMoves, ReturnMoves, InCall, SwapConstants
  DEF RejectBusy, At, Req, managerVars, CopyInv, VerifiedIsWhole, SwapTypeOK, SlotInv, Places,
      InSlot, Working, Ending, Returned, Rel, LoadedInv
<1>7. ASSUME NEW c \in Calls, Begin(c) PROVE CopyInv'
  BY <1>7, MarkMoves, GotoMoves, InCall, SwapConstants
  DEF Begin, At, Req, Admissible, managerVars, CopyInv, VerifiedIsWhole, SwapTypeOK, SlotInv,
      Places, InSlot, Working, Ending, Returned, Rel, LoadedInv
<1>8. ASSUME NEW c \in Calls, Refuse(c) PROVE CopyInv'
  BY <1>8, ReturnMoves, InCall, SwapConstants
  DEF Refuse, At, managerVars, CopyInv, VerifiedIsWhole, SwapTypeOK, SlotInv, Places, InSlot,
      Working, Ending, Returned, Req, Rel, LoadedInv
<1>9. ASSUME NEW c \in Calls, Copy(c) PROVE CopyInv'
  BY <1>9, GotoMoves, InCall, SwapConstants
  DEF Copy, At, Rel, Req, managerVars, CopyInv, VerifiedIsWhole, SwapTypeOK, SlotInv, Places,
      InSlot, Working, Ending, Returned, LoadedInv
<1>10. ASSUME NEW c \in Calls, CopyStops(c) PROVE CopyInv'
  BY <1>10, GotoMoves, InCall, SwapConstants
  DEF CopyStops, At, Rel, Req, Cancelled, managerVars, CopyInv, VerifiedIsWhole, SwapTypeOK,
      SlotInv, Places, InSlot, Working, Ending, Returned, LoadedInv
<1>11. ASSUME NEW c \in Calls, Clear(c) PROVE CopyInv'
  BY <1>11, GotoMoves, ChildMoves, InCall, SwapConstants
  DEF Clear, At, NeedsAdapter, Rel, Req, ClearSucceeds, ClearFails, managerVars, CopyInv,
      VerifiedIsWhole, SwapTypeOK, SlotInv, Places, InSlot, Working, Ending, Returned, LoadedInv
<1>12. ASSUME NEW c \in Calls, Activate(c) PROVE CopyInv'
  BY <1>12, GotoMoves, ChildMoves, InCall, SwapConstants
  DEF Activate, At, Rel, Req, managerVars, CopyInv, VerifiedIsWhole, SwapTypeOK, SlotInv, Places,
      InSlot, Working, Ending, Returned, LoadedInv
<1>13. ASSUME NEW c \in Calls, Generate(c) PROVE CopyInv'
  BY <1>13, GotoMoves, InCall, SwapConstants
  DEF Generate, At, Req, managerVars, CopyInv, VerifiedIsWhole, SwapTypeOK, SlotInv, Places,
      InSlot, Working, Ending, Returned, Rel, LoadedInv
<1>14. ASSUME NEW c \in Calls, Engine(c) PROVE CopyInv'
  BY <1>14, GotoMoves, ChildMoves, InCall, SwapConstants
  DEF Engine, At, Req, Cancelled, managerVars, CopyInv, VerifiedIsWhole, SwapTypeOK, SlotInv,
      Places, InSlot, Working, Ending, Returned, Rel, LoadedInv
<1>15. ASSUME NEW c \in Calls, Deliver(c) PROVE CopyInv'
  BY <1>15, GotoMoves, InCall, SwapConstants
  DEF Deliver, At, managerVars, CopyInv, VerifiedIsWhole, SwapTypeOK, SlotInv, Places, InSlot,
      Working, Ending, Returned, Req, Rel, LoadedInv
<1>16. ASSUME NEW c \in Calls, Publish(c) PROVE CopyInv'
  BY <1>16, MarkMoves, InCall, SwapConstants
  DEF Publish, At, Req, managerVars, CopyInv, VerifiedIsWhole, SwapTypeOK, SlotInv, Places,
      InSlot, Working, Ending, Returned, Rel, LoadedInv
<1>17. ASSUME NEW c \in Calls, Canceling(c) PROVE CopyInv'
  BY <1>17, MarkMoves, GotoMoves, ChildMoves, InCall, SwapConstants
  DEF Canceling, At, Req, Rel, DropSnapshot, ActiveAfterCancel, managerVars, CopyInv,
      VerifiedIsWhole, SwapTypeOK, SlotInv, Places, InSlot, Working, Ending, Returned, LoadedInv
<1>18. ASSUME NEW c \in Calls, Failing(c) PROVE CopyInv'
  BY <1>18, MarkMoves, GotoMoves, ChildMoves, InCall, SwapConstants
  DEF Failing, At, Req, ClearSucceeds, ClearFails, managerVars, CopyInv, VerifiedIsWhole,
      SwapTypeOK, SlotInv, Places, InSlot, Working, Ending, Returned, Rel, LoadedInv
<1>19. ASSUME NEW c \in Calls, Leave(c) PROVE CopyInv'
  BY <1>19, MarkMoves, ReturnMoves, ChildMoves, InCall, SwapConstants
  DEF Leave, At, Req, ClearSucceeds, ClearFails, managerVars, CopyInv, VerifiedIsWhole,
      SwapTypeOK, SlotInv, Places, InSlot, Working, Ending, Returned, Rel, LoadedInv
<1>20. CASE ChildDies
  BY <1>20, SwapConstants
  DEF ChildDies, managerVars, CopyInv, VerifiedIsWhole, SwapTypeOK, SlotInv, Places, InSlot,
      Working, Ending, Returned, Req, Rel
<1>21. CASE Close
  BY <1>21, SwapConstants
  DEF Close, managerVars, CopyInv, VerifiedIsWhole, SwapTypeOK, SlotInv, Places, InSlot, Working,
      Ending, Returned, Req, Rel
<1>22. CASE Restart
  BY <1>22, SwapConstants
  DEF Restart, CopyInv, VerifiedIsWhole, SwapTypeOK, SlotInv, Places, InSlot, Working, Ending,
      Returned, Req, Rel, Idle
<1>23. ASSUME NEW r \in Requests, Expire(r) PROVE CopyInv'
  BY <1>23, SwapConstants
  DEF Expire, managerVars, CopyInv, VerifiedIsWhole, SwapTypeOK, SlotInv, Places, InSlot,
      Working, Ending, Returned, Req, Rel
<1>24. CASE UNCHANGED swapVars
  BY <1>24, SwapConstants
  DEF swapVars, managerVars, CopyInv, VerifiedIsWhole, SwapTypeOK, SlotInv, Places, InSlot,
      Working, Ending, Returned, Req, Rel
<1> QED
  BY <1>1, <1>2, <1>3, <1>4, <1>5, <1>6, <1>7, <1>8, <1>9, <1>10, <1>11, <1>12, <1>13, <1>14,
     <1>15, <1>16, <1>17, <1>18, <1>19, <1>20, <1>21, <1>22, <1>23, <1>24 DEF SwapNext, CallStep,
     Environment

\* Every step leaves a text in the child only while the engine works on it.
LEMMA TextKept ==
    SwapTypeOK /\ SlotInv /\ TextInv /\ [SwapNext]_swapVars => TextInv'
<1> SUFFICES ASSUME SwapTypeOK, SlotInv, TextInv, [SwapNext]_swapVars
             PROVE  TextInv'
  OBVIOUS
<1>1. ASSUME NEW r \in Requests, Prepare(r) PROVE TextInv'
  BY <1>1, PruneMoves, SwapConstants
  DEF Prepare, managerVars, TextInv, SwapTypeOK, SlotInv, Places, InSlot, Working, Ending,
      Returned, Req, NoChild, At
<1>2. ASSUME NEW r \in Requests, PrepareRefused(r) PROVE TextInv'
  BY <1>2, PruneMoves, SwapConstants
  DEF PrepareRefused, managerVars, TextInv, SwapTypeOK, SlotInv, Places, InSlot, Working, Ending,
      Returned, Req, NoChild, At
<1>3. ASSUME NEW r \in Requests, Cancel(r) PROVE TextInv'
  BY <1>3, SwapConstants
  DEF Cancel, managerVars, TextInv, SwapTypeOK, SlotInv, Places, InSlot, Working, Ending,
      Returned, Req, NoChild, At
<1>4. ASSUME NEW c \in Calls, NEW r \in Requests, Send(c, r) PROVE TextInv'
  BY <1>4, SwapConstants
  DEF Send, managerVars, TextInv, SwapTypeOK, SlotInv, Places, InSlot, Working, Ending, Returned,
      Req, NoChild, At
<1>5. ASSUME NEW c \in Calls, Enter(c) PROVE TextInv'
  BY <1>5, GotoMoves, SwapConstants
  DEF Enter, At, managerVars, TextInv, SwapTypeOK, SlotInv, Places, InSlot, Working, Ending,
      Returned, Req, NoChild
<1>6. ASSUME NEW c \in Calls, RejectBusy(c) PROVE TextInv'
  BY <1>6, MarkMoves, ReturnMoves, SwapConstants
  DEF RejectBusy, At, Req, managerVars, TextInv, SwapTypeOK, SlotInv, Places, InSlot, Working,
      Ending, Returned, NoChild
<1>7. ASSUME NEW c \in Calls, Begin(c) PROVE TextInv'
  BY <1>7, MarkMoves, GotoMoves, SwapConstants
  DEF Begin, At, Req, Admissible, managerVars, TextInv, SwapTypeOK, SlotInv, Places, InSlot,
      Working, Ending, Returned, NoChild
<1>8. ASSUME NEW c \in Calls, Refuse(c) PROVE TextInv'
  BY <1>8, ReturnMoves, SwapConstants
  DEF Refuse, At, managerVars, TextInv, SwapTypeOK, SlotInv, Places, InSlot, Working, Ending,
      Returned, Req, NoChild
<1>9. ASSUME NEW c \in Calls, Copy(c) PROVE TextInv'
  BY <1>9, GotoMoves, SwapConstants
  DEF Copy, At, Rel, Req, managerVars, TextInv, SwapTypeOK, SlotInv, Places, InSlot, Working,
      Ending, Returned, NoChild
<1>10. ASSUME NEW c \in Calls, CopyStops(c) PROVE TextInv'
  BY <1>10, GotoMoves, SwapConstants
  DEF CopyStops, At, Rel, Req, Cancelled, managerVars, TextInv, SwapTypeOK, SlotInv, Places,
      InSlot, Working, Ending, Returned, NoChild
<1>11. ASSUME NEW c \in Calls, Clear(c) PROVE TextInv'
  BY <1>11, GotoMoves, ChildMoves, SwapConstants
  DEF Clear, At, NeedsAdapter, Rel, Req, ClearSucceeds, ClearFails, managerVars, TextInv,
      SwapTypeOK, SlotInv, Places, InSlot, Working, Ending, Returned, NoChild
<1>12. ASSUME NEW c \in Calls, Activate(c) PROVE TextInv'
  BY <1>12, GotoMoves, ChildMoves, SwapConstants
  DEF Activate, At, Rel, Req, managerVars, TextInv, SwapTypeOK, SlotInv, Places, InSlot, Working,
      Ending, Returned, NoChild
<1>13. ASSUME NEW c \in Calls, Generate(c) PROVE TextInv'
  BY <1>13, GotoMoves, SwapConstants
  DEF Generate, At, Req, managerVars, TextInv, SwapTypeOK, SlotInv, Places, InSlot, Working,
      Ending, Returned, NoChild
<1>14. ASSUME NEW c \in Calls, Engine(c) PROVE TextInv'
  BY <1>14, GotoMoves, ChildMoves, SwapConstants
  DEF Engine, At, Req, Cancelled, managerVars, TextInv, SwapTypeOK, SlotInv, Places, InSlot,
      Working, Ending, Returned, NoChild
<1>15. ASSUME NEW c \in Calls, Deliver(c) PROVE TextInv'
  BY <1>15, GotoMoves, SwapConstants
  DEF Deliver, At, managerVars, TextInv, SwapTypeOK, SlotInv, Places, InSlot, Working, Ending,
      Returned, Req, NoChild
<1>16. ASSUME NEW c \in Calls, Publish(c) PROVE TextInv'
  BY <1>16, MarkMoves, SwapConstants
  DEF Publish, At, Req, managerVars, TextInv, SwapTypeOK, SlotInv, Places, InSlot, Working,
      Ending, Returned, NoChild
<1>17. ASSUME NEW c \in Calls, Canceling(c) PROVE TextInv'
  BY <1>17, MarkMoves, GotoMoves, ChildMoves, SwapConstants
  DEF Canceling, At, Req, Rel, DropSnapshot, ActiveAfterCancel, managerVars, TextInv, SwapTypeOK,
      SlotInv, Places, InSlot, Working, Ending, Returned, NoChild
<1>18. ASSUME NEW c \in Calls, Failing(c) PROVE TextInv'
  BY <1>18, MarkMoves, GotoMoves, ChildMoves, SwapConstants
  DEF Failing, At, Req, ClearSucceeds, ClearFails, managerVars, TextInv, SwapTypeOK, SlotInv,
      Places, InSlot, Working, Ending, Returned, NoChild
<1>19. ASSUME NEW c \in Calls, Leave(c) PROVE TextInv'
  BY <1>19, MarkMoves, ReturnMoves, ChildMoves, SwapConstants
  DEF Leave, At, Req, ClearSucceeds, ClearFails, managerVars, TextInv, SwapTypeOK, SlotInv,
      Places, InSlot, Working, Ending, Returned, NoChild
<1>20. CASE ChildDies
  BY <1>20, SwapConstants
  DEF ChildDies, managerVars, TextInv, SwapTypeOK, SlotInv, Places, InSlot, Working, Ending,
      Returned, Req, NoChild, At
<1>21. CASE Close
  BY <1>21, SwapConstants
  DEF Close, managerVars, TextInv, SwapTypeOK, SlotInv, Places, InSlot, Working, Ending,
      Returned, Req, NoChild, At
<1>22. CASE Restart
  BY <1>22, SwapConstants
  DEF Restart, TextInv, SwapTypeOK, SlotInv, Places, InSlot, Working, Ending, Returned, Req,
      NoChild, At
<1>23. ASSUME NEW r \in Requests, Expire(r) PROVE TextInv'
  BY <1>23, SwapConstants
  DEF Expire, managerVars, TextInv, SwapTypeOK, SlotInv, Places, InSlot, Working, Ending,
      Returned, Req, NoChild, At
<1>24. CASE UNCHANGED swapVars
  BY <1>24, SwapConstants
  DEF swapVars, managerVars, TextInv, SwapTypeOK, SlotInv, Places, InSlot, Working, Ending,
      Returned, Req, NoChild, At
<1> QED
  BY <1>1, <1>2, <1>3, <1>4, <1>5, <1>6, <1>7, <1>8, <1>9, <1>10, <1>11, <1>12, <1>13, <1>14,
     <1>15, <1>16, <1>17, <1>18, <1>19, <1>20, <1>21, <1>22, <1>23, <1>24 DEF SwapNext, CallStep,
     Environment

-----------------------------------------------------------------------------
(* The worker's invariant, and what it gives. *)

SwapInv == SwapTypeOK /\ SlotInv /\ RunInv /\ LoadedInv /\ CopyInv /\ TextInv

\* The worker starts in its invariant.
LEMMA SwapStart == SwapInit => SwapInv
<1> SUFFICES ASSUME SwapInit PROVE SwapInv
  OBVIOUS
<1>1. SwapTypeOK
  <2>1. NoRow \in Row /\ Idle \in Call /\ NoChild \in Child
    BY DEF NoRow, Row, Idle, Call, Returned, NoChild, Child
  <2> QED
    BY <2>1 DEF SwapInit, SwapTypeOK, Nothing
<1>2. \A c \in Calls : calls[c] = Idle
  BY DEF SwapInit
<1>3. SlotInv /\ RunInv
  BY <1>2, SwapConstants
  DEF SwapInit, SlotInv, RunInv, GeneratedOnce, Unrun, AtWork, Idle, InSlot, Working, Ending,
      Returned, NoRow
<1>4. LoadedInv /\ CopyInv /\ TextInv
  BY <1>2 DEF SwapInit, LoadedInv, Loaded, CopyInv, VerifiedIsWhole, TextInv, Idle, Working,
      NoChild
<1> QED
  BY <1>1, <1>3, <1>4 DEF SwapInv

\* The worker's invariant, from its start and the lemmas on its steps.
LEMMA SwapInvHolds == SwapSpec => []SwapInv
<1>1. SwapInv /\ [SwapNext]_swapVars => SwapInv'
  BY TypesKept, SlotKept, RunKept, LoadedKept, CopyKept, TextKept DEF SwapInv
<1> QED
  BY SwapStart, <1>1, PTL DEF SwapSpec

\* The table, the calls and the child are ones worker.py can hold.
THEOREM SwapTypes == SwapSpec => []SwapTypeOK
<1>1. SwapInv => SwapTypeOK
  BY DEF SwapInv
<1> QED
  BY <1>1, SwapInvHolds, PTL

\* However completions, cancellations, failures and restarts interleave, the model
\* that generates has the adapter of the request, from a whole copy (_activate and
\* the copy's verdict are skipped only when they may be).
THEOREM RightAdapterAlways == SwapSpec => []RightAdapter
<1>1. SwapInv => RightAdapter
  <2> SUFFICES ASSUME SwapInv, NEW c \in Calls, At(c, "engine")
               PROVE  /\ child.status # "none" /\ child.adapter = Rel(c) /\ active = Rel(c)
                      /\ copied[Rel(c)] = "whole"
    BY DEF RightAdapter
  <2>1. Rel(c) \in Releases
    BY InCall DEF SwapInv, At, Returned
  <2>2. ~quarantined /\ Loaded /\ active = Rel(c)
    BY DEF SwapInv, LoadedInv, At, Working
  <2>3. Rel(c) \in verified
    BY DEF SwapInv, CopyInv, At, Working
  <2> QED
    BY <2>1, <2>2, <2>3, SwapConstants DEF SwapInv, Loaded, CopyInv, VerifiedIsWhole
<1> QED
  BY <1>1, SwapInvHolds, PTL

\* Between requests the adapter the manager believes active is in the child, and
\* the releases it believes verified are whole, also after a swap that was
\* cancelled or failed half-way.
THEOREM BeliefsAreTrueAlways == SwapSpec => []BeliefsAreTrue
<1>1. SwapInv => BeliefsAreTrue
  BY DEF SwapInv, LoadedInv, Loaded, CopyInv, BeliefsAreTrue, BeliefIsLoaded
<1> QED
  BY <1>1, SwapInvHolds, PTL

\* The child holds nobody's text between requests.
THEOREM NothingRetainedAlways == SwapSpec => []NothingRetained
<1>1. SwapInv => NothingRetained
  <2> SUFFICES ASSUME SwapInv, slot = NoCall, child.context # NoRequest PROVE FALSE
    BY DEF NothingRetained
  <2>1. PICK c \in Calls : At(c, "engine")
    BY DEF SwapInv, TextInv
  <2>2. slot = c
    BY <2>1 DEF SwapInv, SlotInv, At, InSlot, Working
  <2> QED
    BY <2>2, SwapConstants
<1> QED
  BY <1>1, SwapInvHolds, PTL

\* No request's text is given to the model twice, however often its completion is
\* called and whatever is forgotten in between.
THEOREM GeneratedOnceAlways == SwapSpec => []GeneratedOnce
<1>1. SwapInv => GeneratedOnce
  BY DEF SwapInv, RunInv
<1> QED
  BY <1>1, SwapInvHolds, PTL

-----------------------------------------------------------------------------
(* The runs of the host, which use the worker by its own operations. *)

\* A step of the host, of its routes or of the environment is an operation of the
\* worker, or does not touch it.
LEMMA AgentStepIsSwapStep == [AgentNext]_agentVars => [SwapNext]_swapVars
<1> SUFFICES ASSUME [AgentNext]_agentVars PROVE [SwapNext]_swapVars
  OBVIOUS
<1>1. ASSUME NEW r \in Requests, RunStep(r) PROVE [SwapNext]_swapVars
  BY <1>1, OneCallPerRun
  DEF RunStep, Gate, Reserve, Prepared, Recheck, Abort, TellWorker, Post, Wait, After, Finish,
      SwapNext
<1>2. ASSUME NEW r \in Requests, CancelStep(r) PROVE [SwapNext]_swapVars
  BY <1>2 DEF CancelStep, SetEvent, Look, Tell, SwapNext
<1>3. ASSUME NEW r \in Requests, Register(r) \/ Claim(r) \/ CancelRun(r)
      PROVE  [SwapNext]_swapVars
  BY <1>3 DEF Register, Claim, CancelRun
<1>4. ASSUME NEW r \in Requests, WorkerStep(r) PROVE [SwapNext]_swapVars
  BY <1>4, OneCallPerRun DEF WorkerStep, SwapNext
<1>5. CASE HostDies \/ (Environment /\ UNCHANGED hostVars) \/ UNCHANGED agentVars
  BY <1>5 DEF HostDies, SwapNext, agentVars
<1> QED
  BY <1>1, <1>2, <1>3, <1>4, <1>5 DEF AgentNext

\* Every behaviour of the host and its worker is one of the worker: what holds of
\* the worker, whoever calls it, holds when the agent runs call it.
THEOREM AgentsUseTheWorker == AgentSpec => SwapSpec
<1>1. AgentInit => SwapInit
  BY DEF AgentInit
<1> QED
  BY <1>1, AgentStepIsSwapStep, PTL DEF AgentSpec, SwapSpec

HostTypeOK ==
    /\ runs \in [Requests -> Run]
    /\ client \in [Requests -> Client]
    /\ cancels \in [Requests -> CancelRoute]

\* The route that may still run, the row that it finds and the cancel route: a
\* cancellation that was made is seen in the row until the run ends, and from the
\* event on in the client too.
RouteInv ==
    \A r \in Requests :
        /\ runs[r].state = "absent" => runs[r].pc \in {"none", "gone"}
        /\ runs[r].state = "preview" => runs[r].pc = "none"
        /\ runs[r].state \in {"running", "canceling"} => runs[r].pc \in InRoute
        /\ runs[r].state = "canceled" => runs[r].pc \in {"none", "withheld"}
        /\ runs[r].state = "completed" => runs[r].pc = "delivered"
        /\ runs[r].state = "failed" => runs[r].pc = "failed"
        /\ cancels[r].made # "nothing" =>
             runs[r].state \in {"canceled", "canceling"} \/ In(r, "gone")
        /\ cancels[r].pc # "none" => cancels[r].made # "nothing"
        /\ In(r, "gone") => cancels[r].pc \in {"none", "answered"}
        /\ cancels[r].pc \in {"look", "tell", "answered", "error"} =>
             client[r].cancel \/ In(r, "gone")

Unsent == {"prepared", "recheck", "abort", "post"}
Waiting == {"enter", "busy", "begin"}

\* The client and the worker: a completion is sent once, after the flag is set;
\* until the worker works on it its row is reserved or cancelled, and once the
\* cancel route has answered it is not reserved any more.
Wired(r) ==
    /\ calls[r].req \in {r, NoRequest}
    /\ runs[r].pc \in {"none", "gate", "prepare"} \cup Unsent => calls[r] = Idle
    /\ runs[r].pc \in {"recheck", "abort", "post"} => client[r].prepared
    /\ calls[r].pc \in Waiting \cup Working /\ ~In(r, "gone") => client[r].prepared
    /\ (runs[r].pc \in Unsent \/ calls[r].pc \in Waiting) /\ Known(r) =>
         rows[r].state = "reserved" \/ (rows[r].state = "canceled" /\ rows[r].cancel)
    /\ calls[r].pc \in Working => rows[r].state \in {"running", "canceling"}
    /\ /\ Calling(r, "answered") /\ Known(r)
       /\ In(r, "post") \/ calls[r].pc \in Waiting \cup Working
       => rows[r].cancel

WireInv == \A r \in Requests : Wired(r)

\* The run route goes on and leaves the row of the store alone.
LEMMA StepMoves ==
    ASSUME HostTypeOK, NEW r \in Requests, NEW pc \in InRoute, Step(r, pc)
    PROVE  /\ runs' \in [Requests -> Run]
           /\ runs'[r].pc = pc /\ runs'[r].state = runs[r].state
           /\ \A q \in Requests : q # r => runs'[q] = runs[q]
BY DEF HostTypeOK, Step, Run

\* A step inside the route keeps the route's invariant.
LEMMA StepStaysInRoute ==
    ASSUME HostTypeOK, RouteInv, NEW r \in Requests, runs[r].pc \in InRoute,
           NEW pc \in InRoute, Step(r, pc), cancels' = cancels,
           client'[r].cancel = client[r].cancel,
           \A q \in Requests : q # r => client'[q] = client[q]
    PROVE  RouteInv'
BY StepMoves DEF RouteInv, In, InRoute, HostTypeOK, Run

\* The cancel route goes on and keeps what it made of the row.
LEMMA ProceedMoves ==
    ASSUME HostTypeOK, NEW r \in Requests,
           NEW pc \in {"none", "event", "look", "tell", "answered", "error"}, Proceed(r, pc)
    PROVE  /\ cancels' \in [Requests -> CancelRoute]
           /\ cancels'[r].pc = pc /\ cancels'[r].made = cancels[r].made
           /\ \A q \in Requests : q # r => cancels'[q] = cancels[q]
BY DEF HostTypeOK, Proceed, CancelRoute

\* Every step of the host keeps the types.
LEMMA HostTypesKept ==
    HostTypeOK /\ [AgentNext]_agentVars => HostTypeOK'
<1> SUFFICES ASSUME HostTypeOK, [AgentNext]_agentVars
             PROVE  HostTypeOK'
  OBVIOUS
<1>1. ASSUME NEW r \in Requests, Register(r) PROVE HostTypeOK'
  BY <1>1
  DEF Register, In, HostTypeOK, Run, Client, CancelRoute, InRoute, RouteEnds
<1>2. ASSUME NEW r \in Requests, Claim(r) PROVE HostTypeOK'
  BY <1>2
  DEF Claim, In, HostTypeOK, Run, Client, CancelRoute, InRoute, RouteEnds
<1>3. ASSUME NEW r \in Requests, Gate(r) PROVE HostTypeOK'
  BY <1>3, StepMoves
  DEF Gate, In, InRoute, HostTypeOK
<1>4. ASSUME NEW r \in Requests, Reserve(r) PROVE HostTypeOK'
  BY <1>4, StepMoves
  DEF Reserve, In, InRoute, HostTypeOK
<1>5. ASSUME NEW r \in Requests, Prepared(r) PROVE HostTypeOK'
  BY <1>5, StepMoves
  DEF Prepared, In, InRoute, HostTypeOK, Client
<1>6. ASSUME NEW r \in Requests, Recheck(r) PROVE HostTypeOK'
  BY <1>6, StepMoves
  DEF Recheck, In, InRoute, HostTypeOK
<1>7. ASSUME NEW r \in Requests, Abort(r) PROVE HostTypeOK'
  BY <1>7, StepMoves
  DEF Abort, In, InRoute, HostTypeOK
<1>8. ASSUME NEW r \in Requests, Post(r) PROVE HostTypeOK'
  BY <1>8, StepMoves
  DEF Post, In, InRoute, HostTypeOK
<1>9. ASSUME NEW r \in Requests, Wait(r) PROVE HostTypeOK'
  BY <1>9, StepMoves
  DEF Wait, In, InRoute, HostTypeOK
<1>10. ASSUME NEW r \in Requests, After(r) PROVE HostTypeOK'
  BY <1>10, StepMoves
  DEF After, In, InRoute, HostTypeOK
<1>11. ASSUME NEW r \in Requests, Finish(r) PROVE HostTypeOK'
  BY <1>11
  DEF Finish, In, HostTypeOK, Run, Client, CancelRoute, InRoute, RouteEnds
<1>12. ASSUME NEW r \in Requests, CancelRun(r) PROVE HostTypeOK'
  BY <1>12
  DEF CancelRun, In, HostTypeOK, Run, Client, CancelRoute, InRoute, RouteEnds
<1>13. ASSUME NEW r \in Requests, SetEvent(r) PROVE HostTypeOK'
  BY <1>13, ProceedMoves
  DEF SetEvent, Step, In, Calling, HostTypeOK, Client
<1>14. ASSUME NEW r \in Requests, Look(r) PROVE HostTypeOK'
  BY <1>14, ProceedMoves
  DEF Look, Step, In, Calling, HostTypeOK, Client
<1>15. ASSUME NEW r \in Requests, Tell(r) PROVE HostTypeOK'
  BY <1>15, ProceedMoves
  DEF Tell, Step, In, Calling, HostTypeOK, Client
<1>16. CASE HostDies
  BY <1>16
  DEF HostDies, Calling, HostTypeOK, Run, Client, CancelRoute, InRoute, RouteEnds
<1>17. CASE UNCHANGED hostVars
  BY <1>17
  DEF hostVars, HostTypeOK, Run, Client, CancelRoute, InRoute, RouteEnds
<1> QED
  BY <1>1, <1>2, <1>3, <1>4, <1>5, <1>6, <1>7, <1>8, <1>9, <1>10, <1>11, <1>12, <1>13, <1>14,
     <1>15, <1>16, <1>17
  DEF AgentNext, RunStep, CancelStep, WorkerStep, agentVars, hostVars

\* Every step keeps the routes and the rows of the store in agreement.
LEMMA RouteKept ==
    HostTypeOK /\ RouteInv /\ [AgentNext]_agentVars => RouteInv'
<1> SUFFICES ASSUME HostTypeOK, RouteInv, [AgentNext]_agentVars
             PROVE  RouteInv'
  OBVIOUS
<1>1. ASSUME NEW r \in Requests, Register(r) PROVE RouteInv'
  BY <1>1
  DEF Register, In, RouteInv, InRoute, HostTypeOK, Run, Client, CancelRoute
<1>2. ASSUME NEW r \in Requests, Claim(r) PROVE RouteInv'
  BY <1>2
  DEF Claim, In, RouteInv, InRoute, HostTypeOK, Run, Client, CancelRoute
<1>3. ASSUME NEW r \in Requests, Gate(r) PROVE RouteInv'
  <2>1. PICK pc \in InRoute : Step(r, pc)
    BY <1>3 DEF Gate, InRoute
  <2>2. runs[r].pc \in InRoute /\ UNCHANGED <<client, cancels>>
    BY <1>3 DEF Gate, In, InRoute
  <2> QED
    BY <2>1, <2>2, StepStaysInRoute
<1>4. ASSUME NEW r \in Requests, Reserve(r) PROVE RouteInv'
  <2>1. PICK pc \in InRoute : Step(r, pc)
    BY <1>4 DEF Reserve, InRoute
  <2>2. runs[r].pc \in InRoute /\ UNCHANGED <<client, cancels>>
    BY <1>4 DEF Reserve, In, InRoute
  <2> QED
    BY <2>1, <2>2, StepStaysInRoute
<1>5. ASSUME NEW r \in Requests, Prepared(r) PROVE RouteInv'
  BY <1>5, StepStaysInRoute
  DEF Prepared, In, InRoute, HostTypeOK, Client
<1>6. ASSUME NEW r \in Requests, Recheck(r) PROVE RouteInv'
  BY <1>6, StepStaysInRoute
  DEF Recheck, In, InRoute
<1>7. ASSUME NEW r \in Requests, Abort(r) PROVE RouteInv'
  BY <1>7, StepStaysInRoute
  DEF Abort, In, InRoute
<1>8. ASSUME NEW r \in Requests, Post(r) PROVE RouteInv'
  <2>1. PICK pc \in InRoute : Step(r, pc)
    BY <1>8 DEF Post, InRoute
  <2>2. runs[r].pc \in InRoute /\ UNCHANGED <<client, cancels>>
    BY <1>8 DEF Post, In, InRoute
  <2> QED
    BY <2>1, <2>2, StepStaysInRoute
<1>9. ASSUME NEW r \in Requests, Wait(r) PROVE RouteInv'
  <2>1. PICK pc \in InRoute : Step(r, pc)
    BY <1>9 DEF Wait, InRoute
  <2>2. runs[r].pc \in InRoute /\ UNCHANGED <<client, cancels>>
    BY <1>9 DEF Wait, In, InRoute
  <2> QED
    BY <2>1, <2>2, StepStaysInRoute
<1>10. ASSUME NEW r \in Requests, After(r) PROVE RouteInv'
  <2>1. PICK pc \in InRoute : Step(r, pc)
    BY <1>10 DEF After, InRoute
  <2>2. runs[r].pc \in InRoute /\ UNCHANGED <<client, cancels>>
    BY <1>10 DEF After, In, InRoute
  <2> QED
    BY <2>1, <2>2, StepStaysInRoute
<1>11. ASSUME NEW r \in Requests, Finish(r) PROVE RouteInv'
  BY <1>11
  DEF Finish, In, RouteInv, InRoute, HostTypeOK, Run, Client, CancelRoute
<1>12. ASSUME NEW r \in Requests, CancelRun(r) PROVE RouteInv'
  BY <1>12
  DEF CancelRun, In, RouteInv, InRoute, HostTypeOK, Run, Client, CancelRoute
<1>13. ASSUME NEW r \in Requests, SetEvent(r) PROVE RouteInv'
  BY <1>13, ProceedMoves
  DEF SetEvent, Step, In, Calling, RouteInv, HostTypeOK, Client
<1>14. ASSUME NEW r \in Requests, Look(r) PROVE RouteInv'
  BY <1>14, ProceedMoves
  DEF Look, Step, In, Calling, RouteInv, HostTypeOK, Client
<1>15. ASSUME NEW r \in Requests, Tell(r) PROVE RouteInv'
  BY <1>15, ProceedMoves
  DEF Tell, Step, In, Calling, RouteInv, HostTypeOK, Client
<1>16. CASE HostDies
  BY <1>16
  DEF HostDies, Calling, RouteInv, In, InRoute, HostTypeOK, Run, Client, CancelRoute
<1>17. CASE UNCHANGED hostVars
  BY <1>17
  DEF hostVars, RouteInv, In, InRoute, HostTypeOK, Run, Client, CancelRoute
<1> QED
  BY <1>1, <1>2, <1>3, <1>4, <1>5, <1>6, <1>7, <1>8, <1>9, <1>10, <1>11, <1>12, <1>13, <1>14,
     <1>15, <1>16, <1>17
  DEF AgentNext, RunStep, CancelStep, WorkerStep, agentVars, hostVars

-----------------------------------------------------------------------------
(* What the worker's steps do to the row and the call of a run. *)

CallMoved(r) ==
    /\ \A q \in Requests : q # r => rows'[q] = rows[q] /\ calls'[q] = calls[q]
    /\ calls[r].pc \notin Returned /\ calls'[r].req \in {r, NoRequest}
    /\ rows'[r].cancel = rows[r].cancel
    /\ Known(r)' => Known(r)
    /\ calls'[r].pc \in Waiting => calls[r].pc \in Waiting /\ rows'[r] = rows[r]
    /\ calls'[r].pc \in Working =>
         \/ calls[r].pc \in Working /\ rows'[r].state = rows[r].state
         \/ /\ calls[r].pc = "begin" /\ ~rows[r].cancel /\ Known(r)
            /\ rows'[r].state = "running"

\* A step of a completion call moves its own row and call only: it comes to work
\* from "begin" alone, on a row that is known and not cancelled.
LEMMA CallMoves ==
    ASSUME SwapTypeOK, SlotInv, NEW r \in Requests, calls[r].req \in {r, NoRequest}, CallStep(r)
    PROVE  CallMoved(r)
<1> USE OneCallPerRun
<1>0. calls[r].pc \notin Returned => Req(r) = r
  BY InCall, SwapConstants DEF Req
<1>1. CASE Enter(r)
  BY <1>0, <1>1, GotoMoves, InCall
  DEF Enter, CallMoved, At, Req, Known, Places, InSlot, Working, Ending, Returned, Waiting,
      SlotInv
<1>2. CASE RejectBusy(r)
  BY <1>0, <1>2, MarkMoves, ReturnMoves, InCall
  DEF RejectBusy, CallMoved, At, Req, Known, Places, InSlot, Working, Ending, Returned, Waiting
<1>3. CASE Begin(r)
  BY <1>0, <1>3, MarkMoves, GotoMoves, InCall
  DEF Begin, CallMoved, At, Req, Admissible, Known, Places, InSlot, Working, Ending, Returned,
      Waiting, Cancelled
<1>4. CASE Refuse(r)
  BY <1>0, <1>4, ReturnMoves, InCall
  DEF Refuse, CallMoved, At, Req, Known, Places, InSlot, Working, Ending, Returned, Waiting
<1>5. CASE Copy(r)
  BY <1>0, <1>5, GotoMoves, InCall
  DEF Copy, CallMoved, At, Rel, Req, Known, Places, InSlot, Working, Ending, Returned, Waiting
<1>6. CASE CopyStops(r)
  BY <1>0, <1>6, GotoMoves, InCall
  DEF CopyStops, CallMoved, At, Rel, Req, Cancelled, Known, Places, InSlot, Working, Ending,
      Returned, Waiting
<1>7. CASE Clear(r)
  BY <1>0, <1>7, GotoMoves, ChildMoves, InCall
  DEF Clear, CallMoved, At, NeedsAdapter, Rel, Req, ClearSucceeds, ClearFails, Known, Places,
      InSlot, Working, Ending, Returned, Waiting
<1>8. CASE Activate(r)
  BY <1>0, <1>8, GotoMoves, ChildMoves, InCall
  DEF Activate, CallMoved, At, Rel, Req, Known, Places, InSlot, Working, Ending, Returned, Waiting
<1>9. CASE Generate(r)
  BY <1>0, <1>9, GotoMoves, InCall
  DEF Generate, CallMoved, At, Req, Known, Places, InSlot, Working, Ending, Returned, Waiting,
      SwapTypeOK, Row
<1>10. CASE Engine(r)
  BY <1>0, <1>10, GotoMoves, ChildMoves, InCall
  DEF Engine, CallMoved, At, Req, Cancelled, Known, Places, InSlot, Working, Ending, Returned,
      Waiting
<1>11. CASE Deliver(r)
  BY <1>0, <1>11, GotoMoves, InCall
  DEF Deliver, CallMoved, At, Req, Known, Places, InSlot, Working, Ending, Returned, Waiting
<1>12. CASE Publish(r)
  BY <1>0, <1>12, MarkMoves, InCall
  DEF Publish, CallMoved, At, Req, Known, Places, InSlot, Working, Ending, Returned, Waiting,
      SwapTypeOK, Call
<1>13. CASE Canceling(r)
  BY <1>0, <1>13, MarkMoves, GotoMoves, ChildMoves, InCall
  DEF Canceling, CallMoved, At, Req, Rel, DropSnapshot, ActiveAfterCancel, Known, Places, InSlot,
      Working, Ending, Returned, Waiting
<1>14. CASE Failing(r)
  BY <1>0, <1>14, MarkMoves, GotoMoves, ChildMoves, InCall
  DEF Failing, CallMoved, At, Req, ClearSucceeds, ClearFails, Known, Places, InSlot, Working,
      Ending, Returned, Waiting
<1>15. CASE Leave(r)
  BY <1>0, <1>15, MarkMoves, ReturnMoves, ChildMoves, InCall
  DEF Leave, CallMoved, At, Req, ClearSucceeds, ClearFails, Known, Places, InSlot, Working,
      Ending, Returned, Waiting
<1> QED
  BY <1>1, <1>2, <1>3, <1>4, <1>5, <1>6, <1>7, <1>8, <1>9, <1>10, <1>11, <1>12, <1>13, <1>14,
     <1>15 DEF CallStep

\* A cancellation marks a live row, and a reserved one is over at once.
LEMMA CancelMoves ==
    ASSUME SwapTypeOK, NEW r \in Requests, Cancel(r)
    PROVE  /\ UNCHANGED calls /\ Known(r) /\ Known(r)'
           /\ \A q \in Requests : q # r => rows'[q] = rows[q]
           /\ rows'[r].cancel
           /\ rows[r].state = "reserved" => rows'[r].state = "canceled"
           /\ rows[r].state \in {"running", "canceling"} => rows'[r].state = "canceling"
           /\ rows[r].state \in LiveStates
<1>1. rows[r] \in Row
  BY DEF SwapTypeOK
<1>2. /\ rows' = [rows EXCEPT ![r] = rows'[r]]
      /\ rows'[r] = [rows[r] EXCEPT !.cancel = TRUE,
                       !.state = IF @ = "reserved" THEN "canceled" ELSE "canceling"]
  BY DEF SwapTypeOK, Cancel
<1> QED
  BY <1>1, <1>2 DEF SwapTypeOK, Cancel, Row, LiveStates, Known

\* A preparation, also one that is refused, reserves its own row and forgets others.
LEMMA PrepareMoves ==
    ASSUME SwapTypeOK, NEW r \in Requests, Prepare(r) \/ PrepareRefused(r)
    PROVE  /\ UNCHANGED calls
           /\ \A q \in Requests :
                \/ rows'[q] = rows[q]
                \/ rows'[q].state \in {"unknown", "forgotten"}
                \/ q = r /\ Prepare(r) /\ rows'[q].state = "reserved"
           /\ \A q \in Requests :
                rows[q].state \in {"running", "canceling"} => rows'[q] = rows[q]
<1>1. CASE Prepare(r)
  <2>1. \A q \in Requests : rows'[q] = IF q = r THEN rows'[r] ELSE Pruned[q]
    BY <1>1, PruneMoves DEF Prepare
  <2>2. rows'[r].state = "reserved" /\ rows[r].state \notin {"running", "canceling"}
    BY <1>1, PruneMoves DEF Prepare, Known
  <2> QED
    BY <1>1, <2>1, <2>2, PruneMoves DEF Prepare
<1>2. CASE PrepareRefused(r)
  BY <1>2, PruneMoves DEF PrepareRefused
<1> QED
  BY <1>1, <1>2

\* A run that no step touches, but that its row may be forgotten.
Untouched(r) ==
    /\ runs'[r] = runs[r] /\ client'[r] = client[r] /\ cancels'[r] = cancels[r]
    /\ calls'[r] = calls[r]
    /\ \/ rows'[r] = rows[r]
       \/ /\ rows'[r].state \in {"unknown", "forgotten"}
          /\ rows[r].state \notin {"running", "canceling"}

\* What nothing touches stays as it is, also when its row is forgotten.
LEMMA UntouchedStaysWired ==
    ASSUME NEW r \in Requests, Wired(r), Untouched(r)
    PROVE  Wired(r)'
BY DEF Wired, Untouched, In, Calling, Known

\* A step that touches one run is judged by that run.
LEMMA OneRunTouched ==
    ASSUME WireInv, NEW r \in Requests, Wired(r)',
           \A q \in Requests : q # r => Untouched(q)
    PROVE  WireInv'
BY UntouchedStaysWired DEF WireInv

\* Every step keeps the client and the worker in agreement.
LEMMA WireKept ==
    SwapTypeOK /\ SlotInv /\ HostTypeOK /\ RouteInv /\ WireInv /\ [AgentNext]_agentVars =>
      WireInv'
<1> SUFFICES ASSUME SwapTypeOK, SlotInv, HostTypeOK, RouteInv, WireInv, [AgentNext]_agentVars
             PROVE  WireInv'
  OBVIOUS
<1>1. ASSUME NEW r \in Requests, Register(r) PROVE WireInv'
  <2>0. Wired(r)
    BY DEF WireInv
  <2>1. \A q \in Requests : q # r => Untouched(q)
    BY <1>1, OneCallPerRun
    DEF Register, In, Untouched, swapVars, HostTypeOK
  <2>2. Wired(r)'
    BY <2>0, <1>1, OneCallPerRun
    DEF Register, In, Wired, Unsent, Waiting, Working, Calling, Known, HostTypeOK, swapVars, Idle
  <2> QED
    BY <2>1, <2>2, OneRunTouched
<1>2. ASSUME NEW r \in Requests, Claim(r) PROVE WireInv'
  <2>0. Wired(r)
    BY DEF WireInv
  <2>1. \A q \in Requests : q # r => Untouched(q)
    BY <1>2, OneCallPerRun
    DEF Claim, In, Untouched, swapVars, HostTypeOK
  <2>2. Wired(r)'
    BY <2>0, <1>2, OneCallPerRun
    DEF Claim, In, Wired, Unsent, Waiting, Working, Calling, Known, HostTypeOK, swapVars, Idle
  <2> QED
    BY <2>1, <2>2, OneRunTouched
<1>3. ASSUME NEW r \in Requests, Gate(r) PROVE WireInv'
  <2>0. Wired(r)
    BY DEF WireInv
  <2>1. \A q \in Requests : q # r => Untouched(q)
    BY <1>3, StepMoves, OneCallPerRun
    DEF Gate, In, Untouched, swapVars, HostTypeOK, InRoute
  <2>2. Wired(r)'
    BY <2>0, <1>3, StepMoves, OneCallPerRun
    DEF Gate, In, Wired, Unsent, Waiting, Working, Calling, Known, HostTypeOK, swapVars, Idle,
        InRoute
  <2> QED
    BY <2>1, <2>2, OneRunTouched
<1>4. ASSUME NEW r \in Requests, Reserve(r) PROVE WireInv'
  <2>0. Wired(r)
    BY DEF WireInv
  <2>1. \A q \in Requests : q # r => Untouched(q)
    BY <1>4, StepMoves, PrepareMoves, OneCallPerRun
    DEF Reserve, In, Untouched, swapVars, HostTypeOK, InRoute
  <2>2. /\ calls'[r] = Idle /\ calls'[r] = calls[r] /\ UNCHANGED <<client, cancels>>
        /\ runs'[r].pc = "fail" \/ (runs'[r].pc = "prepared" /\ rows'[r].state = "reserved")
    BY <2>0, <1>4, StepMoves, PruneMoves, OneCallPerRun
    DEF Reserve, Prepare, PrepareRefused, Wired, In, InRoute, swapVars, SwapTypeOK
  <2>3. Wired(r)'
    BY <2>0, <2>2 DEF Wired, Unsent, Waiting, Working, In, Idle
  <2> QED
    BY <2>1, <2>3, OneRunTouched
<1>5. ASSUME NEW r \in Requests, Prepared(r) PROVE WireInv'
  <2>0. Wired(r)
    BY DEF WireInv
  <2>1. \A q \in Requests : q # r => Untouched(q)
    BY <1>5, StepMoves, OneCallPerRun
    DEF Prepared, In, Untouched, swapVars, HostTypeOK, InRoute
  <2>2. Wired(r)'
    BY <2>0, <1>5, StepMoves, OneCallPerRun
    DEF Prepared, In, Wired, Unsent, Waiting, Working, Calling, Known, HostTypeOK, swapVars,
        Idle, InRoute
  <2> QED
    BY <2>1, <2>2, OneRunTouched
<1>6. ASSUME NEW r \in Requests, Recheck(r) PROVE WireInv'
  <2>0. Wired(r)
    BY DEF WireInv
  <2>1. \A q \in Requests : q # r => Untouched(q)
    BY <1>6, StepMoves, OneCallPerRun
    DEF Recheck, In, Untouched, swapVars, HostTypeOK, InRoute
  <2>2. Wired(r)'
    BY <2>0, <1>6, StepMoves, OneCallPerRun
    DEF Recheck, In, Wired, Unsent, Waiting, Working, Calling, Known, HostTypeOK, swapVars, Idle,
        InRoute, RouteInv
  <2> QED
    BY <2>1, <2>2, OneRunTouched
<1>7. ASSUME NEW r \in Requests, Abort(r) PROVE WireInv'
  <2>0. Wired(r)
    BY DEF WireInv
  <2>1. \A q \in Requests : q # r => Untouched(q)
    BY <1>7, StepMoves, CancelMoves, OneCallPerRun
    DEF Abort, In, Untouched, swapVars, HostTypeOK, InRoute, TellWorker, LiveStates
  <2>2. Wired(r)'
    BY <2>0, <1>7, StepMoves, CancelMoves, OneCallPerRun
    DEF Abort, In, Wired, Unsent, Waiting, Working, Calling, Known, HostTypeOK, swapVars, Idle,
        InRoute, TellWorker, LiveStates
  <2> QED
    BY <2>1, <2>2, OneRunTouched
<1>8. ASSUME NEW r \in Requests, Post(r) PROVE WireInv'
  <2>0. Wired(r)
    BY DEF WireInv
  <2>1. \A q \in Requests : q # r => Untouched(q)
    BY <1>8, StepMoves, OneCallPerRun
    DEF Post, In, Untouched, swapVars, HostTypeOK, InRoute, Send, SwapTypeOK
  <2>2. Wired(r)'
    BY <2>0, <1>8, StepMoves, OneCallPerRun
    DEF Post, In, Wired, Unsent, Waiting, Working, Calling, Known, HostTypeOK, swapVars, Idle,
        InRoute, RouteInv, Send, SwapTypeOK
  <2> QED
    BY <2>1, <2>2, OneRunTouched
<1>9. ASSUME NEW r \in Requests, Wait(r) PROVE WireInv'
  <2>0. Wired(r)
    BY DEF WireInv
  <2>1. \A q \in Requests : q # r => Untouched(q)
    BY <1>9, StepMoves, OneCallPerRun
    DEF Wait, In, Untouched, swapVars, HostTypeOK, InRoute
  <2>2. Wired(r)'
    BY <2>0, <1>9, StepMoves, OneCallPerRun
    DEF Wait, In, Wired, Unsent, Waiting, Working, Calling, Known, HostTypeOK, swapVars, Idle,
        InRoute
  <2> QED
    BY <2>1, <2>2, OneRunTouched
<1>10. ASSUME NEW r \in Requests, After(r) PROVE WireInv'
  <2>0. Wired(r)
    BY DEF WireInv
  <2>1. \A q \in Requests : q # r => Untouched(q)
    BY <1>10, StepMoves, OneCallPerRun
    DEF After, In, Untouched, swapVars, HostTypeOK, InRoute
  <2>2. Wired(r)'
    BY <2>0, <1>10, StepMoves, OneCallPerRun
    DEF After, In, Wired, Unsent, Waiting, Working, Calling, Known, HostTypeOK, swapVars, Idle,
        InRoute
  <2> QED
    BY <2>1, <2>2, OneRunTouched
<1>11. ASSUME NEW r \in Requests, Finish(r) PROVE WireInv'
  <2>0. Wired(r)
    BY DEF WireInv
  <2>1. \A q \in Requests : q # r => Untouched(q)
    BY <1>11, OneCallPerRun
    DEF Finish, In, Untouched, swapVars, HostTypeOK
  <2>2. Wired(r)'
    BY <2>0, <1>11, OneCallPerRun
    DEF Finish, In, Wired, Unsent, Waiting, Working, Calling, Known, HostTypeOK, swapVars, Idle
  <2> QED
    BY <2>1, <2>2, OneRunTouched
<1>12. ASSUME NEW r \in Requests, CancelRun(r) PROVE WireInv'
  <2>0. Wired(r)
    BY DEF WireInv
  <2>1. \A q \in Requests : q # r => Untouched(q)
    BY <1>12, OneCallPerRun
    DEF CancelRun, In, Untouched, swapVars, HostTypeOK
  <2>2. Wired(r)'
    BY <2>0, <1>12, OneCallPerRun
    DEF CancelRun, In, Wired, Unsent, Waiting, Working, Calling, Known, HostTypeOK, swapVars, Idle
  <2> QED
    BY <2>1, <2>2, OneRunTouched
<1>13. ASSUME NEW r \in Requests, SetEvent(r) PROVE WireInv'
  <2>0. Wired(r)
    BY DEF WireInv
  <2>1. \A q \in Requests : q # r => Untouched(q)
    BY <1>13, ProceedMoves, OneCallPerRun
    DEF SetEvent, In, Calling, Untouched, swapVars, HostTypeOK
  <2>2. Wired(r)'
    BY <2>0, <1>13, ProceedMoves, OneCallPerRun
    DEF SetEvent, In, Calling, Wired, Unsent, Waiting, Working, Known, HostTypeOK, swapVars, Idle
  <2> QED
    BY <2>1, <2>2, OneRunTouched
<1>14. ASSUME NEW r \in Requests, Look(r) PROVE WireInv'
  <2>0. Wired(r)
    BY DEF WireInv
  <2>1. \A q \in Requests : q # r => Untouched(q)
    BY <1>14, ProceedMoves, OneCallPerRun
    DEF Look, In, Calling, Untouched, swapVars, HostTypeOK
  <2>2. Wired(r)'
    BY <2>0, <1>14, ProceedMoves, OneCallPerRun
    DEF Look, In, Calling, Wired, Unsent, Waiting, Working, Known, HostTypeOK, swapVars, Idle,
        RouteInv
  <2> QED
    BY <2>1, <2>2, OneRunTouched
<1>15. ASSUME NEW r \in Requests, Tell(r) PROVE WireInv'
  <2>0. Wired(r)
    BY DEF WireInv
  <2>1. \A q \in Requests : q # r => Untouched(q)
    BY <1>15, ProceedMoves, CancelMoves, OneCallPerRun
    DEF Tell, In, Calling, Untouched, swapVars, HostTypeOK, LiveStates
  <2>2. Wired(r)'
    BY <2>0, <1>15, ProceedMoves, CancelMoves, OneCallPerRun
    DEF Tell, In, Calling, Wired, Unsent, Waiting, Working, Known, HostTypeOK, swapVars, Idle,
        LiveStates
  <2> QED
    BY <2>1, <2>2, OneRunTouched
<1>16. CASE HostDies
  <2> SUFFICES ASSUME NEW q \in Requests PROVE Wired(q)'
    BY DEF WireInv
  <2>1. Wired(q) /\ UNCHANGED <<calls, rows>>
    BY <1>16 DEF WireInv, HostDies, swapVars
  <2>2. /\ runs'[q].pc \in {"none", "gone"} /\ (runs'[q].pc = "none" => runs[q].pc = "none")
        /\ Calling(q, "answered")' => Calling(q, "answered")
    BY <1>16 DEF HostDies, RouteInv, Calling
  <2> QED
    BY <2>1, <2>2 DEF Wired, Unsent, Waiting, Working, In, Idle, Known
<1>17. ASSUME NEW r \in Requests, WorkerStep(r) PROVE WireInv'
  <2>1. CallMoved(r) /\ UNCHANGED hostVars
    BY <1>17, CallMoves DEF WorkerStep, WireInv, Wired
  <2>0. Wired(r)
    BY DEF WireInv
  <2>2. Wired(r)'
    BY <2>0, <2>1 DEF CallMoved, Wired, Waiting, hostVars, Unsent, Returned, Idle, In, Calling,
       Known
  <2>3. \A q \in Requests : q # r => Untouched(q)
    BY <2>1 DEF CallMoved, Untouched, hostVars
  <2> QED
    BY <2>2, <2>3, OneRunTouched
<1>18. CASE Environment /\ UNCHANGED hostVars
  <2>1. CASE ChildDies \/ Close
    BY <1>18, <2>1 DEF ChildDies, Close, WireInv, Wired, hostVars, In, Calling, Known
  <2>2. CASE Restart
    <3>1. \A q \in Requests : /\ rows'[q].state = "unknown"
                              /\ calls'[q] = Idle \/ calls'[q] = calls[q]
                              /\ calls'[q].pc \in Returned
      BY <2>2, OneCallPerRun DEF Restart, NoRow, Idle, Returned
    <3>2. ASSUME NEW q \in Requests PROVE Wired(q)'
      <4>1. /\ Wired(q) /\ UNCHANGED hostVars /\ rows'[q].state = "unknown"
            /\ calls'[q] = Idle \/ calls'[q] = calls[q]
            /\ calls'[q].pc \in Returned
        BY <1>18, <3>1 DEF WireInv
      <4> QED
        BY <4>1 DEF Wired, hostVars, In, Calling, Known, Idle, Waiting, Working, Returned
    <3> QED
      BY <3>2 DEF WireInv
  <2>3. ASSUME NEW r \in Requests, Expire(r) PROVE WireInv'
    <3>1. \A q \in Requests : /\ rows'[q].state = rows[q].state
                              /\ rows'[q].cancel = rows[q].cancel
      BY <2>3 DEF Expire, SwapTypeOK, Row
    <3> QED
      BY <1>18, <2>3, <3>1 DEF Expire, WireInv, Wired, hostVars, In, Calling, Known
  <2> QED
    BY <1>18, <2>1, <2>2, <2>3 DEF Environment
<1>19. CASE UNCHANGED agentVars
  BY <1>19, OneCallPerRun
  DEF agentVars, hostVars, WireInv, Wired, Unsent, Waiting, Working, In, Calling, Known,
      RouteInv, HostTypeOK, swapVars
<1> QED
  BY <1>1, <1>2, <1>3, <1>4, <1>5, <1>6, <1>7, <1>8, <1>9, <1>10, <1>11, <1>12, <1>13, <1>14,
     <1>15, <1>16, <1>17, <1>18, <1>19
  DEF AgentNext, RunStep, CancelStep

-----------------------------------------------------------------------------
(* The invariant of the host, and what it gives. *)

HostInv == HostTypeOK /\ RouteInv /\ WireInv

\* The host starts in its invariant.
LEMMA HostStart == AgentInit => HostInv
<1> SUFFICES ASSUME AgentInit PROVE HostInv
  OBVIOUS
<1>1. HostTypeOK
  BY DEF AgentInit, HostTypeOK, Run, Client, CancelRoute
<1>2. RouteInv
  BY DEF AgentInit, RouteInv, In
<1>3. WireInv
  BY OneCallPerRun
  DEF AgentInit, SwapInit, WireInv, Wired, Idle, NoRow, Known, In, Calling, Unsent, Waiting,
      Working
<1> QED
  BY <1>1, <1>2, <1>3 DEF HostInv

\* The host's invariant, together with the worker's.
LEMMA HostInvHolds == AgentSpec => [](SwapInv /\ HostInv)
<1>1. SwapInv /\ HostInv /\ [AgentNext]_agentVars => HostInv'
  BY HostTypesKept, RouteKept, WireKept DEF HostInv, SwapInv
<1>2. AgentSpec => []SwapInv
  BY AgentsUseTheWorker, SwapInvHolds, PTL
<1> QED
  BY HostStart, <1>1, <1>2, PTL DEF AgentSpec

\* The store's rows, the clients and the cancel routes are ones the host can hold.
THEOREM AgentTypes == AgentSpec => []AgentTypeOK
<1>1. SwapInv /\ HostInv => AgentTypeOK
  BY DEF SwapInv, HostInv, HostTypeOK, AgentTypeOK
<1> QED
  BY <1>1, HostInvHolds, PTL

\* A run whose cancellation the store has accepted never delivers its answer
\* (LocalAgentRunService.finish decides, under the lock that cancel took).
THEOREM CanceledIsWithheldAlways == AgentSpec => []CanceledIsWithheld
<1>1. HostInv => CanceledIsWithheld
  BY DEF HostInv, RouteInv, HostTypeOK, Run, CancelRoute, CanceledIsWithheld, In, InRoute
<1> QED
  BY <1>1, HostInvHolds, PTL

\* Once the cancel route has answered, the completion it raced is refused or knows
\* that it is cancelled: setting the flag before looking at the event, and the
\* event before looking at the flag, leaves no gap between the two routes.
THEOREM CancelIsNeverLostAlways == AgentSpec => []CancelIsNeverLost
<1>1. HostInv => CancelIsNeverLost
  <2> SUFFICES ASSUME HostInv, NEW r \in Requests, Calling(r, "answered")
               PROVE  /\ In(r, "post") /\ Known(r) => rows[r].cancel
                      /\ calls[r].pc \in Working => rows[r].cancel
    BY DEF CancelIsNeverLost
  <2>1. Wired(r)
    BY DEF HostInv, WireInv
  <2>2. calls[r].pc \in Working => Known(r)
    BY <2>1 DEF Wired, Known
  <2> QED
    BY <2>1, <2>2 DEF Wired
<1> QED
  BY <1>1, HostInvHolds, PTL

\* The row of a request the worker works on is live, as the cancel route, which
\* only cancels live ones, relies on.
THEOREM TableIsTruthfulAlways == AgentSpec => []TableIsTruthful
<1>1. SwapInv /\ HostInv => TableIsTruthful
  <2> SUFFICES ASSUME SwapInv, HostInv, NEW c \in Calls, calls[c].pc \in Working
               PROVE  rows[Req(c)].state \in {"running", "canceling"}
    BY DEF TableIsTruthful
  <2>1. Wired(c)
    BY OneCallPerRun DEF HostInv, WireInv
  <2>2. Req(c) = c
    BY <2>1, InCall, SwapConstants DEF SwapInv, Wired, Req, Working, Returned
  <2> QED
    BY <2>1, <2>2 DEF Wired
<1> QED
  BY <1>1, HostInvHolds, PTL

\* What the worker keeps it keeps for the runs too: their requests are answered by
\* their own adapter, generated from once, and nothing of them is left in the child.
THEOREM RunsAreServedRight ==
    AgentSpec => [](RightAdapter /\ BeliefsAreTrue /\ NothingRetained /\ GeneratedOnce)
BY AgentsUseTheWorker, RightAdapterAlways, BeliefsAreTrueAlways, NothingRetainedAlways,
   GeneratedOnceAlways, PTL

=============================================================================
