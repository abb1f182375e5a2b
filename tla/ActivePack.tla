----------------------------- MODULE ActivePack -----------------------------
(***************************************************************************)
(* What a store of model packs promises to those who start workers from    *)
(* it: while no change is under way they are given the pack that was       *)
(* activated last, unless it was revoked since; during a change they are   *)
(* given nothing; and no pack comes back that is older than one admitted.  *)
(* How a change is made, cut short or recovered is not seen.               *)
(***************************************************************************)
EXTENDS Integers

CONSTANTS Packs, NoPack, SeqOf

VARIABLES
    chosen,  \* the pack that is active, or NoPack
    open,    \* no change is under way
    barred,  \* the packs that were revoked
    newest,  \* the highest sequence that was admitted
    given    \* what a start is given, or NoPack when it is refused

storeVars == <<chosen, open, barred, newest, given>>

StoreInit == chosen = NoPack /\ open = TRUE /\ barred = {} /\ newest = 0 /\ given = NoPack

Close ==
    /\ open = TRUE /\ open' = FALSE
    /\ given' = NoPack
    /\ UNCHANGED <<chosen, barred, newest>>

\* A pack may be admitted by a change that does not go through.
Admit(p) ==
    /\ open = FALSE /\ p \notin barred /\ SeqOf[p] >= newest
    /\ newest' = SeqOf[p]
    /\ UNCHANGED <<chosen, open, barred, given>>

Reopen(p) ==
    /\ open = FALSE /\ open' = TRUE
    /\ p = chosen \/ p \notin barred
    /\ SeqOf[p] >= newest
    /\ newest' = SeqOf[p] /\ chosen' = p
    /\ given' = IF p \in barred THEN NoPack ELSE p
    /\ UNCHANGED barred

ReopenEmpty ==
    /\ open = FALSE /\ open' = TRUE
    /\ chosen' = NoPack /\ given' = NoPack
    /\ UNCHANGED <<barred, newest>>

Bar(p) ==
    /\ barred' = barred \cup {p}
    /\ given' = IF given = p THEN NoPack ELSE given
    /\ UNCHANGED <<chosen, open, newest>>

StoreNext ==
    \/ Close \/ ReopenEmpty
    \/ \E p \in Packs : Admit(p) \/ Reopen(p) \/ Bar(p)

StoreSpec == StoreInit /\ [][StoreNext]_storeVars
=============================================================================
