--------------------------- MODULE StableRegister ---------------------------
(***************************************************************************)
(* What a file that holds one version number promises when it is replaced  *)
(* durably: readers see it rise, a power loss may take back what has not   *)
(* settled, and what a caller was told has settled.                        *)
(***************************************************************************)
EXTENDS Naturals

VARIABLES
    current,  \* the number a reader sees
    stable,   \* the number a power loss leaves, at worst
    answered  \* the last number a caller was told of

registerVars == <<current, stable, answered>>

RegisterInit == current = 0 /\ stable = 0 /\ answered = 0

Raise ==
    /\ current' \in Nat /\ current' > current
    /\ UNCHANGED <<stable, answered>>

Settle ==
    /\ stable' = current
    /\ UNCHANGED <<current, answered>>

Answer ==
    /\ stable = current
    /\ answered' = current
    /\ UNCHANGED <<current, stable>>

Lose ==
    /\ current' \in stable..current
    /\ stable' = current'
    /\ UNCHANGED answered

RegisterNext == Raise \/ Settle \/ Answer \/ Lose

RegisterSpec == RegisterInit /\ [][RegisterNext]_registerVars
=============================================================================
