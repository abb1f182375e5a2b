-------------------------- MODULE AuthorityUpdates --------------------------
(***************************************************************************)
(* The channel for signed authority bundles (AuthorityUpdateChannel,       *)
(* signed_authority_updates.py): install verifies a source, copies it into *)
(* a stage, verifies the stage, renames the stage to bundles/<id> and      *)
(* replaces the active pointer, all under one file lock.                   *)
(*                                                                         *)
(* The copy is not synced and neither is the rename; the pointer is a      *)
(* DurableFile.  The source may lie in an inbox other programs write to    *)
(* (install) or be extracted from an archive for this call only            *)
(* (import_archive): in the first case it can change under the copy.       *)
(* Signatures, dates and the contents of bundles are left out; a bundle is *)
(* whole or it is not.  Exports and the status are read-only views of      *)
(* bundles in place.                                                       *)
(***************************************************************************)
EXTENDS DurableFile

CONSTANTS SequenceOf   \* the sequence in the manifest of each bundle

Bundles == Values

ASSUME UpdateConstants == SequenceOf \in [Bundles -> Nat \ {0}]

VARIABLES
    bundles,  \* the directories under bundles/
    call,     \* the install that holds the lock, or NoCall
    answered, \* history: the sequence of the last install that was answered
    active,   \* history: the bundles the pointer has named
    cut,      \* history: installs that ended between the rename and the pointer
    spoiled   \* history: bundles whose source changed under the copy, or whose
              \* directory a power loss has caught unsynced

updateVars == <<shown, kept, step, fresh, bundles, call, answered, active, cut, spoiled>>
historyVars == <<answered, active, cut, spoiled>>

\* A directory, the bundle its manifest is of, and whether it is on the disk.
Directory == [state : {"whole", "torn"}, manifest : Bundles, synced : BOOLEAN]
NoDirectory == [state |-> "absent"]
Call == [pc : {"copy", "check", "rename", "point", "write"}, bundle : Bundles,
         least : Nat, staged : Bundles \cup {Torn, NoValue}]
NoCall == [pc |-> "none"]

SequenceIn(v) == IF v \in Bundles THEN SequenceOf[v] ELSE 0

UpdatesInit ==
    /\ FileInit
    /\ bundles = [b \in Bundles |-> NoDirectory]
    /\ call = NoCall
    /\ answered = 0 /\ active = {} /\ cut = {} /\ spoiled = {}

-----------------------------------------------------------------------------
(* install *)

Newer(b, least) == SequenceOf[b] > least

\* The source is verified against the active sequence; a bundle whose directory
\* exists, in whatever state, is refused.
Begin(b) ==
    /\ call = NoCall
    /\ Newer(b, SequenceIn(shown))
    /\ bundles[b] = NoDirectory
    /\ call' = [pc |-> "copy", bundle |-> b, least |-> SequenceIn(shown), staged |-> NoValue]
    /\ UNCHANGED <<fileVars, bundles, historyVars>>

\* What arrives in the stage is the bundle, another one that was put in its
\* place, or a mixture.
Copy(s) ==
    /\ call.pc = "copy"
    /\ call' = [call EXCEPT !.pc = "check", !.staged = s]
    /\ spoiled' = IF s \in {call.bundle, Torn} THEN spoiled ELSE spoiled \cup {call.bundle, s}
    /\ UNCHANGED <<fileVars, bundles, answered, active, cut>>

StageVerified(s) == s # Torn /\ Newer(s, call.least)

Check ==
    /\ call.pc = "check" /\ StageVerified(call.staged)
    /\ call' = [call EXCEPT !.pc = "rename"]
    /\ UNCHANGED <<fileVars, bundles, historyVars>>

\* os.replace of the stage: nothing of it need be on the disk.
Renamed ==
    [bundles EXCEPT ![call.bundle] =
        IF call.staged = Torn THEN [state |-> "torn", manifest |-> call.bundle, synced |-> FALSE]
        ELSE [state |-> "whole", manifest |-> call.staged, synced |-> FALSE]]

Rename ==
    /\ call.pc = "rename"
    /\ bundles' = Renamed
    /\ call' = [call EXCEPT !.pc = "point"]
    /\ UNCHANGED <<fileVars, historyVars>>

\* The pointer repeats what the verification of the stage returned.
Pointer == IF call.staged = Torn THEN call.bundle ELSE call.staged

\* Deviation of the order: the pointer before the directory.
PointFirst ==
    /\ call.pc \in {"rename", "point"}
    /\ Open(Pointer)
    /\ call' = [call EXCEPT !.pc = "write"]
    /\ UNCHANGED <<bundles, historyVars>>

Point ==
    /\ call.pc = "point"
    /\ Open(Pointer)
    /\ call' = [call EXCEPT !.pc = "write"]
    /\ UNCHANGED <<bundles, historyVars>>

WritePointer ==
    /\ call.pc = "write"
    /\ WriteStep
    /\ active' = IF step' = "replaced" THEN active \cup {shown'} ELSE active
    /\ UNCHANGED <<bundles, call, answered, cut, spoiled>>

Finish ==
    /\ call.pc = "write" /\ Return
    /\ call' = NoCall
    /\ answered' = SequenceIn(shown)
    /\ UNCHANGED <<bundles, active, cut, spoiled>>

\* The install ends early: refused, failed, or its process died.
InPlace == call.pc = "point" \/ (call.pc = "write" /\ step \notin {"replaced", "done"})

Stops ==
    /\ call # NoCall
    /\ call' = NoCall
    /\ WriteStops
    /\ cut' = IF InPlace THEN cut \cup {call.bundle} ELSE cut
    /\ UNCHANGED <<bundles, answered, active, spoiled>>

-----------------------------------------------------------------------------
(* The disk. *)

Flushed == [b \in Bundles |-> IF bundles[b] = NoDirectory THEN NoDirectory
                              ELSE [bundles[b] EXCEPT !.synced = TRUE]]
Unsynced == {b \in Bundles : bundles[b] # NoDirectory /\ ~bundles[b].synced}

SystemFlushes ==
    /\ Flush
    /\ bundles' = Flushed
    /\ UNCHANGED <<call, historyVars>>

\* Of a directory that was not synced, all, part or nothing is left.
Left(gone, torn) ==
    [b \in Bundles |-> IF b \in gone THEN NoDirectory
                       ELSE IF b \in torn THEN [Flushed[b] EXCEPT !.state = "torn"]
                       ELSE Flushed[b]]

PowerLoss ==
    /\ PowerFails
    /\ call' = NoCall
    /\ cut' = IF call # NoCall /\ InPlace THEN cut \cup {call.bundle} ELSE cut
    /\ \E gone \in SUBSET Unsynced : \E torn \in SUBSET (Unsynced \ gone) :
        /\ bundles' = Left(gone, torn)
        /\ spoiled' = spoiled \cup gone \cup torn
    /\ UNCHANGED <<answered, active>>

UpdatesNext ==
    \/ \E b \in Bundles : Begin(b)
    \/ \E s \in Bundles \cup {Torn} : Copy(s)
    \/ Check \/ Rename \/ Point \/ WritePointer \/ Finish \/ Stops
    \/ SystemFlushes \/ PowerLoss

UpdatesSpec == UpdatesInit /\ [][UpdatesNext]_updateVars

-----------------------------------------------------------------------------
(* Properties. *)

UpdatesTypeOK ==
    /\ FileTypeOK
    /\ bundles \in [Bundles -> Directory \cup {NoDirectory}]
    /\ call \in Call \cup {NoCall}
    /\ answered \in Nat
    /\ active \subseteq Bundles /\ cut \subseteq Bundles
    /\ spoiled \subseteq Bundles

\* The pointer is the durable register: its sequence only rises, except that a
\* power loss takes it back to one that had not been replaced on the disk yet,
\* and never behind an install that was answered.
Least(V) == CHOOSE n \in {SequenceIn(v) : v \in V} : \A v \in V : n <= SequenceIn(v)
Register == INSTANCE StableRegister WITH
    current <- SequenceIn(shown), stable <- Least(kept), answered <- answered
ImplementsRegister == Register!RegisterSpec

\* The pointer is whole, and the bundle it names lies whole in the directory of
\* its name, unless a power loss caught the directory unsynced, or the source was
\* exchanged between its verification and the copy.
PointerHasItsBundle ==
    shown # NoValue =>
        /\ shown # Torn
        /\ \/ /\ bundles[shown] # NoDirectory
              /\ bundles[shown].state = "whole" /\ bundles[shown].manifest = shown
           \/ shown \in spoiled

\* A bundle whose directory is there and which can therefore not be installed
\* (again) has been active, or is being installed, or its install ended between
\* the rename and the pointer.
DirectoriesWereActive ==
    \A b \in Bundles :
        bundles[b] # NoDirectory =>
            \/ b \in active \cup cut \cup spoiled
            \/ call # NoCall /\ call.bundle = b

\* Whichever install was cut short, exchanged or lost where, pointer and
\* directories are what the installs that ended made of them.
InstallsAreAccounted == PointerHasItsBundle /\ DirectoriesWereActive
=============================================================================
