--------------------------- MODULE AuthorityProofs ---------------------------
(***************************************************************************)
(* Theorems about the update channel, for any bundles with any sequences:  *)
(* what an install leaves behind is accounted for wherever it stops, and   *)
(* its pointer is a durable register.                                      *)
(***************************************************************************)
EXTENDS AuthorityUpdates, TLAPS

\* The directory of a bundle holds it, or the history says why not.
Sound(v) ==
    \/ /\ bundles[v] # NoDirectory
       /\ bundles[v].state = "whole" /\ bundles[v].manifest = v
    \/ v \in spoiled

\* How far an install is, what it has verified and what it has made.
CallInv ==
    /\ call = NoCall => step = "idle"
    /\ call # NoCall =>
        /\ call.pc # "write" => step = "idle"
        /\ call.pc = "write" => step # "idle" /\ fresh = call.staged
        /\ call.pc \in {"copy", "check", "rename"} => bundles[call.bundle] = NoDirectory
        /\ call.pc # "copy" =>
               call.staged \in {call.bundle, Torn} \/ {call.bundle, call.staged} \subseteq spoiled
        /\ call.pc \in {"rename", "point", "write"} =>
               call.staged \in Bundles /\ SequenceOf[call.staged] > call.least
        /\ call.pc \in {"point", "write"} => Sound(call.staged)
        /\ step \notin {"replaced", "done"} => call.least = SequenceIn(shown)
        /\ step \in {"replaced", "done"} => call.staged \in active

\* Whatever a power loss may bring back was a pointer, is not newer than the
\* pointer, and has its bundle; one of it is the oldest.
KeptInv ==
    /\ shown \in kept /\ Torn \notin kept
    /\ \A v \in kept : SequenceIn(v) <= SequenceIn(shown)
    /\ \E v \in kept : \A u \in kept : SequenceIn(v) <= SequenceIn(u)
    /\ \A v \in kept \cap Bundles : Sound(v)
    /\ step = "done" /\ DirectorySync => kept = {shown}

UpdatesInv == UpdatesTypeOK /\ CallInv /\ KeptInv /\ DirectoriesWereActive

-----------------------------------------------------------------------------

LEMMA SequenceType == \A v : SequenceIn(v) \in Nat
BY UpdateConstants DEF SequenceIn

LEMMA InitHolds == UpdatesInit => UpdatesInv
BY FileConstants, SequenceType
   DEF UpdatesInit, FileInit, UpdatesInv, UpdatesTypeOK, FileTypeOK, Steps, CallInv, KeptInv,
       DirectoriesWereActive, Bundles, NoCall

LEMMA TypesKept == UpdatesInv /\ [UpdatesNext]_updateVars => UpdatesTypeOK'
<1> SUFFICES ASSUME UpdatesTypeOK, CallInv, [UpdatesNext]_updateVars PROVE UpdatesTypeOK'
  BY DEF UpdatesInv
<1> USE FileConstants, UpdateConstants, SequenceType
    DEF UpdatesTypeOK, FileTypeOK, Steps, fileVars, historyVars
<1>1. ASSUME NEW b \in Bundles, Begin(b) PROVE UpdatesTypeOK'
  BY <1>1 DEF Begin, Call
<1>2. ASSUME NEW s \in Bundles \cup {Torn}, Copy(s) PROVE UpdatesTypeOK'
  <2>1. call \in Call
    BY <1>2 DEF Copy, NoCall
  <2>2. call' \in Call
    BY <1>2, <2>1 DEF Copy, Call
  <2>3. spoiled' \subseteq Bundles
    <3>1. CASE s \in {call.bundle, Torn}
      BY <1>2, <3>1 DEF Copy
    <3>2. CASE s \notin {call.bundle, Torn}
      BY <1>2, <2>1, <3>2 DEF Copy, Call
    <3> QED
      BY <3>1, <3>2
  <2> QED
    BY <1>2, <2>2, <2>3 DEF Copy
<1>3. CASE Check
  BY <1>3 DEF Check, Call, NoCall
<1>4. CASE Rename
  <2>1. call \in Call
    BY <1>4 DEF Rename, NoCall
  <2>2. call.bundle \in Bundles /\ (call.staged = Torn \/ call.staged \in Bundles)
    BY <1>4, <2>1 DEF Rename, CallInv, Call, NoCall
  <2>3. Renamed \in [Bundles -> Directory \cup {NoDirectory}]
    BY <2>2 DEF Renamed, Directory
  <2>4. call' \in Call
    BY <1>4, <2>1 DEF Rename, Call
  <2> QED
    BY <1>4, <2>3, <2>4 DEF Rename
<1>5. CASE Point
  BY <1>5 DEF Point, Open, Pointer, Call, NoCall, Bundles
<1>6. CASE WritePointer
  <2>1. FileTypeOK'
    <3>1. CASE WriteAll
      BY <3>1 DEF WriteAll
    <3>2. CASE SyncFile
      BY <3>2 DEF SyncFile
    <3>3. CASE Replace
      BY <3>3 DEF Replace, Replaceable
    <3>4. CASE SyncDirectory
      BY <3>4 DEF SyncDirectory
    <3> QED
      BY <1>6, <3>1, <3>2, <3>3, <3>4 DEF WritePointer, WriteStep
  <2>2. active' \subseteq Bundles
    <3>1. step' = "replaced" => shown' = fresh
      BY <1>6 DEF WritePointer, WriteStep, WriteAll, SyncFile, Replace, SyncDirectory
    <3>2. fresh \in Bundles
      BY <1>6 DEF WritePointer, CallInv, NoCall
    <3> QED
      BY <1>6, <3>1, <3>2 DEF WritePointer
  <2> QED
    BY <1>6, <2>1, <2>2 DEF WritePointer
<1>7. CASE Finish
  BY <1>7 DEF Finish, Return
<1>8. CASE Stops
  BY <1>8 DEF Stops, WriteStops, Call, NoCall
<1>9. CASE SystemFlushes
  BY <1>9 DEF SystemFlushes, Flush, Flushed, Directory, NoDirectory
<1>10. CASE PowerLoss
  <2>1. FileTypeOK'
    BY <1>10 DEF PowerLoss, PowerFails
  <2>2. Flushed \in [Bundles -> Directory \cup {NoDirectory}]
    BY DEF Flushed, Directory, NoDirectory
  <2>3. bundles' \in [Bundles -> Directory \cup {NoDirectory}] /\ spoiled' \subseteq Bundles
    <3>1. PICK gone \in SUBSET Unsynced, torn \in SUBSET Unsynced :
            /\ bundles' = Left(gone, torn)
            /\ spoiled' = spoiled \cup gone \cup torn
      BY <1>10 DEF PowerLoss
    <3>2. \A b \in torn : [Flushed[b] EXCEPT !.state = "torn"] \in Directory
      BY <2>2, <3>1 DEF Unsynced, Flushed, Directory, NoDirectory
    <3> QED
      BY <2>2, <3>1, <3>2 DEF Unsynced, Left
  <2>4. call' = NoCall /\ cut' \subseteq Bundles /\ UNCHANGED <<answered, active>>
    <3>1. call # NoCall => call.bundle \in Bundles
      BY DEF Call
    <3> QED
      BY <1>10, <3>1 DEF PowerLoss
  <2> QED
    BY <2>1, <2>3, <2>4
<1>11. CASE UNCHANGED updateVars
  BY <1>11 DEF updateVars
<1> QED
  BY <1>1, <1>2, <1>3, <1>4, <1>5, <1>6, <1>7, <1>8, <1>9, <1>10, <1>11 DEF UpdatesNext

-----------------------------------------------------------------------------
(* What a step does to the directories. *)

\* A directory that was sound stays so, unless an install that has not made its
\* own yet makes it, or the history says what became of it.
LEMMA SoundKept ==
    ASSUME UpdatesTypeOK, CallInv, [UpdatesNext]_updateVars, NEW v \in Bundles, Sound(v)
    PROVE  Sound(v)'
<1> USE DEF UpdatesTypeOK, Sound
<1>1. ASSUME UNCHANGED bundles, spoiled \subseteq spoiled' PROVE Sound(v)'
  BY <1>1
<1>2. CASE Rename
  <2>1. call \in Call /\ bundles[call.bundle] = NoDirectory
    BY <1>2 DEF Rename, NoCall, CallInv
  <2>2. v # call.bundle => bundles'[v] = bundles[v]
    BY <1>2, <2>1 DEF Rename, Renamed, Call
  <2> QED
    BY <1>2, <2>1, <2>2 DEF Rename, historyVars
<1>3. CASE SystemFlushes
  BY <1>3 DEF SystemFlushes, Flushed, historyVars, Directory, NoDirectory
<1>4. CASE PowerLoss
  <2>1. PICK gone \in SUBSET Unsynced, torn \in SUBSET Unsynced :
          /\ bundles' = Left(gone, torn)
          /\ spoiled' = spoiled \cup gone \cup torn
    BY <1>4 DEF PowerLoss
  <2>2. CASE v \in spoiled \cup gone \cup torn
    BY <2>1, <2>2
  <2>3. CASE v \notin spoiled \cup gone \cup torn
    <3>1. bundles'[v] = Flushed[v]
      BY <2>1, <2>3 DEF Left
    <3> QED
      BY <2>3, <3>1 DEF Flushed, Directory, NoDirectory
  <2> QED
    BY <2>2, <2>3
<1>5. ASSUME NEW b \in Bundles, Begin(b) PROVE Sound(v)'
  BY <1>1, <1>5 DEF Begin, historyVars
<1>6. ASSUME NEW s \in Bundles \cup {Torn}, Copy(s) PROVE Sound(v)'
  BY <1>1, <1>6 DEF Copy
<1>7. CASE Check \/ Point \/ WritePointer \/ Finish \/ Stops \/ UNCHANGED updateVars
  BY <1>1, <1>7 DEF Check, Point, WritePointer, Finish, Stops, historyVars, updateVars
<1> QED
  BY <1>2, <1>3, <1>4, <1>5, <1>6, <1>7 DEF UpdatesNext

-----------------------------------------------------------------------------
(* An install. *)

LEMMA CallKept == UpdatesInv /\ [UpdatesNext]_updateVars => CallInv'
<1> SUFFICES ASSUME UpdatesTypeOK, CallInv, KeptInv, [UpdatesNext]_updateVars PROVE CallInv'
  BY DEF UpdatesInv
<1> USE FileConstants DEF Bundles
<1>0. \A v \in Bundles : Sound(v) => Sound(v)'
  BY SoundKept
<1>1. ASSUME NEW b \in Bundles, Begin(b) PROVE CallInv'
  BY <1>1 DEF Begin, CallInv, NoCall, fileVars
<1>2. ASSUME NEW s \in Bundles \cup {Torn}, Copy(s) PROVE CallInv'
  <2>1. call \in Call /\ call # NoCall
    BY <1>2 DEF Copy, NoCall, UpdatesTypeOK
  <2>2. /\ call' # NoCall /\ call'.pc = "check" /\ call'.staged = s
        /\ call'.bundle = call.bundle /\ call'.least = call.least
    BY <1>2, <2>1 DEF Copy, Call, NoCall
  <2> QED
    BY <1>2, <2>1, <2>2 DEF Copy, CallInv, fileVars, SequenceIn
<1>3. CASE Check
  <2>1. call \in Call /\ call # NoCall
    BY <1>3 DEF Check, NoCall, UpdatesTypeOK
  <2>2. /\ call' # NoCall /\ call'.pc = "rename" /\ call'.staged = call.staged
        /\ call'.bundle = call.bundle /\ call'.least = call.least
    BY <1>3, <2>1 DEF Check, Call, NoCall
  <2>3. call.staged \in Bundles /\ SequenceOf[call.staged] > call.least
    BY <1>3, <2>1 DEF Check, StageVerified, Newer, CallInv, Call, UpdatesTypeOK
  <2> QED
    BY <1>3, <2>1, <2>2, <2>3 DEF Check, CallInv, fileVars, historyVars, SequenceIn
<1>4. CASE Rename
  <2>1. call \in Call /\ call # NoCall
    BY <1>4 DEF Rename, NoCall, UpdatesTypeOK
  <2>2. /\ call' # NoCall /\ call'.pc = "point" /\ call'.staged = call.staged
        /\ call'.bundle = call.bundle /\ call'.least = call.least
    BY <1>4, <2>1 DEF Rename, Call, NoCall
  <2>3. Sound(call.staged)'
    BY <1>4, <2>1, <2>2 DEF Rename, Renamed, Sound, CallInv, Call, historyVars, NoDirectory,
                            UpdatesTypeOK
  <2> QED
    BY <1>4, <2>1, <2>2, <2>3 DEF Rename, CallInv, Sound, fileVars, historyVars, SequenceIn
<1>5. CASE Point
  <2>1. call \in Call /\ call # NoCall
    BY <1>5 DEF Point, NoCall, UpdatesTypeOK
  <2>2. /\ call' # NoCall /\ call'.pc = "write" /\ call'.staged = call.staged
        /\ call'.bundle = call.bundle /\ call'.least = call.least
    BY <1>5, <2>1 DEF Point, Call, NoCall
  <2>3. step' = "opened" /\ fresh' = call.staged /\ shown' = shown
    BY <1>5, <2>1 DEF Point, Open, Pointer, CallInv
  <2> QED
    BY <1>5, <2>1, <2>2, <2>3, <1>0 DEF Point, CallInv, Sound, historyVars, SequenceIn
<1>6. CASE WritePointer
  <2>1. call # NoCall /\ call' = call /\ call.pc = "write" /\ UNCHANGED <<bundles, spoiled>>
    BY <1>6 DEF WritePointer, NoCall
  <2>2. fresh' = fresh /\ fresh = call.staged
    BY <1>6, <2>1 DEF WritePointer, WriteStep, WriteAll, SyncFile, Replace, SyncDirectory, CallInv
  <2>3. \/ step' \in {"written", "synced"} /\ step \notin {"replaced", "done"} /\ shown' = shown
        \/ step' = "replaced" /\ shown' = fresh /\ active' = active \cup {fresh}
        \/ step' = "done" /\ step = "replaced" /\ active' = active
    BY <1>6 DEF WritePointer, WriteStep, WriteAll, SyncFile, Replace, SyncDirectory
  <2> QED
    BY <2>1, <2>2, <2>3 DEF CallInv, Sound, SequenceIn
<1>7. CASE Finish \/ Stops \/ PowerLoss
  BY <1>7 DEF Finish, Return, Stops, WriteStops, PowerLoss, PowerFails, CallInv
<1>8. CASE SystemFlushes
  <2>1. \A b \in Bundles : bundles[b] = NoDirectory => bundles'[b] = NoDirectory
    BY <1>8 DEF SystemFlushes, Flushed
  <2>2. call # NoCall => call.bundle \in Bundles
    BY DEF UpdatesTypeOK, Call
  <2> QED
    BY <1>8, <2>1, <2>2, <1>0 DEF SystemFlushes, Flush, CallInv, historyVars, SequenceIn
<1>9. CASE UNCHANGED updateVars
  BY <1>9 DEF updateVars, CallInv, Sound, SequenceIn
<1> QED
  BY <1>1, <1>2, <1>3, <1>4, <1>5, <1>6, <1>7, <1>8, <1>9 DEF UpdatesNext

-----------------------------------------------------------------------------
(* What a power loss may bring back, and the directories. *)

LEMMA KeptKept == UpdatesInv /\ [UpdatesNext]_updateVars => KeptInv'
<1> SUFFICES ASSUME UpdatesTypeOK, CallInv, KeptInv, [UpdatesNext]_updateVars PROVE KeptInv'
  BY DEF UpdatesInv
<1> USE FileConstants, UpdateConstants, SequenceType DEF Bundles
<1>0. \A v \in Values : Sound(v) => Sound(v)'
  BY SoundKept
<1>1. ASSUME UNCHANGED <<shown, kept>>, step' # "done" \/ step' = step PROVE KeptInv'
  BY <1>1, <1>0 DEF KeptInv, SequenceIn
<1>2. ASSUME shown' \in kept, kept' = {shown'} PROVE KeptInv'
  BY <1>2, <1>0 DEF KeptInv, SequenceIn
<1>3. CASE WritePointer
  <2>1. CASE WriteAll \/ SyncFile
    BY <1>1, <2>1 DEF WriteAll, SyncFile
  <2>2. CASE Replace
    <3>1. PICK f \in Values : f = fresh /\ SequenceIn(f) > SequenceIn(shown) /\ Sound(f)
      BY <1>3, <2>2 DEF WritePointer, Replace, Replaceable, CallInv, NoCall, SequenceIn
    <3>2. shown' = f /\ kept' = kept \cup {f} /\ step' = "replaced"
      BY <2>2, <3>1 DEF Replace, Replaceable
    <3>3. Sound(f)'
      BY <1>0, <3>1
    <3>4. \A v \in kept' : SequenceIn(v) <= SequenceIn(shown')
      BY <3>1, <3>2 DEF KeptInv
    <3>5. \E v \in kept' : \A u \in kept' : SequenceIn(v) <= SequenceIn(u)
      <4>1. PICK v \in kept : \A u \in kept : SequenceIn(v) <= SequenceIn(u)
        BY DEF KeptInv
      <4>2. SequenceIn(v) <= SequenceIn(f)
        BY <3>1, <4>1 DEF KeptInv
      <4> QED
        BY <3>2, <4>1, <4>2
    <3>6. \A v \in kept' \cap Values : Sound(v)'
      BY <1>0, <3>2, <3>3 DEF KeptInv
    <3> QED
      BY <3>1, <3>2, <3>4, <3>5, <3>6 DEF KeptInv, SequenceIn
  <2>3. CASE SyncDirectory
    <3>1. CASE DirectorySync
      BY <1>2, <2>3, <3>1 DEF SyncDirectory, KeptInv
    <3>2. CASE ~DirectorySync
      BY <1>0, <2>3, <3>2 DEF SyncDirectory, KeptInv, SequenceIn
    <3> QED
      BY <3>1, <3>2
  <2> QED
    BY <1>3, <2>1, <2>2, <2>3 DEF WritePointer, WriteStep
<1>4. CASE SystemFlushes
  BY <1>2, <1>4 DEF SystemFlushes, Flush, KeptInv
<1>5. CASE PowerLoss
  BY <1>2, <1>5 DEF PowerLoss, PowerFails
<1>6. ASSUME NEW b \in Bundles, Begin(b) PROVE KeptInv'
  BY <1>1, <1>6 DEF Begin, fileVars
<1>7. ASSUME NEW s \in Bundles \cup {Torn}, Copy(s) PROVE KeptInv'
  BY <1>1, <1>7 DEF Copy, fileVars
<1>8. CASE Check \/ Rename \/ UNCHANGED updateVars
  BY <1>1, <1>8 DEF Check, Rename, fileVars, updateVars
<1>9. CASE Point \/ Finish \/ Stops
  BY <1>1, <1>9 DEF Point, Open, Finish, Return, Stops, WriteStops
<1> QED
  BY <1>3, <1>4, <1>5, <1>6, <1>7, <1>8, <1>9 DEF UpdatesNext

LEMMA DirectoriesKept ==
    UpdatesInv /\ [UpdatesNext]_updateVars => DirectoriesWereActive'
<1> SUFFICES ASSUME UpdatesTypeOK, CallInv, DirectoriesWereActive, [UpdatesNext]_updateVars,
                    NEW b \in Bundles, bundles'[b] # NoDirectory
             PROVE  \/ b \in (active \cup cut \cup spoiled)'
                    \/ call' # NoCall /\ call'.bundle = b
  BY DEF UpdatesInv, DirectoriesWereActive
<1> USE DEF UpdatesTypeOK
<1>1. active \subseteq active' /\ cut \subseteq cut' /\ spoiled \subseteq spoiled'
  BY DEF UpdatesNext, Begin, Copy, Check, Rename, Point, WritePointer, Finish, Stops,
         SystemFlushes, PowerLoss, historyVars, updateVars
<1>2. ASSUME bundles[b] # NoDirectory,
             call = NoCall \/ (call' # NoCall /\ call'.bundle = call.bundle)
      PROVE  \/ b \in (active \cup cut \cup spoiled)'
             \/ call' # NoCall /\ call'.bundle = b
  BY <1>1, <1>2 DEF DirectoriesWereActive
<1>3. ASSUME NEW e \in Bundles, Begin(e)
      PROVE  \/ b \in (active \cup cut \cup spoiled)'
             \/ call' # NoCall /\ call'.bundle = b
  BY <1>2, <1>3 DEF Begin
<1>4. ASSUME NEW s \in Bundles \cup {Torn}, Copy(s)
      PROVE  \/ b \in (active \cup cut \cup spoiled)'
             \/ call' # NoCall /\ call'.bundle = b
  <2>1. call \in Call
    BY <1>4 DEF Copy, NoCall
  <2> QED
    BY <1>2, <1>4, <2>1 DEF Copy, Call, NoCall
<1>5. CASE Check \/ Rename \/ Point
  <2>1. call \in Call
    BY <1>5 DEF Check, Rename, Point, NoCall
  <2>2. call' # NoCall /\ call'.bundle = call.bundle
    BY <1>5, <2>1 DEF Check, Rename, Point, Call, NoCall
  <2>3. b # call.bundle => bundles[b] # NoDirectory
    BY <1>5, <2>1 DEF Check, Rename, Renamed, Point, Call
  <2> QED
    BY <1>2, <2>2, <2>3
<1>6. CASE WritePointer \/ SystemFlushes \/ UNCHANGED updateVars
  <2>1. call' = call /\ bundles[b] # NoDirectory
    BY <1>6 DEF WritePointer, SystemFlushes, Flushed, updateVars
  <2> QED
    BY <1>2, <2>1
<1>7. CASE Finish \/ Stops \/ PowerLoss
  <2>1. bundles[b] # NoDirectory
    BY <1>7 DEF Finish, Stops, PowerLoss, Left, Flushed, Unsynced
  <2>2. ASSUME call # NoCall, call.bundle = b PROVE b \in (active \cup cut \cup spoiled)'
    <3>1. CASE InPlace
      <4>1. CASE Finish
        BY <3>1, <4>1 DEF Finish, Return, InPlace
      <4> QED
        BY <1>7, <2>2, <3>1, <4>1 DEF Stops, PowerLoss
    <3>2. CASE ~InPlace
      <4>1. call.pc = "write" /\ step \in {"replaced", "done"}
        BY <2>1, <2>2, <3>2 DEF InPlace, CallInv, Call
      <4>2. call.staged \in active /\ (call.staged = b \/ b \in spoiled)
        BY <2>2, <4>1, FileConstants DEF CallInv, Bundles
      <4> QED
        BY <1>1, <4>2
    <3> QED
      BY <3>1, <3>2
  <2> QED
    BY <1>1, <2>1, <2>2 DEF DirectoriesWereActive
<1> QED
  BY <1>3, <1>4, <1>5, <1>6, <1>7 DEF UpdatesNext

-----------------------------------------------------------------------------
(* The theorems. *)

LEMMA UpdatesInvariant == UpdatesSpec => []UpdatesInv
<1>1. UpdatesInit => UpdatesInv
  BY InitHolds
<1>2. UpdatesInv /\ [UpdatesNext]_updateVars => UpdatesInv'
  BY TypesKept, CallKept, KeptKept, DirectoriesKept DEF UpdatesInv
<1> QED
  BY <1>1, <1>2, PTL DEF UpdatesSpec

\* Every variable of the channel keeps its type: above all, the pointer file
\* only ever holds a bundle or nothing once it has been written durably.
THEOREM UpdatesTypes == UpdatesSpec => []UpdatesTypeOK
<1>1. UpdatesInv => UpdatesTypeOK
  BY DEF UpdatesInv
<1> QED
  BY <1>1, UpdatesInvariant, PTL

\* Wherever an install stops, and whatever a power loss leaves: the pointer is
\* whole and the bundle it names lies whole in its directory, or the history
\* says why not; and a directory that blocks an install was active, or its
\* install ended between the rename and the pointer.
THEOREM InstallsAccounted == UpdatesSpec => []InstallsAreAccounted
<1>1. UpdatesInv => InstallsAreAccounted
  BY DEF UpdatesInv, UpdatesTypeOK, FileTypeOK, KeptInv, Bundles, Sound, InstallsAreAccounted,
         PointerHasItsBundle
<1> QED
  BY <1>1, UpdatesInvariant, PTL

-----------------------------------------------------------------------------
(* The pointer as a register. *)

LEMMA LeastIs ==
    ASSUME NEW V, NEW v \in V, \A u \in V : SequenceIn(v) <= SequenceIn(u)
    PROVE  Least(V) = SequenceIn(v)
<1> DEFINE S == {SequenceIn(u) : u \in V}
<1>1. SequenceIn(v) \in S /\ \A u \in V : SequenceIn(v) <= SequenceIn(u)
  OBVIOUS
<1>2. \E n \in S : \A u \in V : n <= SequenceIn(u)
  BY <1>1
<1>3. Least(V) \in S /\ \A u \in V : Least(V) <= SequenceIn(u)
  BY <1>2 DEF Least
<1>4. PICK w \in V : Least(V) = SequenceIn(w)
  BY <1>3
<1>5. Least(V) <= SequenceIn(v) /\ SequenceIn(v) <= Least(V)
  BY <1>3, <1>4
<1> QED
  BY <1>4, <1>5, SequenceType

LEMMA LeastOfOne == \A v : Least({v}) = SequenceIn(v)
<1> TAKE v
<1>1. \A u \in {v} : SequenceIn(v) <= SequenceIn(u)
  BY SequenceType
<1> QED
  BY <1>1, LeastIs

LEMMA StepIsRegister ==
    UpdatesInv /\ DirectorySync /\ [UpdatesNext]_updateVars
        => [Register!RegisterNext]_Register!registerVars
<1> SUFFICES ASSUME UpdatesTypeOK, CallInv, KeptInv, DirectorySync, [UpdatesNext]_updateVars
             PROVE  [Register!RegisterNext]_Register!registerVars
  BY DEF UpdatesInv
<1> USE FileConstants, UpdateConstants, SequenceType DEF Bundles
<1>0. SequenceIn(shown)' = SequenceIn(shown') /\ Least(kept)' = Least(kept')
  BY DEF SequenceIn, Least
<1>a. PICK low \in kept : \A u \in kept : SequenceIn(low) <= SequenceIn(u)
  BY DEF KeptInv
<1>b. Least(kept) = SequenceIn(low)
  BY <1>a, LeastIs
<1>1. ASSUME UNCHANGED <<shown, kept, answered>>
      PROVE  [Register!RegisterNext]_Register!registerVars
  BY <1>0, <1>1 DEF Register!registerVars
<1>2. ASSUME shown' = shown, kept' = {shown}, answered' = answered
      PROVE  [Register!RegisterNext]_Register!registerVars
  <2>1. Register!Settle
    BY <1>0, <1>2, LeastOfOne DEF Register!Settle
  <2> QED
    BY <2>1 DEF Register!RegisterNext
<1>3. CASE WritePointer
  <2>1. answered' = answered
    BY <1>3 DEF WritePointer
  <2>2. CASE WriteAll \/ SyncFile
    BY <1>1, <2>1, <2>2 DEF WriteAll, SyncFile
  <2>3. CASE Replace
    <3>1. PICK f \in Values : f = fresh /\ SequenceIn(f) > SequenceIn(shown)
      BY <1>3, <2>3 DEF WritePointer, Replace, Replaceable, CallInv, NoCall, SequenceIn
    <3>2. shown' = f /\ kept' = kept \cup {f}
      BY <2>3, <3>1 DEF Replace, Replaceable
    <3>3. \A u \in kept \cup {f} : SequenceIn(low) <= SequenceIn(u)
      BY <1>a, <3>1 DEF KeptInv
    <3>4. Least(kept') = SequenceIn(low)
      BY <3>2, <3>3, LeastIs
    <3>5. Register!Raise
      BY <1>0, <1>b, <2>1, <3>1, <3>2, <3>4 DEF Register!Raise
    <3> QED
      BY <3>5 DEF Register!RegisterNext
  <2>4. CASE SyncDirectory
    BY <1>2, <2>1, <2>4 DEF SyncDirectory
  <2> QED
    BY <1>3, <2>2, <2>3, <2>4 DEF WritePointer, WriteStep
<1>4. CASE Finish
  <2>1. kept = {shown} /\ UNCHANGED <<shown, kept>> /\ answered' = SequenceIn(shown)
    BY <1>4 DEF Finish, Return, KeptInv
  <2>2. Register!Answer
    BY <1>0, <2>1, LeastOfOne DEF Register!Answer
  <2> QED
    BY <2>2 DEF Register!RegisterNext
<1>5. CASE PowerLoss
  <2>1. shown' \in kept /\ kept' = {shown'} /\ answered' = answered
    BY <1>5 DEF PowerLoss, PowerFails
  <2>2. Least(kept) <= SequenceIn(shown') /\ SequenceIn(shown') <= SequenceIn(shown)
    BY <1>a, <1>b, <2>1 DEF KeptInv
  <2>3. Least(kept') = SequenceIn(shown')
    BY <2>1, LeastOfOne
  <2>4. Register!Lose
    BY <1>0, <1>b, <2>1, <2>2, <2>3 DEF Register!Lose
  <2> QED
    BY <2>4 DEF Register!RegisterNext
<1>6. CASE SystemFlushes
  BY <1>2, <1>6 DEF SystemFlushes, Flush, historyVars
<1>7. ASSUME NEW b \in Bundles, Begin(b) PROVE [Register!RegisterNext]_Register!registerVars
  BY <1>1, <1>7 DEF Begin, fileVars, historyVars
<1>8. ASSUME NEW s \in Bundles \cup {Torn}, Copy(s)
      PROVE  [Register!RegisterNext]_Register!registerVars
  BY <1>1, <1>8 DEF Copy, fileVars
<1>9. CASE Check \/ Rename \/ Point \/ Stops \/ UNCHANGED updateVars
  BY <1>1, <1>9 DEF Check, Rename, Point, Open, Stops, WriteStops, fileVars, historyVars, updateVars
<1> QED
  BY <1>3, <1>4, <1>5, <1>6, <1>7, <1>8, <1>9 DEF UpdatesNext

\* Where directories can be synced, the sequence readers find in the pointer is
\* a durable register: an install raises it, a power loss takes it back at most
\* to the last settled one, and an install answers only when its own has settled.
THEOREM PointerIsRegister == DirectorySync => (UpdatesSpec => ImplementsRegister)
<1> SUFFICES ASSUME DirectorySync PROVE UpdatesSpec => ImplementsRegister
  OBVIOUS
<1>1. UpdatesInit => Register!RegisterInit
  <2> SUFFICES ASSUME UpdatesInit PROVE Register!RegisterInit
    OBVIOUS
  <2>1. SequenceIn(NoValue) = 0 /\ Least({NoValue}) = 0
    BY FileConstants, LeastOfOne DEF SequenceIn, Bundles
  <2> QED
    BY <2>1 DEF UpdatesInit, FileInit, Register!RegisterInit
<1>2. UpdatesInv /\ [UpdatesNext]_updateVars => [Register!RegisterNext]_Register!registerVars
  BY StepIsRegister
<1> QED
  BY <1>1, <1>2, UpdatesInvariant, PTL DEF UpdatesSpec, ImplementsRegister, Register!RegisterSpec
=============================================================================
