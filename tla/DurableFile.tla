---------------------------- MODULE DurableFile -----------------------------
(***************************************************************************)
(* A file that is replaced by atomic_write_bytes (durable_io.py): write a  *)
(* temporary file beside it, sync it, rename it over the file, sync the    *)
(* directory.  What the operating system has not been told to sync is in   *)
(* memory: a process that dies leaves it, a power loss may not.            *)
(*                                                                         *)
(* One writer at a time, as under exclusive_file_lock.  A temporary file   *)
(* that is left behind is never read.  That a sync of the directory is     *)
(* supported is assumed (DirectorySync); where it is not, the code goes on *)
(* without one.                                                            *)
(***************************************************************************)
EXTENDS Naturals, FiniteSets

CONSTANTS
    Values,        \* what the file may hold
    NoValue,       \* there is no file
    Torn,          \* a content that is not whole
    DirectorySync  \* the file system can sync a directory

ASSUME FileConstants ==
    NoValue \notin Values /\ Torn \notin Values /\ NoValue # Torn /\ DirectorySync \in BOOLEAN

VARIABLES
    shown,  \* what a reader finds under the name
    kept,   \* what a power loss may leave under the name
    step,   \* how far the writer is
    fresh   \* what the temporary file is to hold

fileVars == <<shown, kept, step, fresh>>

Steps == {"idle", "opened", "written", "synced", "replaced", "done"}

FileInit == shown = NoValue /\ kept = {NoValue} /\ step = "idle" /\ fresh = NoValue

Open(v) ==
    /\ step = "idle"
    /\ step' = "opened" /\ fresh' = v
    /\ UNCHANGED <<shown, kept>>

\* os.write until everything is written: into memory.
WriteAll ==
    /\ step = "opened"
    /\ step' = "written"
    /\ UNCHANGED <<shown, kept, fresh>>

SyncFile ==
    /\ step = "written"
    /\ step' = "synced"
    /\ UNCHANGED <<shown, kept, fresh>>

ReplaceableUnsynced == {"written", "synced"}   \* Deviation: the sync may come later.
Replaceable == {"synced"}

\* os.replace: the directory still holds the old name on the disk, or the new.
Replace ==
    /\ step \in Replaceable
    /\ step' = "replaced"
    /\ shown' = fresh
    /\ kept' = kept \cup {IF step = "synced" THEN fresh ELSE Torn}
    /\ UNCHANGED fresh

\* Deviation: the directory is not synced.
SyncDirectoryNever ==
    /\ step = "replaced"
    /\ step' = "done"
    /\ UNCHANGED <<shown, kept, fresh>>

SyncDirectory ==
    /\ step = "replaced"
    /\ step' = "done"
    /\ kept' = IF DirectorySync THEN {shown} ELSE kept
    /\ UNCHANGED <<shown, fresh>>

\* The caller has its answer.
Return ==
    /\ step = "done"
    /\ step' = "idle" /\ fresh' = NoValue
    /\ UNCHANGED <<shown, kept>>

WriteStep == WriteAll \/ SyncFile \/ Replace \/ SyncDirectory

\* The disk is full or refuses (the temporary file is removed), or the process
\* dies (it stays).
WriteStops ==
    /\ step' = "idle" /\ fresh' = NoValue
    /\ UNCHANGED <<shown, kept>>

\* The operating system syncs everything at its own pace.
Flush ==
    /\ kept' = {shown}
    /\ UNCHANGED <<shown, step, fresh>>

PowerFails ==
    /\ shown' \in kept
    /\ kept' = {shown'}
    /\ step' = "idle" /\ fresh' = NoValue

FileTypeOK ==
    /\ shown \in Values \cup {NoValue, Torn} /\ kept \subseteq Values \cup {NoValue, Torn}
    /\ step \in Steps /\ fresh \in Values \cup {NoValue}
=============================================================================
