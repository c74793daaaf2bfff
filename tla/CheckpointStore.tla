--------------------------- MODULE CheckpointStore --------------------------
(***************************************************************************)
(* The checkpoints of reliability.py (class CheckpointStore): one name,    *)
(* its current file and its backup.  save copies the bytes of the current  *)
(* file to the backup and then writes the new revision; each write is      *)
(* atomic (temporary file and rename), the pair is not.  A payload is its  *)
(* revision number; a file whose SHA-256 does not match is corrupt.        *)
(***************************************************************************)
EXTENDS Naturals

CONSTANTS
    Missing, Corrupt,  \* a file that does not exist, or fails verification
    MaxRevisions,      \* bound: calls of save
    MaxCorruptions     \* bound: files damaged

\* A missing file, a damaged one and a revision are three different things.
FileAssumption ==
    /\ MaxRevisions \in Nat /\ MaxCorruptions \in Nat
    /\ Missing # Corrupt /\ Missing \notin Nat /\ Corrupt \notin Nat

VARIABLES
    target,      \* {name}.json
    backup,      \* {name}.bak.json
    saving,      \* save has written the backup and not yet the target
    started,     \* revision of the last save that began
    saved,       \* revision of the last save that wrote the target
    previous,    \* the revision that save replaced
    corruptions  \* files damaged so far

vars == <<target, backup, saving, started, saved, previous, corruptions>>

Contents == (1..MaxRevisions) \union {Missing, Corrupt}

Init ==
    /\ target = Missing
    /\ backup = Missing
    /\ saving = FALSE
    /\ started = 0
    /\ saved = 0
    /\ previous = 0
    /\ corruptions = 0

\* Mutated form of KeepPrevious: the backup is made once.
KeepPreviousOnce ==
    /\ backup' = IF backup = Missing THEN target ELSE backup
    /\ UNCHANGED target

\* save copies the current file, whatever is in it, if there is one.
KeepPrevious ==
    /\ backup' = IF target # Missing THEN target ELSE backup
    /\ UNCHANGED target

\* save, first write.
BeginSave ==
    /\ ~saving
    /\ started < MaxRevisions
    /\ started' = started + 1
    /\ saving' = TRUE
    /\ KeepPrevious
    /\ UNCHANGED <<saved, previous, corruptions>>

EndSave ==
    /\ saving
    /\ saving' = FALSE
    /\ target' = started
    /\ saved' = started
    /\ previous' = saved
    /\ UNCHANGED <<backup, started, corruptions>>

\* The process dies between the two writes, or the second one raises.
Interrupt ==
    /\ saving
    /\ saving' = FALSE
    /\ UNCHANGED <<target, backup, started, saved, previous, corruptions>>

Damage ==
    /\ corruptions < MaxCorruptions
    /\ corruptions' = corruptions + 1
    /\ \/ target # Missing /\ target' = Corrupt /\ UNCHANGED backup
       \/ backup # Missing /\ backup' = Corrupt /\ UNCHANGED target
    /\ UNCHANGED <<saving, started, saved, previous>>

Next == BeginSave \/ EndSave \/ Interrupt \/ Damage

Spec == Init /\ [][Next]_vars

\* restore: the first of the two files that verifies; Corrupt stands for
\* CorruptCheckpointError.
Restored ==
    CASE target \notin {Missing, Corrupt} -> target
      [] target \in {Missing, Corrupt} /\ backup \notin {Missing, Corrupt} -> backup
      [] OTHER -> Corrupt

-----------------------------------------------------------------------------
\* The files hold revisions that were saved, in the order they were saved in.
TypeOK ==
    /\ target \in Contents
    /\ backup \in Contents
    /\ saving \in BOOLEAN
    /\ started \in 0..MaxRevisions
    /\ saved \in 0..started
    /\ previous \in 0..saved
    /\ corruptions \in 0..MaxCorruptions

\* As long as no file was damaged, restore returns exactly the last revision
\* whose save got to its second write, however many saves were cut off before.
RestoresLastSave == corruptions = 0 /\ saved > 0 => Restored = saved

\* With damage, whatever restore returns is that revision or the one it
\* replaced: the fallback never reaches further back, and never to a revision
\* whose save was cut off.
FallbackIsPrevious == Restored \in {Corrupt, saved, previous} \ {0}

=============================================================================
