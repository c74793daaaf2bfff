--------------------------- MODULE ConflictManager ---------------------------
(***************************************************************************)
(* SyncConflictManager (sync.py) and RemoteConflictManager (remote.py):    *)
(* conflicts between the local and the remote copy of an item, and how     *)
(* they were resolved, in memory and in a file that every change rewrites. *)
(* Callers keep the conflicts they were given, and may pass an old one to  *)
(* resolve_automatic_safe_merge after the item came into conflict again.   *)
(*                                                                         *)
(* The two classes are the same but for that operation: the remote manager *)
(* builds the resolved conflict and does not store it.  The merged payload *)
(* is returned and kept nowhere; versions and hashes are left out.         *)
(***************************************************************************)
EXTENDS Naturals

CONSTANTS
    Conflicts,      \* an id for each device or endpoint, and item
    NoConflict,
    MaxDetections,  \* bound: detections
    MaxBroken       \* bound: writes that raise, and restarts

\* The bounds are natural numbers.
BoundAssumption == MaxDetections \in Nat /\ MaxBroken \in Nat

Resolutions == {"none", "automatic", "local", "remote"}

\* n: which detection it is.
Records == [n : 1..MaxDetections, res : Resolutions]

VARIABLES
    kind,       \* which of the two managers it is
    conflicts,  \* _conflicts
    recorded,   \* conflicts.json
    copies,     \* what callers of detect were given, by conflict
    detected,   \* detections so far
    broken,     \* writes that raised, and restarts, so far
    decided     \* history: the last manual resolution that returned, and what
                \* calls that raised have put in its place since, by conflict

vars == <<kind, conflicts, recorded, copies, detected, broken, decided>>

Init ==
    /\ kind \in {"sync", "remote"}
    /\ conflicts = [k \in Conflicts |-> NoConflict]
    /\ recorded = conflicts
    /\ copies = [k \in Conflicts |-> {}]
    /\ detected = 0
    /\ broken = 0
    /\ decided = [k \in Conflicts |-> {}]

\* Mutated form of Save: the file is written before the memory changes.
SaveBehind(image, ok) ==
    /\ ok \/ broken < MaxBroken
    /\ conflicts' = image
    /\ recorded' = IF ok THEN conflicts ELSE recorded
    /\ broken' = IF ok THEN broken ELSE broken + 1
    /\ UNCHANGED kind

Save(image, ok) ==
    /\ ok \/ broken < MaxBroken
    /\ conflicts' = image
    /\ recorded' = IF ok THEN image ELSE recorded
    /\ broken' = IF ok THEN broken ELSE broken + 1
    /\ UNCHANGED kind

\* A call that raised has changed the memory and not the file: from then on
\* either may stand.
Replaceable(k) == IF decided[k] = {} THEN {} ELSE decided[k] \union {conflicts'[k]}

\* detect of an item that differs: a resolution of before is gone.
Detect(k, ok) ==
    /\ detected < MaxDetections
    /\ detected' = detected + 1
    /\ Save([conflicts EXCEPT ![k] = [n |-> detected', res |-> "none"]], ok)
    /\ copies' = IF ok THEN [copies EXCEPT ![k] = @ \union {conflicts'[k]}] ELSE copies
    /\ decided' = [decided EXCEPT ![k] = IF ok THEN {} ELSE Replaceable(k)]

\* resolve_automatic_safe_merge of the sync manager stores the copy of the caller.
ResolveAutomatically(k, copy, ok) ==
    /\ kind = "sync"
    /\ copy \in copies[k]
    /\ Save([conflicts EXCEPT ![k] = [copy EXCEPT !.res = "automatic"]], ok)
    /\ UNCHANGED <<copies, detected, decided>>

\* The remote manager looks the conflict up, and writes the file as it was.
ResolveRemotely(k, copy, ok) ==
    /\ kind = "remote"
    /\ copy \in copies[k]
    /\ conflicts[k] # NoConflict
    /\ Save(conflicts, ok)
    /\ UNCHANGED <<copies, detected, decided>>

\* resolve_manual: of the latest detection, by a named human.
ResolveManually(k, chosen, ok) ==
    /\ conflicts[k] # NoConflict
    /\ Save([conflicts EXCEPT ![k].res = chosen], ok)
    /\ decided' = [decided EXCEPT ![k] = IF ok THEN {conflicts'[k]} ELSE Replaceable(k)]
    /\ UNCHANGED <<copies, detected>>

\* Another process loads the file; the copies of the callers are gone.
Restart ==
    /\ broken < MaxBroken
    /\ broken' = broken + 1
    /\ conflicts' = recorded
    /\ copies' = [k \in Conflicts |-> {}]
    /\ UNCHANGED <<kind, recorded, detected, decided>>

Next ==
    \/ Restart
    \/ \E k \in Conflicts, ok \in BOOLEAN :
          \/ Detect(k, ok)
          \/ \E copy \in copies[k] :
                ResolveAutomatically(k, copy, ok) \/ ResolveRemotely(k, copy, ok)
          \/ \E chosen \in {"local", "remote"} : ResolveManually(k, chosen, ok)

Spec == Init /\ [][Next]_vars

-----------------------------------------------------------------------------
\* Memory and file hold conflicts as the managers build them.
TypeOK ==
    /\ kind \in {"sync", "remote"}
    /\ conflicts \in [Conflicts -> Records \union {NoConflict}]
    /\ recorded \in [Conflicts -> Records \union {NoConflict}]
    /\ copies \in [Conflicts -> SUBSET Records]
    /\ detected \in 0..MaxDetections
    /\ broken \in 0..MaxBroken
    /\ decided \in [Conflicts -> SUBSET Records]

\* The one exception: the automatic merge of the sync manager, whose caller may
\* have kept its copy of the conflict from before the decision.
MergedOver(c) == kind = "sync" /\ c \in Records /\ c.res = "automatic"

\* What a human decided about an item is what memory and file hold until the item
\* comes into conflict again: neither a change of another conflict, nor a write
\* that raises, nor a restart, nor (with the remote manager) an automatic merge of
\* an old copy undoes it.  With the sync manager such a merge does.
DecisionStands ==
    \A k \in Conflicts : decided[k] # {} =>
        \A c \in {conflicts[k], recorded[k]} : c \in decided[k] \/ MergedOver(c)

=============================================================================
