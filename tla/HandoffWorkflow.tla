--------------------------- MODULE HandoffWorkflow ---------------------------
(***************************************************************************)
(* WorkflowManager (workflow.py): one workflow, in which a producer hands  *)
(* its checkpoint over to a consumer.  The manager lives in one process    *)
(* and keeps its record in memory; the checkpoint is written through an    *)
(* adapter, if there is one, to a file that others write too.              *)
(*                                                                         *)
(* A checkpoint is its identity, which leaves out its sequence number and  *)
(* time: with an adapter the same content is a duplicate, without one no   *)
(* two checkpoints are.  Left out: the audit trail, the continuity report  *)
(* and verify_before_continue, which change nothing, and checkpoints that  *)
(* do not parse.                                                           *)
(***************************************************************************)
EXTENDS Naturals

CONSTANTS
    Contents,   \* identities of checkpoints
    Nothing,    \* no checkpoint, no file
    MaxTokens   \* bound: handoff requests

TokensAssumption == MaxTokens \in Nat

Machine ==
    [idle              |-> {"working", "abandoned"},
     working           |-> {"checkpointed", "abandoned", "failed"},
     checkpointed      |-> {"working", "handoff_requested", "completed", "abandoned", "failed"},
     handoff_requested |-> {"handoff_accepted", "abandoned", "failed", "working"},
     handoff_accepted  |-> {"completed", "working", "abandoned", "failed"},
     completed         |-> {},
     abandoned         |-> {"working"},
     failed            |-> {"working"}]

WorkflowState == DOMAIN Machine
Terminal == {"completed", "abandoned", "failed"}
Roles == {"producer", "consumer", "stranger"}

\* token: of the latest request, 0 for none; to: whom it is addressed to.
WorkflowRecord ==
    [st : WorkflowState, cur : Contents \union {Nothing}, token : 0..MaxTokens,
     to : Roles, approved : BOOLEAN]

VARIABLES
    adapter,  \* whether the manager has one
    rec,      \* the record
    file,     \* what the adapter reads
    minted,   \* how many tokens so far
    asked,    \* history: the checkpoint each token was issued for
    used      \* history: the token presented when a handoff was last accepted

vars == <<adapter, rec, file, minted, asked, used>>

Init ==
    /\ adapter \in BOOLEAN
    /\ rec = [st |-> "idle", cur |-> Nothing, token |-> 0, to |-> "stranger",
              approved |-> FALSE]
    /\ file = Nothing
    /\ minted = 0
    /\ asked = [n \in 1..MaxTokens |-> Nothing]
    /\ used = 0

\* _transition.
Moves(target) == target \in Machine[rec.st] /\ rec' = [rec EXCEPT !.st = target]

Begin ==
    /\ rec.st = "idle"
    /\ Moves("working")
    /\ UNCHANGED <<adapter, file, minted, asked, used>>

-----------------------------------------------------------------------------
(* checkpoint.                                                              *)

MayCheckpoint(actor) ==
    \/ rec.st = "handoff_requested" /\ actor = "producer"
    \/ rec.st = "handoff_accepted" /\ actor = "consumer"
    \/ rec.st \in {"working", "checkpointed"} /\ actor # "stranger"

\* Mutated form of Resumed: a pending handoff stays pending.
ResumedPending ==
    IF rec.st = "handoff_accepted" THEN [rec EXCEPT !.st = "working"] ELSE rec

\* Before anything is checked, a handoff that is pending is revoked, and one
\* that was accepted is continued.
Resumed ==
    IF rec.st \in {"handoff_requested", "handoff_accepted"}
    THEN [rec EXCEPT !.st = "working"] ELSE rec

Stored(r, c) ==
    [r EXCEPT !.cur = c, !.st = IF @ = "working" THEN "checkpointed" ELSE @]

Checkpoint(actor, c) ==
    /\ MayCheckpoint(actor)
    /\ adapter => file # c
    /\ file' = IF adapter THEN c ELSE file
    /\ rec' = Stored(Resumed, c)
    /\ UNCHANGED <<adapter, minted, asked, used>>

\* The file holds this checkpoint already: nothing is stored, but the handoff
\* that was pending is not pending any more, and the workflow is working.
CheckpointDuplicate(actor, c) ==
    /\ MayCheckpoint(actor)
    /\ adapter /\ file = c
    /\ rec' = Resumed
    /\ UNCHANGED <<adapter, file, minted, asked, used>>

\* A stale expected_base, or a write that the adapter refuses: as above.
CheckpointRefused(actor) ==
    /\ MayCheckpoint(actor)
    /\ rec' = Resumed
    /\ UNCHANGED <<adapter, file, minted, asked, used>>

\* verify_checkpoint.
Verified ==
    IF adapter THEN file # Nothing /\ rec.cur \in {Nothing, file} ELSE rec.cur # Nothing

-----------------------------------------------------------------------------
(* The handoff.                                                             *)

\* A second request for the same consumer returns the first, any other raises.
RequestHandoff(to) ==
    /\ rec.st = "checkpointed"
    /\ Verified
    /\ minted < MaxTokens
    /\ minted' = minted + 1
    /\ rec' = [rec EXCEPT !.st = "handoff_requested", !.token = minted + 1, !.to = to]
    /\ asked' = [asked EXCEPT ![minted + 1] = rec.cur]
    /\ UNCHANGED <<adapter, file, used>>

AcceptHandoff(token) ==
    /\ rec.st = "handoff_requested"
    /\ rec.token = token
    /\ rec.to = "consumer"
    /\ rec' = [rec EXCEPT !.st = "handoff_accepted", !.approved = TRUE]
    /\ used' = token
    /\ UNCHANGED <<adapter, file, minted, asked>>

Complete ==
    /\ rec.st \in {"handoff_accepted", "checkpointed"}
    /\ rec.approved
    /\ Verified
    /\ Moves("completed")
    /\ UNCHANGED <<adapter, file, minted, asked, used>>

Abandon ==
    /\ rec.st \notin Terminal
    /\ Moves("abandoned")
    /\ UNCHANGED <<adapter, file, minted, asked, used>>

Fail ==
    /\ rec.st \notin Terminal
    /\ Moves("failed")
    /\ UNCHANGED <<adapter, file, minted, asked, used>>

\* A completed workflow does not move: _transition refuses.
Recover ==
    /\ rec.st \in Terminal
    /\ Moves("working")
    /\ UNCHANGED <<adapter, file, minted, asked, used>>

\* Somebody else writes the file.
Overwrite(c) ==
    /\ adapter
    /\ file' = c
    /\ UNCHANGED <<adapter, rec, minted, asked, used>>

Next ==
    \/ Begin \/ Complete \/ Abandon \/ Fail \/ Recover
    \/ \E actor \in Roles :
          \/ RequestHandoff(actor) \/ CheckpointRefused(actor)
          \/ \E c \in Contents : Checkpoint(actor, c) \/ CheckpointDuplicate(actor, c)
    \/ \E n \in 1..MaxTokens : AcceptHandoff(n)
    \/ \E c \in Contents : Overwrite(c)

Spec == Init /\ [][Next]_vars

-----------------------------------------------------------------------------
\* The record is one the manager builds.
TypeOK ==
    /\ adapter \in BOOLEAN
    /\ rec \in WorkflowRecord
    /\ file \in Contents \union {Nothing}
    /\ minted \in 0..MaxTokens
    /\ asked \in [1..MaxTokens -> Contents \union {Nothing}]
    /\ used \in 0..MaxTokens

\* A handoff is pending for the checkpoint its token was issued for, and what is
\* handed over is the checkpoint that the token presented was issued for: whatever
\* is stored, refused, repeated, failed and recovered in between, no token hands
\* over a checkpoint that was made after it was issued.
HandedOverAsRequested ==
    /\ rec.st = "handoff_requested" => rec.token > 0 /\ rec.cur = asked[rec.token]
    /\ rec.st = "handoff_accepted" => used > 0 /\ rec.cur = asked[used]

=============================================================================
