----------------------------- MODULE Delegation -----------------------------
(***************************************************************************)
(* Delegator (delegation.py): delegated tasks from creation to result,     *)
(* with the file rewritten after every change of memory.  A write may      *)
(* raise in the middle of an operation, which leaves the memory changed,   *)
(* and the process may die and load the file again.                        *)
(*                                                                         *)
(* The registry (AgentRegistry) appears as a choice: some available agent, *)
(* or none.  Left out: descriptions, scopes, priorities and deadlines      *)
(* (they only refuse), traces, and the queries.  decompose is one Create   *)
(* for each subtask, which depends on the one before it.                   *)
(***************************************************************************)
EXTENDS Naturals, FiniteSets

CONSTANTS
    NTasks,
    Agents,
    Executions,     \* execution ids: generated, or supplied by the agent
    None,           \* no agent, no execution, and a result nobody accepted
    RequireHuman,   \* require_human_approval
    MaxOperations,  \* bound: calls that change something
    MaxFaults       \* bound: writes that raise and crashes

\* The bounds are numbers, and no agent or execution is mistaken for none.
DelegationAssumption ==
    /\ NTasks \in Nat /\ MaxOperations \in Nat /\ MaxFaults \in Nat
    /\ None \notin Agents \union Executions

Tasks == 1..NTasks

Terminal == {"success", "failed", "cancelled"}

TaskLifecycle ==
    Terminal \union {"none", "created", "pending", "routed", "assigned", "confirmed",
                     "running", "waiting_approval", "blocked", "refused", "escalated"}

\* What a result is made of: who reported what, under which execution.
Reports == Agents \X Executions

\* "none": a task that has not been created.
Images ==
    [st : [Tasks -> TaskLifecycle],
     deps : [Tasks -> SUBSET Tasks],
     gated : SUBSET Tasks,                  \* approval_required
     agent : [Tasks -> Agents \union {None}],
     exec : [Tasks -> Executions \union {None}],
     res : [Tasks -> SUBSET Reports]]

VARIABLES
    mem,         \* the dictionaries of the delegator
    disk,        \* delegations.json
    operations,  \* how many so far
    faults,      \* how many so far
    accepted,    \* history: the result of each task that was last accepted
    approved     \* history: gated tasks that a human approved

vars == <<mem, disk, operations, faults, accepted, approved>>

Empty ==
    [st |-> [t \in Tasks |-> "none"], deps |-> [t \in Tasks |-> {}], gated |-> {},
     agent |-> [t \in Tasks |-> None], exec |-> [t \in Tasks |-> None],
     res |-> [t \in Tasks |-> {}]]

Init ==
    /\ mem = Empty
    /\ disk = Empty
    /\ operations = 0
    /\ faults = 0
    /\ accepted = [t \in Tasks |-> None]
    /\ approved = {}

Operation == operations < MaxOperations /\ operations' = operations + 1

\* How the writes of an operation end: all return, the first raises, or a later
\* one raises.
Outcomes == {"ok", "unwritten", "written"}

Fault(out) ==
    /\ out # "ok" => faults < MaxFaults
    /\ faults' = IF out = "ok" THEN faults ELSE faults + 1

\* _log, and then _save: the file is written twice with the same content.
Save(image, out) ==
    /\ Operation
    /\ Fault(out)
    /\ mem' = image
    /\ disk' = IF out = "unwritten" THEN disk ELSE image

\* An operation on t ends what was promised about its result.
Voids(t) == accepted' = [accepted EXCEPT ![t] = None] /\ UNCHANGED approved

Known == {t \in Tasks : mem.st[t] # "none"}
In(t, S) == t \in Known /\ mem.st[t] \in S
Assigned(t, a) == t \in Known /\ mem.agent[t] = a
MayAct(t, a) == t \in Known /\ mem.agent[t] \in {a, None}

With(t, st) == [mem EXCEPT !.st[t] = st]

-----------------------------------------------------------------------------
(* Creation, routing and assignment.                                        *)

\* create_task: the ids ascend, and the dependencies exist.
Create(t, deps, gate, out) ==
    /\ t \notin Known
    /\ 1..(t - 1) \subseteq Known
    /\ deps \subseteq Known
    /\ Save([mem EXCEPT !.st[t] = "created", !.deps[t] = deps,
                        !.gated = IF gate THEN @ \union {t} ELSE @], out)
    /\ UNCHANGED <<accepted, approved>>

\* Where route stops for a human.
AtGate(t) == t \in mem.gated /\ mem.agent[t] = None /\ RequireHuman

\* route finds an agent, but does not store it; from any status.
Route(t, out) ==
    /\ t \in Known
    /\ Save(With(t, IF AtGate(t) THEN "waiting_approval" ELSE "routed"), out)
    /\ Voids(t)

\* assign, from any status.
Assign(t, a, confirm, out) ==
    /\ t \in Known
    /\ Save([With(t, IF confirm THEN "assigned" ELSE "confirmed") EXCEPT !.agent[t] = a], out)
    /\ Voids(t)

ConfirmAssignment(t, out) ==
    /\ In(t, {"assigned"})
    /\ Save(With(t, "confirmed"), out)
    /\ Voids(t)

RejectAssignment(t, a, out) ==
    /\ Assigned(t, a)
    /\ Save([With(t, "pending") EXCEPT !.agent[t] = None], out)
    /\ Voids(t)

\* accept_task does not store the agent either.
AcceptTask(t, a, e, out) ==
    /\ MayAct(t, a)
    /\ In(t, {"confirmed", "routed", "pending", "assigned"})
    /\ Save([With(t, "running") EXCEPT !.exec[t] = e], out)
    /\ Voids(t)

RefuseTask(t, a, out) ==
    /\ MayAct(t, a)
    /\ Save(With(t, "refused"), out)
    /\ Voids(t)

-----------------------------------------------------------------------------
(* Approval and holds.                                                      *)

RequireApproval(t, out) ==
    /\ t \in Known
    /\ Save([With(t, "waiting_approval") EXCEPT !.gated = @ \union {t}], out)
    /\ Voids(t)

\* approve, from any status when the task is gated.
Approve(t, out) ==
    /\ t \in Known
    /\ mem.st[t] = "waiting_approval" \/ t \in mem.gated
    /\ Save(With(t, IF mem.agent[t] = None THEN "pending" ELSE "confirmed"), out)
    /\ accepted' = [accepted EXCEPT ![t] = None]
    /\ approved' = approved \union {t}

RejectApproval(t, out) ==
    /\ t \in Known
    /\ Save(With(t, "cancelled"), out)
    /\ Voids(t)

Block(t, out) ==
    /\ t \in Known
    /\ mem.st[t] \notin Terminal
    /\ Save(With(t, "blocked"), out)
    /\ Voids(t)

Ready(image, t) == IF t \in image.gated THEN "waiting_approval" ELSE "pending"

Unblock(t, out) ==
    /\ In(t, {"blocked"})
    /\ Save(With(t, Ready(mem, t)), out)
    /\ Voids(t)

-----------------------------------------------------------------------------
(* Propagation: the dependents of t in the order of the tasks, each with a  *)
(* write of its own.                                                        *)

Dependents(image, t) == {c \in Tasks : image.st[c] # "none" /\ t \in image.deps[c]}

\* The dependents that, when it is their turn, depend on successful tasks only:
\* one that had succeeded itself is started over, and no success after that.
Unblocked(image, t) ==
    LET turned[c \in Tasks] ==
            /\ c \in Dependents(image, t)
            /\ \A d \in image.deps[c] : image.st[d] = "success" /\ ~(d < c /\ turned[d])
    IN  {c \in Tasks : turned[c]}

\* What becomes of them after t has succeeded, whatever their status was ...
Readied(image, S) ==
    [image EXCEPT !.st = [c \in Tasks |-> IF c \in S THEN Ready(image, c) ELSE image.st[c]]]

\* Mutated form of Failed: the results of the dependents are dropped, too.
FailedAndCleared(image, S) ==
    [image EXCEPT !.st = [c \in Tasks |-> IF c \in S THEN "failed" ELSE image.st[c]],
                  !.res = [c \in Tasks |-> IF c \in S THEN {} ELSE image.res[c]]]

\* ... and of all dependents after t has failed.
Failed(image, S) ==
    [image EXCEPT !.st = [c \in Tasks |-> IF c \in S THEN "failed" ELSE image.st[c]]]

\* The images after each dependent in 1..c, when t has succeeded or failed.
Propagated(image, t, succeeded) ==
    [c \in 0..NTasks |->
        IF succeeded THEN Readied(image, {d \in Unblocked(image, t) : d <= c})
        ELSE Failed(image, {d \in Dependents(image, t) : d <= c})]

\* Every write returns; or the first one raises; or the one after dependent c; or
\* the last one.
SaveAll(image, t, succeeded, out) ==
    LET after == Propagated(image, t, succeeded)
    IN  /\ Operation
        /\ Fault(out)
        /\ \/ /\ out # "unwritten"
              /\ mem' = after[NTasks] /\ disk' = after[NTasks]
           \/ /\ out = "unwritten"
              /\ mem' = image /\ UNCHANGED disk
           \/ \E c \in Dependents(image, t) :
                 /\ out = "written" /\ after[c] # after[c - 1]
                 /\ mem' = after[c] /\ disk' = after[c - 1]

-----------------------------------------------------------------------------
(* Results and failures.                                                    *)

\* Mutated form of IsCurrent: a result of any execution is taken.
IsCurrentAny(t, e) == mem.exec[t] # None /\ e \in Executions

\* Whether submit_result takes a report of execution e.
IsCurrent(t, e) == mem.exec[t] = e

\* submit_result of a partial result: merged with what is there.
SubmitPartial(t, a, e, out) ==
    /\ MayAct(t, a) /\ IsCurrent(t, e) /\ In(t, {"running"})
    /\ Save([mem EXCEPT !.res[t] = @ \union {<<a, e>>}], out)
    /\ accepted' = [accepted EXCEPT ![t] = IF out = "ok" THEN mem'.res[t] ELSE None]
    /\ UNCHANGED approved

SubmitResult(t, a, e, out) ==
    /\ MayAct(t, a) /\ IsCurrent(t, e) /\ In(t, {"running"})
    /\ SaveAll([With(t, "success") EXCEPT !.res[t] = {<<a, e>>}], t, TRUE, out)
    /\ accepted' = [accepted EXCEPT ![t] = IF out = "ok" THEN {<<a, e>>} ELSE None]
    /\ UNCHANGED approved

RejectResult(t, out) ==
    /\ t \in Known
    /\ Save([With(t, "failed") EXCEPT !.res[t] = {}], out)
    /\ Voids(t)

FailTask(t, out) ==
    /\ t \in Known
    /\ SaveAll([With(t, "failed") EXCEPT !.res[t] = {}], t, FALSE, out)
    /\ Voids(t)

\* timeout, from any status: the result stays.
Timeout(t, out) ==
    /\ t \in Known
    /\ SaveAll(With(t, "failed"), t, FALSE, out)
    /\ Voids(t)

Retry(t, out) ==
    /\ In(t, {"failed", "cancelled", "refused", "blocked"})
    /\ Save([With(t, IF t \in mem.gated /\ RequireHuman THEN "waiting_approval" ELSE "pending")
               EXCEPT !.exec[t] = None, !.res[t] = {}], out)
    /\ Voids(t)

\* reassign, and reassign_failed_agent when there is an alternative to the
\* assigned agent.
Reassign(t, a, out) ==
    /\ In(t, {"failed", "cancelled", "refused"})
    /\ Save([With(t, "assigned")
               EXCEPT !.agent[t] = a, !.exec[t] = None, !.res[t] = {}], out)
    /\ Voids(t)

\* escalate, and reassign_failed_agent when there is none.
Escalate(t, out) ==
    /\ t \in Known
    /\ Save(With(t, "escalated"), out)
    /\ Voids(t)

Cancel(t, out) ==
    /\ t \in Known
    /\ mem.st[t] \notin Terminal
    /\ Save(With(t, "cancelled"), out)
    /\ Voids(t)

\* The process dies; the next one loads the file.
Crash ==
    /\ faults < MaxFaults
    /\ faults' = faults + 1
    /\ mem' = disk
    /\ UNCHANGED <<disk, operations, accepted, approved>>

Next ==
    \/ Crash
    \/ /\ operations < MaxOperations
       /\ \E t \in Tasks, out \in Outcomes :
             \/ \E deps \in SUBSET Tasks, gate \in BOOLEAN : Create(t, deps, gate, out)
             \/ Route(t, out) \/ ConfirmAssignment(t, out)
             \/ RequireApproval(t, out) \/ Approve(t, out) \/ RejectApproval(t, out)
             \/ Block(t, out) \/ Unblock(t, out)
             \/ RejectResult(t, out) \/ FailTask(t, out) \/ Timeout(t, out)
             \/ Retry(t, out) \/ Escalate(t, out) \/ Cancel(t, out)
             \/ \E a \in Agents :
                   \/ \E confirm \in BOOLEAN : Assign(t, a, confirm, out)
                   \/ RejectAssignment(t, a, out) \/ RefuseTask(t, a, out)
                   \/ Reassign(t, a, out)
                   \/ \E e \in Executions :
                         \/ AcceptTask(t, a, e, out)
                         \/ SubmitPartial(t, a, e, out) \/ SubmitResult(t, a, e, out)

Spec == Init /\ [][Next]_vars

-----------------------------------------------------------------------------
\* Memory and file hold tasks as the delegator writes them.
TypeOK ==
    /\ mem \in Images /\ disk \in Images
    /\ operations \in 0..MaxOperations /\ faults \in 0..MaxFaults
    /\ accepted \in [Tasks -> (SUBSET Reports) \union {None}]
    /\ approved \subseteq Tasks

\* A task is successful by the whole result of its current execution and
\* assigned agent, and nothing else: no report of an execution that a retry, a
\* reassignment or a restart superseded is in it, nor a part of one.  In memory
\* and in the file, whatever writes raise.
SuccessIsCurrent ==
    \A image \in {mem, disk}, t \in Tasks :
        image.st[t] = "success" =>
            \E a \in Agents :
                /\ image.agent[t] \in {a, None}
                /\ image.res[t] = {<<a, image.exec[t]>>}

\* A result that submit_result reported accepted, whole or partial, is in memory
\* and in the file until somebody acts on that task: neither what happens to the
\* tasks it depends on, nor a failed write, nor a crash loses it.
AcceptedResultIsKept ==
    \A t \in Tasks :
        accepted[t] # None => mem.res[t] = accepted[t] /\ disk.res[t] = accepted[t]

\* "There is no path that advances a gated task without a human actor."
GatedNeedsHuman ==
    RequireHuman =>
        \A t \in mem.gated : mem.st[t] \in {"running", "success"} => t \in approved

=============================================================================
