------------------------- MODULE OrchestratorRecord -------------------------
(***************************************************************************)
(* The workflow record of orchestration.py and what each operation of      *)
(* PersistentOrchestrator makes of it.  An operation loads the record of   *)
(* the workflow, checks it, changes it and writes it back; here it is a    *)
(* relation between the record it loads (r) and the one it writes (s), and *)
(* is false where the operation raises.                                    *)
(*                                                                         *)
(* Tasks are numbered in the order of their ids, the order in which a      *)
(* loaded record lists them.  Left out: results, errors, attempts, events, *)
(* capabilities and the mirror of agent_id in assignments.  Priorities and *)
(* creation times only order the ready tasks: any order is allowed.        *)
(***************************************************************************)
EXTENDS Naturals, FiniteSets

CONSTANTS
    NTasks,       \* number of task ids
    Agents,       \* agent ids
    NoAgent,      \* the empty agent id
    RequireHuman  \* require_human_approval

ASSUME NTasksAssumption == NTasks \in Nat \ {0}
ASSUME AgentsAssumption == NoAgent \notin Agents
ASSUME RequireHumanAssumption == RequireHuman \in BOOLEAN

Tasks == 1..NTasks

TaskStatus == {"pending", "queued", "running", "blocked", "approval_required",
               "success", "failed", "cancelled"}  \* "waiting" is never assigned
WorkflowStatus == {"created", "running", "paused", "waiting_approval",
                   "cancelled", "failed", "completed"}

Open == {"pending", "queued"}
Terminal == {"success", "failed", "cancelled"}

\* known: tasks of the workflow; need: approval_required; approved: approved_by
\* is set; exec: execution_id, 0 when empty.
Records ==
    [wf : WorkflowStatus, known : SUBSET Tasks,
     st : [Tasks -> TaskStatus], deps : [Tasks -> SUBSET Tasks],
     need : SUBSET Tasks, approved : SUBSET Tasks,
     exec : [Tasks -> Nat], agent : [Tasks -> Agents \union {NoAgent}]]

NewRecord ==
    [wf |-> "created", known |-> {},
     st |-> [t \in Tasks |-> "pending"], deps |-> [t \in Tasks |-> {}],
     need |-> {}, approved |-> {},
     exec |-> [t \in Tasks |-> 0], agent |-> [t \in Tasks |-> NoAgent]]

-----------------------------------------------------------------------------
\* What must be approved before it runs, and has not been.
Gated(r, t) == (t \in r.need \/ RequireHuman) /\ t \notin r.approved

\* Mutated form of Ready: gates are not looked at.
ReadyUngated(r) ==
    {t \in r.known : r.st[t] \in Open /\ \A d \in r.deps[t] : r.st[d] = "success"}

Ready(r) ==
    {t \in r.known : /\ r.st[t] \in Open
                     /\ \A d \in r.deps[t] : r.st[d] = "success"
                     /\ ~Gated(r, t)}

With(r, status) == {t \in r.known : r.st[t] = status}

\* _tick_workflow_status.
TickedStatus(r) ==
    LET waiting == With(r, "approval_required") \ r.approved
    IN  CASE waiting # {} -> "waiting_approval"
          [] waiting = {} /\ With(r, "failed") # {} -> "failed"
          [] With(r, "success") = r.known -> "completed"
          [] OTHER -> "running"

Ticked(r) ==
    IF r.known = {} \/ r.wf = "paused" THEN r
    ELSE [r EXCEPT !.wf = TickedStatus(r)]

\* _propagate for each task of sweeps, in order.  A dependent that a sweep
\* reaches fails if one of its dependencies has failed by then, and dependents
\* are visited in the order of their ids, once: the failure of a dependent
\* reaches its own dependents only if they depend on the swept task too.
FailsBy(r, sweeps) ==
    LET fails[x \in (0..NTasks) \X Tasks] ==
          LET n == x[1]
              t == x[2]
          IN  /\ n # 0
              /\ r.st[t] \in Open
              /\ \/ fails[<<n - 1, t>>]
                 \/ /\ n \in sweeps
                    /\ n \in r.deps[t]
                    /\ \E d \in r.deps[t] : \/ r.st[d] = "failed"
                                            \/ fails[<<n - 1, d>>]
                                            \/ d < t /\ fails[<<n, d>>]
    IN  {t \in r.known : r.st[t] \in Open /\ fails[<<NTasks, t>>]}

\* ... and is queued, or gated, if all of them have succeeded.
FreedBy(r, sweeps) ==
    {t \in r.known : /\ r.st[t] \in Open
                     /\ r.deps[t] \intersect sweeps # {}
                     /\ \A d \in r.deps[t] : r.st[d] = "success"}

\* The gate _propagate looks at is approval_required, not RequireHuman.
Propagated(r, sweeps) ==
    LET failing == FailsBy(r, sweeps)
        freed == FreedBy(r, sweeps)
        gated == {t \in freed : t \in r.need /\ t \notin r.approved}
    IN  [r EXCEPT !.st = [t \in Tasks |-> IF t \in failing THEN "failed"
                                          ELSE IF t \in gated THEN "approval_required"
                                          ELSE IF t \in freed THEN "queued"
                                          ELSE @[t]],
                  !.wf = IF gated # {} THEN "waiting_approval" ELSE @]

\* _has_cycle, negated.
Acyclic(deps) ==
    \E rank \in [Tasks -> Tasks] : \A t \in Tasks : \A d \in deps[t] : rank[d] < rank[t]

-----------------------------------------------------------------------------
(* Building the workflow.                                                   *)

AddTask(r, s, t, deps, gate) ==
    /\ t \notin r.known
    /\ deps \subseteq r.known
    /\ s = [r EXCEPT !.known = @ \union {t}, !.deps[t] = deps,
                     !.need = IF gate THEN @ \union {t} ELSE @,
                     !.st[t] = IF gate THEN "approval_required" ELSE "pending",
                     !.wf = IF gate THEN "waiting_approval" ELSE @]

\* Mutated form of SetDependencies: the state of the task is not looked at.
SetDependenciesAnytime(r, s, t, deps) ==
    /\ t \in r.known
    /\ deps \subseteq r.known \ {t}
    /\ Acyclic([r.deps EXCEPT ![t] = deps])
    /\ s = [r EXCEPT !.deps[t] = deps]

SetDependencies(r, s, t, deps) ==
    /\ t \in r.known /\ r.st[t] \in Open
    /\ deps \subseteq r.known \ {t}
    /\ Acyclic([r.deps EXCEPT ![t] = deps])
    /\ s = [r EXCEPT !.deps[t] = deps]

AssignAgent(r, s, t, a) ==
    /\ t \in r.known
    /\ s = [r EXCEPT !.agent[t] = a]

UnassignAgent(r, s, t) ==
    /\ t \in r.known /\ r.st[t] \in Open \union {"blocked"}
    /\ s = [r EXCEPT !.agent[t] = NoAgent]

-----------------------------------------------------------------------------
(* The state of a task.                                                     *)

ApproveTask(r, s, t) ==
    /\ t \in r.known /\ r.st[t] \in Open \union {"approval_required", "blocked"}
    /\ s = Ticked([r EXCEPT !.approved = @ \union {t}, !.st[t] = "queued"])

\* dispatch: the sequential policy starts one ready task if none is running, the
\* parallel one all of them; ids of tasks that have none are fresh.
Dispatch(r, s, started, parallel, fresh) ==
    /\ r.wf \in {"created", "running", "waiting_approval"}
    /\ \/ parallel /\ started = Ready(r)
       \/ /\ ~parallel
          /\ IF With(r, "running") # {} \/ Ready(r) = {} THEN started = {}
             ELSE \E t \in Ready(r) : started = {t}
    /\ s = Ticked([r EXCEPT
              !.wf = IF @ = "created" THEN "running" ELSE @,
              !.st = [t \in Tasks |-> IF t \in started THEN "running" ELSE @[t]],
              !.exec = [t \in Tasks |->
                          IF t \in started /\ @[t] = 0 THEN fresh ELSE @[t]]])

\* Mutated form of CompleteTask: execution ids are not compared.
CompleteAnyExecution(r, s, t, a, e) ==
    /\ t \in r.known /\ r.st[t] = "running"
    /\ r.agent[t] \in {a, NoAgent} \/ a = NoAgent
    /\ s = Ticked(Propagated([r EXCEPT !.st[t] = "success", !.exec[t] = e], {t}))

\* A report is superseded if it names another execution than the task's.  One
\* that names none is not, whoever it comes from.
Current(r, t, e) == r.exec[t] \in {e, 0} \/ e = 0

\* complete_task by agent a for execution e, 0 if the report names none: that is
\* the task's execution id from then on.  A duplicate is logged, or raises when
\* its result differs: the record stays as it is.
CompleteTask(r, s, t, a, e) ==
    /\ t \in r.known /\ r.st[t] = "running"
    /\ r.agent[t] \in {a, NoAgent} \/ a = NoAgent
    /\ Current(r, t, e)
    /\ s = Ticked(Propagated([r EXCEPT !.st[t] = "success", !.exec[t] = e], {t}))

\* fail_task does not look at the agent, and takes queued tasks too.
FailTask(r, s, t, e) ==
    /\ t \in r.known /\ r.st[t] \in {"running", "queued"}
    /\ Current(r, t, e)
    /\ s = Ticked(Propagated([r EXCEPT !.st[t] = "failed", !.exec[t] = e], {t}))

CancelTask(r, s, t) ==
    /\ t \in r.known /\ r.st[t] \notin Terminal \union {"running"}
    /\ s = Ticked(Propagated([r EXCEPT !.st[t] = "cancelled"], {t}))

\* Mutated form of RetryTask: a finished task may be retried too.
RetryAnyTerminal(r, s, t) ==
    /\ t \in r.known /\ r.st[t] \in Terminal \union {"blocked"}
    /\ s = Ticked([r EXCEPT !.exec[t] = 0, !.st[t] = "queued"])

RetryTask(r, s, t) ==
    /\ t \in r.known /\ r.st[t] \in {"failed", "cancelled", "blocked"}
    /\ s = Ticked([r EXCEPT !.exec[t] = 0,
                            !.st[t] = IF t \in r.need \/ Gated(r, t)
                                      THEN "approval_required" ELSE "queued"])

FlagApproval(r, s, t) ==
    /\ t \in r.known /\ r.st[t] \in Open \union {"blocked"}
    /\ s = [r EXCEPT !.st[t] = "approval_required", !.need = @ \union {t},
                     !.wf = "waiting_approval"]

BlockTask(r, s, t) ==
    /\ t \in r.known /\ r.st[t] \notin Terminal
    /\ s = Ticked([r EXCEPT !.st[t] = "blocked"])

UnblockTask(r, s, t) ==
    /\ t \in r.known /\ r.st[t] = "blocked"
    /\ s = Ticked([r EXCEPT !.st[t] = IF t \in r.need
                                      THEN "approval_required" ELSE "queued"])

-----------------------------------------------------------------------------
(* The workflow as a whole.                                                 *)

\* Mutated form of Pause: running tasks are not looked at.
PauseAnyway(r, s) ==
    /\ r.wf \in {"running", "created", "waiting_approval"}
    /\ s = [r EXCEPT !.wf = "paused"]

Pause(r, s) ==
    /\ r.wf \in {"running", "created", "waiting_approval"}
    /\ With(r, "running") = {}
    /\ s = [r EXCEPT !.wf = "paused"]

Resume(r, s) ==
    /\ r.wf = "paused"
    /\ s = [r EXCEPT !.wf = "running"]

Cancel(r, s) ==
    /\ r.wf # "completed"
    /\ s = [r EXCEPT !.wf = "cancelled",
                     !.st = [t \in Tasks |-> IF t \in r.known /\ @[t] \notin Terminal
                                             THEN "cancelled" ELSE @[t]]]

\* Mutated form of Recover: the status of the workflow is left alone.
RecoverTasksOnly(r, s) ==
    LET requeued == With(r, "running") \union With(r, "blocked") \union With(r, "failed")
    IN  /\ r.wf # "completed"
        /\ s = [r EXCEPT
                  !.exec = [t \in Tasks |-> IF t \in requeued THEN 0 ELSE @[t]],
                  !.st = [t \in Tasks |-> IF t \in requeued THEN "queued" ELSE @[t]]]

\* recover: interrupted and failed tasks are queued again; the failed ones
\* without looking at their gate.
Recover(r, s) ==
    LET interrupted == With(r, "running") \union With(r, "blocked")
        requeued == interrupted \union With(r, "failed")
    IN  /\ r.wf # "completed"
        /\ s = [r EXCEPT
                  !.wf = "running",
                  !.exec = [t \in Tasks |-> IF t \in requeued THEN 0 ELSE @[t]],
                  !.st = [t \in Tasks |->
                            IF t \in interrupted /\ Gated(r, t) THEN "approval_required"
                            ELSE IF t \in requeued THEN "queued" ELSE @[t]]]

\* recover_agent_failure: the only operation without a condition.
RecoverAgentFailure(r, s, a) ==
    LET lost == {t \in With(r, "running") : r.agent[t] = a}
    IN  s = [r EXCEPT !.wf = "running",
                      !.exec = [t \in Tasks |-> IF t \in lost THEN 0 ELSE @[t]],
                      !.st = [t \in Tasks |-> IF t \in lost THEN "queued" ELSE @[t]]]

\* apply_timeouts: late are the running tasks that have exceeded the timeout of
\* the workflow and the open ones that have missed their deadline.
ApplyTimeouts(r, s, late) ==
    LET failed == [r EXCEPT !.st = [t \in Tasks |-> IF t \in late THEN "failed" ELSE @[t]]]
    IN  /\ late \subseteq {t \in r.known : r.st[t] \in Open \union {"running"}}
        /\ s = Ticked(Propagated(failed, {t \in r.known : failed.st[t] \in Terminal}))

\* Every operation but dispatch and the reports of agents.
Managed(r, s) ==
    \/ \E t \in Tasks, deps \in SUBSET Tasks :
          \/ \E gate \in BOOLEAN : AddTask(r, s, t, deps, gate)
          \/ SetDependencies(r, s, t, deps)
    \/ \E t \in Tasks, a \in Agents : AssignAgent(r, s, t, a)
    \/ \E t \in Tasks : UnassignAgent(r, s, t) \/ ApproveTask(r, s, t)
    \/ \E t \in Tasks : CancelTask(r, s, t) \/ RetryTask(r, s, t) \/ FlagApproval(r, s, t)
    \/ \E t \in Tasks : BlockTask(r, s, t) \/ UnblockTask(r, s, t)
    \/ Pause(r, s) \/ Resume(r, s) \/ Cancel(r, s) \/ Recover(r, s)
    \/ \E a \in Agents : RecoverAgentFailure(r, s, a)
    \/ \E late \in SUBSET Tasks : ApplyTimeouts(r, s, late)

-----------------------------------------------------------------------------
(* What holds of every record an operation writes.                          *)

\* Whatever has run was started after all of its dependencies succeeded.
DepsSucceeded(r) ==
    \A t \in r.known : r.st[t] \in {"running", "success"} =>
        \A d \in r.deps[t] : d \in r.known /\ r.st[d] = "success"

\* Whatever runs or has succeeded and needed an approval has one.
GatesKept(r) ==
    \A t \in r.known : r.st[t] \in {"running", "success"} => ~Gated(r, t)

\* Nothing runs in a paused workflow, nor in a completed or cancelled one.
RestsWhenStopped(r) ==
    r.wf \in {"paused", "completed", "cancelled"} => With(r, "running") = {}
=============================================================================
