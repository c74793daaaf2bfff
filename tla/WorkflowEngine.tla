--------------------------- MODULE WorkflowEngine ---------------------------
(***************************************************************************)
(* WorkflowEngine (workflow_engine.py): executions of one workflow, node   *)
(* by node.  The engine has two files, workflows.json and executions.json, *)
(* and rewrites one after every change of its dictionaries; the write may  *)
(* raise after the memory changed, and the process may die and load both.  *)
(*                                                                         *)
(* The engine moves when it is called, and nothing binds the caller to     *)
(* schedule_ready_nodes.  Left out: variables, conditions and branches     *)
(* (choose_branch and evaluate_condition only answer), templates and       *)
(* versions of the workflow, traces, and the reports.                      *)
(***************************************************************************)
EXTENDS Naturals

CONSTANTS
    Execs,          \* executions: triggered, or retries of others
    Nodes,
    Deps,           \* Deps[n]: the nodes n depends on
    Passive,        \* START and END nodes
    Dynamic,        \* nodes that are created at run time
    Nobody,         \* no snapshot, no node
    MaxOperations,  \* bound: calls that change something
    MaxFaults       \* bound: writes that raise and crashes

\* The bounds are numbers, nodes depend on nodes, and none is mistaken for none.
EngineAssumption ==
    /\ MaxOperations \in Nat /\ MaxFaults \in Nat
    /\ Deps \in [Nodes -> SUBSET Nodes] /\ Dynamic \subseteq Nodes
    /\ Nobody \notin Nodes

WorkflowStatus ==
    {"ready", "running", "paused", "waiting_approval", "completed", "failed",
     "cancelled", "timeout", "recovering"}

NodeStatus ==
    {"pending", "ready", "running", "waiting_approval", "completed", "failed", "blocked"}

\* "none": the execution does not exist, or has no such node.
WorkflowExecution ==
    [st : WorkflowStatus \union {"none"}, node : [Nodes -> NodeStatus \union {"none"}]]

Images == [def : SUBSET Nodes, ex : [Execs -> WorkflowExecution]]

VARIABLES
    mem,         \* the dictionaries of the engine: the nodes and the executions
    disk,        \* the two files
    snap,        \* a checkpoint of an execution, or Nobody
    operations,  \* how many so far
    faults,      \* how many so far
    starts,      \* history: how many execute_node calls returned, for each node
    grants       \* history: how many starts of it there were reasons for

vars == <<mem, disk, snap, operations, faults, starts, grants>>
history == <<starts, grants>>

Absent == [st |-> "none", node |-> [n \in Nodes |-> "none"]]

Init ==
    /\ mem = [def |-> Nodes \ Dynamic, ex |-> [x \in Execs |-> Absent]]
    /\ disk = mem
    /\ snap = Nobody
    /\ operations = 0
    /\ faults = 0
    /\ starts = [x \in Execs |-> [n \in Nodes |-> 0]]
    /\ grants = starts

Operation == operations < MaxOperations /\ operations' = operations + 1

Fault(ok) ==
    /\ ok \/ faults < MaxFaults
    /\ faults' = IF ok THEN faults ELSE faults + 1

\* _save_executions.
Save(ex, ok) ==
    /\ Operation
    /\ Fault(ok)
    /\ mem' = [mem EXCEPT !.ex = ex]
    /\ disk' = IF ok THEN [disk EXCEPT !.ex = ex] ELSE disk

In(x, S) == mem.ex[x].st \in S
NodeIn(x, n, S) == mem.ex[x].node[n] \in S
Known(x) == In(x, WorkflowStatus)
HasNode(x, n) == NodeIn(x, n, NodeStatus)

With(x, st) == [mem.ex EXCEPT ![x].st = st]
WithNode(x, n, st) == [mem.ex EXCEPT ![x].node[n] = st]

\* One more reason to start the nodes S of x.
Grant(x, S) ==
    /\ grants' = [grants EXCEPT ![x] = [n \in Nodes |-> IF n \in S THEN @[n] + 1 ELSE @[n]]]
    /\ UNCHANGED starts

-----------------------------------------------------------------------------
(* Definitions and executions.                                              *)

\* validate: there is a node, and none depends on a node that is gone.
ValidDefinition(S) == S # {} /\ \A n \in S : Deps[n] \subseteq S

\* update_workflow
UpdateWorkflow(S, ok) ==
    /\ Operation
    /\ ValidDefinition(S)
    /\ Fault(ok)
    /\ mem' = [mem EXCEPT !.def = S]
    /\ disk' = IF ok THEN [disk EXCEPT !.def = S] ELSE disk
    /\ UNCHANGED <<snap, history>>

\* trigger_workflow, and retry_execution of an execution that has ended badly.
Trigger(x, approval, ok) ==
    /\ In(x, {"none"})
    /\ Save(With(x, IF approval THEN "waiting_approval" ELSE "ready"), ok)
    /\ UNCHANGED <<snap, history>>

Retry(x, y, approval, ok) ==
    /\ In(y, {"failed", "cancelled", "timeout"})
    /\ Trigger(x, approval, ok)

\* start_execution.
Start(x, ok) ==
    /\ In(x, {"ready"})
    /\ Save([mem.ex EXCEPT ![x] =
                [st |-> "running",
                 node |-> [n \in Nodes |-> IF n \in mem.def THEN "pending" ELSE "none"]]], ok)
    /\ Grant(x, mem.def)
    /\ UNCHANGED snap

Move(x, from, st, ok) ==
    /\ In(x, from)
    /\ Save(With(x, st), ok)
    /\ UNCHANGED <<snap, history>>

Pause(x, ok) == Move(x, {"running"}, "paused", ok)
Resume(x, ok) == Move(x, {"paused"}, "running", ok)
Cancel(x, ok) ==
    Move(x, WorkflowStatus \ {"completed", "failed", "cancelled"}, "cancelled", ok)
Recover(x, ok) == Move(x, {"failed", "timeout", "recovering"}, "running", ok)

\* (A restored execution has no starting time, and timeout_execution raises.)
Timeout(x, ok) == Move(x, {"running"}, "timeout", ok)
RejectApproval(x, ok) == Move(x, {"waiting_approval"}, "cancelled", ok)

ValidFrom ==
    [ready            |-> {"running", "cancelled"},
     running          |-> {"paused", "completed", "failed", "waiting_approval"},
     paused           |-> {"running", "cancelled"},
     waiting_approval |-> {"running", "cancelled", "failed"},
     completed        |-> {},
     failed           |-> {"ready", "recovering"},
     cancelled        |-> {"ready"},
     timeout          |-> {"ready"},
     recovering       |-> {"running", "failed"}]

AtomicStateTransition(x, target, ok) ==
    /\ Known(x)
    /\ target \in ValidFrom[mem.ex[x].st]
    /\ Save(With(x, target), ok)
    /\ UNCHANGED <<snap, history>>

-----------------------------------------------------------------------------
(* Nodes.                                                                   *)

\* Mutated form of Startable: a failed node can be started, too.
StartableFailed == {"pending", "ready", "failed"}

Startable == {"pending", "ready"}

\* execute_node does not look at the dependencies.
ExecuteNode(x, n, ok) ==
    /\ In(x, {"running"})
    /\ NodeIn(x, n, Startable)
    /\ Save(WithNode(x, n, "running"), ok)
    /\ starts' = [starts EXCEPT ![x][n] = IF ok THEN @ + 1 ELSE @]
    /\ UNCHANGED <<snap, grants>>

\* _is_complete: nodes that are no longer defined do not count.
IsComplete(exec) ==
    \A n \in mem.def \ Passive : exec.node[n] \in {"none", "completed"}

\* complete_node looks at the node only: it also completes an execution that was
\* paused, cancelled or timed out.
CompleteNode(x, n, ok) ==
    LET done == [mem.ex[x] EXCEPT !.node[n] = "completed"]
    IN  /\ NodeIn(x, n, {"running"})
        /\ Save([mem.ex EXCEPT ![x] =
                    IF IsComplete(done) THEN [done EXCEPT !.st = "completed"] ELSE done], ok)
        /\ UNCHANGED <<snap, history>>

\* _propagate_failure: pending dependents of the failed node n are blocked, for good.
PropagateFailure(x, n) ==
    [k \in Nodes |->
        IF k \in mem.def /\ n \in Deps[k] /\ mem.ex[x].node[k] = "pending"
        THEN "blocked" ELSE mem.ex[x].node[k]]

\* fail_node: from any status.
FailNode(x, n, ok) ==
    /\ HasNode(x, n)
    /\ Save([mem.ex EXCEPT ![x].node = [PropagateFailure(x, n) EXCEPT ![n] = "failed"]], ok)
    /\ UNCHANGED <<snap, history>>

\* provider_failure_recovery blocks nobody.
ProviderFailureRecovery(x, n, ok) ==
    /\ HasNode(x, n)
    /\ Save(WithNode(x, n, "failed"), ok)
    /\ UNCHANGED <<snap, history>>

\* require_approval of the execution, and of a node if n is one.
RequireApproval(x, n, ok) ==
    /\ Known(x)
    /\ LET ex == IF n # Nobody /\ HasNode(x, n) THEN WithNode(x, n, "waiting_approval")
                                               ELSE mem.ex
       IN  Save([ex EXCEPT ![x].st = "waiting_approval"], ok)
    /\ UNCHANGED <<snap, history>>

\* approve makes the node ready whatever it was before.
Approve(x, n, ok) ==
    /\ In(x, {"waiting_approval"})
    /\ LET ex == IF n # Nobody /\ HasNode(x, n) THEN WithNode(x, n, "ready") ELSE mem.ex
       IN  Save([ex EXCEPT ![x].st = "running"], ok)
    /\ Grant(x, {n})
    /\ UNCHANGED snap

\* dynamic_task_creation: a task that another execution has created already is
\* not created for this one.  (A second entry of a node that the execution has
\* and update_workflow took away is left out.)  workflows.json is written first.
DynamicTask(x, n, out) ==
    LET def == mem.def \union {n}
        ex == IF n \in mem.def \/ HasNode(x, n) THEN mem.ex ELSE WithNode(x, n, "pending")
    IN  /\ Operation
        /\ Known(x)
        /\ n \in Dynamic /\ Deps[n] \subseteq mem.def
        /\ Fault(out = "ok")
        /\ mem' = [def |-> def, ex |-> ex]
        /\ disk' = [def |-> IF out = "unwritten" THEN disk.def ELSE def,
                    ex |-> IF out = "ok" THEN ex ELSE disk.ex]
        /\ Grant(x, IF ex = mem.ex THEN {} ELSE {n})
        /\ UNCHANGED snap

\* dynamic_agent_assignment: the agent is not modelled, the write is.
DynamicAgentAssignment(x, n, ok) ==
    /\ HasNode(x, n)
    /\ Save(mem.ex, ok)
    /\ UNCHANGED <<snap, history>>

-----------------------------------------------------------------------------
(* Checkpoints and crashes.                                                 *)

CreateCheckpoint(x) ==
    /\ Known(x)
    /\ snap' = [id |-> x, exec |-> mem.ex[x]]
    /\ UNCHANGED <<mem, disk, operations, faults, history>>

RestoreCheckpoint(ok) ==
    /\ snap # Nobody
    /\ Save([mem.ex EXCEPT ![snap.id] = snap.exec], ok)
    /\ Grant(snap.id, Nodes)
    /\ UNCHANGED snap

Interrupted == {x \in Execs : In(x, {"running"}) /\ \E n \in Nodes : NodeIn(x, n, {"running"})}

Broken(exec) ==
    [st |-> "recovering",
     node |-> [n \in Nodes |-> IF exec.node[n] = "running" THEN "failed" ELSE exec.node[n]]]

\* crash_recovery.
CrashRecovery(ok) ==
    /\ Interrupted # {}
    /\ Save([x \in Execs |-> IF x \in Interrupted THEN Broken(mem.ex[x]) ELSE mem.ex[x]], ok)
    /\ UNCHANGED <<snap, history>>

\* The process dies; the next one loads both files.
Crash ==
    /\ faults < MaxFaults
    /\ faults' = faults + 1
    /\ mem' = disk
    /\ UNCHANGED <<disk, snap, operations, history>>

Next ==
    \/ Crash
    \/ \E x \in Execs : CreateCheckpoint(x)
    \/ \E x \in Execs, n \in Nodes, out \in {"ok", "unwritten", "written"} :
          DynamicTask(x, n, out)
    \/ /\ operations < MaxOperations
       /\ \E ok \in BOOLEAN :
             \/ RestoreCheckpoint(ok) \/ CrashRecovery(ok)
             \/ \E S \in SUBSET Nodes : UpdateWorkflow(S, ok)
             \/ \E x \in Execs :
                   \/ \E approval \in BOOLEAN :
                         Trigger(x, approval, ok) \/ \E y \in Execs : Retry(x, y, approval, ok)
                   \/ Start(x, ok) \/ Pause(x, ok) \/ Resume(x, ok) \/ Cancel(x, ok)
                   \/ Recover(x, ok) \/ Timeout(x, ok) \/ RejectApproval(x, ok)
                   \/ \E st \in WorkflowStatus : AtomicStateTransition(x, st, ok)
                   \/ \E n \in Nodes \union {Nobody} :
                         RequireApproval(x, n, ok) \/ Approve(x, n, ok)
                   \/ \E n \in Nodes :
                         \/ ExecuteNode(x, n, ok) \/ CompleteNode(x, n, ok)
                         \/ FailNode(x, n, ok) \/ ProviderFailureRecovery(x, n, ok)
                         \/ DynamicAgentAssignment(x, n, ok)

Spec == Init /\ [][Next]_vars

-----------------------------------------------------------------------------
\* Memory and files hold executions as the engine writes them.
TypeOK ==
    /\ mem \in Images /\ disk \in Images
    /\ snap \in [id : Execs, exec : WorkflowExecution] \union {Nobody}
    /\ operations \in 0..MaxOperations /\ faults \in 0..MaxFaults
    /\ starts \in [Execs -> [Nodes -> Nat]] /\ grants \in [Execs -> [Nodes -> Nat]]

\* A node is started as often as the execution was started, a human approved the
\* node, or a checkpoint was restored, and no more: neither a failed write, nor a
\* crash and crash_recovery, nor a timeout and a recovery runs it twice.
AtMostOneStart ==
    \A x \in Execs, n \in Nodes : starts[x][n] <= grants[x][n]

=============================================================================
