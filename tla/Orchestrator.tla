---------------------------- MODULE Orchestrator ----------------------------
(***************************************************************************)
(* PersistentOrchestrator with one process: the operations on the record   *)
(* of one workflow, one at a time, and the agents that run its tasks.  An  *)
(* agent reports the execution it was given, once, again, or much later,   *)
(* and may leave out which one it was.                                     *)
(***************************************************************************)
EXTENDS OrchestratorRecord

CONSTANTS
    MaxDispatches,  \* bound: dispatches that start a task
    LastFailing     \* bound, for ServedSpec: the last execution that may fail
ASSUME DispatchesAssumption == MaxDispatches \in Nat /\ LastFailing \in Nat

VARIABLES
    rec,     \* the workflow's record
    given,   \* executions given to agents: <<task, execution id, agent>>
    latest,  \* the execution each task was given last
    fresh    \* the next execution id

vars == <<rec, given, latest, fresh>>

Init ==
    /\ rec = NewRecord
    /\ given = {}
    /\ latest = [t \in Tasks |-> 0]
    /\ fresh = 1

Manage ==
    /\ Managed(rec, rec')
    /\ UNCHANGED <<given, latest, fresh>>

DispatchTasks(started, parallel) ==
    /\ started # {} => fresh <= MaxDispatches
    /\ Dispatch(rec, rec', started, parallel, fresh)
    /\ given' = given \union {<<t, rec'.exec[t], rec.agent[t]>> : t \in started}
    /\ latest' = [t \in Tasks |-> IF t \in started THEN rec'.exec[t] ELSE latest[t]]
    /\ fresh' = IF started # {} THEN fresh + 1 ELSE fresh

\* e: the execution the report names.
ReportSuccess(g, e) ==
    /\ e \in {g[2], 0}
    /\ CompleteTask(rec, rec', g[1], g[3], e)
    /\ UNCHANGED <<given, latest, fresh>>

ReportFailure(g, e) ==
    /\ e \in {g[2], 0}
    /\ FailTask(rec, rec', g[1], e)
    /\ UNCHANGED <<given, latest, fresh>>

Next ==
    \/ Manage
    \/ \E started \in SUBSET Tasks, parallel \in BOOLEAN : DispatchTasks(started, parallel)
    \/ \E g \in given, e \in 0..MaxDispatches : ReportSuccess(g, e) \/ ReportFailure(g, e)

Spec == Init /\ [][Next]_vars

(***************************************************************************)
(* The engine has no thread of its own: it moves when it is called.  A     *)
(* served workflow is built before it completes; its caller dispatches,    *)
(* approves what is gated, and recovers what has failed when nothing runs  *)
(* any more; its agents report once, and stop failing some day.            *)
(***************************************************************************)
BuildServed ==
    /\ rec.wf \in {"created", "waiting_approval"}
    /\ \E t \in Tasks, deps \in SUBSET Tasks, gate \in BOOLEAN :
          AddTask(rec, rec', t, deps, gate)
    /\ UNCHANGED <<given, latest, fresh>>

ApproveServed ==
    /\ \E t \in Tasks : Gated(rec, t) /\ ApproveTask(rec, rec', t)
    /\ UNCHANGED <<given, latest, fresh>>

RecoverServed ==
    /\ With(rec, "running") = {} /\ With(rec, "failed") # {}
    /\ Recover(rec, rec')
    /\ UNCHANGED <<given, latest, fresh>>

DispatchServed ==
    \E started \in (SUBSET Tasks) \ {{}}, parallel \in BOOLEAN :
        DispatchTasks(started, parallel)

FinishServed ==
    \E g \in given :
        /\ CompleteTask(rec, rec', g[1], g[3], g[2])
        /\ given' = given \ {g}
        /\ UNCHANGED <<latest, fresh>>

FailServed ==
    \E g \in given :
        /\ g[2] <= LastFailing
        /\ FailTask(rec, rec', g[1], g[2])
        /\ given' = given \ {g}
        /\ UNCHANGED <<latest, fresh>>

ServedNext ==
    BuildServed \/ ApproveServed \/ RecoverServed \/ DispatchServed
        \/ FinishServed \/ FailServed

ServedSpec ==
    /\ Init /\ [][ServedNext]_vars
    /\ WF_vars(ApproveServed) /\ WF_vars(RecoverServed) /\ WF_vars(DispatchServed)
    /\ WF_vars(FinishServed)

-----------------------------------------------------------------------------
\* Every record an operation writes is one a load accepts, and every status is
\* one of the documented ones.
TypeOK ==
    /\ rec \in Records
    /\ given \subseteq Tasks \X Nat \X (Agents \union {NoAgent})
    /\ latest \in [Tasks -> Nat]
    /\ fresh \in Nat

\* The dependencies form a DAG over the workflow's tasks, whatever is added and
\* rewired.
DagKept ==
    /\ Acyclic(rec.deps)
    /\ \A t \in Tasks : rec.deps[t] \subseteq rec.known

\* However tasks are blocked, retried, recovered, rewired and reported late, one
\* that runs or has succeeded has all of its dependencies succeeded.
DependenciesFirst == DepsSucceeded(rec)

\* ... and the approval it needed.
ApprovalFirst == GatesKept(rec)

\* A paused, cancelled or completed workflow has no running task.
StoppedIsIdle == RestsWhenStopped(rec)

\* A task runs by the execution it was given last, and succeeds by it or by a
\* report that names none: one that names an earlier execution, superseded by a
\* retry, a recovery or a timeout, is not taken for it.
LatestSucceeds ==
    \A t \in rec.known :
        /\ rec.st[t] = "running" => rec.exec[t] = latest[t]
        /\ rec.st[t] = "success" => rec.exec[t] \in {latest[t], 0}

\* The record has its shape, its dependencies stay a DAG, and no report of a
\* superseded execution that says so is taken.
RecordSound == TypeOK /\ DagKept /\ LatestSucceeds

\* No operation and no late report takes a success, or its execution, back.
SuccessIsFinal ==
    [][\A t \in rec.known : rec.st[t] = "success" =>
          t \in rec'.known /\ rec'.st[t] = "success" /\ rec'.exec[t] = rec.exec[t]]_vars

=============================================================================
