--------------------------- MODULE MCOrchestration ---------------------------
(* Two bounded instances over the record of a workflow: one process that    *)
(* serves a workflow until it completes (ServedSpec of Orchestrator), and   *)
(* processes that load and write it (OrchestratorProcesses).                *)
EXTENDS Orchestrator

CONSTANTS
    p1, p2,
    MaxCommits  \* bound of OrchestratorProcesses

NoAgents == {}

VARIABLES part, rev, copy

P == INSTANCE OrchestratorProcesses WITH Processes <- {p1, p2}

ASSUME CommitsAssumption == P!MaxCommitsAssumption

allVars == <<part, vars, rev, copy>>

(* what the processes have of a served workflow, and conversely *)
PartsInit ==
    \/ part = "served" /\ Init /\ rev = 1 /\ copy = <<>>
    \/ part = "processes" /\ P!Init /\ given = {} /\ latest = <<>> /\ fresh = 1

ServedStep(A) == part = "served" /\ A /\ UNCHANGED <<part, rev, copy>>

PartsNext ==
    \/ ServedStep(ServedNext)
    \/ part = "processes" /\ P!Next /\ UNCHANGED <<part, given, latest, fresh>>

PartsSpec ==
    /\ PartsInit /\ [][PartsNext]_allVars
    /\ WF_allVars(ServedStep(ApproveServed)) /\ WF_allVars(ServedStep(RecoverServed))
    /\ WF_allVars(ServedStep(DispatchServed)) /\ WF_allVars(ServedStep(FinishServed))

\* A served workflow completes: no order of approvals, failures, propagated
\* failures, recoveries and late reports leaves a task that nothing can start.
EventuallyCompleted == part = "served" /\ rec.known # {} ~> rec.wf = "completed"
=============================================================================
