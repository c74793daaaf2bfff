------------------------- MODULE OrchestratorProofs -------------------------
(***************************************************************************)
(* The orchestrator's safety for every number of tasks and agents, with or *)
(* without required approvals.  First what its operations keep of a        *)
(* record; then Orchestrator, one process and its agents; then             *)
(* OrchestratorProcesses, any number of processes on one record.           *)
(***************************************************************************)
EXTENDS Orchestrator, FiniteSetTheorems, TLAPS

-----------------------------------------------------------------------------
(* What every operation of OrchestratorRecord preserves: the record is     *)
(* well formed, what runs or has succeeded was allowed to start, nothing   *)
(* runs in a stopped workflow, and a success is never taken back.          *)

Sound(r) ==
    /\ r \in Records
    /\ \A t \in Tasks : r.deps[t] \subseteq r.known
    /\ Acyclic(r.deps)
    /\ DepsSucceeded(r)
    /\ GatesKept(r)
    /\ RestsWhenStopped(r)

\* A success stays, with its execution.
KeepsSuccess(r, s) ==
    /\ r.known \subseteq s.known
    /\ \A t \in Tasks :
          t \in r.known /\ r.st[t] = "success"
             => s.st[t] = "success" /\ s.exec[t] = r.exec[t]

\* What runs or has succeeded did so before, by the same execution.
Continues(r, s) ==
    \A t \in s.known : s.st[t] \in {"running", "success"} =>
        t \in r.known /\ s.st[t] = r.st[t] /\ s.exec[t] = r.exec[t]

\* s differs from r in ways that start and finish nothing.
Quiet(r, s) ==
    /\ s.known = r.known /\ s.deps = r.deps /\ s.need = r.need
    /\ r.approved \subseteq s.approved
    /\ \A t \in Tasks :
          /\ s.st[t] \in {"running", "success"} =>
                s.st[t] = r.st[t] /\ s.exec[t] = r.exec[t]
          /\ r.st[t] = "success" => s.st[t] = "success"

\* Sound, before the status of the workflow has been refreshed.
Unticked(r) ==
    /\ r \in Records
    /\ \A t \in Tasks : r.deps[t] \subseteq r.known
    /\ Acyclic(r.deps)
    /\ DepsSucceeded(r)
    /\ GatesKept(r)
    /\ r.wf = "paused" => With(r, "running") = {}

LEMMA SoundIsUnticked == ASSUME NEW r, Sound(r) PROVE Unticked(r)
BY DEF Sound, Unticked, RestsWhenStopped

\* Quiet steps keep the record sound but for the status of the workflow.
LEMMA QuietIsUnticked ==
    ASSUME NEW r, NEW q, Unticked(r), q \in Records, Quiet(r, q),
           q.wf = "paused" => r.wf = "paused"
    PROVE  Unticked(q)
<1>1. With(q, "running") \subseteq With(r, "running")
  BY DEF Quiet, With, Unticked, Records
<1>2. GatesKept(q)
  BY DEF Unticked, Quiet, GatesKept, Gated, Records
<1>3. DepsSucceeded(q)
  BY DEF Unticked, Quiet, DepsSucceeded, Records
<1>4. Acyclic(q.deps) /\ \A t \in Tasks : q.deps[t] \subseteq q.known
  BY DEF Unticked, Quiet
<1> QED
  BY <1>1, <1>2, <1>3, <1>4 DEF Unticked

\* _tick_workflow_status changes the status of the workflow, to "completed" only
\* when nothing is left to do.
LEMMA TickFacts ==
    ASSUME NEW q \in Records, q.wf = "paused" => With(q, "running") = {}
    PROVE  /\ Ticked(q) \in Records
           /\ RestsWhenStopped(Ticked(q))
           /\ Ticked(q) = [q EXCEPT !.wf = Ticked(q).wf]
<1> DEFINE w == TickedStatus(q)
<1>1. w \in {"waiting_approval", "failed", "completed", "running"}
  BY DEF TickedStatus
<1>2. w = "completed" => With(q, "success") = q.known
  BY DEF TickedStatus
<1>3. With(q, "success") = q.known => With(q, "running") = {}
  BY DEF With
<1>4. CASE q.known = {} \/ q.wf = "paused"
  <2>1. Ticked(q) = q
    BY <1>4 DEF Ticked
  <2>2. With(q, "running") = {}
    BY <1>4 DEF With
  <2> QED
    BY <2>1, <2>2 DEF RestsWhenStopped, Records
<1>5. CASE ~(q.known = {} \/ q.wf = "paused")
  <2> HIDE DEF w
  <2>1. Ticked(q) = [q EXCEPT !.wf = w]
    BY <1>5 DEF Ticked, w
  <2>2. w \in WorkflowStatus
    BY <1>1 DEF WorkflowStatus
  <2>3. Ticked(q) \in Records /\ Ticked(q).wf = w
    BY <2>1, <2>2 DEF Records
  <2>4. With(Ticked(q), "running") = With(q, "running")
    BY <2>1 DEF With, Records
  <2> QED
    BY <1>1, <1>2, <1>3, <2>1, <2>3, <2>4 DEF RestsWhenStopped
<1> QED
  BY <1>4, <1>5

\* Propagation moves open tasks only, and starts and finishes none.
LEMMA PropagateFacts ==
    ASSUME NEW q \in Records, NEW sweeps
    PROVE  /\ Propagated(q, sweeps) \in Records
           /\ Propagated(q, sweeps).known = q.known
           /\ Propagated(q, sweeps).deps = q.deps
           /\ Propagated(q, sweeps).need = q.need
           /\ Propagated(q, sweeps).approved = q.approved
           /\ Propagated(q, sweeps).exec = q.exec
           /\ Propagated(q, sweeps).wf \in {q.wf, "waiting_approval"}
           /\ \A t \in Tasks :
                 \/ Propagated(q, sweeps).st[t] = q.st[t]
                 \/ /\ q.st[t] \in Open
                    /\ Propagated(q, sweeps).st[t]
                          \in {"failed", "approval_required", "queued"}
<1> DEFINE failing == FailsBy(q, sweeps)
           freed == FreedBy(q, sweeps)
           gated == {t \in freed : t \in q.need /\ t \notin q.approved}
           moved(t) == IF t \in failing THEN "failed"
                       ELSE IF t \in gated THEN "approval_required"
                       ELSE IF t \in freed THEN "queued"
                       ELSE q.st[t]
<1>1. \A t \in failing \union freed : q.st[t] \in Open
  BY DEF FreedBy, FailsBy
<1>2. Propagated(q, sweeps) =
        [q EXCEPT !.st = [t \in Tasks |-> moved(t)],
                  !.wf = IF gated # {} THEN "waiting_approval" ELSE q.wf]
  BY DEF Propagated
<1>3. ASSUME NEW t \in Tasks
      PROVE  \/ moved(t) = q.st[t]
             \/ /\ q.st[t] \in Open
                /\ moved(t) \in {"failed", "approval_required", "queued"}
  <2>1. gated \subseteq freed
    OBVIOUS
  <2> HIDE DEF failing, freed, gated
  <2> QED
    BY <1>1, <2>1
<1>4. \A t \in Tasks : q.st[t] \in TaskStatus /\ moved(t) \in TaskStatus
  <2> HIDE DEF moved
  <2> QED
    BY <1>3 DEF Records, TaskStatus
<1> HIDE DEF failing, freed, gated, moved
<1>5. Propagated(q, sweeps).st = [t \in Tasks |-> moved(t)]
  BY <1>2 DEF Records
<1>6. Propagated(q, sweeps) \in Records
  <2> DEFINE st == [t \in Tasks |-> moved(t)]
             wf == IF gated # {} THEN "waiting_approval" ELSE q.wf
  <2>1. st \in [Tasks -> TaskStatus]
    BY <1>4
  <2>2. wf \in WorkflowStatus
    BY DEF Records, WorkflowStatus
  <2>3. Propagated(q, sweeps) = [q EXCEPT !.st = st, !.wf = wf]
    BY <1>2
  <2> HIDE DEF st, wf
  <2> QED
    BY <2>1, <2>2, <2>3 DEF Records
<1> QED
  BY <1>2, <1>3, <1>5, <1>6 DEF Records

LEMMA TickSound ==
    ASSUME NEW q, Unticked(q)
    PROVE  Sound(Ticked(q)) /\ KeepsSuccess(q, Ticked(q)) /\ Continues(q, Ticked(q))
<1> DEFINE s == Ticked(q)
<1>1. s \in Records /\ RestsWhenStopped(s) /\ s = [q EXCEPT !.wf = s.wf]
  BY TickFacts DEF Unticked
<1> HIDE DEF s
<1>2. q \in Records
  BY DEF Unticked
<1>3. /\ s.known = q.known /\ s.deps = q.deps /\ s.need = q.need
      /\ s.approved = q.approved /\ s.st = q.st /\ s.exec = q.exec
  BY <1>1, <1>2 DEF Records
<1>4. /\ DepsSucceeded(s) /\ GatesKept(s) /\ Acyclic(s.deps)
      /\ \A t \in Tasks : s.deps[t] \subseteq s.known
  BY <1>3 DEF Unticked, DepsSucceeded, GatesKept, Gated
<1>5. KeepsSuccess(q, s) /\ Continues(q, s)
  BY <1>3 DEF KeepsSuccess, Continues
<1> QED
  BY <1>1, <1>4, <1>5 DEF Sound, s

LEMMA PropagateUnticked ==
    ASSUME NEW q, Unticked(q), NEW sweeps
    PROVE  /\ Unticked(Propagated(q, sweeps))
           /\ KeepsSuccess(q, Propagated(q, sweeps)) /\ Continues(q, Propagated(q, sweeps))
<1> DEFINE s == Propagated(q, sweeps)
<1>1. q \in Records
  BY DEF Unticked
<1>2. /\ s \in Records
      /\ s.known = q.known /\ s.deps = q.deps /\ s.need = q.need
      /\ s.approved = q.approved /\ s.exec = q.exec
      /\ s.wf \in {q.wf, "waiting_approval"}
      /\ \A t \in Tasks : \/ s.st[t] = q.st[t]
                          \/ /\ q.st[t] \in Open
                             /\ s.st[t] \in {"failed", "approval_required", "queued"}
  BY <1>1, PropagateFacts
<1> HIDE DEF s
<1>3. \A t \in Tasks : /\ s.st[t] \in {"running", "success"} => s.st[t] = q.st[t]
                       /\ q.st[t] = "success" => s.st[t] = "success"
  BY <1>2 DEF Open
<1>4. Quiet(q, s) /\ KeepsSuccess(q, s) /\ Continues(q, s)
  BY <1>1, <1>2, <1>3 DEF Quiet, KeepsSuccess, Continues, Records
<1>5. Unticked(s)
  BY <1>2, <1>4, QuietIsUnticked
<1> QED
  BY <1>4, <1>5 DEF s

-----------------------------------------------------------------------------
(* The operations.  Most change a record quietly and refresh its status.    *)

Allows(r, s) == Sound(s) /\ KeepsSuccess(r, s)

LEMMA QuietAllowed ==
    ASSUME NEW r, NEW q, Sound(r), q \in Records, Quiet(r, q),
           q.wf = "paused" => r.wf = "paused",
           NEW s, NEW sweeps,
           s \in {Ticked(q), Ticked(Propagated(q, sweeps))}
    PROVE  Allows(r, s) /\ Continues(r, s)
<1>1. Unticked(q)
  BY SoundIsUnticked, QuietIsUnticked
<1>2. KeepsSuccess(r, q) /\ Continues(r, q)
  BY DEF Quiet, KeepsSuccess, Continues, Records
<1>3. CASE s = Ticked(q)
  BY <1>1, <1>2, <1>3, TickSound DEF Allows, KeepsSuccess, Continues
<1>4. CASE s = Ticked(Propagated(q, sweeps))
  <2> DEFINE p == Propagated(q, sweeps)
  <2>1. Unticked(p) /\ KeepsSuccess(q, p) /\ Continues(q, p)
    BY <1>1, PropagateUnticked
  <2> HIDE DEF p
  <2>2. Sound(Ticked(p)) /\ KeepsSuccess(p, Ticked(p)) /\ Continues(p, Ticked(p))
    BY <2>1, TickSound
  <2> QED
    BY <1>2, <1>4, <2>1, <2>2 DEF Allows, KeepsSuccess, Continues, p
<1> QED
  BY <1>3, <1>4

\* The same for steps that set the status of the workflow themselves.
LEMMA QuietAllowedAsIs ==
    ASSUME NEW r, NEW s, Sound(r), s \in Records, Quiet(r, s),
           RestsWhenStopped(s)
    PROVE  Allows(r, s) /\ Continues(r, s)
<1>1. GatesKept(s)
  BY DEF Sound, Quiet, GatesKept, Gated, Records
<1>2. DepsSucceeded(s)
  BY DEF Sound, Quiet, DepsSucceeded, Records
<1> QED
  BY <1>1, <1>2 DEF Allows, Sound, Quiet, KeepsSuccess, Continues, Records

LEMMA ApproveAllowed ==
    ASSUME NEW r, NEW s, Sound(r), NEW t \in Tasks, ApproveTask(r, s, t)
    PROVE  Allows(r, s) /\ Continues(r, s)
<1> DEFINE q == [r EXCEPT !.approved = @ \union {t}, !.st[t] = "queued"]
<1>1. r \in Records
  BY DEF Sound
<1>2. q \in Records
  BY <1>1 DEF ApproveTask, Records, TaskStatus, WorkflowStatus, Open
<1>3. Quiet(r, q)
  BY <1>1 DEF ApproveTask, Quiet, Records, With, Open
<1>4. q.wf = "paused" => r.wf = "paused"
  BY <1>1 DEF Records
<1>5. s = Ticked(q)
  BY DEF ApproveTask
<1> HIDE DEF q
<1> QED
  BY <1>2, <1>3, <1>4, <1>5, QuietAllowed

LEMMA CancelTaskAllowed ==
    ASSUME NEW r, NEW s, Sound(r), NEW t \in Tasks, CancelTask(r, s, t)
    PROVE  Allows(r, s) /\ Continues(r, s)
<1> DEFINE q == [r EXCEPT !.st[t] = "cancelled"]
<1>1. r \in Records
  BY DEF Sound
<1>2. q \in Records
  BY <1>1 DEF CancelTask, Records, TaskStatus, WorkflowStatus, Terminal
<1>3. Quiet(r, q)
  BY <1>1 DEF CancelTask, Quiet, Records, With, Terminal
<1>4. q.wf = "paused" => r.wf = "paused"
  BY <1>1 DEF Records
<1>5. s = Ticked(Propagated(q, {t}))
  BY DEF CancelTask
<1> HIDE DEF q
<1> QED
  BY <1>2, <1>3, <1>4, <1>5, QuietAllowed

LEMMA RetryAllowed ==
    ASSUME NEW r, NEW s, Sound(r), NEW t \in Tasks, RetryTask(r, s, t)
    PROVE  Allows(r, s) /\ Continues(r, s)
<1> DEFINE q == [r EXCEPT !.exec[t] = 0,
                         !.st[t] = IF t \in r.need \/ Gated(r, t)
                                   THEN "approval_required" ELSE "queued"]
<1>1. r \in Records
  BY DEF Sound
<1>2. q \in Records
  BY <1>1 DEF RetryTask, Records, TaskStatus, WorkflowStatus
<1>3. Quiet(r, q)
  BY <1>1 DEF RetryTask, Quiet, Records, With
<1>4. q.wf = "paused" => r.wf = "paused"
  BY <1>1 DEF Records
<1>5. s = Ticked(q)
  BY DEF RetryTask
<1> HIDE DEF q
<1> QED
  BY <1>2, <1>3, <1>4, <1>5, QuietAllowed

LEMMA BlockAllowed ==
    ASSUME NEW r, NEW s, Sound(r), NEW t \in Tasks, BlockTask(r, s, t)
    PROVE  Allows(r, s) /\ Continues(r, s)
<1> DEFINE q == [r EXCEPT !.st[t] = "blocked"]
<1>1. r \in Records
  BY DEF Sound
<1>2. q \in Records
  BY <1>1 DEF BlockTask, Records, TaskStatus, WorkflowStatus, Terminal
<1>3. Quiet(r, q)
  BY <1>1 DEF BlockTask, Quiet, Records, With, Terminal
<1>4. q.wf = "paused" => r.wf = "paused"
  BY <1>1 DEF Records
<1>5. s = Ticked(q)
  BY DEF BlockTask
<1> HIDE DEF q
<1> QED
  BY <1>2, <1>3, <1>4, <1>5, QuietAllowed

LEMMA UnblockAllowed ==
    ASSUME NEW r, NEW s, Sound(r), NEW t \in Tasks, UnblockTask(r, s, t)
    PROVE  Allows(r, s) /\ Continues(r, s)
<1> DEFINE q == [r EXCEPT !.st[t] = IF t \in r.need
                                   THEN "approval_required" ELSE "queued"]
<1>1. r \in Records
  BY DEF Sound
<1>2. q \in Records
  BY <1>1 DEF UnblockTask, Records, TaskStatus, WorkflowStatus
<1>3. Quiet(r, q)
  BY <1>1 DEF UnblockTask, Quiet, Records, With
<1>4. q.wf = "paused" => r.wf = "paused"
  BY <1>1 DEF Records
<1>5. s = Ticked(q)
  BY DEF UnblockTask
<1> HIDE DEF q
<1> QED
  BY <1>2, <1>3, <1>4, <1>5, QuietAllowed

LEMMA FailAllowed ==
    ASSUME NEW r, NEW s, Sound(r), NEW t \in Tasks, NEW e \in Nat, FailTask(r, s, t, e)
    PROVE  Allows(r, s) /\ Continues(r, s)
<1> DEFINE q == [r EXCEPT !.st[t] = "failed", !.exec[t] = e]
<1>1. r \in Records
  BY DEF Sound
<1>2. q \in Records
  BY <1>1 DEF FailTask, Records, TaskStatus, WorkflowStatus
<1>3. Quiet(r, q)
  BY <1>1 DEF FailTask, Quiet, Records, With
<1>4. q.wf = "paused" => r.wf = "paused"
  BY <1>1 DEF Records
<1>5. s = Ticked(Propagated(q, {t}))
  BY DEF FailTask
<1> HIDE DEF q
<1> QED
  BY <1>2, <1>3, <1>4, <1>5, QuietAllowed

LEMMA TimeoutsAllowed ==
    ASSUME NEW r, NEW s, Sound(r), NEW late, ApplyTimeouts(r, s, late)
    PROVE  Allows(r, s) /\ Continues(r, s)
<1> DEFINE q == [r EXCEPT !.st = [t \in Tasks |-> IF t \in late THEN "failed" ELSE r.st[t]]]
<1>1. r \in Records
  BY DEF Sound
<1>2. q \in Records
  BY <1>1 DEF ApplyTimeouts, Records, TaskStatus, WorkflowStatus, Open
<1>3. Quiet(r, q)
  BY <1>1 DEF ApplyTimeouts, Quiet, Records, With, Open
<1>4. q.wf = "paused" => r.wf = "paused"
  BY <1>1 DEF Records
<1>5. s = Ticked(Propagated(q, {t \in r.known : q.st[t] \in Terminal}))
  BY DEF ApplyTimeouts
<1> HIDE DEF q
<1> QED
  BY <1>2, <1>3, <1>4, <1>5, QuietAllowed

LEMMA AssignAllowed ==
    ASSUME NEW r, NEW s, Sound(r), NEW t \in Tasks, NEW a \in Agents, AssignAgent(r, s, t, a)
    PROVE  Allows(r, s) /\ Continues(r, s)
<1>1. r \in Records
  BY DEF Sound
<1>2. s \in Records
  BY <1>1 DEF AssignAgent, Records, TaskStatus, WorkflowStatus
<1>3. Quiet(r, s)
  BY <1>1 DEF AssignAgent, Quiet, Records, Terminal, With
<1>4. RestsWhenStopped(s)
  BY <1>1 DEF AssignAgent, RestsWhenStopped, Sound, With, Records, Terminal
<1> QED
  BY <1>2, <1>3, <1>4, QuietAllowedAsIs

LEMMA UnassignAllowed ==
    ASSUME NEW r, NEW s, Sound(r), NEW t \in Tasks, UnassignAgent(r, s, t)
    PROVE  Allows(r, s) /\ Continues(r, s)
<1>1. r \in Records
  BY DEF Sound
<1>2. s \in Records
  BY <1>1 DEF UnassignAgent, Records, TaskStatus, WorkflowStatus
<1>3. Quiet(r, s)
  BY <1>1 DEF UnassignAgent, Quiet, Records, Terminal, With
<1>4. RestsWhenStopped(s)
  BY <1>1 DEF UnassignAgent, RestsWhenStopped, Sound, With, Records, Terminal
<1> QED
  BY <1>2, <1>3, <1>4, QuietAllowedAsIs

LEMMA PauseAllowed ==
    ASSUME NEW r, NEW s, Sound(r), Pause(r, s)
    PROVE  Allows(r, s) /\ Continues(r, s)
<1>1. r \in Records
  BY DEF Sound
<1>2. s \in Records
  BY <1>1 DEF Pause, Records, TaskStatus, WorkflowStatus
<1>3. Quiet(r, s)
  BY <1>1 DEF Pause, Quiet, Records, Terminal, With
<1>4. RestsWhenStopped(s)
  BY <1>1 DEF Pause, RestsWhenStopped, Sound, With, Records, Terminal
<1> QED
  BY <1>2, <1>3, <1>4, QuietAllowedAsIs

LEMMA ResumeAllowed ==
    ASSUME NEW r, NEW s, Sound(r), Resume(r, s)
    PROVE  Allows(r, s) /\ Continues(r, s)
<1>1. r \in Records
  BY DEF Sound
<1>2. s \in Records
  BY <1>1 DEF Resume, Records, TaskStatus, WorkflowStatus
<1>3. Quiet(r, s)
  BY <1>1 DEF Resume, Quiet, Records, Terminal, With
<1>4. RestsWhenStopped(s)
  BY <1>1 DEF Resume, RestsWhenStopped, Sound, With, Records, Terminal
<1> QED
  BY <1>2, <1>3, <1>4, QuietAllowedAsIs

LEMMA CancelAllowed ==
    ASSUME NEW r, NEW s, Sound(r), Cancel(r, s)
    PROVE  Allows(r, s) /\ Continues(r, s)
<1>1. r \in Records
  BY DEF Sound
<1>2. s \in Records
  BY <1>1 DEF Cancel, Records, TaskStatus, WorkflowStatus
<1>3. Quiet(r, s)
  BY <1>1 DEF Cancel, Quiet, Records, Terminal, With
<1>4. RestsWhenStopped(s)
  BY <1>1 DEF Cancel, RestsWhenStopped, Sound, With, Records, Terminal
<1> QED
  BY <1>2, <1>3, <1>4, QuietAllowedAsIs

LEMMA RecoverAllowed ==
    ASSUME NEW r, NEW s, Sound(r), Recover(r, s)
    PROVE  Allows(r, s) /\ Continues(r, s)
<1>1. r \in Records
  BY DEF Sound
<1>2. s \in Records
  BY <1>1 DEF Recover, Records, TaskStatus, WorkflowStatus
<1>3. Quiet(r, s)
  BY <1>1 DEF Recover, Quiet, Records, Terminal, With
<1>4. RestsWhenStopped(s)
  BY <1>1 DEF Recover, RestsWhenStopped, Sound, With, Records, Terminal
<1> QED
  BY <1>2, <1>3, <1>4, QuietAllowedAsIs

LEMMA RecoverAgentAllowed ==
    ASSUME NEW r, NEW s, Sound(r), NEW a, RecoverAgentFailure(r, s, a)
    PROVE  Allows(r, s) /\ Continues(r, s)
<1>1. r \in Records
  BY DEF Sound
<1>2. s \in Records
  BY <1>1 DEF RecoverAgentFailure, Records, TaskStatus, WorkflowStatus
<1>3. Quiet(r, s)
  BY <1>1 DEF RecoverAgentFailure, Quiet, Records, Terminal, With
<1>4. RestsWhenStopped(s)
  BY <1>1 DEF RecoverAgentFailure, RestsWhenStopped, Sound, With, Records, Terminal
<1> QED
  BY <1>2, <1>3, <1>4, QuietAllowedAsIs

-----------------------------------------------------------------------------
(* The operations that change what a task waits for, or run it.             *)

\* A new task on top of a DAG that does not mention it: rank each other task by
\* how many of the others are below it.
LEMMA AcyclicWithNew ==
    ASSUME NEW deps \in [Tasks -> SUBSET Tasks], Acyclic(deps),
           NEW t \in Tasks, \A u \in Tasks : t \notin deps[u],
           NEW new \in SUBSET (Tasks \ {t})
    PROVE  Acyclic([deps EXCEPT ![t] = new])
<1>1. PICK rank \in [Tasks -> Tasks] : \A u \in Tasks : \A d \in deps[u] : rank[d] < rank[u]
  BY DEF Acyclic
<1> DEFINE Others == Tasks \ {t}
           Below(u) == {v \in Others : rank[v] < rank[u]}
<1>2. /\ NTasks \in Nat /\ NTasks > 0
      /\ IsFiniteSet(Tasks) /\ Cardinality(Tasks) = NTasks
  BY NTasksAssumption, FS_Interval DEF Tasks
<1>3. IsFiniteSet(Others) /\ Cardinality(Others) = NTasks - 1
  BY <1>2, FS_RemoveElement
<1>4. ASSUME NEW u \in Others
      PROVE  /\ IsFiniteSet(Below(u)) /\ Cardinality(Below(u)) \in Nat
             /\ Cardinality(Below(u)) < NTasks - 1
  <2>1. Below(u) \in SUBSET Others /\ Below(u) # Others
    <3>1. rank[u] \in Nat
      BY DEF Tasks
    <3> QED
      BY <3>1
  <2> HIDE DEF Below, Others
  <2> QED
    BY <1>2, <1>3, <2>1, FS_Subset, FS_CardinalityType
<1>5. ASSUME NEW u \in Others, NEW d \in deps[u]
      PROVE  d \in Others /\ Cardinality(Below(d)) < Cardinality(Below(u))
  <2>1. d \in Others /\ rank[d] < rank[u] /\ rank[d] \in Nat /\ rank[u] \in Nat
    BY <1>1 DEF Tasks
  <2>2. \A v \in Others : rank[v] \in Nat
    BY DEF Tasks
  <2>3. Below(d) \in SUBSET Below(u) /\ Below(d) # Below(u)
    BY <2>1, <2>2
  <2> HIDE DEF Below, Others
  <2> QED
    BY <1>4, <2>1, <2>3, FS_Subset, FS_CardinalityType
<1> DEFINE up == [u \in Tasks |-> IF u = t THEN NTasks ELSE Cardinality(Below(u)) + 1]
           more == [deps EXCEPT ![t] = new]
<1> HIDE DEF Below
<1>6. up \in [Tasks -> Tasks]
  <2> SUFFICES ASSUME NEW u \in Tasks
               PROVE  (IF u = t THEN NTasks ELSE Cardinality(Below(u)) + 1) \in Tasks
    OBVIOUS
  <2>1. CASE u = t
    BY <1>2, <2>1 DEF Tasks
  <2>2. CASE u # t
    <3>1. Cardinality(Below(u)) \in Nat /\ Cardinality(Below(u)) < NTasks - 1
      BY <1>4, <2>2
    <3>2. \A c \in Nat : c < NTasks - 1 => c + 1 \in Tasks
      BY <1>2 DEF Tasks
    <3> QED
      BY <2>2, <3>1, <3>2
  <2> QED
    BY <2>1, <2>2
<1>7. ASSUME NEW u \in Tasks, NEW d \in more[u]
      PROVE  up[d] < up[u]
  <2>1. CASE u = t
    <3>1. d \in Others
      BY <1>7, <2>1
    <3> QED
      BY <1>2, <1>4, <2>1, <3>1
  <2>2. CASE u # t
    <3>1. u \in Others /\ d \in deps[u]
      BY <1>7, <2>2
    <3>2. d \in Others /\ Cardinality(Below(d)) < Cardinality(Below(u))
      BY <1>5, <3>1
    <3>3. up[d] = Cardinality(Below(d)) + 1 /\ up[u] = Cardinality(Below(u)) + 1
      BY <3>1, <3>2
    <3>4. Cardinality(Below(d)) \in Nat /\ Cardinality(Below(u)) \in Nat
      BY <1>4, <3>1, <3>2
    <3> QED
      BY <3>2, <3>3, <3>4
  <2> QED
    BY <2>1, <2>2
<1> HIDE DEF up, more
<1>8. Acyclic(more)
  BY <1>6, <1>7 DEF Acyclic
<1> QED
  BY <1>8 DEF more

LEMMA AddAllowed ==
    ASSUME NEW r, NEW s, Sound(r), NEW t \in Tasks, NEW deps, NEW gate \in BOOLEAN,
           AddTask(r, s, t, deps, gate)
    PROVE  Allows(r, s) /\ Continues(r, s)
<1>1. r \in Records /\ t \notin r.known
  BY DEF Sound, AddTask
<1>2. s \in Records
  BY <1>1 DEF AddTask, Records, TaskStatus, WorkflowStatus
<1>3. s.known = r.known \union {t} /\ s.approved = r.approved /\ s.exec = r.exec
  BY <1>1 DEF AddTask, Records
<1>4. \A u \in r.known : /\ s.st[u] = r.st[u] /\ s.deps[u] = r.deps[u]
                         /\ u \in s.need <=> u \in r.need
  BY <1>1 DEF AddTask, Records
<1>5. s.st[t] \notin {"running", "success"}
  BY <1>1 DEF AddTask, Records
<1>6. DepsSucceeded(s)
  BY <1>3, <1>4, <1>5 DEF Sound, DepsSucceeded
<1>7. GatesKept(s)
  BY <1>3, <1>4, <1>5 DEF Sound, GatesKept, Gated
<1>8. With(s, "running") = With(r, "running")
  BY <1>3, <1>4, <1>5 DEF With
<1>9. RestsWhenStopped(s)
  <2>1. s.wf \in {r.wf, "waiting_approval"}
    BY <1>1 DEF AddTask, Records
  <2> QED
    BY <1>8, <2>1 DEF Sound, RestsWhenStopped
<1>10. \A u \in Tasks : s.deps[u] \subseteq s.known
  BY <1>1 DEF AddTask, Records, Sound
<1>11. KeepsSuccess(r, s)
  BY <1>1, <1>3, <1>4 DEF KeepsSuccess
<1>12. Continues(r, s)
  BY <1>3, <1>4, <1>5 DEF Continues
<1>13. Acyclic(s.deps)
  <2>1. s.deps = [r.deps EXCEPT ![t] = deps] /\ deps \subseteq r.known
    BY <1>1 DEF AddTask, Records
  <2>2. /\ r.deps \in [Tasks -> SUBSET Tasks] /\ Acyclic(r.deps)
        /\ deps \in SUBSET (Tasks \ {t})
        /\ \A u \in Tasks : t \notin r.deps[u]
    BY <1>1, <2>1 DEF Sound, Records
  <2> QED
    BY <2>1, <2>2, AcyclicWithNew
<1> QED
  BY <1>2, <1>6, <1>7, <1>9, <1>10, <1>11, <1>12, <1>13 DEF Allows, Sound

LEMMA SetDependenciesAllowed ==
    ASSUME NEW r, NEW s, Sound(r), NEW t \in Tasks, NEW deps \in SUBSET Tasks,
           SetDependencies(r, s, t, deps)
    PROVE  Allows(r, s) /\ Continues(r, s)
<1>1. r \in Records /\ r.st[t] \notin {"running", "success"} /\ deps \subseteq r.known
  BY DEF Sound, SetDependencies, Open
<1>2. s = [r EXCEPT !.deps[t] = deps]
  BY DEF SetDependencies
<1>3. s \in Records
  BY <1>1, <1>2 DEF Records
<1>4. /\ s.known = r.known /\ s.approved = r.approved /\ s.exec = r.exec
      /\ s.st = r.st /\ s.need = r.need /\ s.wf = r.wf
      /\ \A u \in Tasks : s.deps[u] = IF u = t THEN deps ELSE r.deps[u]
  BY <1>1, <1>2 DEF Records
<1>5. DepsSucceeded(s)
  BY <1>1, <1>4 DEF Sound, DepsSucceeded, Records
<1>6. Acyclic(s.deps)
  BY <1>1, <1>2 DEF SetDependencies, Records
<1>7. KeepsSuccess(r, s) /\ Continues(r, s)
  BY <1>4 DEF KeepsSuccess, Continues
<1> QED
  BY <1>1, <1>3, <1>4, <1>5, <1>6, <1>7
     DEF Allows, Sound, GatesKept, Gated, RestsWhenStopped, With

LEMMA FlagAllowed ==
    ASSUME NEW r, NEW s, Sound(r), NEW t \in Tasks, FlagApproval(r, s, t)
    PROVE  Allows(r, s) /\ Continues(r, s)
<1>1. r \in Records /\ r.st[t] \notin {"running", "success"}
  BY DEF Sound, FlagApproval, Open
<1>2. s \in Records
  BY <1>1 DEF FlagApproval, Records, TaskStatus, WorkflowStatus
<1>3. /\ s.known = r.known /\ s.approved = r.approved /\ s.exec = r.exec
      /\ s.deps = r.deps /\ s.wf = "waiting_approval" /\ s.need = r.need \union {t}
      /\ \A u \in Tasks : s.st[u] = IF u = t THEN "approval_required" ELSE r.st[u]
  BY <1>1 DEF FlagApproval, Records
<1>4. GatesKept(s)
  BY <1>1, <1>3 DEF Sound, GatesKept, Gated, Records
<1>5. DepsSucceeded(s)
  BY <1>1, <1>3 DEF Sound, DepsSucceeded, Records
<1>6. KeepsSuccess(r, s) /\ Continues(r, s)
  BY <1>1, <1>3 DEF KeepsSuccess, Continues, Records
<1> QED
  BY <1>2, <1>3, <1>4, <1>5, <1>6 DEF Allows, Sound, RestsWhenStopped

LEMMA DispatchAllowed ==
    ASSUME NEW r, NEW s, Sound(r), NEW started, NEW parallel \in BOOLEAN,
           NEW id \in Nat, Dispatch(r, s, started, parallel, id)
    PROVE  /\ Allows(r, s)
           /\ \A u \in s.known : s.st[u] \in {"running", "success"} =>
                 \/ u \in started /\ (id # 0 => s.exec[u] # 0)
                 \/ /\ u \in r.known \ started
                    /\ s.st[u] = r.st[u] /\ s.exec[u] = r.exec[u]
<1> DEFINE q == [r EXCEPT
              !.wf = IF r.wf = "created" THEN "running" ELSE r.wf,
              !.st = [t \in Tasks |-> IF t \in started THEN "running" ELSE r.st[t]],
              !.exec = [t \in Tasks |->
                          IF t \in started /\ r.exec[t] = 0 THEN id ELSE r.exec[t]]]
<1>1. r \in Records /\ r.wf # "paused"
  BY DEF Sound, Dispatch
<1>2. started \subseteq Ready(r)
  BY DEF Dispatch
<1>3. s = Ticked(q)
  BY DEF Dispatch
<1>4. q \in Records
  BY <1>1 DEF Records, TaskStatus, WorkflowStatus
<1>5. /\ q.known = r.known /\ q.approved = r.approved /\ q.need = r.need
      /\ q.deps = r.deps /\ q.wf # "paused"
      /\ \A t \in Tasks : q.st[t] = IF t \in started THEN "running" ELSE r.st[t]
      /\ \A t \in Tasks \ started : q.exec[t] = r.exec[t]
  BY <1>1 DEF Records
<1> HIDE DEF q
<1>6. \A t \in started : /\ t \in r.known /\ r.st[t] \in Open /\ ~Gated(r, t)
                         /\ \A d \in r.deps[t] : r.st[d] = "success"
  BY <1>2 DEF Ready
<1>7. \A t \in Tasks : r.st[t] = "success" => t \notin started
  BY <1>6 DEF Open
<1>8. DepsSucceeded(q)
  <2> SUFFICES ASSUME NEW t \in q.known, q.st[t] \in {"running", "success"},
                      NEW d \in q.deps[t]
               PROVE  d \in q.known /\ q.st[d] = "success"
    BY DEF DepsSucceeded
  <2>1. t \in Tasks /\ d \in Tasks /\ d \in r.known
    BY <1>1, <1>5 DEF Records, Sound
  <2>2. r.st[d] = "success"
    BY <1>5, <1>6, <2>1 DEF Sound, DepsSucceeded
  <2> QED
    BY <1>5, <1>7, <2>1, <2>2
<1>9. GatesKept(q)
  BY <1>1, <1>5, <1>6 DEF Sound, GatesKept, Gated, Records
<1>10. Unticked(q)
  BY <1>4, <1>5, <1>8, <1>9 DEF Unticked, Sound
<1>11. KeepsSuccess(r, q)
  BY <1>5, <1>7 DEF KeepsSuccess
<1>12. \A u \in q.known : u \in started /\ id # 0 => q.exec[u] # 0
  BY <1>1 DEF Records, q
<1>13. Sound(s) /\ KeepsSuccess(q, s) /\ Continues(q, s)
  BY <1>3, <1>10, TickSound
<1>14. q.known \subseteq Tasks
  BY <1>4 DEF Records
<1> QED
  BY <1>5, <1>11, <1>12, <1>13, <1>14 DEF Allows, KeepsSuccess, Continues

LEMMA CompleteAllowed ==
    ASSUME NEW r, NEW s, Sound(r), NEW t \in Tasks, NEW a, NEW e \in Nat,
           CompleteTask(r, s, t, a, e)
    PROVE  /\ Allows(r, s)
           /\ t \in r.known /\ r.st[t] = "running" /\ Current(r, t, e)
           /\ s.st[t] = "success" /\ s.exec[t] = e
           /\ \A u \in s.known \ {t} : s.st[u] \in {"running", "success"} =>
                 u \in r.known /\ s.st[u] = r.st[u] /\ s.exec[u] = r.exec[u]
<1> DEFINE q == [r EXCEPT !.st[t] = "success", !.exec[t] = e]
           p == Propagated(q, {t})
<1>1. r \in Records /\ t \in r.known /\ r.st[t] = "running"
  BY DEF Sound, CompleteTask
<1>2. s = Ticked(p)
  BY DEF CompleteTask
<1>3. q \in Records
  BY <1>1 DEF Records, TaskStatus
<1>4. /\ q.known = r.known /\ q.approved = r.approved /\ q.need = r.need
      /\ q.deps = r.deps /\ q.wf = r.wf
      /\ \A u \in Tasks : /\ q.st[u] = IF u = t THEN "success" ELSE r.st[u]
                          /\ q.exec[u] = IF u = t THEN e ELSE r.exec[u]
  BY <1>1 DEF Records
<1> HIDE DEF q
<1>5. DepsSucceeded(q)
  BY <1>1, <1>4 DEF Sound, DepsSucceeded, Records
<1>6. GatesKept(q)
  BY <1>1, <1>4 DEF Sound, GatesKept, Gated, Records
<1>7. q.wf # "paused"
  BY <1>1, <1>4 DEF Sound, RestsWhenStopped, With
<1>8. Unticked(q)
  BY <1>3, <1>4, <1>5, <1>6, <1>7 DEF Unticked, Sound
<1>9. KeepsSuccess(r, q)
  BY <1>1, <1>4 DEF KeepsSuccess
<1>10. Unticked(p) /\ KeepsSuccess(q, p) /\ Continues(q, p)
  BY <1>8, PropagateUnticked
<1> HIDE DEF p
<1>11. Sound(s) /\ KeepsSuccess(p, s) /\ Continues(p, s)
  BY <1>2, <1>10, TickSound
<1>12. KeepsSuccess(q, s) /\ Continues(q, s)
  BY <1>10, <1>11 DEF KeepsSuccess, Continues
<1>13. Allows(r, s) /\ s.st[t] = "success" /\ s.exec[t] = e
  BY <1>1, <1>4, <1>9, <1>11, <1>12 DEF Allows, KeepsSuccess
<1>14. Current(r, t, e)
  BY DEF CompleteTask
<1>15. q.known \subseteq Tasks
  BY <1>3 DEF Records
<1> QED
  BY <1>1, <1>4, <1>12, <1>13, <1>14, <1>15 DEF Continues

LEMMA ManagedAllowed ==
    ASSUME NEW r, NEW s, Sound(r), Managed(r, s)
    PROVE  Allows(r, s) /\ Continues(r, s)
BY AddAllowed, SetDependenciesAllowed, AssignAllowed, UnassignAllowed, ApproveAllowed,
   CancelTaskAllowed, RetryAllowed, FlagAllowed, BlockAllowed, UnblockAllowed,
   PauseAllowed, ResumeAllowed, CancelAllowed, RecoverAllowed, RecoverAgentAllowed,
   TimeoutsAllowed
   DEF Managed

LEMMA NewRecordSound == Sound(NewRecord)
<1>1. NewRecord \in Records
  BY DEF NewRecord, Records, WorkflowStatus, TaskStatus
<1>2. Acyclic(NewRecord.deps)
  <2>1. 1 \in Tasks
    BY NTasksAssumption DEF Tasks
  <2>2. \A t \in Tasks : NewRecord.deps[t] = {}
    BY DEF NewRecord
  <2> QED
    BY <2>1, <2>2, [t \in Tasks |-> 1] \in [Tasks -> Tasks] DEF Acyclic
<1> QED
  BY <1>1, <1>2 DEF Sound, NewRecord, DepsSucceeded, GatesKept, RestsWhenStopped, With

-----------------------------------------------------------------------------
(* Orchestrator.  The record is sound, and what runs or has succeeded does  *)
(* so by the execution it was given last, unless the report named none.     *)

\* The task that runs, or has succeeded, does so by the execution given last, or
\* by a report that did not name its execution.
ByLatest ==
    \A t \in rec.known :
        /\ rec.st[t] = "running" => rec.exec[t] # 0 /\ rec.exec[t] = latest[t]
        /\ rec.st[t] = "success" => rec.exec[t] \in {latest[t], 0}

IInv == TypeOK /\ fresh # 0 /\ Sound(rec) /\ ByLatest

LEMMA SoundRecord ==
    ASSUME NEW r
    PROVE  Sound(r) => /\ r \in Records
                       /\ Acyclic(r.deps)
                       /\ \A t \in Tasks : r.deps[t] \subseteq r.known
                       /\ DepsSucceeded(r) /\ GatesKept(r) /\ RestsWhenStopped(r)
  BY DEF Sound

LEMMA InitIInv == Init => IInv
<1> SUFFICES ASSUME Init PROVE IInv
  OBVIOUS
<1>1. Sound(NewRecord)
  BY NewRecordSound
<1>2. rec = NewRecord /\ rec \in Records
  BY <1>1, SoundRecord DEF Init
<1>3. ByLatest
  BY <1>2 DEF ByLatest, NewRecord
<1> QED
  BY <1>1, <1>2, <1>3 DEF Init, IInv, TypeOK

\* An operation that starts and finishes nothing.
LEMMA ContinuesKeeps ==
    ASSUME IInv, Allows(rec, rec'), Continues(rec, rec'),
           UNCHANGED <<given, latest, fresh>>
    PROVE  IInv' /\ KeepsSuccess(rec, rec')
<1>1. Sound(rec') /\ rec' \in Records /\ KeepsSuccess(rec, rec')
  BY SoundRecord DEF Allows
<1>2. ByLatest'
  BY DEF IInv, ByLatest, Continues
<1> QED
  BY <1>1, <1>2 DEF IInv, TypeOK

\* A step keeps the record sound and its successes.
LEMMA StepAllowed ==
    ASSUME IInv, [Next]_vars
    PROVE  IInv' /\ (rec' = rec \/ KeepsSuccess(rec, rec'))
<1> USE NTasksAssumption, AgentsAssumption, RequireHumanAssumption
<1>0. Sound(rec) /\ rec \in Records /\ rec.known \subseteq Tasks
  BY SoundRecord DEF IInv, Records
<1>1. CASE Manage
  <2>1. Allows(rec, rec') /\ Continues(rec, rec')
    BY <1>0, <1>1, ManagedAllowed DEF Manage
  <2> QED
    BY <1>1, <2>1, ContinuesKeeps DEF Manage
<1>2. ASSUME NEW started \in SUBSET Tasks, NEW parallel \in BOOLEAN,
             DispatchTasks(started, parallel)
      PROVE  IInv' /\ KeepsSuccess(rec, rec')
  <2>1. /\ Allows(rec, rec')
        /\ \A u \in rec'.known : rec'.st[u] \in {"running", "success"} =>
               \/ u \in started /\ (fresh # 0 => rec'.exec[u] # 0)
               \/ /\ u \in rec.known \ started
                  /\ rec'.st[u] = rec.st[u] /\ rec'.exec[u] = rec.exec[u]
    <3>1. Dispatch(rec, rec', started, parallel, fresh) /\ fresh \in Nat
      BY <1>2 DEF DispatchTasks, IInv, TypeOK
    <3> QED
      BY <1>0, <3>1, DispatchAllowed
  <2>2. Sound(rec') /\ rec' \in Records /\ KeepsSuccess(rec, rec')
    BY <2>1, SoundRecord DEF Allows
  <2>3. given' \subseteq Tasks \X Nat \X (Agents \union {NoAgent})
    BY <1>0, <1>2, <2>2 DEF DispatchTasks, IInv, TypeOK, Records
  <2>4. latest' \in [Tasks -> Nat] /\ fresh' \in Nat /\ fresh' # 0
    BY <1>2, <2>2 DEF DispatchTasks, IInv, TypeOK, Records
  <2>5. \A u \in Tasks : latest'[u] = IF u \in started THEN rec'.exec[u] ELSE latest[u]
    BY <1>2 DEF DispatchTasks
  <2>6. ByLatest'
    BY <1>0, <2>1, <2>5 DEF ByLatest, IInv
  <2> QED
    BY <2>2, <2>3, <2>4, <2>6 DEF IInv, TypeOK
<1>3. ASSUME NEW g \in given, NEW e \in 0..MaxDispatches, ReportSuccess(g, e)
      PROVE  IInv' /\ KeepsSuccess(rec, rec')
  <2>1. g[1] \in Tasks /\ e \in Nat
    BY DEF IInv, TypeOK
  <2>2. CompleteTask(rec, rec', g[1], g[3], e)
    BY <1>3 DEF ReportSuccess
  <2>3. /\ Allows(rec, rec')
        /\ g[1] \in rec.known /\ rec.st[g[1]] = "running" /\ Current(rec, g[1], e)
        /\ rec'.st[g[1]] = "success" /\ rec'.exec[g[1]] = e
        /\ \A u \in rec'.known \ {g[1]} : rec'.st[u] \in {"running", "success"} =>
               u \in rec.known /\ rec'.st[u] = rec.st[u] /\ rec'.exec[u] = rec.exec[u]
    BY <1>0, <2>1, <2>2, CompleteAllowed
  <2>4. Sound(rec') /\ rec' \in Records /\ KeepsSuccess(rec, rec')
    BY <2>3, SoundRecord DEF Allows
  <2>5. UNCHANGED <<given, latest, fresh>>
    BY <1>3 DEF ReportSuccess
  <2>6. ByLatest'
    BY <2>3, <2>5 DEF IInv, ByLatest, Current
  <2> QED
    BY <2>4, <2>5, <2>6 DEF IInv, TypeOK
<1>4. ASSUME NEW g \in given, NEW e \in 0..MaxDispatches, ReportFailure(g, e)
      PROVE  IInv' /\ KeepsSuccess(rec, rec')
  <2>1. g[1] \in Tasks /\ e \in Nat
    BY DEF IInv, TypeOK
  <2>2. FailTask(rec, rec', g[1], e)
    BY <1>4 DEF ReportFailure
  <2>3. Allows(rec, rec') /\ Continues(rec, rec')
    BY <1>0, <2>1, <2>2, FailAllowed
  <2> QED
    BY <1>4, <2>3, ContinuesKeeps DEF ReportFailure
<1>5. CASE UNCHANGED vars
  BY <1>5 DEF vars, IInv, TypeOK, ByLatest
<1> QED
  BY <1>1, <1>2, <1>3, <1>4, <1>5, ContinuesKeeps DEF Next

\* The types, a sound record, and runs and successes by the executions that count,
\* or by reports that name none, are invariant.
THEOREM OrchestratorInvariant == Spec => []IInv
<1>1. IInv /\ [Next]_vars => IInv'
  BY StepAllowed
<1> QED
  BY InitIInv, <1>1, PTL DEF Spec

\* What runs or has succeeded was started after all of its dependencies.
THEOREM OrchestratorOrder == Spec => []DependenciesFirst
<1>1. IInv => DependenciesFirst
  BY SoundRecord DEF IInv, DependenciesFirst
<1> QED
  BY <1>1, OrchestratorInvariant, PTL

\* ... and with the approval it needed.
THEOREM OrchestratorApproval == Spec => []ApprovalFirst
<1>1. IInv => ApprovalFirst
  BY SoundRecord DEF IInv, ApprovalFirst
<1> QED
  BY <1>1, OrchestratorInvariant, PTL

\* Nothing runs in a paused, cancelled or completed workflow.
THEOREM OrchestratorStops == Spec => []StoppedIsIdle
<1>1. IInv => StoppedIsIdle
  BY SoundRecord DEF IInv, StoppedIsIdle
<1> QED
  BY <1>1, OrchestratorInvariant, PTL

\* The dependencies stay a DAG over the workflow's tasks, whatever is added and
\* rewired; what runs does so by the execution it was given last, and what has
\* succeeded by that one too, unless the report named no execution at all.
THEOREM OrchestratorRecordSound == Spec => []RecordSound
<1>1. IInv => RecordSound
  BY SoundRecord DEF IInv, ByLatest, RecordSound, DagKept, LatestSucceeds, TypeOK
<1> QED
  BY <1>1, OrchestratorInvariant, PTL

\* A success, and its execution, are never taken back.
THEOREM OrchestratorSuccess == Spec => SuccessIsFinal
<1> DEFINE A == \A t \in rec.known : rec.st[t] = "success" =>
                   t \in rec'.known /\ rec'.st[t] = "success" /\ rec'.exec[t] = rec.exec[t]
<1>1. IInv /\ [Next]_vars => [A]_vars
  <2> SUFFICES ASSUME IInv, [Next]_vars PROVE A
    OBVIOUS
  <2>1. rec' = rec \/ KeepsSuccess(rec, rec')
    BY StepAllowed
  <2>2. rec.known \subseteq Tasks
    BY SoundRecord DEF IInv, Records
  <2> QED
    BY <2>1, <2>2, SoundRecord DEF KeepsSuccess
<1> QED
  BY <1>1, OrchestratorInvariant, PTL DEF Spec, SuccessIsFinal

-----------------------------------------------------------------------------
(* OrchestratorProcesses.  A commit writes what one operation makes of one  *)
(* sound record, however old, so the file always holds a sound record.      *)

CONSTANTS Processes, MaxCommits
VARIABLES rev, copy

P == INSTANCE OrchestratorProcesses

\* Its records and operations are those of this module.
LEMMA SameRecords ==
    /\ P!Tasks = Tasks /\ P!Records = Records /\ P!NewRecord = NewRecord
  BY DEF P!Tasks, Tasks, P!Records, Records, P!NewRecord, NewRecord,
         P!WorkflowStatus, WorkflowStatus, P!TaskStatus, TaskStatus

LEMMA SameOperations ==
    ASSUME NEW r, NEW s
    PROVE  /\ P!Managed(r, s) => Managed(r, s)
           /\ \A started, parallel, id :
                 P!Dispatch(r, s, started, parallel, id) => Dispatch(r, s, started, parallel, id)
           /\ \A t, a, e : P!CompleteTask(r, s, t, a, e) => CompleteTask(r, s, t, a, e)
           /\ \A t, e : P!FailTask(r, s, t, e) => FailTask(r, s, t, e)
<1> USE DEF Tasks, P!Tasks, Open, P!Open, Terminal, P!Terminal, Gated, P!Gated,
            With, P!With, Ready, P!Ready, Ticked, P!Ticked, TickedStatus, P!TickedStatus,
            Propagated, P!Propagated, FailsBy, P!FailsBy, FreedBy, P!FreedBy
<1>1. P!Managed(r, s) => Managed(r, s)
  BY DEF Managed, P!Managed, AddTask, P!AddTask, SetDependencies, P!SetDependencies,
         Acyclic, P!Acyclic, AssignAgent, P!AssignAgent, UnassignAgent, P!UnassignAgent,
         ApproveTask, P!ApproveTask, CancelTask, P!CancelTask, RetryTask, P!RetryTask,
         FlagApproval, P!FlagApproval, BlockTask, P!BlockTask,
         UnblockTask, P!UnblockTask, Pause, P!Pause, Resume, P!Resume,
         Cancel, P!Cancel, Recover, P!Recover,
         RecoverAgentFailure, P!RecoverAgentFailure, ApplyTimeouts, P!ApplyTimeouts
<1>2. ASSUME NEW started, NEW parallel, NEW id,
             P!Dispatch(r, s, started, parallel, id)
      PROVE  Dispatch(r, s, started, parallel, id)
  BY <1>2 DEF Dispatch, P!Dispatch
<1>3. ASSUME NEW t, NEW a, NEW e, P!CompleteTask(r, s, t, a, e)
      PROVE  CompleteTask(r, s, t, a, e)
  BY <1>3 DEF CompleteTask, P!CompleteTask, Current, P!Current
<1>4. ASSUME NEW t, NEW e, P!FailTask(r, s, t, e)
      PROVE  FailTask(r, s, t, e)
  BY <1>4 DEF FailTask, P!FailTask, Current, P!Current
<1> QED
  BY <1>1, <1>2, <1>3, <1>4

FilesSound ==
    /\ P!TypeOK
    /\ Sound(rec)
    /\ \A p \in Processes : Sound(copy[p].rec)

LEMMA ProcessesInit == P!Init => FilesSound
<1> SUFFICES ASSUME P!Init PROVE FilesSound
  OBVIOUS
<1>1. Sound(rec) /\ Sound(P!Idle.rec) /\ NewRecord \in Records
  BY NewRecordSound, SameRecords DEF P!Init, P!Idle, Sound
<1>2. P!Idle \in [rec : Records, rev : Nat]
  BY <1>1, SameRecords DEF P!Idle
<1> QED
  BY <1>1, <1>2, SameRecords DEF P!Init, FilesSound, P!TypeOK

LEMMA ProcessesStep == ASSUME FilesSound, [P!Next]_(P!vars) PROVE FilesSound'
<1> USE SameRecords DEF FilesSound, P!TypeOK
<1>1. Sound(P!Idle.rec) /\ P!Idle \in [rec : Records, rev : Nat]
  BY NewRecordSound DEF P!Idle, Sound
<1>2. ASSUME NEW p \in Processes, P!Load(p) PROVE FilesSound'
  <2>1. copy' = [copy EXCEPT ![p] = [rec |-> rec, rev |-> rev]]
        /\ rec' = rec /\ rev' = rev
    BY <1>2 DEF P!Load
  <2>2. copy' \in [Processes -> [rec : Records, rev : Nat]]
    BY <2>1
  <2>3. \A p_1 \in Processes : copy'[p_1].rec \in {rec, copy[p_1].rec}
    BY <2>1
  <2> QED
    BY <2>1, <2>2, <2>3
<1>3. ASSUME NEW p \in Processes, P!Die(p) PROVE FilesSound'
  <2>1. copy' = [copy EXCEPT ![p] = P!Idle]
        /\ rec' = rec /\ rev' = rev
    BY <1>3 DEF P!Die
  <2> QED
    BY <1>1, <2>1
<1>4. ASSUME NEW p \in Processes, P!Commit(p) PROVE FilesSound'
  <2> DEFINE r == copy[p].rec
  <2>1. Sound(r)
    OBVIOUS
  <2>2. /\ copy' = [copy EXCEPT ![p] = P!Idle]
        /\ rev' = rev + 1
    BY <1>4 DEF P!Commit
  <2>3. Allows(r, rec')
    <3>1. CASE Managed(r, rec')
      BY <2>1, <3>1, ManagedAllowed
    <3>2. ASSUME NEW started \in SUBSET Tasks, NEW parallel \in BOOLEAN,
                 Dispatch(r, rec', started, parallel, rev)
          PROVE  Allows(r, rec')
      BY <2>1, <3>2, DispatchAllowed
    <3>3. ASSUME NEW t \in Tasks, NEW a \in Agents \union {NoAgent},
                 NEW e \in 0..(rev - 1),
                 CompleteTask(r, rec', t, a, e) \/ FailTask(r, rec', t, e)
          PROVE  Allows(r, rec')
      <4>1. e \in Nat
        OBVIOUS
      <4> QED
        BY <2>1, <3>3, <4>1, CompleteAllowed, FailAllowed
    <3> QED
      BY <1>4, <3>1, <3>2, <3>3, SameOperations DEF P!Commit
  <2>4. Sound(rec') /\ rec' \in Records
    BY <2>3 DEF Allows, Sound
  <2> QED
    BY <1>1, <2>2, <2>4
<1>5. CASE UNCHANGED P!vars
  BY <1>5 DEF P!vars
<1> QED
  BY <1>2, <1>3, <1>4, <1>5 DEF P!Next

\* Every record loaded or written by any of the processes is sound.
THEOREM ProcessesInvariant == P!Spec => []FilesSound
<1>1. FilesSound /\ [P!Next]_(P!vars) => FilesSound'
  BY ProcessesStep
<1> QED
  BY ProcessesInit, <1>1, PTL DEF P!Spec

\* Whatever updates are lost to other processes, the record in the file never
\* shows a task that started before its dependencies ...
THEOREM ProcessesOrder == P!Spec => []DependenciesFirst
<1>1. FilesSound => DependenciesFirst
  BY DEF FilesSound, Sound, DependenciesFirst
<1> QED
  BY <1>1, ProcessesInvariant, PTL

\* ... nor one that runs without the approval it needed, or in a paused, cancelled
\* or completed workflow.
THEOREM ProcessesGatesAndStops == P!Spec => [](ApprovalFirst /\ StoppedIsIdle)
<1>1. FilesSound => ApprovalFirst /\ StoppedIsIdle
  BY DEF FilesSound, Sound, ApprovalFirst, StoppedIsIdle
<1> QED
  BY <1>1, ProcessesInvariant, PTL
=============================================================================
