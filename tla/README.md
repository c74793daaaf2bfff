# Verification of handoff-agent

TLA+ models of the stateful parts of `handoff_agent` (Python, under
`src/handoff_agent/`), the TLC runs that check them on small instances and the
TLAPS proofs that hold for every instance. `PROJECT.json` lists the runs, the
source lines each definition stands for, the hazards, the findings and the
theorems.

## 1. Inventory

The package is a set of coordinators. Each keeps its state in memory and in
JSON files of its own; none of them has a thread (the one lock of the package
is `company_f`'s `RLock`). Concurrency comes from outside: several processes on
one directory, agents and workers that answer late, twice or never, and
crashes between two file writes. Whole files are replaced atomically
(`_atomic_write_bytes`, `_atomic_write_file`: temporary file, fsync, rename),
journals are appended line by line.

| component | state | operations | what is hard | what makes it correct |
| --- | --- | --- | --- | --- |
| `DurableQueue` (reliability) | dictionaries of messages, a pending list, an append-only journal | enqueue, dequeue, ack, nack, recover_stale, replay | crashes inside an append, late acks after a lease lapsed, a pending limit | one holder per message, nothing accepted is lost, every message settles |
| `CircuitBreaker` (reliability) | state, failures in a row, probes | allow_call, record_success, record_failure | outcomes that arrive in another state than the one the call was admitted in | closed under the threshold, open until the timeout, closed again in the end |
| `LeaseManager` (reliability) | table of leases, in memory and `leases.json` | acquire, renew, release, recover_stale, load | expiry at the boundary, failed saves, two managers on one file | one holder at a time, a granted lease survives a crash |
| `ExecutionRegistry`, `DeadLetterQueue` (reliability) | `registry.json`, one file per dead message | register, touch, mark_*, enqueue | they are written one after the other | they agree with the queue |
| `ReliabilityEngine` (reliability) | the five above | submit, process_next, recover | a crash between any two of up to four files of one operation | deduplication, at most a known number of attempts, settlement |
| `CheckpointStore` (reliability) | current file and backup | save, restore | the two writes of a save, damage | the last good revision is restored |
| `BackupManager` (reliability) | snapshot directories with a manifest | snapshot, verify, restore | neither is atomic, sources change meanwhile | what is listed verifies, what a restore returns is what was copied |
| `RecoveryJournal`, `FailureDiagnostics` (reliability) | a log, incidents | append, replay; record | the append replaces the file | nothing recorded is lost |
| `PersistentOrchestrator` (orchestration) | one record per workflow: tasks, dependencies, approvals, execution ids, statuses | 20 operations that load, change and write the record | late reports, propagation, retries and recovery, lost updates between processes | dependencies and approvals first, nothing runs in a stopped workflow, a success is final |
| `CompanyFCoordinator` (company_f) | decisions, work orders, approvals, leases, deployments | decide, create, assign, lease, checkpoint, review, deploy, release, resume, save, load | a table of transitions next to hand-written checks, operations that change the order before they refuse, a save outside the lock, restarts that lose part of the state | one open order per piece of work; nothing released unreviewed or unapproved; what is saved stays |
| `MessageBroker` (messaging) | envelopes with a delivery status, sequence numbers, known agents | send (many kinds), deliver, acknowledge, process, complete, fail, cancel, retry, expire, recover | operations that bypass the transition table, writes that raise after the memory changed, files read back | each attempt is delivered at most once; what was completed stays so |
| `SyncCoordinator`, `DeviceRegistry` (sync) | sessions, locks, applied ids, the store, offline queues; devices | synchronize, acquire/refresh/release_lock, queue_offline, flush_offline, recover, backup and restore | partial application, locks kept after an error or a crash, revocation during a call | nothing partial counts as applied; one holder of a lock; what is asked for is applied in the end |
| `SyncConflictManager` (sync), `RemoteConflictManager` (remote) | conflicts and their resolution | detect, resolve in three ways | callers keep old copies of conflicts | a decision stands until the next conflict |
| `Delegator` (delegation) | tasks, statuses, results, human gates | create, route, assign, accept, refuse, approve, block, submit, fail, timeout, retry, reassign, cancel | operations without a guard on the status, propagation to dependents, late reports | success comes from the current execution; an accepted result stays |
| `RemoteHandoff`, `EndpointRegistry` (remote) | endpoints with status and credential, request ids seen | execute with retries, health checks, rotation, registration | answers lost after the effect, endpoints edited during a call | a request has a bounded number of effects |
| `WorkflowManager` (workflow) | the record of a handoff, and a checkpoint file others write too | begin, checkpoint, request, accept, complete, abandon, fail, recover | checkpoints that are refused or repeated in the middle of a handoff | what is accepted is what was requested |
| `WorkflowEngine` (workflow_engine) | definitions, executions and the state of their nodes | trigger, execute, complete, fail, approve, pause, time out, retry, checkpoint and restore, recover from a crash | two files, writes that raise, recovery | a node starts once per reason to start it |
| `PolicyEngine`, `ToolGateway` (policy_engine, tool_registry) | subjects, gates, rules, approval tickets; tools | evaluate and administer; invoke with retries | several checks per call, one ticket, rules that change | what needed an approval was approved, for the same subject and action |
| `AgentRegistry` (registry) | agents, availability, heartbeats | register, heartbeat, detect_stale, recover, backup, restore | heartbeats that race staleness and reloads | an agent found stale is on probation |
| `CheckpointManager`, `ChangelogWriter` (persistence) | `docs/HANDOFF.md`, `docs/CHANGELOG.md` | write_checkpoint, append | two files, crashes between them, several writers, people editing | a replaced checkpoint is archived |
| `TelemetryCollector` (telemetry) | traces, spans, a ring of events | start and end spans, emit, sample, reset | eviction of traces whose spans are open | nothing dangles, the last failure is kept |
| the rest | none, or logs for people | validation, parsing, rendering, I/O | | |

Interactions: `ReliabilityEngine` calls the queue, the registry, the breaker
and the dead letters; `ops` and `certification` run engines, sync, remote and
tools, and `ops` opens a second engine on the directory of a first
(`ops.py:702`); `pilot` and `audit` use `company_f`. `orchestration`,
`delegation` and `workflow_engine` are entry points of their own: delegation
asks the agent registry who is available, the tool gateway asks the policy
engine, `synchronize` and `flush_offline` ask the device registry, and no other
state is shared.

## 2. Modules

| module | models | state |
| --- | --- | --- |
| `DurableQueue` | the queue over an abstract journal | `mem`, `log`, `disk`: the dictionaries in memory, what all appended records replay to, what the file replays to now; workers' `held` messages; `broken` once a line is unreadable |
| `JournalledQueue` | the same operations over the journal's lines, sequence numbers and write buffer | `file`, `buffer`, `lastSeq`; refines `DurableQueue` by replaying them |
| `CircuitBreaker` | the breaker and callers that report late | one variable per field; the clock is one bit |
| `LeaseManager` | leases in memory and in the file, for one or more processes | `disk`, `mem`, and `trust`: until when each holder was told it holds each key |
| `CheckpointStore` | the two files of a checkpoint | `target`, `backup` and which revision a save wrote |
| `ReliabilityEngine` | submit, process_next, recover: one step per file written, `pc` is where the engine is | the queue's images, `phase` of each execution, `dlq`, the breaker |
| `OrchestratorRecord` | the workflow record and its operations as relations between the record loaded and the record written | no variables |
| `Orchestrator` | one process, the agents and the executions they were given | `rec`, `given`, `latest` |
| `OrchestratorProcesses` | processes that load and write the record in separate steps | `rec`, `rev`, `copy` |
| `CompanyF` | the work orders of one project, and the file they are saved to | `decision`, `orders`, `revoked`: the coordinator; `disk`, `tmp`, `saver`: the file and the saves in progress |
| `BackupManager` | snapshots and restores file by file | `source`, `copies`, `manifest`, `into`, and the call in progress |
| `MessageBroker` | the messages of one sender, in memory and in the file | `mem`, `disk`; `old`: the messages past their time to live; histories of deliveries and completions |
| `SyncCoordinator` | devices, and the coordinator of one process | `devMem`, `devDisk`, `mem`, `disk`; `run`: the step a synchronization is at; `trust`: who relies on the default lock |
| `RemoteHandoff` | endpoints, calls in progress, and what the remote side did | `mem`, `disk`: the endpoints; `call`: each with its copy of the endpoint and its attempts; `effects` |
| `AgentRegistry` | agents, heartbeats, backups | `mem`, `disk`, `lapsed`; `heard`: how often each was heard of since it was found stale |
| `Delegation` | tasks and what their agents report | `mem`, `disk`; `accepted`, `approved`: what callers were told |
| `HandoffWorkflow` | one workflow of `WorkflowManager` and its adapter | `rec`, `file`; `asked`: the checkpoint each token was issued for; `used`: the token the last acceptance presented |
| `WorkflowEngine` | the executions of one workflow | `mem`, `disk`, `snap`; `starts` and `grants`: how often a node was started, and why it might be |
| `PolicyEngine`, `ToolGateway` | what decides on a request; tools, sandbox and calls | rules, gates, subjects, tickets and grants; `registered`, `effects` |
| `HandoffDocument` | the checkpoint document and its changelog | `document`, `changelog`; `writing`: the step each writer is at |
| `ConflictManager` | both conflict managers (`kind`) | `conflicts`, `recorded`; `copies` that callers keep; `decided`: what a human's decision may have left |
| `Telemetry` | the collector | `traces`, `spans`, `events` |

`ReliabilityEngine` instantiates `CircuitBreaker` for its breaker and
`DurableQueue` both for the queue's effects and as the abstract specification
it must implement. Both orchestrator modules extend `OrchestratorRecord`, so
each operation is written, and proved about, once. `ToolGateway` extends
`PolicyEngine`. `MC*` modules give the
constants their values; `*Proofs` modules hold the theorems (section 4). Operators called
"mutated form" are plausible bugs of the definition below them; no
specification uses them.

What is abstracted.

- Queue: payloads, kinds and delays (a message that waits may be due or not); a
  message lease may have lapsed whenever a message is in processing, and the
  clock is left out.
- Journal: a crash that cuts a line exactly before its newline.
- Leases: one time to live; a file that cannot be parsed, loaded as empty, is
  left out.
- Engine: diagnostics, the leader lease and the recovery journal.
- Orchestrator: results, error texts, attempts, events, capabilities and the
  assignments mirror; priorities become any order; `waiting` is a status no
  operation assigns.
- Company F: one project (no operation reads two). Of the decisions, what the
  code asks of them: the latest status, where the first GO is, whether orders
  were created under it. `owner` stands for `assigned_agent` too: they are set
  together. Roles are checked by every operation and always held by somebody;
  only coders can be told apart. The interleavings inside `write_text` of two
  threads are left out.
- Messages, tasks, executions, agents, conflicts: payloads, scopes, permissions,
  priorities and descriptions, which only refuse; timestamps, except whether a
  time to live or a timeout has passed. The ranking of agents is a choice.
- Files that are rewritten after every change: the write happens or raises, and
  the memory has changed either way; where an operation writes twice, the second
  write may be the one that raises. A file that cannot be parsed is left out.
- Synchronization: an item is who wrote it last; a session is open or not; a
  device is active whether it is registered or online. The manifest that
  `synchronize` verifies never has items, so it never fails.
- Remote: the network and the remote side are external: a request is lost, or
  carried out and answered, not answered, or answered with damage.
- Workflow engine: a workflow of nodes with dependencies, whose definition may
  change; conditions and loops are choices.
- Policy: one resource per path, host or command; the dotted names one pattern
  matches are one action, except that each tool has its own. A call's arguments
  are the five that `ToolRequest.target` looks at, each with a resource or none.
- Telemetry: a trace's age is the order in which traces began.
- Backups: a file is its revision; sources have different base names.

## 3. Runs

Bounds are constants whose names begin with `Max` (and `Tearing`,
`LastFailing`, which switch a fault on). They are small because the hazards
are: each needs one or two messages, a fault or two and two actors.

| run | bounds | what it shows |
| --- | --- | --- |
| `queue` | 2 messages, 2 workers, 2 attempts, pending limit 1, 2 faults | holders, durability and agreement of memory and journal survive appends that raise, torn lines, crashes and late acks; the pending limit is reached with the second enqueue |
| `queue_torn` | 2 messages, 1 worker | a violation: see 5 |
| `journal` | 2 messages, 1 worker, at most 4 lines, 2 faults | the file implements the abstract journal and the sequence never repeats |
| `engine` | 2 keys, 2 attempts, a pending limit of 2 that is not reached (the code's is 10 000, `reliability.py:60`), threshold 2, 2 crashes or interrupts | a crash between any two files, twice, with the breaker opening in between; every message settles |
| `engine_submit` | 1 key, 1 crash | a violation: see 5 |
| `orchestrator` | 2 tasks, 3 dispatches that start something, every task needs an approval, no agents | all operations; a third execution can be reported late twice, and every report may name no execution |
| `orchestration` | 3 tasks, no agents, no approval that is always required; 2 processes, 4 commits; or one caller, 8 dispatches, the first two executions may fail | lost updates and deaths: 4 commits create two tasks, start one, and give it a dependency from a copy in which it had not started; completion: a diamond or a chain needs three tasks |
| `company` | 2 orders of one title, 2 coders, 8 operations, 1 save, any number of restarts | 7 operations take an order to its release, the eighth works on it or on the other order; theorems cover longer histories |
| `primitives` | leases: 2 keys, 2 holders, 1 process, ttl 2, time 4; breaker: 3 callers, threshold 2, 4 failures; checkpoint: 4 revisions, 2 damaged files; documents: 1 writer, 2 texts and three odd ones, 5 writes; conflicts: 2, 3 detections, 2 broken writes or restarts; telemetry: 3 traces, 2 retained, 3 spans, rings of 3 and 2 events; backups: 2 files, 2 snapshots, 2 revisions, 2 calls cut off | time passes the expiry of a lease and of its successor; the breaker opens, fails a probe and opens again; both checkpoint files are damaged and replaced; a document is replaced over an archive that a failed write left behind; a conflict is detected again after a decision; a trace is evicted while its spans are open; a restore is cut off and repeated |
| `coordination` | registry: 2 agents, 3 operations; sync: 2 devices, 2 ids of one device, 2 items, queue 1, 1 fault; remote: 2 callers, 2 requests, 1 endpoint, 1 retry, 2 lives | every step of a synchronization followed by a crash, a failed write or a revocation, then another attempt; two callers with one request id, before and after a restart |
| `work` | delegation: 2 tasks, 2 agents, 2 executions, 6 operations, 1 fault; messages: 2, 1 retry, 1 fault; handoff: 2 contents, 3 tokens; engine: 2 executions, 2 nodes, 5 operations, 1 fault; gateway: 1 filesystem tool with a capability, 2 subjects, 2 resources, calls that name a path or a resource and another host, 1 ticket, 4 changes, 1 call | six operations create, assign, accept, time out, retry and accept a task again, or finish one that another depends on (the theorems cover longer histories); a message fails, is retried, expires and is recovered; a handoff is revoked and requested again; four changes register a subject, make the tool need an approval, and issue and grant a ticket, for any subject, action and resource |
| `delegation_gate` | 1 task, 1 agent, 4 operations | a violation: see 5 |

`primitives`, `coordination`, `work` and `orchestration` check several
components in one run: `part` says which of them a behaviour is about, and the
variables of the others keep their first value or `Unused`. The parts share
names of variables, never a step, so a run is the union of the state spaces.
Each of their invariants is the component's own, for its part, with its type
invariant. The two parts of `orchestration` have the same constants, and must: TLC
evaluates the constant definitions of `OrchestratorRecord` once for a run, also
when one part extends the module and the other instantiates it.

Deadlock is checked except where the system may stop: a queue whose messages
are all settled, a workflow that is complete, processes out of commits, and the
composites, whose parts reach their bounds.

### Fairness

No component runs by itself, so fairness is what a caller in a loop provides;
four specifications state it. Engine: `process_next` is called again and again
(`run_until_idle`), `recover` now and then; taking a message and recovering one
are strongly fair, because a breaker that opens between them disables them for
a while; a dead process is restarted. Breaker: time passes, callers come back,
and calls that can succeed for ever do. Orchestrator (`ServedSpec`): the caller
dispatches, approves, and recovers failed tasks when nothing runs; agents
report once. Synchronization: a device registers and calls again with each id
it wants applied (strongly fair, because the lock of another call or of a dead
process refuses it for a while), a call that started goes on, and locks lapse
with time; revocations are bounded faults, and the property only speaks of
devices that stay admitted. Every other run is about safety and assumes none.

## 4. Proofs

`tlapm` checks them for every value of the constants, under the named `ASSUME`s
of the modules. Every safety invariant and action property that a run checks
is a theorem, and so are both refinements.

A component that has a run of its own has a module of proofs of its own. The
components that are checked together are proved together, one section each,
because a theorem states the very definition that the run checks, and that
definition speaks of a `part`: the module of proofs extends the `MC` module,
proves each component's invariant of that component's steps, and lifts it to the
composite by one lemma that says what a step of another part leaves alone. None
of these theorems uses the values the `MC` module gives to constants.

- **Queue** (`DurableQueueProofs`). `IInv` is the conjunction of the type
  invariant, `HolderBacked`, `ExclusiveHolder`, `AcceptedIsDurable` and
  `JournalLags`. `AcceptedIsDurable` alone is not inductive: a restart replaces
  the memory by the file, so the proof needs to know that the file lags behind
  the journal and the journal behind the memory, and never the other way; that
  is `JournalLags`. `QueueSound` needs two facts more, `FileMatches`: each list
  of pending ids, also the ones in journal and file, names an id once and none
  that is leased or unknown (`ListsSound`); and memory and journal agree about
  every message that was never reclaimed, but for the dead ones, which the
  journal may still have pending because eviction is not journalled (`Matching`).
  An enqueue whose append raises leaves before it evicts, so what it adds to the
  memory is alone in lacking a record.
- **Journal** (`JournalledQueueProofs`). That the lines of the file, replayed one
  after the other, are what `DurableQueue` says of its journal: `WrittenAdds` and
  `ReplayNext` say that a line added to a file without a torn line adds one effect,
  `WholeFile` and `StaysTorn` that a torn line hides every later one, and one lemma per
  operation says which action of the queue it is. Replay is a recursion over the
  lines. What it yields for every number of lines is an induction, which the
  prover's own theorems cannot state here; `Least` has it from the
  well-foundedness of inclusion on finite sets of numbers instead, and
  `ReplayExists` and `ReplayUnique` use it. `JournalInv` adds to the queue's
  invariant, imported from `DurableQueueProofs`, what relates lines, buffer and the
  last sequence number. `QueueAssumption` and `TornAssumption` say that the
  bounds are numbers and that a torn line is no record.
- **Engine** (`ReliabilityEngineProofs`). First the refinement `UsesTheQueue`:
  one lemma per step that writes the journal says which action of the queue it
  is, and `Ready` says why the queue allows it: `submit` only enqueues what is
  in no image (`FreshKeys`), and the engine holds a message from `dequeue_due`
  to ack or nack. Then `QueueInv`, the queue's own invariant, is imported: the
  module instantiates `DurableQueueProofs` at the engine's variables (`P`), and the
  first lemmas show that this instance and the one the engine is built from (`D`)
  are the same. `Recorded` adds what is in the registry and the dead-letter
  files at each place the engine may be. `FilesAgree` assumes `KeysFit`: not more
  messages than the pending limit. Without it the property is false, since an
  evicted message is dead in the queue and queued in the registry
  (`reliability.py:559-565`); `EngineTypesAndFiles` is what holds without it.
- **Leases, breaker, checkpoints, documents, conflicts, telemetry, backups**
  (`PrimitivesProofs`). Leases: for one process on the directory
  (`SingleProcess`), with the bound `TrustBounded` on how far ahead a holder may
  trust its lease, and with `RememberedLease` beside `DurableLease`, since a crash
  turns the file into the memory; two managers overwrite each other's file, and
  the theorems are false of them. Breaker: `BreakerConsistent` needs that probes and failures are
  numbers. Checkpoints: the current file is the last revision saved, or missing
  before the first, or damaged; the backup may be one revision older, but not
  between the two writes of a save. Documents: for one
  writer (`OneWriter`); `Embeds` says that the replaced checkpoints are entries of
  the changelog in their order, and `CallArchives` that a call about to replace a
  checkpoint has written it as the last entry, behind those. Conflicts: the
  property is inductive; `decided` is a set because a call that raises has changed
  the memory and not the file, and the local manager's automatic merge, which may
  store an old copy over the decision, is its one exception (`MergedOver`). Telemetry: spans and retained traces name each other (`Matched`),
  the traces are counted against the limit by lemmas about cardinalities, and the
  ring has the last failure until enough was kept after it (`RingKeeps`); `RetentionAssumption` has the
  sampled ring not larger than the full one, as the defaults have it
  (`telemetry.py:1474` would allow another policy). Backups: a manifest and
  the copies it lists are what the snapshot found, and so is what a restore has
  put back so far, unless a copy was damaged since.
- **Orchestrator** (`OrchestratorProofs`). The
  record lemmas say of each operation, for any record, that it keeps `Sound`: the
  dependencies are a DAG over the tasks that exist, and `DepsSucceeded`,
  `GatesKept` and `RestsWhenStopped` hold together. Being about records and not
  about steps, they serve both specifications: with processes, which the module
  instantiates (`P`), the invariant holds of the file and of every copy a process
  has loaded. `RecordSound` also speaks of
  the execution a task was given last: what runs does so by it, and what has
  succeeded has its id or, after a report that named none, no id (`ByLatest`). A
  late report that names its execution cannot change that, because the operations
  compare execution ids; one that names none passes (section 5).
- **Company F** (`CompanyFProofs`). `Sound` is what one order must satisfy;
  each operation on an order is reduced to replacing it by a sound order that
  is open only if it was (`ReplacedGood`). A restart brings an image back, so
  the invariant is stated of the coordinator and of every image: in the file,
  in the temporary file and in the hands of a thread. `CheckpointIsOwners` is
  inductive only with the statuses in which an order may change hands and keep
  its status left out: an order past the deployment gate may have an owner who
  never saw it. `CompanyDurability` assumes one thread that saves (`OneSaver`);
  `SavesLag` orders file, save in progress and coordinator.
- **Registry, synchronization, remote calls** (`CoordinationProofs`). Registry:
  probation is stated of the memory and of the file, because `load` and `restore`
  bring one back, and by status (`OnProbation`): "not offered" alone is not
  inductive, an offline agent is online again after one heartbeat.
  Synchronization: `Sound` holds of memory and file alike. It says that the
  devices that rely on the default lock are its live holders (`Relied`), that a
  device's items come from its own synchronizations (`OwnItems`), and that those
  that count as applied are all of one of them (`Whole`); between the steps of a
  call the id in progress does not count yet (`NotYetApplied`), which is what
  makes a cut-off call harmless. Remote: a call in progress has used its request
  id up and is the only one with it in this life of the process; the effects are
  at most the quota of the lives before plus the attempts it made (`InQuota`).
- **Delegation, messages, handoffs, workflow engine, gateway** (`WorkProofs`).
  Delegation: `SuccessIsCurrent` is inductive with `AcceptedResultIsKept`; the
  lemmas reduce propagation and most operations to `Calmer`, images in which no
  task succeeds that had not. Messages: `recover` and a restart replace the memory
  by the file, so both satisfy one invariant; `Develops` says what may become of an
  image in one operation: completed messages stay, attempts never shrink. An
  operation is a change of an image (one lemma each, without steps) followed by a
  save that happens or raises (one lemma for all). `NumbersDistinct` holds only of
  messages whose send returned: one whose write raised may be sent again after a
  `recover` and share a number. Handoffs: what the run checks is inductive; it
  compares the handoff that was accepted with the token the acceptance presented,
  not with the last one issued.
  Workflow engine: `Within`, of memory and file, counts a node that waits to be
  started as one of the starts its grants allow; `AtMostOneStart` alone says
  nothing of what a recovered file may start. Gateway: only tickets that were
  issued are granted, and they keep their request. A call is approved for what
  `Checked` takes from its arguments and acts on what `Touched` does; the requests
  the policy would have to grant for either differ in the resource only
  (`ApprovalIsForTheAction`), and agree when the call names one thing.

Only model-checked:

- Liveness (`EventuallyCloses`, `EventuallySynced`, `EventuallySettled`,
  `EventuallyCompleted`): liveness under fairness and `ENABLED` are beyond the
  prover. The safety part of `EventuallyCloses` is proved
  (`BreakerTypes`, `BreakerIsConsistent`).

## 5. Where the code departs from its documentation

Three departures are shown by runs that end in a violation, and quoted in
`PROJECT.json` under "findings":

- `queue_torn`: a torn journal line swallows every later record
  (`reliability.py:306`).
- `engine_submit`: a crash inside `submit` makes a key the duplicate of a
  message that is in no queue (`reliability.py:1501`).
- `delegation_gate`: `assign` and `accept_task` start a task that needs a human
  without one (`delegation.py:626`); only `route` looks at the gate.

The others are in the models, since those follow the code, and no property
claims the contrary. Lines are those of the code, then of the statement.

| code | statement |
| --- | --- |
| `reliability.py:620`: a late nack takes an acked message back | `reliability.py:426-429` |
| `reliability.py:559-565`: a message evicted at the pending limit is not journalled | `RELIABILITY.md:37-38` |
| `reliability.py:789`: a failed half-open probe counts, and reopens only at the threshold | `RELIABILITY.md:58-59` |
| `ops.py:702`: a second engine overwrites the leases of the first | `RELIABILITY.md:64` |
| `reliability.py:1148`: a save copies a damaged checkpoint over the good backup | `reliability.py:1125-1128` |
| `reliability.py:1602`: an execution that succeeded runs again after a crash before its ack | `RELIABILITY.md:71` |
| `reliability.py:1567`: after a crash a dead message may never be filed | `reliability.py:702-704` |
| `orchestration.py:1005`: a failure reported for a superseded execution is taken while the task is queued again | `ORCHESTRATION.md:80-81` |
| `orchestration.py:952`, `:1006`: a report with an empty execution id is taken for any execution and becomes the id of the task | `ORCHESTRATION.md:76-77`, `:80-81` |
| `orchestration.py:1160`: the dependents of a cancelled task stay open | `orchestration.py:1154` |
| `orchestration.py:1273`: recovery and gates take a workflow out of pause | `ORCHESTRATION.md:26` |
| `orchestration.py:667`: tasks can be added to a completed workflow | `ORCHESTRATION.md:28` |
| `orchestration.py:1237`: `recover` queues failed tasks too | `ORCHESTRATION.md:41` |
| `orchestration.py:590`: `expected_base` is compared when the record is loaded, not when it is written | `ORCHESTRATION.md:74-75` |
| `company_f.py:1000`: assigning an agent takes an order out of conflict without a human | `PILOT.md:45` |
| `company_f.py:614-618`: a conflicting decision leaves planned and gated orders alone | `COORDINATION_CONTRACT.md:61` |
| `company_f.py:652`: after a restart, or when the first GO created no order, no decision conflicts | `COORDINATION_CONTRACT.md:98-100` |
| `company_f.py:1356`: `deployment_gate` lets an order that needs no approval pass although deployment requires a human | `PILOT.md:49-50`, `company_f.py:1407-1411` |
| `company_f.py:1368`: neither that gate nor `release` asks for rollback readiness | `COORDINATION_CONTRACT.md:60` |
| `company_f.py:990`: assignment does not ask for the approval, and changes the owner before it refuses | `COORDINATION_CONTRACT.md:93-94`, `:64-65` |
| `company_f.py:1756`: two threads that save share a temporary file, and the older snapshot may win | `company_f.py:424-427`, `:1750` |

Of the components added later, those with a statement to compare with:

| code | statement |
| --- | --- |
| `workflow.py:471`: a checkpoint that is a duplicate, or refused as stale, has already revoked the pending handoff and left the workflow in `working` | `workflow.py:462-463` |
| `sync.py:1430`: items applied before one is refused stay in the store and in the file | `sync.py:7-8` (rollback-safe atomic application) |
| `remote.py:1398`: the automatic merge is computed, reported and not stored | `remote.py:1405` |
| `messaging.py:751`: `retry_delivery` asks for a sent message and calls `retry`, which refuses one | `messaging.py:752` |
| `persistence.py:398`: a document that cannot be decoded is replaced without an archive | `persistence.py:380-383` |
| `reliability.py:1210`: an append to the recovery journal replaces the file by one record | `reliability.py:1191` |

And what a reader of the models may not expect of the code. No property says
otherwise:

- Messages: an expired message that is retried expires again, its age counts from
  its creation (`messaging.py:244`); a message that was delivered once is never
  found stuck again (`messaging.py:1221`).
- Synchronization: `flush_offline` takes the queue before it authenticates, and
  applies none of the queued items (`sync.py:1714`); two devices with the default
  session id both get a lock (`sync.py:1331`); `restore_snapshot` keeps the ids
  applied since (`sync.py:1837`), so that they are refused; `device_recovery`
  lets a revoked device in again (`sync.py:1789`); `selective_sync` calls a
  session complete that applied nothing (`sync.py:1641`).
- Conflicts: the local automatic merge stores the caller's copy, which may be
  older than a human's decision (`sync.py:932`): `DecisionStands` excepts it.
- Queue: an enqueue whose append raises leaves its message in memory and the
  pending list over its limit until the next enqueue (`reliability.py:552-556`).
- Delegation: an approved task without an agent is gated again by `route`; a
  timeout fails a task that has succeeded (`delegation.py:949`); a success resets
  dependents in any state (`delegation.py:983`); an execution id need not be new;
  failure reaches one level of dependents.
- Remote: a request id is used up by a call that is refused or fails
  (`remote.py:800`); `execute` writes back the copy of the endpoint it started
  with, which undoes a rotation and brings back an endpoint that was removed
  (`remote.py:1139`).
- Workflow engine: nodes of cancelled, paused or timed-out executions can be
  completed (`workflow_engine.py:1177`), finished ones failed (`:1228`); `execute_node` does not
  ask for the dependencies (`:1128`); an approval without a node id leaves the
  node waiting (`:1302`); a restored execution has no start time, and its timeout
  raises (`:1018`).
- Registry: `detect_stale` after a write that raised finds nothing new and does
  not write again (`registry.py:438`).
- Policy and tools: registering a subject again clears its revocation; a
  destructive action turns the denial of its gate into a request for approval
  (`policy_engine.py:518`); a grant is never used up; the policy is asked
  about `path` or `resource` or `host` (`tool_registry.py:324`), while the gate reads
  and writes `path` or `host` (`:593`) and asks for the network by `host` alone
  (`:605`), so a call that names two things may act on the one nobody approved:
  `EffectIsApproved` then speaks of subject and action only; the sandbox gate reads or
  writes the file before the arguments are checked, and the tool does so again
  (`tool_registry.py:592`).
- Documents: two writers that interleave lose changelog entries; `HandoffWriter`
  archives nothing.
- Telemetry: a trace is complete as soon as one of its spans has ended.
- Backups: two sources with one base name share a copy; `restore` does not verify.

## 6. Plan

Done: every component with state of its own that other components rely on, each
with its safety proved.

Not modelled, and why:

- `RecoveryJournal`: its file holds one record; there is no log to specify.
- `FailureDiagnostics`, audit, the reports of telemetry: nothing reads them back
  to decide anything.
- Protocol, conformance, interop, security: functions of one input.
- Git, handoff documents, CLI, adapters, MCP server, providers, ops,
  certification, pilot, integration: parsing, rendering, subprocesses and calls
  of the components above.

Left:

1. The leader lease of `ReliabilityEngine` over `LeaseManager`; versions and
   cursors of the synchronization; branches and variables of the workflow engine.
2. What the model leaves to several processes: leases and documents are proved
   for one manager and one writer, because the code loses updates otherwise. An
   invariant of what two managers still keep (each one's memory backs what it
   granted) would say how far the loss goes.
