---------------------------- MODULE MCPrimitives -----------------------------
(* Bounded instances of seven small components that share nothing: a       *)
(* behaviour is one of LeaseManager, CircuitBreaker, CheckpointStore and   *)
(* BackupManager (reliability.py), HandoffDocument (persistence.py),       *)
(* ConflictManager (sync.py, remote.py) or Telemetry; the others stay as   *)
(* they are initially.                                                     *)
EXTENDS LeaseManager

CONSTANTS
    k1, k2, h1, h2, p1,
    Callers, FailureThreshold, HalfOpenAllowance, MaxFailures,
    Missing, Corrupt, MaxRevisions, MaxCorruptions,
    Writers, Texts, Secret, Blank, Unreadable, Absent, MaxWrites,
    Conflicts, NoConflict, MaxDetections, MaxBroken,
    NTraces, Sampled, MaxTraces, MaxEvents, MaxSampledEvents, NoSpan, NoTrace,
    MaxSpans, MaxSecond,
    Files, Snapshots, Nothing, Partial, MaxRevision, MaxBreaks

TwoKeys == {k1, k2}
TwoHolders == {h1, h2}
OneProc == {p1}

VARIABLES
    part,
    state, failures, probes, elapsed, running, failed,
    target, backup, saving, started, saved, previous, corruptions,
    document, changelog, writing, writes, replaced,
    kind, conflicts, recorded, copies, detected, broken, decided,
    enabled, sampling, spans, traces, events, made, second, sinceFailure,
    source, revision, copied, manifest, call, into, breaks, seen, damaged, restored

B == INSTANCE CircuitBreaker
C == INSTANCE CheckpointStore
D == INSTANCE HandoffDocument
M == INSTANCE ConflictManager
T == INSTANCE Telemetry
S == INSTANCE BackupManager WITH copies <- copied

ASSUME BreakerAssumption == B!ThresholdAssumption
ASSUME CheckpointAssumption == C!FileAssumption
ASSUME ConflictAssumption == M!BoundAssumption
ASSUME DocumentAssumption == D!WritesAssumption
ASSUME TelemetryAssumption == T!RetentionAssumption
ASSUME BackupAssumption == S!SnapshotAssumption

PartsInit ==
    /\ part \in {"lease", "breaker", "checkpoint", "document", "conflicts", "telemetry",
                "backup"}
    /\ Init /\ B!Init /\ C!Init /\ D!Init /\ S!Init
    /\ IF part = "conflicts" THEN M!Init ELSE M!Init /\ kind = "sync"
    /\ IF part = "telemetry" THEN T!Init ELSE T!Init /\ ~sampling

breakerVars == <<state, failures, probes, elapsed, running, failed>>
checkpointVars == <<target, backup, saving, started, saved, previous, corruptions>>
documentVars == <<document, changelog, writing, writes, replaced>>
conflictVars == <<kind, conflicts, recorded, copies, detected, broken, decided>>
telemetryVars == <<enabled, sampling, spans, traces, events, made, second, sinceFailure>>
backupVars ==
    <<source, revision, copied, manifest, call, into, breaks, seen, damaged, restored>>
reliabilityVars == <<vars, breakerVars, checkpointVars>>
otherVars == <<documentVars, conflictVars, telemetryVars, backupVars>>
allVars == <<part, reliabilityVars, otherVars>>

BreakerStep(A) ==
    part = "breaker" /\ A /\ UNCHANGED <<part, vars, checkpointVars, otherVars>>

PartsNext ==
    \/ part = "lease" /\ Next /\ UNCHANGED <<part, breakerVars, checkpointVars, otherVars>>
    \/ BreakerStep(B!Next)
    \/ part = "checkpoint" /\ C!Next /\ UNCHANGED <<part, vars, breakerVars, otherVars>>
    \/ part = "document" /\ D!Next
       /\ UNCHANGED <<part, reliabilityVars, conflictVars, telemetryVars, backupVars>>
    \/ part = "conflicts" /\ M!Next
       /\ UNCHANGED <<part, reliabilityVars, documentVars, telemetryVars, backupVars>>
    \/ part = "telemetry" /\ T!Next
       /\ UNCHANGED <<part, reliabilityVars, documentVars, conflictVars, backupVars>>
    \/ part = "backup" /\ S!Next
       /\ UNCHANGED <<part, reliabilityVars, documentVars, conflictVars, telemetryVars>>

(* the fairness of CircuitBreaker's FairSpec *)
PartsSpec ==
    /\ PartsInit /\ [][PartsNext]_allVars
    /\ WF_allVars(BreakerStep(B!TimeoutPasses))
    /\ \A c \in Callers :
          WF_allVars(BreakerStep(B!Admit(c))) /\ SF_allVars(BreakerStep(B!Succeed(c)))

\* See the modules: the breaker is closed in the end, and at any time closed below
\* its threshold and with a probe left half open.
EventuallyCloses == B!EventuallyCloses /\ [](B!BreakerConsistent /\ B!TypeOK)

\* A restore returns the last completed save, or, with damaged files, the one
\* it replaced.
RestoresLastSave == C!RestoresLastSave /\ C!FallbackIsPrevious /\ C!TypeOK

\* A checkpoint document that was replaced is in the changelog, in order.
ReplacedIsArchived == D!ReplacedIsArchived /\ D!TypeOK

\* What a human decided about a conflict stands until the next conflict, or until
\* the sync manager stores an automatic merge over it.
DecisionStands == M!DecisionStands /\ M!TypeOK

\* Telemetry keeps what its limits and its sampler let it keep, consistently.
RetentionSound == T!RetentionSound /\ T!TypeOK

\* A listed, undamaged snapshot verifies, and is restored as it was taken.
SnapshotsRestore == S!SnapshotsRestore /\ S!TypeOK
=============================================================================
