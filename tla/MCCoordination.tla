--------------------------- MODULE MCCoordination ----------------------------
(* Bounded instances of the components that know agents, devices and       *)
(* remote endpoints: a behaviour is one of AgentRegistry, of               *)
(* SyncCoordinator or of RemoteHandoff.  They have names of variables in   *)
(* common; those a part does not have keep the value Unused.               *)
EXTENDS Naturals, Sequences

CONSTANTS
    Unused,
    Agents, Unknown, MaxBeats, MaxOperations,
    Devices, SyncIds, Owner, Items, Default, Nothing, MaxQueue, MaxFaults,
    Endpoints, Requests, Callers, Credentials, First, NoCall, MaxRetries, MaxLives

VARIABLES
    part, mem, disk, faults,
    backups, beats, lapsed, operations, heard,
    devMem, devDisk, run, trust, snapshot, restored,
    seen, call, usable, effects, lives

\* Every id is asked for by the same device.
OneOwner == [x \in SyncIds |-> CHOOSE d \in Devices : TRUE]

A == INSTANCE AgentRegistry
S == INSTANCE SyncCoordinator
R == INSTANCE RemoteHandoff

ASSUME RegistryAssumption == A!BoundsAssumption
ASSUME SyncAssumption == S!KeysAssumption
ASSUME RemoteAssumption == R!RetriesAssumption

registryVars == <<backups, beats, lapsed, operations, heard>>
syncVars == <<devMem, devDisk, run, trust, snapshot, restored>>
remoteVars == <<seen, call, usable, effects, lives>>
allVars == <<part, mem, disk, faults, registryVars, syncVars, remoteVars>>

NoRegistry ==
    /\ backups = Unused /\ beats = Unused /\ lapsed = Unused
    /\ operations = Unused /\ heard = Unused
NoSync ==
    /\ devMem = Unused /\ devDisk = Unused /\ run = Unused
    /\ trust = Unused /\ snapshot = Unused /\ restored = Unused
NoRemote ==
    /\ seen = Unused /\ call = Unused /\ usable = Unused
    /\ effects = Unused /\ lives = Unused

Init ==
    \/ part = "registry" /\ A!Init /\ NoSync /\ NoRemote
    \/ part = "sync" /\ S!Init /\ NoRegistry /\ NoRemote
    \/ part = "remote" /\ R!Init /\ NoRegistry /\ NoSync /\ faults = Unused

SyncStep(Action) == part = "sync" /\ Action /\ UNCHANGED <<part, registryVars, remoteVars>>

Next ==
    \/ part = "registry" /\ A!Next /\ UNCHANGED <<part, syncVars, remoteVars>>
    \/ SyncStep(S!Next)
    \/ part = "remote" /\ R!Next /\ UNCHANGED <<part, faults, registryVars, syncVars>>

(* the fairness of SyncCoordinator *)
Spec ==
    /\ Init /\ [][Next]_allVars
    /\ WF_allVars(SyncStep(S!Step))
    /\ \A d \in Devices : WF_allVars(SyncStep(S!Register(d)))
    /\ \A k \in S!Keys : WF_allVars(SyncStep(S!Lapse(k)))
    /\ \A x \in SyncIds : SF_allVars(SyncStep(S!Synchronize(x, "ok")))

-----------------------------------------------------------------------------
\* The invariants and the liveness of the three modules, where they are stated
\* and explained; each is checked together with its module's types.
ProbationHolds == part = "registry" => A!TypeOK /\ A!ProbationHolds

\* See SyncCoordinator: what counts as applied is wholly in the store.
AppliedIsWhole == part = "sync" => S!TypeOK /\ S!AppliedIsWhole

\* See SyncCoordinator: two devices do not both rely on the default lock.
OneLockHolder == part = "sync" => S!OneLockHolder

\* See SyncCoordinator: what a device keeps asking for is applied.
EventuallySynced ==
    \A x \in SyncIds :
        <>[](part = "sync" /\ devMem[Owner[x]] = "active")
            => <>[](part = "sync" /\ x \in mem.applied)

\* See RemoteHandoff: a request is carried out a bounded number of times.
BoundedEffects == part = "remote" => R!TypeOK /\ R!BoundedEffects
=============================================================================
