-------------------------- MODULE CoordinationProofs --------------------------
(***************************************************************************)
(* Proofs about the components that MCCoordination brings together, one    *)
(* section each, for every value of the constants that satisfies the       *)
(* assumptions.  A component's invariant is proved of its own steps, and   *)
(* the last section draws from it what the run of MCCoordination checks.   *)
(***************************************************************************)
EXTENDS MCCoordination, TLAPS

-----------------------------------------------------------------------------
(* AgentRegistry.  The probation of an agent is kept by each image that a   *)
(* load can bring back, the file's too.  It is stronger than what the run   *)
(* checks: an agent that was not heard of is "unavailable", and not merely  *)
(* not offered; an "offline" one would be online after one heartbeat.       *)

\* What record an agent may have that was heard of n times since its report.
OnProbation(n, record) ==
    /\ n = 0 => record.st = "unavailable"
    /\ n = 1 => record.st \in {"unavailable", "degraded"}

Probation(registry) ==
    \A a \in Agents : registry[a] # Unknown => OnProbation(heard[a], registry[a])

RegistryInv ==
    /\ A!TypeOK
    /\ Probation(mem)
    /\ disk # Unknown => Probation(disk)

LEMMA RegistryTypes ==
    ASSUME A!TypeOK
    PROVE  /\ mem \in A!Registries /\ disk \in A!Registries \union {Unknown}
           /\ backups \in A!Registries \union {Unknown}
           /\ heard \in [Agents -> 0..2]
           /\ beats \in [Agents -> 0..MaxBeats] /\ lapsed \in [Agents -> 0..MaxBeats]
  BY DEF A!TypeOK

\* Save, when what is stored keeps to the new probation and the file does, too.
LEMMA RegistrySave ==
    ASSUME A!BoundsAssumption, RegistryInv, NEW registry \in A!Registries, NEW ok \in BOOLEAN,
           A!Save(registry, ok),
           backups' \in A!Registries \union {Unknown},
           beats' \in [Agents -> 0..MaxBeats], lapsed' = lapsed,
           operations' \in 0..MaxOperations, heard' \in [Agents -> 0..2],
           \A a \in Agents : registry[a] # Unknown => OnProbation(heard'[a], registry[a]),
           ok \/ disk = Unknown
              \/ \A a \in Agents : disk[a] # Unknown => OnProbation(heard'[a], disk[a])
    PROVE  RegistryInv'
<1>1. /\ mem' = registry /\ disk' = IF ok THEN registry ELSE disk
      /\ faults' \in 0..MaxFaults
  BY DEF A!Save, A!BoundsAssumption, RegistryInv, A!TypeOK
<1>2. A!TypeOK'
  BY <1>1 DEF RegistryInv, A!TypeOK
<1>3. Probation(mem)' /\ (disk' # Unknown => Probation(disk)')
  BY <1>1 DEF Probation, OnProbation
<1>. QED
  BY <1>2, <1>3 DEF RegistryInv

\* Save of an operator's decision about agent a.
LEMMA DecisionSave ==
    ASSUME A!BoundsAssumption, RegistryInv, NEW a \in Agents, NEW ok \in BOOLEAN,
           NEW record \in A!AgentRecord \union {Unknown},
           A!Save([mem EXCEPT ![a] = record], ok), A!Operator,
           heard' = [heard EXCEPT ![a] = 2], UNCHANGED backups
    PROVE  RegistryInv'
<1> DEFINE registry == [mem EXCEPT ![a] = record]
<1>1. operations' \in 0..MaxOperations /\ beats' = beats /\ lapsed' = lapsed
  BY DEF A!Operator, A!time, A!BoundsAssumption, RegistryInv, A!TypeOK
<1>2. /\ registry \in A!Registries
      /\ \A b \in Agents : registry[b] = IF b = a THEN record ELSE mem[b]
  <2> DEFINE records == A!AgentRecord \union {Unknown}
  <2>1. mem \in [Agents -> records] /\ record \in records
    BY RegistryTypes DEF RegistryInv, A!Registries
  <2>. HIDE DEF records
  <2>2. registry \in [Agents -> records]
        /\ \A b \in Agents : registry[b] = IF b = a THEN record ELSE mem[b]
    BY <2>1
  <2>. QED
    BY <2>2 DEF records, A!Registries
<1>3. /\ heard' \in [Agents -> 0..2] /\ heard'[a] = 2
      /\ \A b \in Agents \ {a} : heard'[b] = heard[b]
  BY RegistryTypes DEF RegistryInv
<1>. HIDE DEF registry
<1>4. \A b \in Agents : registry[b] # Unknown => OnProbation(heard'[b], registry[b])
  BY <1>2, <1>3 DEF RegistryInv, Probation, OnProbation
<1>5. disk # Unknown => \A b \in Agents : disk[b] # Unknown => OnProbation(heard'[b], disk[b])
  BY <1>3 DEF RegistryInv, Probation, OnProbation
<1>6. A!Save(registry, ok)
  BY DEF registry
<1>7. beats' \in [Agents -> 0..MaxBeats] /\ backups' \in A!Registries \union {Unknown}
  BY <1>1, RegistryTypes DEF RegistryInv
<1>. QED
  BY <1>1, <1>2, <1>3, <1>4, <1>5, <1>6, <1>7, RegistrySave

LEMMA RegisterKeeps ==
    ASSUME A!BoundsAssumption, RegistryInv, NEW a \in Agents, NEW ok \in BOOLEAN,
           \/ A!Unregister(a, ok)
           \/ \E st \in A!AvailabilityStatus : A!Register(a, st, ok) \/ A!SetStatus(a, st, ok)
    PROVE  RegistryInv'
<1>1. CASE A!Unregister(a, ok)
  <2>1. Unknown \in A!AgentRecord \union {Unknown}
    OBVIOUS
  <2>. QED
    BY <1>1, <2>1, DecisionSave DEF A!Unregister
<1>2. ASSUME NEW st \in A!AvailabilityStatus, A!Register(a, st, ok) PROVE RegistryInv'
  <2>1. [st |-> st, beat |-> 0] \in A!AgentRecord \union {Unknown}
    BY DEF A!AgentRecord, A!BoundsAssumption
  <2>. QED
    BY <1>2, <2>1, DecisionSave DEF A!Register
<1>3. ASSUME NEW st \in A!AvailabilityStatus, A!SetStatus(a, st, ok) PROVE RegistryInv'
  <2>1. mem[a] \in A!AgentRecord /\ mem \in [Agents -> A!AgentRecord \union {Unknown}]
    BY <1>3, RegistryTypes DEF A!SetStatus, A!Known, RegistryInv, A!Registries
  <2>2. [mem[a] EXCEPT !.st = st] \in A!AgentRecord \union {Unknown}
    BY <2>1 DEF A!AgentRecord
  <2>3. [mem EXCEPT ![a].st = st] = [mem EXCEPT ![a] = [mem[a] EXCEPT !.st = st]]
    BY <2>1
  <2>4. A!Save([mem EXCEPT ![a] = [mem[a] EXCEPT !.st = st]], ok)
    BY <1>3, <2>3 DEF A!SetStatus
  <2>. QED
    BY <1>3, <2>2, <2>4, DecisionSave DEF A!SetStatus
<1>. QED
  BY <1>1, <1>2, <1>3

LEMMA HeartbeatKeeps ==
    ASSUME A!BoundsAssumption, RegistryInv, NEW a \in Agents, NEW ok \in BOOLEAN,
           A!Heartbeat(a, ok)
    PROVE  RegistryInv'
<1> DEFINE record == A!Beaten(mem[a], beats'[a])
           registry == [mem EXCEPT ![a] = record]
<1>1. /\ mem[a] # Unknown /\ beats[a] < MaxBeats
      /\ beats' = [beats EXCEPT ![a] = @ + 1]
      /\ A!Save(registry, ok)
      /\ heard' = [heard EXCEPT ![a] = IF @ < 2 THEN @ + 1 ELSE 2]
      /\ backups' = backups /\ lapsed' = lapsed /\ operations' = operations
  BY DEF A!Heartbeat, A!Known
<1>2. /\ mem \in [Agents -> A!AgentRecord \union {Unknown}]
      /\ heard \in [Agents -> 0..2] /\ beats \in [Agents -> 0..MaxBeats]
      /\ operations \in 0..MaxOperations
  BY DEF RegistryInv, A!TypeOK, A!Registries
<1>3. beats' \in [Agents -> 0..MaxBeats] /\ beats'[a] \in 0..MaxBeats
  BY <1>1, <1>2 DEF A!BoundsAssumption
<1>4. mem[a] \in A!AgentRecord
  BY <1>1, <1>2
<1>5. /\ record \in A!AgentRecord
      /\ record.st = IF mem[a].st = "unavailable" THEN "degraded" ELSE "online"
  BY <1>3, <1>4 DEF A!Beaten, A!AgentRecord, A!AvailabilityStatus
<1>6. /\ heard' \in [Agents -> 0..2]
      /\ heard'[a] = IF heard[a] < 2 THEN heard[a] + 1 ELSE 2
      /\ \A b \in Agents \ {a} : heard'[b] = heard[b]
  BY <1>1, <1>2
<1>. HIDE DEF record
<1>7. /\ registry \in A!Registries
      /\ \A b \in Agents : registry[b] = IF b = a THEN record ELSE mem[b]
  <2> DEFINE records == A!AgentRecord \union {Unknown}
  <2>1. mem \in [Agents -> records] /\ record \in records
    BY <1>2, <1>5
  <2>. HIDE DEF records
  <2>2. registry \in [Agents -> records]
        /\ \A b \in Agents : registry[b] = IF b = a THEN record ELSE mem[b]
    BY <2>1
  <2>. QED
    BY <2>2 DEF records, A!Registries
<1>. HIDE DEF registry
<1>8. heard[a] \in {0, 1, 2}
  BY <1>2
<1>9. OnProbation(heard'[a], record)
  <2>1. CASE heard[a] = 0
    <3>1. mem[a].st = "unavailable" /\ heard'[a] = 1
      BY <1>1, <1>6, <2>1 DEF RegistryInv, Probation, OnProbation
    <3>. QED
      BY <1>5, <3>1 DEF OnProbation
  <2>2. CASE heard[a] # 0
    <3>1. heard'[a] = 2
      BY <1>6, <1>8, <2>2
    <3>. QED
      BY <3>1 DEF OnProbation
  <2>. QED
    BY <2>1, <2>2
<1>10. \A b \in Agents : registry[b] # Unknown => OnProbation(heard'[b], registry[b])
  BY <1>6, <1>7, <1>9 DEF RegistryInv, Probation
<1>11. disk # Unknown => \A b \in Agents : disk[b] # Unknown => OnProbation(heard'[b], disk[b])
  BY <1>6, <1>8 DEF RegistryInv, Probation, OnProbation
<1>12. A!Save(registry, ok) /\ backups' \in A!Registries \union {Unknown}
  BY <1>1, RegistryTypes DEF RegistryInv, registry
<1>. QED
  BY <1>1, <1>2, <1>3, <1>6, <1>7, <1>10, <1>11, <1>12, RegistrySave

\* detect_stale over an image that keeps the probation: what it reports is as an
\* agent must be that was just reported.
LEMMA SweptKeeps ==
    ASSUME A!BoundsAssumption, RegistryInv, NEW registry \in A!Registries, NEW ok \in BOOLEAN,
           Probation(registry), A!Swept(registry, ok),
           UNCHANGED <<backups, A!time, operations>>
    PROVE  RegistryInv'
<1> DEFINE overdue == A!Overdue(registry)
           swept == [a \in Agents |-> IF a \in overdue
                                      THEN [registry[a] EXCEPT !.st = "unavailable"]
                                      ELSE registry[a]]
<1>1. /\ A!Save(swept, ok)
      /\ heard' = [a \in Agents |-> IF ok /\ a \in overdue THEN 0 ELSE heard[a]]
  BY DEF A!Swept
<1>2. registry \in [Agents -> A!AgentRecord \union {Unknown}] /\ heard \in [Agents -> 0..2]
  BY RegistryTypes DEF RegistryInv, A!Registries
<1>3. \A a \in overdue : a \in Agents /\ registry[a] \in A!AgentRecord
  BY <1>2 DEF A!Overdue, A!Stale
<1>. HIDE DEF overdue
<1>4. \A a \in overdue : /\ [registry[a] EXCEPT !.st = "unavailable"] \in A!AgentRecord
                         /\ [registry[a] EXCEPT !.st = "unavailable"].st = "unavailable"
  BY <1>3 DEF A!AgentRecord, A!AvailabilityStatus
<1>5. swept \in [Agents -> A!AgentRecord \union {Unknown}]
  BY <1>2, <1>4
<1>6. /\ heard' \in [Agents -> 0..2]
      /\ \A a \in Agents : heard'[a] = IF ok /\ a \in overdue THEN 0 ELSE heard[a]
  BY <1>1, <1>2
<1>7. \A a \in Agents : swept[a] # Unknown => OnProbation(heard'[a], swept[a])
  <2>1. ASSUME NEW a \in Agents, swept[a] # Unknown PROVE OnProbation(heard'[a], swept[a])
    <3>1. CASE a \in overdue
      BY <1>4, <3>1 DEF OnProbation
    <3>2. CASE a \notin overdue
      BY <1>6, <2>1, <3>2 DEF Probation
    <3>. QED
      BY <3>1, <3>2
  <2>. QED
    BY <2>1
<1>. HIDE DEF swept
<1>8. ok \/ disk = Unknown
         \/ \A a \in Agents : disk[a] # Unknown => OnProbation(heard'[a], disk[a])
  BY <1>6 DEF RegistryInv, Probation
<1>9. /\ backups' \in A!Registries \union {Unknown} /\ beats' \in [Agents -> 0..MaxBeats]
      /\ lapsed' = lapsed /\ operations' \in 0..MaxOperations
      /\ swept \in A!Registries
  BY <1>5 DEF RegistryInv, A!TypeOK, A!time, A!Registries
<1>. QED
  BY <1>1, <1>6, <1>7, <1>8, <1>9, RegistrySave

LEMMA LoadedOnProbation ==
    ASSUME RegistryInv, NEW registry \in A!Registries, Probation(registry)
    PROVE  A!Loaded(registry) \in A!Registries /\ Probation(A!Loaded(registry))
  BY RegistryTypes DEF RegistryInv, A!Loaded

LEMMA RecoveryKeeps ==
    ASSUME A!BoundsAssumption, RegistryInv, NEW ok \in BOOLEAN,
           A!DetectStale(ok) \/ A!Recover(ok)
    PROVE  RegistryInv'
<1>1. mem \in A!Registries /\ Probation(mem)
  BY RegistryTypes DEF RegistryInv
<1>2. CASE A!DetectStale(ok)
  BY <1>1, <1>2, SweptKeeps DEF A!DetectStale
<1>3. CASE A!Recover(ok)
  <2>1. A!Loaded(mem) \in A!Registries /\ Probation(A!Loaded(mem))
    BY <1>1, LoadedOnProbation
  <2>2. CASE A!Overdue(A!Loaded(mem)) = {}
    <3>1. mem' = A!Loaded(mem) /\ UNCHANGED <<disk, faults, heard, backups, A!time, operations>>
      BY <1>3, <2>2 DEF A!Recover
    <3>2. A!TypeOK'
      BY <2>1, <3>1 DEF RegistryInv, A!TypeOK, A!time
    <3>. QED
      BY <2>1, <3>1, <3>2 DEF RegistryInv, Probation
  <2>3. CASE A!Overdue(A!Loaded(mem)) # {}
    BY <1>3, <2>1, <2>3, SweptKeeps DEF A!Recover
  <2>. QED
    BY <2>2, <2>3
<1>. QED
  BY <1>2, <1>3

LEMMA BackupKeeps ==
    ASSUME A!BoundsAssumption, RegistryInv, NEW ok \in BOOLEAN,
           A!Restore(ok) \/ \E chosen \in BOOLEAN : A!Backup(ok, chosen)
    PROVE  RegistryInv'
<1>1. /\ operations' \in 0..MaxOperations /\ lapsed' = lapsed
      /\ beats' \in [Agents -> 0..MaxBeats]
  BY DEF A!Restore, A!Backup, A!Operator, A!time, A!BoundsAssumption, RegistryInv, A!TypeOK
<1>2. CASE A!Restore(ok)
  <2>1. /\ backups \in A!Registries /\ A!Save(backups, ok) /\ backups' = backups
        /\ heard' = [a \in Agents |-> 2]
    BY <1>2, RegistryTypes DEF A!Restore, RegistryInv
  <2>2. heard' \in [Agents -> 0..2] /\ \A a \in Agents : heard'[a] = 2
    BY <2>1
  <2>3. \A a \in Agents : \A record : OnProbation(heard'[a], record)
    BY <2>2 DEF OnProbation
  <2>. QED
    BY <1>1, <2>1, <2>2, <2>3, RegistrySave
<1>3. CASE \E chosen \in BOOLEAN : A!Backup(ok, chosen)
  <2>1. /\ A!Save(mem, ok) /\ heard' = heard
        /\ mem \in A!Registries /\ backups' \in A!Registries \union {Unknown}
        /\ heard \in [Agents -> 0..2]
    BY <1>3, RegistryTypes DEF A!Backup, RegistryInv
  <2>2. /\ \A a \in Agents : mem[a] # Unknown => OnProbation(heard'[a], mem[a])
        /\ disk = Unknown \/ \A a \in Agents : disk[a] # Unknown => OnProbation(heard'[a], disk[a])
    BY <2>1 DEF RegistryInv, Probation
  <2>. QED
    BY <1>1, <2>1, <2>2, RegistrySave
<1>. QED
  BY <1>2, <1>3

LEMMA RegistryCrashKeeps ==
    ASSUME A!BoundsAssumption, RegistryInv, A!Crash PROVE RegistryInv'
<1>1. /\ mem' = A!Loaded(A!Nobody)
      /\ UNCHANGED <<disk, backups, beats, lapsed, operations, heard>>
      /\ faults' \in 0..MaxFaults
  BY DEF A!Crash, A!time, A!BoundsAssumption, RegistryInv, A!TypeOK
<1>2. A!Nobody \in A!Registries /\ Probation(A!Nobody)
  BY DEF A!Nobody, A!Registries, Probation
<1>3. mem' \in A!Registries /\ Probation(A!Loaded(A!Nobody))
  BY <1>1, <1>2, LoadedOnProbation
<1>4. A!TypeOK'
  BY <1>1, <1>3 DEF RegistryInv, A!TypeOK
<1>. QED
  BY <1>1, <1>3, <1>4 DEF RegistryInv, Probation

LEMMA RegistryInit == ASSUME A!BoundsAssumption, A!Init PROVE RegistryInv
<1>1. A!Nobody \in A!Registries /\ \A a \in Agents : A!Nobody[a] = Unknown
  BY DEF A!Nobody, A!Registries
<1>2. A!TypeOK
  BY <1>1 DEF A!Init, A!TypeOK, A!BoundsAssumption
<1>. QED
  BY <1>1, <1>2 DEF A!Init, RegistryInv, Probation

LEMMA RegistryStep ==
    ASSUME A!BoundsAssumption, RegistryInv, [A!Next]_(A!vars) PROVE RegistryInv'
<1>1. CASE UNCHANGED A!vars
  BY <1>1 DEF A!vars, RegistryInv, A!TypeOK, Probation
<1>2. CASE A!Crash
  BY <1>2, RegistryCrashKeeps
<1>3. ASSUME NEW a \in Agents, NEW n \in 1..MaxBeats, A!Lapse(a, n) PROVE RegistryInv'
  <2>1. /\ lapsed' = [lapsed EXCEPT ![a] = n] /\ n \in 0..MaxBeats
        /\ UNCHANGED <<mem, disk, backups, beats, operations, faults, heard>>
    BY <1>3 DEF A!Lapse, A!BoundsAssumption
  <2>2. lapsed' \in [Agents -> 0..MaxBeats]
    BY <2>1 DEF RegistryInv, A!TypeOK
  <2>. QED
    BY <2>1, <2>2 DEF RegistryInv, A!TypeOK, Probation
<1>4. ASSUME NEW ok \in BOOLEAN,
             \/ A!DetectStale(ok) \/ A!Recover(ok) \/ A!Restore(ok)
             \/ \E chosen \in BOOLEAN : A!Backup(ok, chosen)
             \/ \E a \in Agents :
                   \/ A!Heartbeat(a, ok) \/ A!Unregister(a, ok)
                   \/ \E st \in A!AvailabilityStatus :
                         A!Register(a, st, ok) \/ A!SetStatus(a, st, ok)
      PROVE  RegistryInv'
  BY <1>4, RecoveryKeeps, BackupKeeps, HeartbeatKeeps, RegisterKeeps
<1>. QED
  BY <1>1, <1>2, <1>3, <1>4 DEF A!Next

LEMMA ProbationEnds == ASSUME RegistryInv PROVE A!ProbationHolds
<1>1. ASSUME NEW a \in Agents
      PROVE  /\ heard[a] = 0 => ~A!Offered(a)
             /\ heard[a] <= 1 => ~A!Healthy(a)
  <2>1. heard[a] \in {0, 1, 2}
    BY RegistryTypes DEF RegistryInv
  <2>. QED
    BY <2>1
    DEF RegistryInv, Probation, OnProbation, A!Offered, A!Healthy, A!Known
<1>. QED
  BY <1>1 DEF A!ProbationHolds
-----------------------------------------------------------------------------
(* SyncCoordinator.  Every image, in memory and in the file, keeps three    *)
(* promises: whoever relies on the default lock holds it, alive; as long as *)
(* no backup was restored, an item was written by a synchronization of its  *)
(* device; and then what counts as applied is whole.  A call that has not   *)
(* applied its items yet is not recorded as applied.                        *)

Relied(image) ==
    \A d \in trust : image.locks[Default] = [holder |-> d, live |-> TRUE]

OwnItems(image) ==
    \A d \in Devices, i \in Items :
        image.store[d][i] = Nothing \/ Owner[image.store[d][i]] = d

Sound(image) == Relied(image) /\ (~restored => OwnItems(image) /\ S!Whole(image))

NotYetApplied ==
    run # Nothing => /\ run.at \in {"lock", "apply"} => run.id \notin mem.applied
                     /\ run.at = "next" => run.rest \in Seq(SyncIds)

SyncInv == S!TypeOK /\ Sound(mem) /\ Sound(disk) /\ NotYetApplied

LEMMA SyncTypes ==
    ASSUME S!KeysAssumption, S!TypeOK
    PROVE  /\ mem \in S!Images /\ disk \in S!Images
           /\ run # Nothing =>
                 /\ run \in S!Runs /\ run.id \in SyncIds /\ Owner[run.id] \in Devices
                 /\ run.rest # Nothing => run.rest \in Seq(SyncIds)
           /\ \A d \in Devices : d # Default /\ d \in S!Keys
           /\ Default \in S!Keys
           /\ \A x \in SyncIds : Owner[x] \in Devices /\ x # Nothing
           /\ \A d \in Devices, live \in BOOLEAN :
                 /\ [holder |-> d, live |-> live] \in S!Locks
                 /\ [holder |-> d, live |-> live] # Nothing
  BY DEF S!TypeOK, S!Runs, S!KeysAssumption, S!Keys, S!Locks

LEMMA ImageParts ==
    ASSUME NEW image \in S!Images
    PROVE  /\ image.open \in SUBSET SyncIds
           /\ image.locks \in [S!Keys -> S!Locks \union {Nothing}]
           /\ image.queue \in [Devices -> Seq(SyncIds)]
           /\ image.applied \in SUBSET SyncIds
           /\ image.store \in S!Stores
           /\ image = [open |-> image.open, locks |-> image.locks, queue |-> image.queue,
                       applied |-> image.applied, store |-> image.store]
  BY DEF S!Images

\* Another image with the same items applied, and the same default lock.
Same(image, new) ==
    /\ new \in S!Images
    /\ new.locks[Default] = image.locks[Default]
    /\ new.applied = image.applied /\ new.store = image.store

LEMMA SameIsSound ==
    ASSUME NEW image, NEW new, Same(image, new), Sound(image) PROVE Sound(new)
  BY DEF Same, Sound, Relied, OwnItems, S!Whole

LEMMA OpenSame ==
    ASSUME NEW image \in S!Images, NEW open \in SUBSET SyncIds
    PROVE  Same(image, [image EXCEPT !.open = open])
  BY DEF Same, S!Images

LEMMA QueueSame ==
    ASSUME NEW image \in S!Images, NEW queue \in [Devices -> Seq(SyncIds)]
    PROVE  Same(image, [image EXCEPT !.queue = queue])
  BY DEF Same, S!Images

LEMMA LockSame ==
    ASSUME S!KeysAssumption, NEW image \in S!Images, NEW d \in Devices,
           NEW lock \in S!Locks \union {Nothing}
    PROVE  Same(image, [image EXCEPT !.locks[d] = lock])
<1>1. image.locks \in [S!Keys -> S!Locks \union {Nothing}] /\ d \in S!Keys /\ d # Default
      /\ Default \in S!Keys
  BY ImageParts DEF S!Keys, S!KeysAssumption
<1> DEFINE locks == [image.locks EXCEPT ![d] = lock]
<1>2. locks \in [S!Keys -> S!Locks \union {Nothing}] /\ locks[Default] = image.locks[Default]
  BY <1>1
<1>3. [image EXCEPT !.locks[d] = lock] = [image EXCEPT !.locks = locks]
  BY DEF S!Images
<1>. HIDE DEF locks
<1>. QED
  BY <1>2, <1>3 DEF Same, S!Images

LEMMA SelfSame == ASSUME NEW image \in S!Images PROVE Same(image, image)
  BY DEF Same

\* A step of the coordinator that leaves devices relying and restored alone.
LEMMA SyncSave ==
    ASSUME S!KeysAssumption, SyncInv, NEW image \in S!Images, NEW out \in S!Outcomes,
           S!Save(image, out), Sound(image),
           devMem' \in [Devices -> S!DeviceStatus], devDisk' \in [Devices -> S!DeviceStatus],
           run' \in S!Runs \union {Nothing}, UNCHANGED S!rest,
           run' # Nothing =>
              /\ run'.at \in {"lock", "apply"} => run'.id \notin image.applied
              /\ run'.at = "next" => run'.rest \in Seq(SyncIds)
    PROVE  SyncInv'
<1>1. mem' = image /\ disk' \in {disk, image} /\ faults' \in 0..MaxFaults
  BY DEF S!Save, S!Fault, S!KeysAssumption, SyncInv, S!TypeOK
<1>2. trust' = trust /\ snapshot' = snapshot /\ restored' = restored
  BY DEF S!rest
<1>3. S!TypeOK'
  BY <1>1, <1>2 DEF SyncInv, S!TypeOK
<1>5. Sound(mem)' /\ Sound(disk)'
  BY <1>1, <1>2 DEF SyncInv, Sound, Relied, OwnItems, S!Whole
<1>6. NotYetApplied'
  BY <1>1 DEF NotYetApplied
<1>. QED
  BY <1>3, <1>5, <1>6 DEF SyncInv

\* The same, when what is stored is as sound as the memory was.
LEMMA SameSave ==
    ASSUME S!KeysAssumption, SyncInv, NEW image, Same(mem, image), NEW out \in S!Outcomes,
           S!Save(image, out),
           devMem' \in [Devices -> S!DeviceStatus], devDisk' \in [Devices -> S!DeviceStatus],
           run' \in S!Runs \union {Nothing}, UNCHANGED S!rest,
           run' # Nothing =>
              /\ run'.at \in {"lock", "apply"} => run'.id \notin mem.applied
              /\ run'.at = "next" => run'.rest \in Seq(SyncIds)
    PROVE  SyncInv'
<1>1. Sound(image) /\ image \in S!Images /\ image.applied = mem.applied
  BY SameIsSound DEF SyncInv, Same
<1>. QED
  BY <1>1, SyncSave

LEMMA DevicesKept ==
    ASSUME SyncInv, UNCHANGED S!devices
    PROVE  /\ devMem' \in [Devices -> S!DeviceStatus]
           /\ devDisk' \in [Devices -> S!DeviceStatus]
  BY DEF SyncInv, S!TypeOK, S!devices

\* The call at another step, with the same error or another.
LEMMA Moved ==
    ASSUME NEW r \in S!Runs, NEW at \in {"lock", "apply", "release", "complete", "next"}
    PROVE  LET moved == [r EXCEPT !.at = at]
           IN  moved \in S!Runs /\ moved.at = at /\ moved.id = r.id /\ moved.rest = r.rest
  BY DEF S!Runs

LEMMA MovedWith ==
    ASSUME NEW r \in S!Runs, NEW at \in {"lock", "apply", "release", "complete", "next"},
           NEW error \in {"none", "sync", "os"}
    PROVE  LET moved == [r EXCEPT !.at = at, !.error = error]
           IN  moved \in S!Runs /\ moved.at = at /\ moved.id = r.id /\ moved.rest = r.rest
  BY DEF S!Runs

LEMMA RaisedMoves ==
    ASSUME S!KeysAssumption, S!TypeOK, run # Nothing, NEW error
    PROVE  /\ S!Raised(error) \in S!Runs \union {Nothing}
           /\ S!Raised(error) # Nothing =>
                 S!Raised(error).at = "next" /\ S!Raised(error).rest \in Seq(SyncIds)
<1>1. CASE run.rest # Nothing /\ error = "sync"
  <2>1. run \in S!Runs /\ run.rest \in Seq(SyncIds)
    BY <1>1, SyncTypes
  <2>2. S!Raised(error) = [run EXCEPT !.at = "next", !.error = "none"]
    BY <1>1 DEF S!Raised
  <2> DEFINE moved == [run EXCEPT !.at = "next", !.error = "none"]
  <2>3. moved \in S!Runs /\ moved.at = "next" /\ moved.rest = run.rest
    BY <2>1, MovedWith
  <2>4. S!Raised(error) = moved
    BY <2>2
  <2>. HIDE DEF moved
  <2>. QED
    BY <2>1, <2>3, <2>4
<1>2. CASE ~(run.rest # Nothing /\ error = "sync")
  BY <1>2 DEF S!Raised
<1>. QED
  BY <1>1, <1>2

-----------------------------------------------------------------------------
(* A call of synchronize, step by step.                                     *)

LEMMA StartKeeps ==
    ASSUME S!KeysAssumption, SyncInv, NEW x \in SyncIds,
           NEW left \in Seq(SyncIds) \union {Nothing}, NEW out \in S!Outcomes,
           S!StartSession(x, left, out)
    PROVE  SyncInv'
<1> DEFINE started == [id |-> x, at |-> "lock", error |-> "none", rest |-> left]
           open == mem.open \union {x}
<1>1. /\ x \notin mem.applied /\ S!Save([mem EXCEPT !.open = open], out)
      /\ run' \in {started, Nothing} /\ UNCHANGED <<S!devices, S!rest>>
  BY DEF S!StartSession, S!Admitted
<1>2. mem \in S!Images /\ open \in SUBSET SyncIds
  BY SyncTypes, ImageParts DEF SyncInv
<1>3. started \in S!Runs /\ started.at = "lock" /\ started.id = x
  BY DEF S!Runs
<1>. HIDE DEF started, open
<1>4. Same(mem, [mem EXCEPT !.open = open])
  BY <1>2, OpenSame
<1>5. /\ run' \in S!Runs \union {Nothing}
      /\ run' # Nothing => run'.at = "lock" /\ run'.id \notin mem.applied
  BY <1>1, <1>3
<1>. QED
  BY <1>1, <1>4, <1>5, DevicesKept, SameSave

LEMMA TakeKeeps ==
    ASSUME S!KeysAssumption, SyncInv, NEW out \in S!Outcomes, S!TakeLock(out)
    PROVE  SyncInv'
<1>1. /\ run # Nothing /\ run.at = "lock" /\ UNCHANGED <<S!devices, S!rest>>
  BY DEF S!TakeLock, S!At
<1>2. /\ run \in S!Runs /\ S!Dev \in Devices /\ mem \in S!Images /\ S!TypeOK
      /\ run.id \notin mem.applied
  BY <1>1, SyncTypes DEF SyncInv, S!Dev, NotYetApplied
<1>3. \A error : /\ S!Raised(error) \in S!Runs \union {Nothing}
                 /\ S!Raised(error) # Nothing =>
                       S!Raised(error).at = "next" /\ S!Raised(error).rest \in Seq(SyncIds)
  BY <1>1, <1>2, RaisedMoves
<1>4. CASE devMem[S!Dev] # "active" \/ S!Blocks(S!Dev)
  <2>1. run' = S!Raised("sync") /\ UNCHANGED <<mem, disk, faults>>
    BY <1>4 DEF S!TakeLock
  <2>3. S!TypeOK'
    BY <1>1, <1>3, <2>1 DEF SyncInv, S!TypeOK, S!devices, S!rest
  <2>4. Sound(mem)' /\ Sound(disk)'
    BY <1>1, <2>1 DEF SyncInv, Sound, Relied, OwnItems, S!Whole, S!rest
  <2>5. NotYetApplied'
    BY <1>3, <2>1 DEF NotYetApplied
  <2>. QED
    BY <2>3, <2>4, <2>5 DEF SyncInv
<1>5. CASE ~(devMem[S!Dev] # "active" \/ S!Blocks(S!Dev))
  <2> DEFINE lock == [holder |-> S!Dev, live |-> TRUE]
  <2>1. /\ S!Save([mem EXCEPT !.locks[S!Dev] = lock], out)
        /\ run' = IF out = "ok" THEN [run EXCEPT !.at = "apply"] ELSE S!Raised("os")
    BY <1>5 DEF S!TakeLock
  <2>2. lock \in S!Locks \union {Nothing}
    BY <1>2 DEF S!Locks
  <2>. HIDE DEF lock
  <2>3. Same(mem, [mem EXCEPT !.locks[S!Dev] = lock])
    BY <1>2, <2>2, LockSame
  <2>4. /\ run' \in S!Runs \union {Nothing}
        /\ run' # Nothing =>
              /\ run'.at \in {"lock", "apply"} => run'.id \notin mem.applied
              /\ run'.at = "next" => run'.rest \in Seq(SyncIds)
    <3>1. CASE out = "ok"
      BY <1>2, <2>1, <3>1, Moved
    <3>2. CASE out # "ok"
      BY <1>3, <2>1, <3>2
    <3>. QED
      BY <3>1, <3>2
  <2>. QED
    BY <1>1, <2>1, <2>3, <2>4, DevicesKept, SameSave
<1>. QED
  BY <1>4, <1>5

LEMMA GiveBackKeeps ==
    ASSUME S!KeysAssumption, SyncInv, NEW out \in S!Outcomes, S!GiveLockBack(out)
    PROVE  SyncInv'
<1>1. /\ run # Nothing /\ UNCHANGED <<S!devices, S!rest>>
      /\ S!Save([mem EXCEPT !.locks[S!Dev] = Nothing], out)
      /\ \/ \E error : run' = S!Raised(error)
         \/ run' = [run EXCEPT !.at = "complete"]
  BY DEF S!GiveLockBack, S!At
<1>2. /\ run \in S!Runs /\ S!Dev \in Devices /\ mem \in S!Images /\ S!TypeOK
  BY <1>1, SyncTypes DEF SyncInv, S!Dev
<1>3. \A error : /\ S!Raised(error) \in S!Runs \union {Nothing}
                 /\ S!Raised(error) # Nothing =>
                       S!Raised(error).at = "next" /\ S!Raised(error).rest \in Seq(SyncIds)
  BY <1>1, <1>2, RaisedMoves
<1>4. Nothing \in S!Locks \union {Nothing}
  OBVIOUS
<1>5. Same(mem, [mem EXCEPT !.locks[S!Dev] = Nothing])
  BY <1>2, <1>4, LockSame
<1>6. /\ run' \in S!Runs \union {Nothing}
      /\ run' # Nothing =>
            /\ run'.at \in {"lock", "apply"} => run'.id \notin mem.applied
            /\ run'.at = "next" => run'.rest \in Seq(SyncIds)
  <2>1. CASE \E error : run' = S!Raised(error)
    BY <1>3, <2>1
  <2>2. CASE run' = [run EXCEPT !.at = "complete"]
    <3>1. run' \in S!Runs /\ run'.at = "complete"
      BY <1>2, <2>2 DEF S!Runs
    <3>. QED
      BY <3>1
  <2>. QED
    BY <1>1, <2>1, <2>2
<1>. QED
  BY <1>1, <1>5, <1>6, DevicesKept, SameSave

LEMMA CompleteKeeps ==
    ASSUME S!KeysAssumption, SyncInv, NEW ok \in BOOLEAN, S!Complete(ok)
    PROVE  SyncInv'
<1> DEFINE out == IF ok THEN "ok" ELSE "unwritten"
           open == mem.open \ {run.id}
<1>1. /\ run # Nothing /\ UNCHANGED <<S!devices, S!rest>>
      /\ S!Save([mem EXCEPT !.open = open], out)
      /\ run' = IF ~ok \/ run.rest = Nothing THEN Nothing ELSE [run EXCEPT !.at = "next"]
  BY DEF S!Complete, S!At
<1>2. /\ run \in S!Runs /\ mem \in S!Images /\ open \in SUBSET SyncIds
      /\ run.rest # Nothing => run.rest \in Seq(SyncIds)
  BY <1>1, SyncTypes, ImageParts DEF SyncInv
<1>3. out \in S!Outcomes
  BY DEF S!Outcomes
<1>. HIDE DEF out, open
<1>4. Same(mem, [mem EXCEPT !.open = open])
  BY <1>2, OpenSame
<1>5. /\ run' \in S!Runs \union {Nothing}
      /\ run' # Nothing =>
            /\ run'.at \in {"lock", "apply"} => run'.id \notin mem.applied
            /\ run'.at = "next" => run'.rest \in Seq(SyncIds)
  BY <1>1, <1>2, Moved
<1>. QED
  BY <1>1, <1>3, <1>4, <1>5, DevicesKept, SameSave

\* The items Z of the device of the call are written under its id.
LEMMA WrittenItems ==
    ASSUME S!KeysAssumption, SyncInv, run # Nothing, NEW Z
    PROVE  /\ S!Written(Z) \in S!Stores
           /\ \A d \in Devices, i \in Items :
                 S!Written(Z)[d][i] = IF d = S!Dev /\ i \in Z THEN run.id
                                                             ELSE mem.store[d][i]
<1>1. run.id \in SyncIds /\ S!Dev \in Devices
  BY SyncTypes DEF SyncInv, S!Dev
<1>2. mem.store \in [Devices -> [Items -> SyncIds \union {Nothing}]]
  BY SyncTypes, ImageParts DEF SyncInv, S!Stores
<1> DEFINE row == [i \in Items |-> IF i \in Z THEN run.id ELSE mem.store[S!Dev][i]]
<1>3. /\ row \in [Items -> SyncIds \union {Nothing}]
      /\ \A i \in Items : row[i] = IF i \in Z THEN run.id ELSE mem.store[S!Dev][i]
  BY <1>1, <1>2
<1>4. S!Written(Z) = [mem.store EXCEPT ![S!Dev] = row]
  BY DEF S!Written
<1>. HIDE DEF row
<1>. QED
  BY <1>1, <1>2, <1>3, <1>4 DEF S!Stores

\* All items are the call's, and its id is recorded.
LEMMA ApplyKeeps ==
    ASSUME S!KeysAssumption, SyncInv, NEW ok \in BOOLEAN, S!Apply(ok)
    PROVE  SyncInv'
<1> DEFINE out == IF ok THEN "ok" ELSE "unwritten"
           error == IF ~ok THEN "os" ELSE IF S!Beats THEN "none" ELSE "sync"
           store == S!Written(Items)
           applied == mem.applied \union {run.id}
           image == [mem EXCEPT !.store = store, !.applied = applied]
<1>1. /\ run # Nothing /\ run.at = "apply" /\ UNCHANGED <<S!devices, S!rest>>
      /\ S!Save(image, out)
      /\ run' = S!Release(error)
  BY DEF S!Apply, S!At
<1>2. /\ run \in S!Runs /\ run.id \in SyncIds /\ mem \in S!Images
      /\ applied \in SUBSET SyncIds
  BY <1>1, SyncTypes, ImageParts DEF SyncInv
<1>3. out \in S!Outcomes /\ error \in {"none", "sync", "os"}
  BY DEF S!Outcomes
<1>4. /\ store \in S!Stores
      /\ \A d \in Devices, i \in Items :
            store[d][i] = IF d = S!Dev THEN run.id ELSE mem.store[d][i]
  BY <1>1, WrittenItems
<1>. HIDE DEF out, error, store
<1>5. /\ image \in S!Images /\ image.store = store /\ image.applied = applied
      /\ image.locks = mem.locks
  BY <1>2, <1>4 DEF S!Images
<1>. HIDE DEF image
<1>6. Sound(image)
  <2>1. Relied(image)
    BY <1>5 DEF SyncInv, Sound, Relied
  <2>2. ASSUME ~restored PROVE OwnItems(image)
    BY <1>4, <1>5, <2>2 DEF SyncInv, Sound, OwnItems, S!Dev
  <2>3. ASSUME ~restored PROVE S!Whole(image)
    <3>1. ASSUME NEW d \in Devices, \A i \in Items : store[d][i] \in applied,
                 NEW i \in Items, NEW j \in Items
          PROVE  store[d][i] = store[d][j]
      <4>1. CASE d = S!Dev
        BY <1>4, <4>1
      <4>2. CASE d # S!Dev
        <5>1. \A k \in Items : store[d][k] = mem.store[d][k]
          BY <1>4, <4>2
        <5>2. \A k \in Items : mem.store[d][k] # run.id
          <6>1. run.id # Nothing
            BY <1>2, SyncTypes DEF SyncInv
          <6>2. OwnItems(mem)
            BY <2>3 DEF SyncInv, Sound
          <6>. QED
            BY <4>2, <6>1, <6>2 DEF OwnItems, S!Dev
        <5>3. \A k \in Items : mem.store[d][k] \in mem.applied
          BY <3>1, <5>1, <5>2
        <5>. QED
          BY <2>3, <5>1, <5>3 DEF SyncInv, Sound, S!Whole
      <4>. QED
        BY <4>1, <4>2
    <3>. QED
      BY <1>5, <3>1 DEF S!Whole
  <2>. QED
    BY <2>1, <2>2, <2>3 DEF Sound
<1>7. run' \in S!Runs /\ run'.at = "release"
  BY <1>1, <1>2, <1>3 DEF S!Release, S!Runs
<1>. QED
  BY <1>1, <1>3, <1>5, <1>6, <1>7, DevicesKept, SyncSave

\* Some items are the call's, and its id is not recorded.
LEMMA RefusedKeeps ==
    ASSUME S!KeysAssumption, SyncInv, NEW Z \in SUBSET Items, NEW out \in S!Outcomes,
           S!ApplyRefused(Z, out)
    PROVE  SyncInv'
<1> DEFINE error == IF out = "ok" THEN "sync" ELSE "os"
           store == S!Written(Z)
           open == mem.open \union {run.id}
           image == [mem EXCEPT !.store = store, !.open = open]
<1>1. /\ run # Nothing /\ run.at = "apply" /\ UNCHANGED <<S!devices, S!rest>>
      /\ faults < MaxFaults /\ faults' = faults + 1
      /\ mem' = image /\ disk' \in {disk, image}
      /\ run' = S!Release(error)
  BY DEF S!ApplyRefused, S!At, S!Failing
<1>2. /\ run \in S!Runs /\ run.id \in SyncIds /\ mem \in S!Images
      /\ open \in SUBSET SyncIds /\ run.id \notin mem.applied
  BY <1>1, SyncTypes, ImageParts DEF SyncInv, NotYetApplied
<1>3. error \in {"none", "sync", "os"}
  OBVIOUS
<1>4. /\ store \in S!Stores
      /\ \A d \in Devices, i \in Items :
            store[d][i] = IF d = S!Dev /\ i \in Z THEN run.id ELSE mem.store[d][i]
  BY <1>1, WrittenItems
<1>. HIDE DEF error, store, open
<1>5. /\ image \in S!Images /\ image.store = store /\ image.applied = mem.applied
      /\ image.locks = mem.locks
  BY <1>2, <1>4 DEF S!Images
<1>. HIDE DEF image
<1>6. Sound(image)
  <2>1. Relied(image)
    BY <1>5 DEF SyncInv, Sound, Relied
  <2>2. ASSUME ~restored PROVE OwnItems(image)
    BY <1>4, <1>5, <2>2 DEF SyncInv, Sound, OwnItems, S!Dev
  <2>3. ASSUME ~restored PROVE S!Whole(image)
    <3>1. ASSUME NEW d \in Devices, \A i \in Items : store[d][i] \in mem.applied,
                 NEW i \in Items, NEW j \in Items
          PROVE  store[d][i] = store[d][j]
      <4>1. \A k \in Items : store[d][k] = mem.store[d][k]
        BY <1>2, <1>4, <3>1
      <4>. QED
        BY <2>3, <3>1, <4>1 DEF SyncInv, Sound, S!Whole
    <3>. QED
      BY <1>5, <3>1 DEF S!Whole
  <2>. QED
    BY <2>1, <2>2, <2>3 DEF Sound
<1>7. run' \in S!Runs /\ run'.at = "release"
  BY <1>1, <1>2, <1>3 DEF S!Release, S!Runs
<1>8. /\ trust' = trust /\ snapshot' = snapshot /\ restored' = restored
      /\ faults' \in 0..MaxFaults
  BY <1>1 DEF S!rest, S!KeysAssumption, SyncInv, S!TypeOK
<1>9. S!TypeOK'
  BY <1>1, <1>5, <1>7, <1>8, DevicesKept DEF SyncInv, S!TypeOK
<1>10. Sound(mem)' /\ Sound(disk)'
  BY <1>1, <1>6, <1>8 DEF SyncInv, Sound, Relied, OwnItems, S!Whole
<1>11. NotYetApplied'
  BY <1>7 DEF NotYetApplied
<1>. QED
  BY <1>9, <1>10, <1>11 DEF SyncInv
-----------------------------------------------------------------------------
(* The other operations of the coordinator.                                 *)

\* A step that writes what it found in memory or in the file, but for what
\* soundness does not look at.
LEMMA SameStep ==
    ASSUME S!KeysAssumption, SyncInv,
           Same(mem, mem') \/ Same(disk, mem'), Same(mem, disk') \/ Same(disk, disk'),
           faults' \in 0..MaxFaults, UNCHANGED S!rest,
           devMem' \in [Devices -> S!DeviceStatus], devDisk' \in [Devices -> S!DeviceStatus],
           run' \in S!Runs \union {Nothing},
           run' # Nothing =>
              /\ run'.at \in {"lock", "apply"} => run'.id \notin mem'.applied
              /\ run'.at = "next" => run'.rest \in Seq(SyncIds)
    PROVE  SyncInv'
<1>1. Sound(mem') /\ Sound(disk') /\ mem' \in S!Images /\ disk' \in S!Images
  BY SameIsSound DEF SyncInv, Same
<1>2. trust' = trust /\ snapshot' = snapshot /\ restored' = restored
  BY DEF S!rest
<1>3. S!TypeOK'
  BY <1>1, <1>2 DEF SyncInv, S!TypeOK
<1>4. Sound(mem)' /\ Sound(disk)'
  BY <1>1, <1>2 DEF Sound, Relied, OwnItems, S!Whole
<1>5. NotYetApplied'
  BY DEF NotYetApplied
<1>. QED
  BY <1>3, <1>4, <1>5 DEF SyncInv

LEMMA FaultBound ==
    ASSUME S!KeysAssumption, SyncInv, NEW happens \in BOOLEAN, S!Fault(happens)
    PROVE  faults' \in 0..MaxFaults
  BY DEF S!Fault, S!KeysAssumption, SyncInv, S!TypeOK

\* An operation outside a call that saves what SameSave allows.
LEMMA IdleSave ==
    ASSUME S!KeysAssumption, SyncInv, NEW image, Same(mem, image), NEW out \in S!Outcomes,
           S!Save(image, out), run = Nothing, UNCHANGED <<run, S!devices, S!rest>>
    PROVE  SyncInv'
<1>1. run' = Nothing
  OBVIOUS
<1>. QED
  BY <1>1, DevicesKept, SameSave

LEMMA IncrementalKeeps ==
    ASSUME S!KeysAssumption, SyncInv, NEW x \in SyncIds, S!IncrementalSync(x)
    PROVE  SyncInv'
<1> DEFINE open == mem.open \union {x}
<1>1. /\ S!Save([mem EXCEPT !.open = open], "ok") /\ run = Nothing
      /\ UNCHANGED <<run, S!devices, S!rest>>
  BY DEF S!IncrementalSync
<1>2. mem \in S!Images /\ open \in SUBSET SyncIds /\ "ok" \in S!Outcomes
  BY SyncTypes, ImageParts DEF SyncInv, S!Outcomes
<1>. HIDE DEF open
<1>3. Same(mem, [mem EXCEPT !.open = open])
  BY <1>2, OpenSame
<1>. QED
  BY <1>1, <1>2, <1>3, IdleSave

LEMMA SelectiveKeeps ==
    ASSUME S!KeysAssumption, SyncInv, NEW x \in SyncIds, NEW ok \in BOOLEAN,
           S!SelectiveSync(x, ok)
    PROVE  SyncInv'
<1> DEFINE started == mem.open \union {x}
           done == mem.open \ {x}
<1>1. /\ run = Nothing /\ S!Fault(~ok)
      /\ mem' = [mem EXCEPT !.open = done]
      /\ disk' \in {mem', [mem EXCEPT !.open = started]}
      /\ UNCHANGED <<run, S!devices, S!rest>>
  BY DEF S!SelectiveSync
<1>2. mem \in S!Images /\ started \in SUBSET SyncIds /\ done \in SUBSET SyncIds
  BY SyncTypes, ImageParts DEF SyncInv
<1>. HIDE DEF started, done
<1>3. Same(mem, [mem EXCEPT !.open = done]) /\ Same(mem, [mem EXCEPT !.open = started])
  BY <1>2, OpenSame
<1>4. faults' \in 0..MaxFaults /\ run' = Nothing
  BY <1>1, FaultBound
<1>. QED
  BY <1>1, <1>3, <1>4, DevicesKept, SameStep

LEMMA QueueImage ==
    ASSUME NEW image \in S!Images, NEW d \in Devices, NEW queue \in Seq(SyncIds)
    PROVE  Same(image, [image EXCEPT !.queue[d] = queue])
<1> DEFINE queues == [image.queue EXCEPT ![d] = queue]
<1>1. queues \in [Devices -> Seq(SyncIds)]
  BY ImageParts
<1>2. [image EXCEPT !.queue[d] = queue] = [image EXCEPT !.queue = queues]
  BY DEF S!Images
<1>. HIDE DEF queues
<1>. QED
  BY <1>1, <1>2, QueueSame

LEMMA QueueKeeps ==
    ASSUME S!KeysAssumption, SyncInv, NEW x \in SyncIds, NEW out \in S!Outcomes,
           S!QueueOffline(x, out)
    PROVE  SyncInv'
<1> DEFINE queue == Append(mem.queue[Owner[x]], x)
<1>1. mem \in S!Images /\ Owner[x] \in Devices
  BY SyncTypes DEF SyncInv
<1>2. mem.queue \in [Devices -> Seq(SyncIds)]
  BY <1>1, ImageParts
<1>3. queue \in Seq(SyncIds)
  BY <1>1, <1>2
<1>4. /\ S!Save([mem EXCEPT !.queue[Owner[x]] = queue], out) /\ run = Nothing
      /\ UNCHANGED <<run, S!devices, S!rest>>
  BY DEF S!QueueOffline
<1>. HIDE DEF queue
<1>5. Same(mem, [mem EXCEPT !.queue[Owner[x]] = queue])
  BY <1>1, <1>3, QueueImage
<1>. QED
  BY <1>4, <1>5, IdleSave

LEMMA FlushKeeps ==
    ASSUME S!KeysAssumption, SyncInv, NEW d \in Devices, S!FlushOffline(d)
    PROVE  SyncInv'
<1> DEFINE queue == mem.queue[d]
           flush == [id |-> Head(queue), at |-> "next", error |-> "none", rest |-> queue]
<1>1. mem \in S!Images /\ disk \in S!Images /\ <<>> \in Seq(SyncIds)
  BY SyncTypes DEF SyncInv
<1>2. queue \in Seq(SyncIds)
  BY <1>1, ImageParts
<1>3. /\ queue # <<>> /\ mem' = [mem EXCEPT !.queue[d] = <<>>]
      /\ run' \in {flush, Nothing} /\ UNCHANGED <<disk, faults, S!devices, S!rest>>
  BY DEF S!FlushOffline
<1>4. flush \in S!Runs /\ flush.at = "next" /\ flush.rest \in Seq(SyncIds)
  BY <1>2, <1>3 DEF S!Runs
<1>. HIDE DEF queue, flush
<1>5. Same(mem, mem') /\ Same(disk, disk')
  BY <1>1, <1>3, QueueImage, SelfSame
<1>6. /\ run' \in S!Runs \union {Nothing}
      /\ run' # Nothing => run'.at = "next" /\ run'.rest \in Seq(SyncIds)
  BY <1>3, <1>4
<1>7. faults' \in 0..MaxFaults
  BY <1>3 DEF SyncInv, S!TypeOK
<1>. QED
  BY <1>3, <1>5, <1>6, <1>7, DevicesKept, SameStep

LEMMA FlushNextKeeps ==
    ASSUME S!KeysAssumption, SyncInv, NEW out \in S!Outcomes, S!FlushNext(out)
    PROVE  SyncInv'
<1>1. run # Nothing /\ run.at = "next" /\ run.rest # <<>>
      /\ S!StartSession(Head(run.rest), Tail(run.rest), out)
  BY DEF S!FlushNext, S!At
<1>2. run.rest \in Seq(SyncIds)
  BY <1>1 DEF SyncInv, NotYetApplied
<1>3. Head(run.rest) \in SyncIds /\ Tail(run.rest) \in Seq(SyncIds)
  BY <1>1, <1>2
<1>. QED
  BY <1>1, <1>3, StartKeeps

LEMMA FlushRefusedKeeps ==
    ASSUME S!KeysAssumption, SyncInv, S!FlushRefused
    PROVE  SyncInv'
<1> DEFINE left == Tail(run.rest)
<1>1. run # Nothing /\ run.at = "next" /\ run.rest # <<>>
      /\ run' = [run EXCEPT !.rest = left]
      /\ UNCHANGED <<mem, disk, faults, S!devices, S!rest>>
  BY DEF S!FlushRefused, S!At
<1>2. run \in S!Runs /\ run.rest \in Seq(SyncIds) /\ mem \in S!Images /\ disk \in S!Images
  BY <1>1, SyncTypes DEF SyncInv, NotYetApplied
<1>3. left \in Seq(SyncIds)
  BY <1>1, <1>2
<1>. HIDE DEF left
<1>4. run' \in S!Runs /\ run'.at = "next" /\ run'.rest = left
  BY <1>1, <1>2, <1>3 DEF S!Runs
<1>5. Same(mem, mem') /\ Same(disk, disk') /\ faults' \in 0..MaxFaults
  BY <1>1, <1>2, SelfSame DEF SyncInv, S!TypeOK
<1>. QED
  BY <1>1, <1>3, <1>4, <1>5, DevicesKept, SameStep

LEMMA FlushEndKeeps ==
    ASSUME S!KeysAssumption, SyncInv, NEW ok \in BOOLEAN, S!FlushEnd(ok)
    PROVE  SyncInv'
<1> DEFINE out == IF ok THEN "ok" ELSE "unwritten"
<1>1. S!Save(mem, out) /\ run' = Nothing /\ UNCHANGED <<S!devices, S!rest>>
  BY DEF S!FlushEnd
<1>2. out \in S!Outcomes /\ Same(mem, mem)
  BY SyncTypes, SelfSame DEF SyncInv, S!Outcomes
<1>. HIDE DEF out
<1>. QED
  BY <1>1, <1>2, DevicesKept, SameSave

LEMMA RecoverKeeps ==
    ASSUME S!KeysAssumption, SyncInv, NEW x \in SyncIds, NEW out \in S!Outcomes,
           S!RecoverInterrupted(x, out)
    PROVE  SyncInv'
<1>1. Same(mem, mem)
  BY SyncTypes, SelfSame DEF SyncInv
<1>. QED
  BY <1>1, IdleSave DEF S!RecoverInterrupted

-----------------------------------------------------------------------------
(* Backups: a store that is restored may well not be whole.                 *)

LEMMA SnapshotKeeps ==
    ASSUME S!KeysAssumption, SyncInv, S!BackupSnapshot
    PROVE  SyncInv'
<1>1. /\ mem' = mem /\ disk' = mem /\ faults' = faults /\ snapshot' = mem.store
      /\ run' = Nothing
      /\ UNCHANGED <<devMem, devDisk, trust, restored>>
  BY DEF S!BackupSnapshot, S!Save, S!Fault, S!devices
<1>2. mem \in S!Images /\ mem.store \in S!Stores
  BY SyncTypes, ImageParts DEF SyncInv
<1>3. S!TypeOK'
  BY <1>1, <1>2 DEF SyncInv, S!TypeOK
<1>4. Sound(mem)' /\ Sound(disk)'
  BY <1>1 DEF SyncInv, Sound, Relied, OwnItems, S!Whole
<1>5. NotYetApplied'
  BY <1>1 DEF NotYetApplied
<1>. QED
  BY <1>3, <1>4, <1>5 DEF SyncInv

LEMMA RestoreKeeps ==
    ASSUME S!KeysAssumption, SyncInv, NEW out \in S!Outcomes, S!RestoreSnapshot(out)
    PROVE  SyncInv'
<1> DEFINE image == [mem EXCEPT !.store = snapshot]
<1>1. /\ S!Save(image, out) /\ restored' = TRUE /\ run' = Nothing /\ snapshot # Nothing
      /\ UNCHANGED <<devMem, devDisk, trust, snapshot>>
  BY DEF S!RestoreSnapshot, S!devices
<1>2. mem \in S!Images /\ snapshot \in S!Stores
  BY <1>1, SyncTypes DEF SyncInv, S!TypeOK
<1>3. image \in S!Images /\ image.locks = mem.locks
  BY <1>2 DEF S!Images
<1>. HIDE DEF image
<1>4. mem' = image /\ disk' \in {disk, image} /\ faults' \in 0..MaxFaults
  BY <1>1 DEF S!Save, S!Fault, S!KeysAssumption, SyncInv, S!TypeOK
<1>5. S!TypeOK'
  BY <1>1, <1>3, <1>4 DEF SyncInv, S!TypeOK
<1>6. Sound(mem)' /\ Sound(disk)'
  BY <1>1, <1>3, <1>4 DEF SyncInv, Sound, Relied
<1>7. NotYetApplied'
  BY <1>1 DEF NotYetApplied
<1>. QED
  BY <1>5, <1>6, <1>7 DEF SyncInv
-----------------------------------------------------------------------------
(* The default lock, which devices take themselves.                         *)

LEMMA DefaultLock ==
    ASSUME S!KeysAssumption, NEW image \in S!Images, NEW lock \in S!Locks \union {Nothing}
    PROVE  LET new == [image EXCEPT !.locks[Default] = lock]
           IN  /\ new \in S!Images /\ new.locks[Default] = lock
               /\ new.applied = image.applied /\ new.store = image.store
<1>1. image.locks \in [S!Keys -> S!Locks \union {Nothing}] /\ Default \in S!Keys
  BY ImageParts DEF S!Keys
<1> DEFINE locks == [image.locks EXCEPT ![Default] = lock]
<1>2. locks \in [S!Keys -> S!Locks \union {Nothing}] /\ locks[Default] = lock
  BY <1>1
<1>3. [image EXCEPT !.locks[Default] = lock] = [image EXCEPT !.locks = locks]
  BY DEF S!Images
<1>. HIDE DEF locks
<1>. QED
  BY <1>2, <1>3 DEF S!Images

\* A step outside a call that may change the default lock and who relies on it.
LEMMA LockStep ==
    ASSUME S!KeysAssumption, SyncInv, NEW image \in S!Images, NEW out \in S!Outcomes,
           S!Save(image, out), run = Nothing, UNCHANGED <<run, S!devices, snapshot, restored>>,
           image.applied = mem.applied, image.store = mem.store,
           trust' \subseteq Devices,
           \A d \in trust' : image.locks[Default] = [holder |-> d, live |-> TRUE],
           out = "unwritten" => trust' \subseteq trust
    PROVE  SyncInv'
<1>1. /\ mem' = image /\ disk' = IF out = "unwritten" THEN disk ELSE image
      /\ faults' \in 0..MaxFaults
  BY DEF S!Save, S!Fault, S!KeysAssumption, SyncInv, S!TypeOK
<1>2. run' = Nothing /\ snapshot' = snapshot /\ restored' = restored
  OBVIOUS
<1>3. S!TypeOK'
  BY <1>1, <1>2, DevicesKept DEF SyncInv, S!TypeOK
<1>4. Sound(mem)'
  BY <1>1, <1>2 DEF SyncInv, Sound, Relied, OwnItems, S!Whole
<1>5. Sound(disk)'
  <2>1. CASE out = "unwritten"
    BY <1>1, <1>2, <2>1 DEF SyncInv, Sound, Relied, OwnItems, S!Whole
  <2>2. CASE out # "unwritten"
    <3>1. disk' = mem'
      BY <1>1, <2>2
    <3>. QED
      BY <1>4, <3>1 DEF Sound, Relied, OwnItems, S!Whole
  <2>. QED
    BY <2>1, <2>2
<1>6. NotYetApplied'
  BY <1>2 DEF NotYetApplied
<1>. QED
  BY <1>3, <1>4, <1>5, <1>6 DEF SyncInv

\* acquire_lock and refresh_lock leave the lock alive, and are refused while
\* another device relies on it.
LEMMA TrustKeeps ==
    ASSUME S!KeysAssumption, SyncInv, NEW d \in Devices, NEW out \in S!Outcomes,
           S!AcquireLock(d, out) \/ S!RefreshLock(d, out)
    PROVE  SyncInv'
<1> DEFINE lock == [holder |-> d, live |-> TRUE]
           image == [mem EXCEPT !.locks[Default] = lock]
<1>1. /\ S!Save(image, out) /\ run = Nothing /\ UNCHANGED <<run, S!devices, snapshot, restored>>
      /\ S!Held(Default) => mem.locks[Default].holder = d
      /\ trust' = IF out = "ok" THEN trust \union {d} ELSE trust
  BY DEF S!AcquireLock, S!RefreshLock, S!MayRefresh
<1>2. lock \in S!Locks \union {Nothing} /\ mem \in S!Images
  BY SyncTypes DEF SyncInv, S!Locks
<1>3. \A e \in trust : e = d
  <2>1. SUFFICES ASSUME NEW e \in trust PROVE e = d
    OBVIOUS
  <2>2. e \in Devices /\ mem.locks[Default] = [holder |-> e, live |-> TRUE]
    BY DEF SyncInv, S!TypeOK, Sound, Relied
  <2>3. [holder |-> e, live |-> TRUE] # Nothing
    BY <2>2, SyncTypes DEF SyncInv
  <2>4. S!Held(Default)
    BY <2>2, <2>3 DEF S!Held
  <2>. QED
    BY <1>1, <2>2, <2>4
<1>. HIDE DEF lock
<1>4. /\ image \in S!Images /\ image.locks[Default] = lock
      /\ image.applied = mem.applied /\ image.store = mem.store
  BY <1>2, DefaultLock
<1>. HIDE DEF image
<1>5. \A e \in trust' : e = d /\ e \in Devices
  BY <1>1, <1>3
<1>6. \A e \in trust' : image.locks[Default] = [holder |-> e, live |-> TRUE]
  BY <1>4, <1>5 DEF lock
<1>7. out = "unwritten" => trust' \subseteq trust
  BY <1>1
<1>. QED
  BY <1>1, <1>4, <1>5, <1>6, <1>7, LockStep

\* release_lock is the holder's, so that nobody else relies on the lock.
LEMMA ReleaseLockKeeps ==
    ASSUME S!KeysAssumption, SyncInv, NEW d \in Devices, NEW out \in S!Outcomes,
           S!ReleaseLock(d, out)
    PROVE  SyncInv'
<1> DEFINE image == [mem EXCEPT !.locks[Default] = Nothing]
<1>1. /\ S!Save(image, out) /\ run = Nothing /\ UNCHANGED <<run, S!devices, snapshot, restored>>
      /\ mem.locks[Default].holder = d
      /\ trust' = trust \ {d}
  BY DEF S!ReleaseLock
<1>2. /\ image \in S!Images /\ image.locks[Default] = Nothing
      /\ image.applied = mem.applied /\ image.store = mem.store
  BY SyncTypes, DefaultLock DEF SyncInv
<1>. HIDE DEF image
<1>3. \A e \in trust : e = d
  <2>1. SUFFICES ASSUME NEW e \in trust PROVE e = d
    OBVIOUS
  <2>2. mem.locks[Default] = [holder |-> e, live |-> TRUE]
    BY DEF SyncInv, Sound, Relied
  <2>. QED
    BY <1>1, <2>2
<1>4. trust' = {}
  BY <1>1, <1>3
<1>. QED
  BY <1>1, <1>2, <1>4, LockStep

\* A lock that expires: nobody relies on the default lock any more, and no other
\* is relied on.
LEMMA Expired ==
    ASSUME NEW image \in S!Images, NEW k \in S!Keys
    PROVE  LET new == [image EXCEPT !.locks[k] = IF @ = Nothing THEN @
                                                 ELSE [@ EXCEPT !.live = FALSE]]
           IN  /\ new \in S!Images
               /\ k # Default /\ Default \in S!Keys => new.locks[Default] = image.locks[Default]
               /\ new.applied = image.applied /\ new.store = image.store
<1>1. image.locks \in [S!Keys -> S!Locks \union {Nothing}]
  BY ImageParts
<1> DEFINE lock == image.locks[k]
           late == IF lock = Nothing THEN lock ELSE [lock EXCEPT !.live = FALSE]
           locks == [image.locks EXCEPT ![k] = late]
<1>2. late \in S!Locks \union {Nothing}
  <2>1. lock \in S!Locks \union {Nothing}
    BY <1>1
  <2>. HIDE DEF lock
  <2>. QED
    BY <2>1 DEF S!Locks
<1>3. [image EXCEPT !.locks[k] = IF @ = Nothing THEN @ ELSE [@ EXCEPT !.live = FALSE]]
      = [image EXCEPT !.locks = locks]
  BY DEF S!Images
<1>. HIDE DEF late
<1>4. /\ locks \in [S!Keys -> S!Locks \union {Nothing}]
      /\ k # Default /\ Default \in S!Keys => locks[Default] = image.locks[Default]
  BY <1>1, <1>2
<1>. HIDE DEF locks
<1>. QED
  BY <1>3, <1>4 DEF S!Images

LEMMA LapseKeeps ==
    ASSUME S!KeysAssumption, SyncInv, NEW k \in S!Keys, S!Lapse(k)
    PROVE  SyncInv'
<1>1. /\ UNCHANGED <<devMem, devDisk, run, snapshot, restored, faults>>
      /\ trust' = IF k = Default THEN {} ELSE trust
  BY DEF S!Lapse, S!devices
<1>2. mem \in S!Images /\ disk \in S!Images /\ Default \in S!Keys
  BY SyncTypes DEF SyncInv
<1>3. /\ mem' \in S!Images /\ disk' \in S!Images
      /\ mem'.applied = mem.applied /\ mem'.store = mem.store
      /\ disk'.applied = disk.applied /\ disk'.store = disk.store
      /\ k # Default => /\ mem'.locks[Default] = mem.locks[Default]
                        /\ disk'.locks[Default] = disk.locks[Default]
  BY <1>2, Expired DEF S!Lapse
<1>4. S!TypeOK'
  BY <1>1, <1>3 DEF SyncInv, S!TypeOK
<1>5. Relied(mem)' /\ Relied(disk)'
  BY <1>1, <1>3 DEF SyncInv, Sound, Relied
<1>6. Sound(mem)' /\ Sound(disk)'
  BY <1>1, <1>3, <1>5 DEF SyncInv, Sound, OwnItems, S!Whole
<1>7. NotYetApplied'
  BY <1>1, <1>3 DEF SyncInv, NotYetApplied
<1>. QED
  BY <1>4, <1>6, <1>7 DEF SyncInv

-----------------------------------------------------------------------------
(* The registry of devices, and the next process.                           *)

LEMMA SetDeviceKeeps ==
    ASSUME S!KeysAssumption, SyncInv, NEW d \in Devices, NEW st \in S!DeviceStatus,
           NEW ok, S!SetDevice(d, st, ok), faults' \in 0..MaxFaults
    PROVE  SyncInv'
<1>1. /\ devMem' = [devMem EXCEPT ![d] = st] /\ devDisk' \in {devMem', devDisk}
      /\ UNCHANGED <<mem, disk, run, S!rest>>
  BY DEF S!SetDevice
<1>2. devMem' \in [Devices -> S!DeviceStatus] /\ devDisk' \in [Devices -> S!DeviceStatus]
  BY <1>1 DEF SyncInv, S!TypeOK
<1>3. Same(mem, mem') /\ Same(disk, disk')
  BY <1>1, SyncTypes, SelfSame DEF SyncInv
<1>4. /\ run' \in S!Runs \union {Nothing}
      /\ run' # Nothing =>
            /\ run'.at \in {"lock", "apply"} => run'.id \notin mem'.applied
            /\ run'.at = "next" => run'.rest \in Seq(SyncIds)
  BY <1>1 DEF SyncInv, NotYetApplied, S!TypeOK
<1>. QED
  BY <1>1, <1>2, <1>3, <1>4, SameStep

LEMMA DeviceKeeps ==
    ASSUME S!KeysAssumption, SyncInv, NEW d \in Devices, NEW ok \in BOOLEAN,
           S!Register(d) \/ S!Revoke(d, ok) \/ S!Isolate(d, ok)
    PROVE  SyncInv'
<1>1. \E st \in S!DeviceStatus : \E written : S!SetDevice(d, st, written)
  BY DEF S!Register, S!Revoke, S!Isolate, S!DeviceStatus
<1>2. faults' \in 0..MaxFaults
  <2>1. CASE S!Register(d)
    BY <2>1 DEF S!Register, SyncInv, S!TypeOK
  <2>2. CASE S!Revoke(d, ok) \/ S!Isolate(d, ok)
    BY <2>2, FaultBound DEF S!Revoke, S!Isolate
  <2>. QED
    BY <2>1, <2>2
<1>. QED
  BY <1>1, <1>2, SetDeviceKeeps

LEMMA DeviceRecoveryKeeps ==
    ASSUME S!KeysAssumption, SyncInv, NEW d \in Devices, S!DeviceRecovery(d)
    PROVE  SyncInv'
<1>1. /\ devMem' = [devMem EXCEPT ![d] = "active"] /\ devDisk' = devMem'
      /\ S!Save(mem, "ok") /\ run' = Nothing /\ UNCHANGED S!rest
  BY DEF S!DeviceRecovery
<1>2. devMem' \in [Devices -> S!DeviceStatus] /\ devDisk' \in [Devices -> S!DeviceStatus]
  BY <1>1 DEF SyncInv, S!TypeOK, S!DeviceStatus
<1>3. Same(mem, mem) /\ "ok" \in S!Outcomes
  BY SyncTypes, SelfSame DEF SyncInv, S!Outcomes
<1>. QED
  BY <1>1, <1>2, <1>3, SameSave

LEMMA SyncCrashKeeps ==
    ASSUME S!KeysAssumption, SyncInv, S!Crash
    PROVE  SyncInv'
<1>1. /\ S!Fault(TRUE) /\ mem' = disk /\ disk' = disk /\ run' = Nothing
      /\ devMem' = devDisk /\ devDisk' = devDisk /\ UNCHANGED S!rest
  BY DEF S!Crash
<1>2. Same(disk, mem') /\ Same(disk, disk')
  BY <1>1, SyncTypes, SelfSame DEF SyncInv
<1>3. devMem' \in [Devices -> S!DeviceStatus] /\ devDisk' \in [Devices -> S!DeviceStatus]
  BY <1>1 DEF SyncInv, S!TypeOK
<1>. QED
  BY <1>1, <1>2, <1>3, FaultBound, SameStep

LEMMA SyncInit == ASSUME S!KeysAssumption, S!Init PROVE SyncInv
<1>1. S!Empty \in S!Images
  BY DEF S!Empty, S!Images, S!Stores
<1>2. S!TypeOK
  <2>1. mem = S!Empty /\ disk = S!Empty
    BY DEF S!Init
  <2>2. devMem \in [Devices -> S!DeviceStatus] /\ devDisk \in [Devices -> S!DeviceStatus]
    BY DEF S!Init, S!DeviceStatus
  <2>3. /\ run \in S!Runs \union {Nothing} /\ snapshot \in S!Stores \union {Nothing}
        /\ trust \subseteq Devices /\ faults \in 0..MaxFaults
    BY DEF S!Init, S!KeysAssumption
  <2>4. restored \in BOOLEAN
    BY DEF S!Init
  <2>. QED
    BY <1>1, <2>1, <2>2, <2>3, <2>4 DEF S!TypeOK
<1>3. Sound(S!Empty)
  BY DEF S!Init, S!Empty, Sound, Relied, OwnItems, S!Whole
<1>. QED
  BY <1>2, <1>3 DEF S!Init, SyncInv, NotYetApplied

LEMMA SyncStepKeeps == ASSUME S!KeysAssumption, SyncInv, [S!Next]_(S!vars) PROVE SyncInv'
<1>1. CASE UNCHANGED S!vars
  BY <1>1
  DEF S!vars, SyncInv, S!TypeOK, Sound, Relied, OwnItems, S!Whole, NotYetApplied
<1>2. CASE S!Step
  BY <1>2, FlushRefusedKeeps, TakeKeeps, GiveBackKeeps, FlushNextKeeps, ApplyKeeps,
     CompleteKeeps, FlushEndKeeps
  DEF S!Step
<1>3. CASE S!Operate
  BY <1>3, SnapshotKeeps, DeviceRecoveryKeeps, FlushKeeps, IncrementalKeeps, SelectiveKeeps,
     DeviceKeeps, RestoreKeeps, RefusedKeeps, QueueKeeps, RecoverKeeps, TrustKeeps,
     ReleaseLockKeeps
  DEF S!Operate
<1>4. ASSUME NEW x \in SyncIds, NEW out \in S!Outcomes, S!Synchronize(x, out)
      PROVE  SyncInv'
  <2>1. S!StartSession(x, Nothing, out) /\ Nothing \in Seq(SyncIds) \union {Nothing}
    BY <1>4 DEF S!Synchronize
  <2>. QED
    BY <2>1, StartKeeps
<1>. QED
  BY <1>1, <1>2, <1>3, <1>4, SyncCrashKeeps, DeviceKeeps, LapseKeeps DEF S!Next

\* The lock that is relied on has one holder.
LEMMA LockedByOne == ASSUME SyncInv PROVE S!OneLockHolder
<1>1. SUFFICES ASSUME NEW d \in trust, NEW e \in trust PROVE d = e
  BY DEF S!OneLockHolder
<1>2. /\ mem.locks[Default] = [holder |-> d, live |-> TRUE]
      /\ mem.locks[Default] = [holder |-> e, live |-> TRUE]
  BY DEF SyncInv, Sound, Relied
<1>. QED
  BY <1>2

-----------------------------------------------------------------------------
(* RemoteHandoff.  Each process has a quota of effects for a request.  Who  *)
(* executes one has its id recorded, so nobody else does, and has used as   *)
(* much of the quota as attempts of it failed; an id that is not recorded   *)
(* has its quota of this process untouched.                                 *)

\* What n processes may do of one request.
Quota(n) == n * (MaxRetries + 1)

Executing(c, e, r) == call[c] # NoCall /\ call[c].ep = e /\ call[c].id = r

InQuota(e, r) ==
    /\ effects[e][r] <= Quota(lives)
    /\ <<e, r>> \notin seen => effects[e][r] <= Quota(lives - 1)
    /\ \A c \in Callers :
          Executing(c, e, r) =>
              /\ <<e, r>> \in seen
              /\ effects[e][r] <= Quota(lives - 1) + call[c].attempts
              /\ \A b \in Callers : Executing(b, e, r) => b = c

RemoteInv == R!TypeOK /\ \A e \in Endpoints, r \in Requests : InQuota(e, r)

LEMMA QuotaGrows ==
    ASSUME R!RetriesAssumption, NEW n \in Nat \ {0}
    PROVE  /\ Quota(n) \in Nat /\ Quota(n - 1) \in Nat
           /\ Quota(n) = Quota(n - 1) + MaxRetries + 1
<1>1. MaxRetries \in Nat
  BY DEF R!RetriesAssumption
<1>. QED
  BY <1>1 DEF Quota

LEMMA RemoteTypes ==
    ASSUME R!RetriesAssumption, R!TypeOK
    PROVE  /\ lives \in Nat \ {0}
           /\ \A e \in Endpoints, r \in Requests : effects[e][r] \in Nat
           /\ \A c \in Callers : call[c] # NoCall =>
                 /\ call[c].ep \in Endpoints /\ call[c].id \in Requests
                 /\ call[c].copy \in R!Records /\ call[c].attempts \in 0..MaxRetries
  BY DEF R!RetriesAssumption, R!TypeOK, R!Calls

\* What is done to endpoints leaves their shape.
LEMMA SavedEndpoints ==
    ASSUME R!RetriesAssumption, R!TypeOK, NEW e \in Endpoints,
           NEW record \in R!Records \union {NoCall}, NEW ok \in BOOLEAN,
           R!Save([mem EXCEPT ![e] = record], ok)
    PROVE  /\ mem' \in [Endpoints -> R!Records \union {NoCall}]
           /\ disk' \in [Endpoints -> R!Records \union {NoCall}]
<1> DEFINE stored == R!Records \union {NoCall}
<1>1. mem \in [Endpoints -> stored] /\ disk \in [Endpoints -> stored] /\ record \in stored
  BY DEF R!TypeOK
<1>. HIDE DEF stored
<1>2. [mem EXCEPT ![e] = record] \in [Endpoints -> stored]
  BY <1>1
<1>3. mem' \in [Endpoints -> stored] /\ disk' \in [Endpoints -> stored]
  BY <1>1, <1>2 DEF R!Save
<1>. QED
  BY <1>3 DEF stored

LEMMA MarkedRecord ==
    ASSUME NEW record \in R!Records, NEW st \in R!Statuses
    PROVE  [record EXCEPT !.st = st] \in R!Records
  BY DEF R!Records

\* Steps that carry nothing out and neither begin nor end a call.
LEMMA QuietRemote ==
    ASSUME RemoteInv, UNCHANGED <<seen, call, effects, lives>>,
           mem' \in [Endpoints -> R!Records \union {NoCall}],
           disk' \in [Endpoints -> R!Records \union {NoCall}],
           usable' \subseteq Credentials
    PROVE  RemoteInv'
<1>1. R!TypeOK'
  BY DEF RemoteInv, R!TypeOK
<1>2. \A e \in Endpoints, r \in Requests : InQuota(e, r)'
  <2>1. Quota(lives)' = Quota(lives) /\ Quota(lives - 1)' = Quota(lives - 1)
    BY DEF Quota
  <2>2. \A e, r : \A c \in Callers : Executing(c, e, r)' = Executing(c, e, r)
    BY DEF Executing
  <2>3. ASSUME NEW e \in Endpoints, NEW r \in Requests PROVE InQuota(e, r)'
    <3>1. InQuota(e, r)
      BY DEF RemoteInv
    <3>. QED
      BY <2>1, <2>2, <3>1 DEF InQuota
  <2>. QED
    BY <2>3
<1>. QED
  BY <1>1, <1>2 DEF RemoteInv

LEMMA EndpointsKeep ==
    ASSUME R!RetriesAssumption, RemoteInv, NEW e \in Endpoints, NEW ok \in BOOLEAN,
           \/ R!Register(e, ok) \/ R!Unregister(e, ok)
           \/ \E cred \in Credentials : R!RotateCredential(e, cred, ok)
           \/ \E answered \in BOOLEAN : R!CheckHealth(e, answered, ok)
    PROVE  RemoteInv'
<1>1. UNCHANGED <<seen, call, effects, lives>> /\ usable' \subseteq Credentials
  BY DEF R!Register, R!Unregister, R!RotateCredential, R!CheckHealth, R!Idle, R!outside,
         RemoteInv, R!TypeOK
<1>2. \A cred \in Credentials : [st |-> "unknown", cred |-> cred] \in R!Records
  BY DEF R!Records, R!Statuses
<1>3. /\ mem \in [Endpoints -> R!Records \union {NoCall}]
      /\ disk \in [Endpoints -> R!Records \union {NoCall}]
      /\ R!TypeOK /\ First \in Credentials
  BY DEF RemoteInv, R!TypeOK, R!RetriesAssumption
<1>4. CASE R!Register(e, ok)
  BY <1>1, <1>2, <1>3, <1>4, SavedEndpoints, QuietRemote DEF R!Register
<1>5. CASE R!Unregister(e, ok)
  BY <1>1, <1>3, <1>5, SavedEndpoints, QuietRemote DEF R!Unregister
<1>6. ASSUME NEW cred \in Credentials, R!RotateCredential(e, cred, ok) PROVE RemoteInv'
  BY <1>1, <1>2, <1>3, <1>6, SavedEndpoints, QuietRemote DEF R!RotateCredential
<1>7. ASSUME NEW answered \in BOOLEAN, R!CheckHealth(e, answered, ok) PROVE RemoteInv'
  <2>1. mem[e] \in R!Records
    BY <1>3, <1>7 DEF R!CheckHealth
  <2>2. /\ [mem[e] EXCEPT !.st = "healthy"] \in R!Records \union {NoCall}
        /\ [mem[e] EXCEPT !.st = "unavailable"] \in R!Records \union {NoCall}
    BY <2>1, MarkedRecord DEF R!Statuses
  <2>3. CASE answered
    <3>1. mem' = [mem EXCEPT ![e] = [mem[e] EXCEPT !.st = "healthy"]] /\ disk' = disk
      BY <1>7, <2>3 DEF R!CheckHealth, R!Marked
    <3>2. R!Save([mem EXCEPT ![e] = [mem[e] EXCEPT !.st = "healthy"]], FALSE)
      BY <3>1 DEF R!Save
    <3>. QED
      BY <1>1, <1>3, <2>2, <3>2, SavedEndpoints, QuietRemote
  <2>4. CASE ~answered
    <3>1. R!Save([mem EXCEPT ![e] = [mem[e] EXCEPT !.st = "unavailable"]], ok)
      BY <1>7, <2>4 DEF R!CheckHealth, R!Marked
    <3>. QED
      BY <1>1, <1>3, <2>2, <3>1, SavedEndpoints, QuietRemote
  <2>. QED
    BY <2>3, <2>4
<1>. QED
  BY <1>4, <1>5, <1>6, <1>7

LEMMA ExecuteKeeps ==
    ASSUME R!RetriesAssumption, RemoteInv, NEW c \in Callers, NEW e \in Endpoints,
           NEW r \in Requests, NEW ok \in BOOLEAN, R!Execute(c, e, r, ok)
    PROVE  RemoteInv'
<1> DEFINE begun == [ep |-> e, id |-> r, copy |-> mem[e], attempts |-> 0]
<1>1. /\ call[c] = NoCall /\ <<e, r>> \notin seen /\ mem[e] # NoCall
      /\ seen' = seen \union {<<e, r>>}
      /\ UNCHANGED <<effects, lives, usable>>
  BY DEF R!Execute, R!Replayed, R!outside
<1>2. mem[e] \in R!Records
  BY <1>1 DEF RemoteInv, R!TypeOK
<1>3. begun \in R!Calls
  BY <1>2 DEF R!Calls, R!RetriesAssumption
<1>4. /\ \/ call' = [call EXCEPT ![c] = begun]
         \/ call' = call
      /\ mem' \in [Endpoints -> R!Records \union {NoCall}]
      /\ disk' \in [Endpoints -> R!Records \union {NoCall}]
  <2>1. CASE mem[e].cred \in usable
    BY <2>1 DEF R!Execute, RemoteInv, R!TypeOK
  <2>2. CASE mem[e].cred \notin usable
    <3>1. /\ R!Save([mem EXCEPT ![e] = [mem[e] EXCEPT !.st = "degraded"]], ok)
          /\ call' = call
      BY <2>2 DEF R!Execute, R!Marked
    <3>2. [mem[e] EXCEPT !.st = "degraded"] \in R!Records \union {NoCall}
      BY <1>2, MarkedRecord DEF R!Statuses
    <3>. QED
      BY <3>1, <3>2, SavedEndpoints DEF RemoteInv
  <2>. QED
    BY <2>1, <2>2
<1>5. /\ call \in [Callers -> R!Calls \union {NoCall}]
      /\ seen' \subseteq Endpoints \X Requests
  BY <1>1 DEF RemoteInv, R!TypeOK
<1>. HIDE DEF begun
<1>6. call' \in [Callers -> R!Calls \union {NoCall}]
  BY <1>3, <1>4, <1>5
<1>7. R!TypeOK'
  BY <1>1, <1>4, <1>5, <1>6 DEF RemoteInv, R!TypeOK
<1>8. ASSUME NEW f \in Endpoints, NEW q \in Requests PROVE InQuota(f, q)'
  <2>1. InQuota(f, q)
    BY DEF RemoteInv
  <2>2. \A b \in Callers \ {c} : call'[b] = call[b]
    BY <1>4, <1>5
  <2>3. call'[c] # NoCall => call'[c] = begun
    BY <1>1, <1>4, <1>5
  <2>4. begun.ep = e /\ begun.id = r /\ begun.attempts = 0
    BY DEF begun
  <2>5. \A b \in Callers \ {c} : Executing(b, f, q)' = Executing(b, f, q)
    BY <2>2 DEF Executing
  <2>6. Executing(c, f, q)' => f = e /\ q = r /\ call'[c].attempts = 0
    BY <2>3, <2>4 DEF Executing
  <2>7. ~Executing(c, f, q)
    BY <1>1 DEF Executing
  <2>8. CASE f = e /\ q = r
    <3>1. <<f, q>> \notin seen /\ <<f, q>> \in seen'
      BY <1>1, <2>8
    <3>2. \A b \in Callers : ~Executing(b, f, q)
      BY <2>1, <3>1 DEF InQuota
    <3>3. \A b \in Callers : Executing(b, f, q)' => b = c
      BY <2>5, <3>2
    <3>4. effects'[f][q] <= Quota(lives - 1)' /\ effects'[f][q] <= Quota(lives)'
      BY <1>1, <2>1, <3>1 DEF InQuota, Quota
    <3>5. /\ effects'[f][q] \in Nat /\ Quota(lives - 1)' \in Nat
      <4>1. lives \in Nat \ {0} /\ effects[f][q] \in Nat
        BY RemoteTypes DEF RemoteInv
      <4>2. Quota(lives - 1)' = Quota(lives - 1)
        BY <1>1 DEF Quota
      <4>. QED
        BY <1>1, <4>1, <4>2, QuotaGrows
    <3>. QED
      BY <2>6, <3>1, <3>3, <3>4, <3>5 DEF InQuota
  <2>9. CASE ~(f = e /\ q = r)
    <3>1. <<f, q>> \in seen' <=> <<f, q>> \in seen
      BY <1>1, <2>9
    <3>2. ~Executing(c, f, q)'
      BY <2>6, <2>9
    <3>3. \A b \in Callers : Executing(b, f, q)' => b # c /\ Executing(b, f, q) /\ call'[b] = call[b]
      BY <2>2, <2>5, <3>2
    <3>4. effects' = effects /\ lives' = lives
      BY <1>1
    <3>. QED
      BY <2>1, <3>1, <3>3, <3>4 DEF InQuota, Quota
  <2>. QED
    BY <2>8, <2>9
<1>. QED
  BY <1>7, <1>8 DEF RemoteInv

\* An attempt of caller c, which ends the call or leaves one attempt less: at
\* most one more effect, and only of the request it executes.
Attempted(c) ==
    /\ call[c] # NoCall
    /\ \/ effects' = effects
       \/ R!CarriedOut(c)
    /\ \/ R!Ends(c)
       \/ /\ call[c].attempts < MaxRetries
          /\ call' = [call EXCEPT ![c].attempts = @ + 1]
    /\ mem' \in [Endpoints -> R!Records \union {NoCall}]
    /\ disk' \in [Endpoints -> R!Records \union {NoCall}]
    /\ UNCHANGED <<seen, usable, lives>>

LEMMA AttemptKeeps ==
    ASSUME R!RetriesAssumption, RemoteInv, NEW c \in Callers, Attempted(c)
    PROVE  RemoteInv'
<1> DEFINE e == call[c].ep
           r == call[c].id
           again == [call[c] EXCEPT !.attempts = call[c].attempts + 1]
<1>1. /\ call[c] # NoCall /\ call[c] \in R!Calls /\ e \in Endpoints /\ r \in Requests
      /\ call[c].attempts \in 0..MaxRetries
      /\ MaxRetries \in Nat
      /\ lives' = lives /\ seen' = seen
  BY RemoteTypes DEF Attempted, RemoteInv, R!TypeOK, R!RetriesAssumption
<1>2. effects \in [Endpoints -> [Requests -> Nat]]
  BY DEF RemoteInv, R!TypeOK
<1>3. /\ effects' \in [Endpoints -> [Requests -> Nat]]
      /\ effects'[e][r] <= effects[e][r] + 1
      /\ \A f \in Endpoints, q \in Requests :
            ~(f = e /\ q = r) => effects'[f][q] = effects[f][q]
  <2>1. CASE effects' = effects
    BY <1>1, <1>2, <2>1
  <2>2. CASE R!CarriedOut(c)
    <3>1. effects' = [effects EXCEPT ![e][r] = @ + 1]
      BY <2>2 DEF R!CarriedOut
    <3>. QED
      BY <1>1, <1>2, <3>1
  <2>. QED
    BY <2>1, <2>2 DEF Attempted
<1>4. call \in [Callers -> R!Calls \union {NoCall}]
  BY DEF RemoteInv, R!TypeOK
<1>5. /\ call' \in [Callers -> R!Calls \union {NoCall}]
      /\ \A b \in Callers \ {c} : call'[b] = call[b]
      /\ \/ call'[c] = NoCall
         \/ /\ call'[c].ep = e /\ call'[c].id = r
            /\ call'[c].attempts = call[c].attempts + 1
  <2>1. CASE R!Ends(c)
    BY <1>4, <2>1 DEF R!Ends
  <2>2. CASE call[c].attempts < MaxRetries /\ call' = [call EXCEPT ![c].attempts = @ + 1]
    <3>1. call' = [call EXCEPT ![c] = again]
      BY <2>2
    <3>2. call[c].attempts + 1 \in 0..MaxRetries
      BY <1>1, <2>2
    <3>3. /\ again \in R!Calls /\ again.ep = e /\ again.id = r
          /\ again.attempts = call[c].attempts + 1
      BY <1>1, <3>2 DEF R!Calls
    <3>. HIDE DEF again
    <3>. QED
      BY <1>4, <3>1, <3>3
  <2>. QED
    BY <2>1, <2>2 DEF Attempted
<1>. HIDE DEF e, r, again
<1>6. R!TypeOK'
  BY <1>1, <1>3, <1>5 DEF Attempted, RemoteInv, R!TypeOK
<1>7. lives \in Nat \ {0} /\ \A f \in Endpoints, q \in Requests : effects[f][q] \in Nat
  BY RemoteTypes DEF RemoteInv
<1>8. /\ Quota(lives) \in Nat /\ Quota(lives - 1) \in Nat
      /\ Quota(lives) = Quota(lives - 1) + MaxRetries + 1
      /\ Quota(lives)' = Quota(lives) /\ Quota(lives - 1)' = Quota(lives - 1)
  BY <1>1, <1>7, QuotaGrows DEF Quota
<1>9. ASSUME NEW f \in Endpoints, NEW q \in Requests PROVE InQuota(f, q)'
  <2>1. InQuota(f, q)
    BY DEF RemoteInv
  <2>2. \A b \in Callers \ {c} : Executing(b, f, q)' = Executing(b, f, q)
    BY <1>5 DEF Executing
  <2>3. Executing(c, f, q)' =>
           f = e /\ q = r /\ call'[c].attempts = call[c].attempts + 1
    BY <1>5 DEF Executing
  <2>4. CASE f = e /\ q = r
    <3>1. Executing(c, f, q)
      BY <1>1, <2>4 DEF Executing, e, r
    <3>2. /\ <<f, q>> \in seen /\ effects[f][q] <= Quota(lives - 1) + call[c].attempts
          /\ \A b \in Callers : Executing(b, f, q) => b = c
      BY <2>1, <3>1 DEF InQuota
    <3>3. effects'[f][q] \in Nat
      BY <1>3
    <3>4. /\ effects'[f][q] <= Quota(lives - 1) + (call[c].attempts + 1)
          /\ effects'[f][q] <= Quota(lives)
      BY <1>1, <1>3, <1>7, <1>8, <2>4, <3>2, <3>3
    <3>5. \A b \in Callers : Executing(b, f, q)' => b = c
      BY <2>2, <3>2
    <3>6. <<f, q>> \in seen'
      BY <1>1, <3>2
    <3>. QED
      BY <1>8, <2>3, <3>4, <3>5, <3>6 DEF InQuota
  <2>5. CASE ~(f = e /\ q = r)
    <3>1. effects'[f][q] = effects[f][q] /\ seen' = seen
      BY <1>1, <1>3, <2>5
    <3>2. \A b \in Callers : Executing(b, f, q)' => b # c /\ Executing(b, f, q) /\ call'[b] = call[b]
      BY <1>5, <2>2, <2>3, <2>5
    <3>. QED
      BY <1>8, <2>1, <3>1, <3>2 DEF InQuota
  <2>. QED
    BY <2>4, <2>5
<1>. QED
  BY <1>6, <1>9 DEF RemoteInv

LEMMA CallsKeep ==
    ASSUME R!RetriesAssumption, RemoteInv, NEW c \in Callers,
           \/ R!Answered(c) \/ R!Damaged(c)
           \/ \E ok \in BOOLEAN : R!Lost(c, ok) \/ R!Unanswered(c, ok) \/ R!Refused(c, ok)
    PROVE  RemoteInv'
<1>1. call[c] # NoCall
  BY DEF R!Answered, R!Damaged, R!Lost, R!Unanswered, R!Refused
<1>2. /\ call[c].ep \in Endpoints /\ call[c].copy \in R!Records
      /\ call[c].attempts \in 0..MaxRetries /\ MaxRetries \in Nat
  BY <1>1, RemoteTypes DEF RemoteInv, R!RetriesAssumption
<1>3. /\ mem \in [Endpoints -> R!Records \union {NoCall}]
      /\ disk \in [Endpoints -> R!Records \union {NoCall}]
      /\ R!TypeOK
  BY DEF RemoteInv, R!TypeOK
<1>4. ASSUME NEW st \in R!Statuses, NEW ok \in BOOLEAN,
             R!Save(R!Marked(call[c].ep, call[c].copy, st), ok)
      PROVE  /\ mem' \in [Endpoints -> R!Records \union {NoCall}]
             /\ disk' \in [Endpoints -> R!Records \union {NoCall}]
  <2>1. [call[c].copy EXCEPT !.st = st] \in R!Records \union {NoCall}
    BY <1>2, MarkedRecord
  <2>. QED
    BY <1>2, <1>3, <1>4, <2>1, SavedEndpoints DEF R!Marked
<1>5. {"healthy", "degraded", "unavailable"} \subseteq R!Statuses
  BY DEF R!Statuses
<1>6. ASSUME NEW ok \in BOOLEAN, R!Fails(c, ok)
      PROVE  /\ mem' \in [Endpoints -> R!Records \union {NoCall}]
             /\ disk' \in [Endpoints -> R!Records \union {NoCall}]
             /\ \/ R!Ends(c)
                \/ /\ call[c].attempts < MaxRetries
                   /\ call' = [call EXCEPT ![c].attempts = @ + 1]
  <2>1. CASE R!LastAttempt(c)
    BY <1>4, <1>5, <1>6, <2>1 DEF R!Fails
  <2>2. CASE ~R!LastAttempt(c)
    BY <1>2, <1>3, <1>6, <2>2 DEF R!Fails, R!LastAttempt
  <2>. QED
    BY <2>1, <2>2
<1>7. CASE R!Answered(c)
  <2>1. R!Save(R!Marked(call[c].ep, call[c].copy, "healthy"), FALSE)
    BY <1>7 DEF R!Answered, R!Save
  <2>2. Attempted(c)
    BY <1>1, <1>4, <1>5, <1>7, <2>1 DEF R!Answered, Attempted, R!outside
  <2>. QED
    BY <2>2, AttemptKeeps
<1>8. CASE R!Damaged(c)
  BY <1>1, <1>3, <1>8, AttemptKeeps DEF R!Damaged, Attempted, R!outside
<1>9. ASSUME NEW ok \in BOOLEAN, R!Lost(c, ok) PROVE RemoteInv'
  BY <1>1, <1>6, <1>9, AttemptKeeps DEF R!Lost, Attempted, R!outside
<1>10. ASSUME NEW ok \in BOOLEAN, R!Unanswered(c, ok) PROVE RemoteInv'
  BY <1>1, <1>6, <1>10, AttemptKeeps DEF R!Unanswered, Attempted, R!outside
<1>11. ASSUME NEW ok \in BOOLEAN, R!Refused(c, ok) PROVE RemoteInv'
  <2> DEFINE st == IF R!LastAttempt(c) THEN "unavailable" ELSE "degraded"
  <2>1. st \in R!Statuses /\ R!Save(R!Marked(call[c].ep, call[c].copy, st), ok)
    BY <1>5, <1>11 DEF R!Refused
  <2>. HIDE DEF st
  <2>2. Attempted(c)
    BY <1>1, <1>4, <1>11, <2>1 DEF R!Refused, Attempted, R!outside
  <2>. QED
    BY <2>2, AttemptKeeps
<1>. QED
  BY <1>7, <1>8, <1>9, <1>10, <1>11

LEMMA RestartKeeps ==
    ASSUME R!RetriesAssumption, RemoteInv, R!Restart PROVE RemoteInv'
<1>1. /\ lives < MaxLives /\ lives' = lives + 1 /\ mem' = disk /\ disk' = disk /\ seen' = {}
      /\ call' = [c \in Callers |-> NoCall] /\ usable' = usable /\ effects' = effects
  BY DEF R!Restart
<1>2. R!TypeOK'
  BY <1>1 DEF RemoteInv, R!TypeOK, R!RetriesAssumption
<1>3. lives \in Nat \ {0} /\ lives + 1 \in Nat \ {0} /\ (lives + 1) - 1 = lives
  BY RemoteTypes DEF RemoteInv
<1>4. /\ Quota(lives)' = Quota(lives + 1) /\ Quota(lives - 1)' = Quota(lives)
      /\ Quota(lives) \in Nat /\ Quota(lives + 1) \in Nat
      /\ Quota(lives) <= Quota(lives + 1)
  <2>1. Quota(lives)' = Quota(lives + 1) /\ Quota(lives - 1)' = Quota((lives + 1) - 1)
    BY <1>1 DEF Quota
  <2>2. /\ Quota(lives + 1) \in Nat /\ Quota((lives + 1) - 1) \in Nat
        /\ Quota(lives + 1) = Quota((lives + 1) - 1) + MaxRetries + 1
    BY <1>3, QuotaGrows
  <2>3. MaxRetries \in Nat
    BY DEF R!RetriesAssumption
  <2>. QED
    BY <1>3, <2>1, <2>2, <2>3
<1>5. ASSUME NEW e \in Endpoints, NEW r \in Requests PROVE InQuota(e, r)'
  <2>1. effects[e][r] <= Quota(lives) /\ effects[e][r] \in Nat
    BY RemoteTypes DEF RemoteInv, InQuota
  <2>2. \A c \in Callers : ~Executing(c, e, r)'
    BY <1>1 DEF Executing
  <2>3. effects'[e][r] = effects[e][r]
    BY <1>1
  <2>. QED
    BY <1>4, <2>1, <2>2, <2>3 DEF InQuota
<1>. QED
  BY <1>2, <1>5 DEF RemoteInv

LEMMA RemoteInit == ASSUME R!RetriesAssumption, R!Init PROVE RemoteInv
<1>1. R!TypeOK
  BY DEF R!Init, R!TypeOK, R!RetriesAssumption
<1>2. Quota(lives) \in Nat /\ Quota(lives - 1) \in Nat
  BY <1>1, RemoteTypes, QuotaGrows
<1>3. \A e \in Endpoints, r \in Requests : effects[e][r] = 0
  BY DEF R!Init
<1>4. \A c \in Callers : call[c] = NoCall
  BY DEF R!Init
<1>. QED
  BY <1>1, <1>2, <1>3, <1>4 DEF RemoteInv, InQuota, Executing

LEMMA RemoteStep ==
    ASSUME R!RetriesAssumption, RemoteInv, [R!Next]_(R!vars) PROVE RemoteInv'
<1>1. CASE UNCHANGED R!vars
  BY <1>1, QuietRemote DEF R!vars, RemoteInv, R!TypeOK
<1>2. CASE R!Restart
  BY <1>2, RestartKeeps
<1>3. ASSUME NEW cred \in Credentials, R!Expire(cred) PROVE RemoteInv'
  BY <1>3, QuietRemote DEF R!Expire, RemoteInv, R!TypeOK
<1>4. ASSUME NEW c \in Callers,
             \/ R!Answered(c) \/ R!Damaged(c)
             \/ \E ok \in BOOLEAN : R!Lost(c, ok) \/ R!Unanswered(c, ok) \/ R!Refused(c, ok)
      PROVE  RemoteInv'
  BY <1>4, CallsKeep
<1>5. ASSUME NEW ok \in BOOLEAN, NEW e \in Endpoints,
             \/ R!Register(e, ok) \/ R!Unregister(e, ok)
             \/ \E cred \in Credentials : R!RotateCredential(e, cred, ok)
             \/ \E answered \in BOOLEAN : R!CheckHealth(e, answered, ok)
      PROVE  RemoteInv'
  BY <1>5, EndpointsKeep
<1>6. ASSUME NEW ok \in BOOLEAN, NEW e \in Endpoints, NEW c \in Callers, NEW r \in Requests,
             R!Execute(c, e, r, ok)
      PROVE  RemoteInv'
  BY <1>6, ExecuteKeeps
<1>. QED
  BY <1>1, <1>2, <1>3, <1>4, <1>5, <1>6 DEF R!Next

LEMMA WithinQuota == ASSUME RemoteInv PROVE R!BoundedEffects
  BY DEF RemoteInv, InQuota, Quota, R!BoundedEffects
-----------------------------------------------------------------------------
(* The components together.  A behaviour stays one of its part; while it is *)
(* one, the invariant of that component holds.  No assumption is needed     *)
(* beyond those that MCCoordination states, and no fairness.                *)

CoordinationInv ==
    /\ part = "registry" => RegistryInv
    /\ part = "sync" => SyncInv
    /\ part = "remote" => RemoteInv

LEMMA CoordinationInit == Init => CoordinationInv
<1>1. /\ part = "registry" /\ Init => A!Init
      /\ part = "sync" /\ Init => S!Init
      /\ part = "remote" /\ Init => R!Init
  BY DEF Init
<1>. QED
  BY <1>1, RegistryInit, SyncInit, RemoteInit,
     RegistryAssumption, SyncAssumption, RemoteAssumption
  DEF CoordinationInv

LEMMA PartStep ==
    ASSUME [Next]_allVars
    PROVE  /\ part' = part
           /\ part = "registry" => [A!Next]_(A!vars)
           /\ part = "sync" => [S!Next]_(S!vars)
           /\ part = "remote" => [R!Next]_(R!vars)
<1>1. CASE UNCHANGED allVars
  BY <1>1 DEF allVars, registryVars, syncVars, remoteVars, A!vars, S!vars, R!vars
<1>2. CASE Next
  BY <1>2 DEF Next, SyncStep
<1>. QED
  BY <1>1, <1>2

LEMMA CoordinationStep == ASSUME CoordinationInv, [Next]_allVars PROVE CoordinationInv'
<1>1. CASE part = "registry"
  BY <1>1, PartStep, RegistryStep, RegistryAssumption DEF CoordinationInv
<1>2. CASE part = "sync"
  BY <1>2, PartStep, SyncStepKeeps, SyncAssumption DEF CoordinationInv
<1>3. CASE part = "remote"
  BY <1>3, PartStep, RemoteStep, RemoteAssumption DEF CoordinationInv
<1>4. CASE part \notin {"registry", "sync", "remote"}
  BY <1>4, PartStep DEF CoordinationInv
<1>. QED
  BY <1>1, <1>2, <1>3, <1>4

\* The inductive invariant of each component, for whichever the behaviour is one of.
THEOREM CoordinationInvariant == Spec => []CoordinationInv
<1>1. CoordinationInv /\ [Next]_allVars => CoordinationInv'
  BY CoordinationStep
<1>. QED
  BY <1>1, CoordinationInit, PTL DEF Spec

\* AgentRegistry: an agent that was reported lost is offered no work before it is
\* heard of again, nor called healthy before the second time, whatever is written,
\* lost and restored in between.
THEOREM CoordinationProbation == Spec => []ProbationHolds
<1>1. CoordinationInv => ProbationHolds
  BY ProbationEnds DEF CoordinationInv, RegistryInv, ProbationHolds
<1>. QED
  BY <1>1, CoordinationInvariant, PTL

\* SyncCoordinator: what counts as applied is wholly in the store, in memory and in
\* sync.json, for any number of devices, synchronizations and items, until a backup
\* is restored.
THEOREM CoordinationAppliesWholes == Spec => []AppliedIsWhole
<1>1. CoordinationInv => AppliedIsWhole
  BY DEF CoordinationInv, SyncInv, Sound, AppliedIsWhole, S!AppliedIsWhole
<1>. QED
  BY <1>1, CoordinationInvariant, PTL

\* SyncCoordinator: two devices never rely on the default lock.
THEOREM CoordinationLocksOne == Spec => []OneLockHolder
<1>1. CoordinationInv => OneLockHolder
  BY LockedByOne DEF CoordinationInv, OneLockHolder
<1>. QED
  BY <1>1, CoordinationInvariant, PTL

\* RemoteHandoff: an endpoint carries a request out at most as often as one process
\* may try, times the processes there have been.
THEOREM CoordinationBounds == Spec => []BoundedEffects
<1>1. CoordinationInv => BoundedEffects
  BY WithinQuota DEF CoordinationInv, RemoteInv, BoundedEffects
<1>. QED
  BY <1>1, CoordinationInvariant, PTL

=============================================================================
