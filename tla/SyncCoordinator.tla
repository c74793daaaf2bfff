--------------------------- MODULE SyncCoordinator ---------------------------
(***************************************************************************)
(* SyncCoordinator and its DeviceRegistry (sync.py), in one process.  The  *)
(* only calls that last are synchronize, and flush_offline, which calls    *)
(* it: each of their writes is a step here, a crash can come between any   *)
(* two, and the callback that derives the items may reach the registry.    *)
(* Every other operation is one action.                                    *)
(*                                                                         *)
(* Left out: versions, cursors and checksums of items, scopes and trust    *)
(* (they only refuse), and conflicts (synchronize finds none).  The        *)
(* manifest that synchronize verifies has no items.                        *)
(***************************************************************************)
EXTENDS Naturals, Sequences

CONSTANTS
    Devices,
    SyncIds,    \* ids of synchronizations
    Owner,      \* Owner[x]: the device that asks for x
    Items,      \* the items of a device, in the order they are applied
    Default,    \* the lock key of devices that call acquire_lock themselves
    Nothing,    \* no lock, no call, no item, no snapshot
    MaxQueue,   \* max_queue
    MaxFaults   \* bound: writes that raise, crashes, refused items, revocations

\* An active device is registered or online: no operation tells these apart.
DeviceStatus == {"unknown", "active", "revoked", "quarantined"}

\* A key of synchronize is "sync:" and the device; each call has a session of
\* its own, and so has each device that calls acquire_lock.
Keys == Devices \union {Default}
Locks == [holder : Devices, live : BOOLEAN]

\* No device has the default key, and no lock or id is mistaken for none.
KeysAssumption ==
    /\ MaxFaults \in Nat
    /\ Owner \in [SyncIds -> Devices]
    /\ Default \notin Devices
    /\ Nothing \notin Locks \union SyncIds

Stores == [Devices -> [Items -> SyncIds \union {Nothing}]]

\* What _save writes.  open: the ids whose latest session is pending or failed,
\* which can be recovered alike; store: who wrote each item last.
Images ==
    [open : SUBSET SyncIds,
     locks : [Keys -> Locks \union {Nothing}],
     queue : [Devices -> Seq(SyncIds)],
     applied : SUBSET SyncIds,
     store : Stores]

\* The call in progress: the id and the step it is at, the error on its way to
\* the caller, and what flush_offline has left to do (Nothing: not a flush).
Runs ==
    [id : SyncIds, at : {"lock", "apply", "release", "complete", "next"},
     error : {"none", "sync", "os"}, rest : Seq(SyncIds) \union {Nothing}]

VARIABLES
    devMem, devDisk,  \* the registry and devices.json
    mem, disk,        \* the coordinator and sync.json
    run,              \* the call in progress, or Nothing
    trust,            \* devices that rely on the lock Default
    snapshot,         \* the store in a backup, or Nothing
    restored,         \* history: a backup has been restored
    faults            \* how many so far

vars == <<devMem, devDisk, mem, disk, run, trust, snapshot, restored, faults>>
devices == <<devMem, devDisk>>
rest == <<trust, snapshot, restored>>

Empty ==
    [open |-> {},
     locks |-> [k \in Keys |-> Nothing],
     queue |-> [d \in Devices |-> <<>>],
     applied |-> {},
     store |-> [d \in Devices |-> [i \in Items |-> Nothing]]]

Init ==
    /\ devMem = [d \in Devices |-> "unknown"]
    /\ devDisk = devMem
    /\ mem = Empty
    /\ disk = Empty
    /\ run = Nothing
    /\ trust = {}
    /\ snapshot = Nothing
    /\ restored = FALSE
    /\ faults = 0

\* Most operations write the file twice: the write raises ("unwritten"), or the
\* second one does ("written"), after the memory changed.
Outcomes == {"ok", "unwritten", "written"}

Fault(happens) ==
    /\ happens => faults < MaxFaults
    /\ faults' = IF happens THEN faults + 1 ELSE faults

Save(image, out) ==
    /\ Fault(out # "ok")
    /\ mem' = image
    /\ disk' = IF out = "unwritten" THEN disk ELSE image

-----------------------------------------------------------------------------
(* The registry.                                                            *)

SetDevice(d, st, ok) ==
    /\ devMem' = [devMem EXCEPT ![d] = st]
    /\ devDisk' = IF ok THEN devMem' ELSE devDisk
    /\ UNCHANGED <<mem, disk, run, rest>>

Register(d) ==
    /\ devMem[d] = "unknown"
    /\ SetDevice(d, "active", TRUE)
    /\ UNCHANGED faults

\* revoke and isolate; the callback of synchronize may call them.
Revoke(d, ok) ==
    /\ devMem[d] \in DeviceStatus \ {"unknown", "revoked"}
    /\ SetDevice(d, "revoked", ok)
    /\ Fault(TRUE)

Isolate(d, ok) ==
    /\ devMem[d] # "unknown"
    /\ SetDevice(d, "quarantined", ok)
    /\ Fault(TRUE)

\* device_recovery lets every device in again, revoked ones too.
DeviceRecovery(d) ==
    /\ run = Nothing
    /\ devMem[d] # "unknown"
    /\ devMem' = [devMem EXCEPT ![d] = "active"]
    /\ devDisk' = devMem'
    /\ Save(mem, "ok")
    /\ UNCHANGED <<run, rest>>

-----------------------------------------------------------------------------
(* synchronize.                                                             *)

\* authorize, and the check that the id has not been applied.
Admitted(x) == devMem[Owner[x]] = "active" /\ x \notin mem.applied

\* What becomes of the call when an error reaches the caller: flush_offline
\* goes on after a SyncError, and passes an OSError on.
Raised(error) ==
    IF run.rest # Nothing /\ error = "sync"
    THEN [run EXCEPT !.at = "next", !.error = "none"] ELSE Nothing

\* start_session.
StartSession(x, left, out) ==
    /\ Admitted(x)
    /\ Save([mem EXCEPT !.open = @ \union {x}], out)
    /\ run' = IF out = "ok"
              THEN [id |-> x, at |-> "lock", error |-> "none", rest |-> left]
              ELSE Nothing
    /\ UNCHANGED <<devices, rest>>

Synchronize(x, out) == run = Nothing /\ StartSession(x, Nothing, out)

\* incremental_sync and delta_sync count the items and leave the session as it
\* started.
IncrementalSync(x) ==
    /\ run = Nothing
    /\ Admitted(x)
    /\ Save([mem EXCEPT !.open = @ \union {x}], "ok")
    /\ UNCHANGED <<run, devices, rest>>

\* selective_sync calls its session complete, and applies nothing either.
SelectiveSync(x, ok) ==
    /\ run = Nothing
    /\ Admitted(x)
    /\ Fault(~ok)
    /\ mem' = [mem EXCEPT !.open = @ \ {x}]
    /\ disk' = IF ok THEN mem' ELSE [mem EXCEPT !.open = @ \union {x}]
    /\ UNCHANGED <<run, devices, rest>>

At(step) == run # Nothing /\ run.at = step

Dev == Owner[run.id]

Held(k) == mem.locks[k] # Nothing /\ mem.locks[k].live

\* Mutated form of Blocks: the time to live of a lock is not looked at.
BlocksForEver(k) == mem.locks[k] # Nothing

\* Whether acquire_lock is refused to a new session.
Blocks(k) == Held(k)

\* acquire_lock of synchronize, outside its try block: a lock that was taken
\* in memory stays when the write raises.
TakeLock(out) ==
    /\ At("lock")
    /\ IF devMem[Dev] # "active" \/ Blocks(Dev)
         THEN /\ out = "ok"
              /\ run' = Raised("sync")
              /\ UNCHANGED <<mem, disk, faults>>
         ELSE /\ Save([mem EXCEPT !.locks[Dev] = [holder |-> Dev, live |-> TRUE]], out)
              /\ run' = IF out = "ok" THEN [run EXCEPT !.at = "apply"] ELSE Raised("os")
    /\ UNCHANGED <<devices, rest>>

Release(error) == [run EXCEPT !.at = "release", !.error = error]

Written(S) ==
    [mem.store EXCEPT ![Dev] = [i \in Items |-> IF i \in S THEN run.id ELSE @[i]]]

\* heartbeat raises for a device that was revoked or isolated meanwhile.
Beats == devMem[Dev] = "active"

\* Every item is safe: the items and the id are recorded by one write, before
\* the heartbeat.
Apply(ok) ==
    /\ At("apply")
    /\ Save([mem EXCEPT !.store = Written(Items), !.applied = @ \union {run.id}],
            IF ok THEN "ok" ELSE "unwritten")
    /\ run' = Release(IF ~ok THEN "os" ELSE IF Beats THEN "none" ELSE "sync")
    /\ UNCHANGED <<devices, rest>>

\* Mutated form of Failing: the id is recorded before its items are applied.
FailingRecorded(S) ==
    [mem EXCEPT !.store = Written(S), !.open = @ \union {run.id},
                !.applied = @ \union {run.id}]

\* The items S are in the store when the next one is found unsafe.
Failing(S) == [mem EXCEPT !.store = Written(S), !.open = @ \union {run.id}]

\* _fail_session writes what was applied so far.
ApplyRefused(S, out) ==
    /\ At("apply")
    /\ S # Items
    /\ faults < MaxFaults
    /\ faults' = faults + 1
    /\ mem' = Failing(S)
    /\ disk' = IF out = "unwritten" THEN disk ELSE Failing(S)
    /\ run' = Release(IF out = "ok" THEN "sync" ELSE "os")
    /\ UNCHANGED <<devices, rest>>

\* release_lock in the finally clause.
GiveLockBack(out) ==
    /\ At("release")
    /\ Save([mem EXCEPT !.locks[Dev] = Nothing], out)
    /\ run' = IF out # "ok" THEN Raised("os")
              ELSE IF run.error # "none" THEN Raised(run.error)
              ELSE [run EXCEPT !.at = "complete"]
    /\ UNCHANGED <<devices, rest>>

Complete(ok) ==
    /\ At("complete")
    /\ Save([mem EXCEPT !.open = @ \ {run.id}], IF ok THEN "ok" ELSE "unwritten")
    /\ run' = IF ~ok \/ run.rest = Nothing THEN Nothing ELSE [run EXCEPT !.at = "next"]
    /\ UNCHANGED <<devices, rest>>

-----------------------------------------------------------------------------
(* The offline queue.                                                       *)

QueueOffline(x, out) ==
    /\ run = Nothing
    /\ Len(mem.queue[Owner[x]]) < MaxQueue
    /\ Save([mem EXCEPT !.queue[Owner[x]] = Append(@, x)], out)
    /\ UNCHANGED <<run, devices, rest>>

\* flush_offline takes the queue out of memory, and only then authenticates.
FlushOffline(d) ==
    /\ run = Nothing
    /\ mem.queue[d] # <<>>
    /\ mem' = [mem EXCEPT !.queue[d] = <<>>]
    /\ run' = IF devMem[d] = "active"
              THEN [id |-> Head(mem.queue[d]), at |-> "next", error |-> "none",
                    rest |-> mem.queue[d]]
              ELSE Nothing
    /\ UNCHANGED <<disk, faults, devices, rest>>

\* It synchronizes under each queued id (the queued items are not used) ...
FlushNext(out) ==
    /\ At("next")
    /\ run.rest # <<>>
    /\ Admitted(Head(run.rest))
    /\ StartSession(Head(run.rest), Tail(run.rest), out)

\* ... passes over the ones that are refused ...
FlushRefused ==
    /\ At("next")
    /\ run.rest # <<>>
    /\ ~Admitted(Head(run.rest))
    /\ run' = [run EXCEPT !.rest = Tail(@)]
    /\ UNCHANGED <<mem, disk, faults, devices, rest>>

\* ... and writes the file.
FlushEnd(ok) ==
    /\ At("next")
    /\ run.rest = <<>>
    /\ Save(mem, IF ok THEN "ok" ELSE "unwritten")
    /\ run' = Nothing
    /\ UNCHANGED <<devices, rest>>

-----------------------------------------------------------------------------
(* Recovery and backups.                                                    *)

RecoverInterrupted(x, out) ==
    /\ run = Nothing
    /\ x \in mem.open
    /\ Save(mem, out)
    /\ UNCHANGED <<run, devices, rest>>

BackupSnapshot ==
    /\ run = Nothing
    /\ snapshot' = mem.store
    /\ Save(mem, "ok")
    /\ UNCHANGED <<run, devices, trust, restored>>

\* restore_snapshot keeps the ids that were applied since.
RestoreSnapshot(out) ==
    /\ run = Nothing
    /\ snapshot # Nothing
    /\ Save([mem EXCEPT !.store = snapshot], out)
    /\ restored' = TRUE
    /\ UNCHANGED <<run, devices, trust, snapshot>>

-----------------------------------------------------------------------------
(* Locks that devices take themselves.                                      *)

AcquireLock(d, out) ==
    /\ run = Nothing
    /\ devMem[d] = "active"
    /\ Held(Default) => mem.locks[Default].holder = d
    /\ Save([mem EXCEPT !.locks[Default] = [holder |-> d, live |-> TRUE]], out)
    /\ trust' = IF out = "ok" THEN trust \union {d} ELSE trust
    /\ UNCHANGED <<run, devices, snapshot, restored>>

\* Mutated form of MayRefresh: an expired lock can be renewed.
MayRefreshLate(d) == mem.locks[Default] # Nothing /\ d \in Devices

MayRefresh(d) == Held(Default) /\ mem.locks[Default].holder = d

RefreshLock(d, out) ==
    /\ run = Nothing
    /\ MayRefresh(d)
    /\ Save([mem EXCEPT !.locks[Default] = [holder |-> d, live |-> TRUE]], out)
    /\ trust' = IF out = "ok" THEN trust \union {d} ELSE trust
    /\ UNCHANGED <<run, devices, snapshot, restored>>

\* The device gives the lock up even if the write raises.
ReleaseLock(d, out) ==
    /\ run = Nothing
    /\ mem.locks[Default] # Nothing
    /\ mem.locks[Default].holder = d
    /\ Save([mem EXCEPT !.locks[Default] = Nothing], out)
    /\ trust' = trust \ {d}
    /\ UNCHANGED <<run, devices, snapshot, restored>>

\* The locks of k expire: the one in the file is never the younger one.  Who
\* relies on it was told the same time.
Lapse(k) ==
    /\ \E image \in {mem, disk} : image.locks[k] # Nothing /\ image.locks[k].live
    /\ mem' = [mem EXCEPT !.locks[k] = IF @ = Nothing THEN @ ELSE [@ EXCEPT !.live = FALSE]]
    /\ disk' = [disk EXCEPT !.locks[k] = IF @ = Nothing THEN @ ELSE [@ EXCEPT !.live = FALSE]]
    /\ trust' = IF k = Default THEN {} ELSE trust
    /\ UNCHANGED <<devices, run, snapshot, restored, faults>>

\* The process dies; the next one loads both files.
Crash ==
    /\ Fault(TRUE)
    /\ mem' = disk
    /\ devMem' = devDisk
    /\ run' = Nothing
    /\ UNCHANGED <<devDisk, disk, rest>>

Step ==
    \/ FlushRefused
    \/ \E out \in Outcomes : TakeLock(out) \/ GiveLockBack(out) \/ FlushNext(out)
    \/ \E ok \in BOOLEAN : Apply(ok) \/ Complete(ok) \/ FlushEnd(ok)

Operate ==
    \/ BackupSnapshot
    \/ \E d \in Devices : DeviceRecovery(d) \/ FlushOffline(d)
    \/ \E x \in SyncIds : IncrementalSync(x) \/ \E ok \in BOOLEAN : SelectiveSync(x, ok)
    \/ \E d \in Devices, ok \in BOOLEAN : Revoke(d, ok) \/ Isolate(d, ok)
    \/ \E out \in Outcomes :
          \/ RestoreSnapshot(out)
          \/ \E S \in SUBSET Items : ApplyRefused(S, out)
          \/ \E x \in SyncIds : QueueOffline(x, out) \/ RecoverInterrupted(x, out)
          \/ \E d \in Devices :
                AcquireLock(d, out) \/ RefreshLock(d, out) \/ ReleaseLock(d, out)

Next ==
    \/ Crash
    \/ Step
    \/ Operate
    \/ \E d \in Devices : Register(d)
    \/ \E x \in SyncIds, out \in Outcomes : Synchronize(x, out)
    \/ \E k \in Keys : Lapse(k)

Spec == Init /\ [][Next]_vars

\* A device registers and calls again with each id it wants applied; a call
\* that started goes on; time passes.
Fairness ==
    /\ WF_vars(Step)
    /\ \A d \in Devices : WF_vars(Register(d))
    /\ \A k \in Keys : WF_vars(Lapse(k))
    /\ \A x \in SyncIds : SF_vars(Synchronize(x, "ok"))

-----------------------------------------------------------------------------
\* Registry, coordinator and files keep their shape; a call in progress has a
\* step.
TypeOK ==
    /\ devMem \in [Devices -> DeviceStatus]
    /\ devDisk \in [Devices -> DeviceStatus]
    /\ mem \in Images /\ disk \in Images
    /\ run \in Runs \union {Nothing}
    /\ trust \subseteq Devices
    /\ snapshot \in Stores \union {Nothing}
    /\ restored \in BOOLEAN /\ faults \in 0..MaxFaults

Whole(image) ==
    \A d \in Devices :
        (\A i \in Items : image.store[d][i] \in image.applied)
            => \A i, j \in Items : image.store[d][i] = image.store[d][j]

\* Items of two synchronizations of a device never both count as applied: one
\* that broke off in the middle is not recorded as applied.  This is so in memory
\* and in the file, wherever the process dies or a write raises, as long as no
\* backup is restored.
AppliedIsWhole == ~restored => Whole(mem) /\ Whole(disk)

\* Two devices never rely on the same lock, whatever writes raise and whenever
\* the process is restarted, if their sessions have different ids.
OneLockHolder == \A d, e \in trust : d = e

\* Every synchronization a device keeps asking for is applied in the end, if
\* its device stays admitted: the lock a dead process left behind expires.
EventuallySynced ==
    \A x \in SyncIds : <>[](devMem[Owner[x]] = "active") => <>[](x \in mem.applied)

=============================================================================
