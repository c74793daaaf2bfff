---------------------------- MODULE AgentRegistry ----------------------------
(***************************************************************************)
(* AgentRegistry (registry.py): which agents there are, when each was last *)
(* heard of, and which are offered work.  The file is rewritten after      *)
(* every change; the write may raise after the memory changed, and the     *)
(* process may die.  A load replaces the memory by the file.               *)
(*                                                                         *)
(* Capabilities, scopes and the other filters only narrow what is offered. *)
(***************************************************************************)
EXTENDS Naturals

CONSTANTS
    Agents,
    Unknown,        \* no record, no file, no backup
    MaxBeats,       \* bound: heartbeats of an agent
    MaxOperations,  \* bound: calls by an operator
    MaxFaults       \* bound: writes that raise and crashes

BoundsAssumption == MaxBeats \in Nat /\ MaxOperations \in Nat /\ MaxFaults \in Nat

AvailabilityStatus == {"online", "offline", "busy", "degraded", "unavailable"}

\* beat: the number of the last heartbeat, 0 for none.
AgentRecord == [st : AvailabilityStatus, beat : 0..MaxBeats]

Registries == [Agents -> AgentRecord \union {Unknown}]

VARIABLES
    mem,         \* _agents
    disk,        \* agents.json
    backups,     \* a backup file
    beats,       \* how many heartbeats of each agent so far
    lapsed,      \* heartbeats up to this one are older than the timeout
    operations,  \* how many so far
    faults,      \* how many so far
    heard        \* history: heartbeats since detect_stale reported the agent,
                 \* up to 2; 2 if it never did, or an operator decided since

vars == <<mem, disk, backups, beats, lapsed, operations, faults, heard>>
time == <<beats, lapsed>>

Nobody == [a \in Agents |-> Unknown]

Init ==
    /\ mem = Nobody
    /\ disk = Unknown
    /\ backups = Unknown
    /\ beats = [a \in Agents |-> 0]
    /\ lapsed = [a \in Agents |-> 0]
    /\ operations = 0
    /\ faults = 0
    /\ heard = [a \in Agents |-> 2]

Save(registry, ok) ==
    /\ ok \/ faults < MaxFaults
    /\ mem' = registry
    /\ disk' = IF ok THEN registry ELSE disk
    /\ faults' = IF ok THEN faults ELSE faults + 1

Operator ==
    /\ operations < MaxOperations
    /\ operations' = operations + 1
    /\ UNCHANGED time

Known == {a \in Agents : mem[a] # Unknown}

\* register, with force for an agent that is known; update and set_status too.
Register(a, st, ok) ==
    /\ Operator
    /\ Save([mem EXCEPT ![a] = [st |-> st, beat |-> 0]], ok)
    /\ heard' = [heard EXCEPT ![a] = 2]
    /\ UNCHANGED backups

SetStatus(a, st, ok) ==
    /\ Operator
    /\ a \in Known
    /\ Save([mem EXCEPT ![a].st = st], ok)
    /\ heard' = [heard EXCEPT ![a] = 2]
    /\ UNCHANGED backups

Unregister(a, ok) ==
    /\ Operator
    /\ a \in Known
    /\ mem[a].st # "busy"
    /\ Save([mem EXCEPT ![a] = Unknown], ok)
    /\ heard' = [heard EXCEPT ![a] = 2]
    /\ UNCHANGED backups

-----------------------------------------------------------------------------
(* Heartbeats.                                                              *)

\* Mutated form of Beaten: a heartbeat always brings the agent online.
BeatenOnline(rec, n) == [rec EXCEPT !.st = "online", !.beat = n]

\* An agent that was unavailable is degraded until its next heartbeat.
Beaten(rec, n) ==
    [rec EXCEPT !.st = IF @ = "unavailable" THEN "degraded" ELSE "online", !.beat = n]

Heartbeat(a, ok) ==
    /\ a \in Known
    /\ beats[a] < MaxBeats
    /\ beats' = [beats EXCEPT ![a] = @ + 1]
    /\ Save([mem EXCEPT ![a] = Beaten(@, beats'[a])], ok)
    /\ heard' = [heard EXCEPT ![a] = IF @ < 2 THEN @ + 1 ELSE 2]
    /\ UNCHANGED <<backups, lapsed, operations>>

\* heartbeat_timeout_seconds pass after the heartbeats up to n.
Lapse(a, n) ==
    /\ lapsed[a] < n /\ n <= beats[a]
    /\ lapsed' = [lapsed EXCEPT ![a] = n]
    /\ UNCHANGED <<mem, disk, backups, beats, operations, faults, heard>>

\* An agent that was never heard of is not stale.
Stale(rec, a) == rec # Unknown /\ rec.beat \in 1..lapsed[a]

Overdue(registry) ==
    {a \in Agents : Stale(registry[a], a) /\ registry[a].st # "unavailable"}

\* detect_stale over registry, which writes the file if it finds any.
Swept(registry, ok) ==
    /\ Save([a \in Agents |-> IF a \in Overdue(registry)
                              THEN [registry[a] EXCEPT !.st = "unavailable"]
                              ELSE registry[a]], ok)
    /\ heard' = [a \in Agents |-> IF ok /\ a \in Overdue(registry) THEN 0 ELSE heard[a]]

DetectStale(ok) ==
    /\ Overdue(mem) # {}
    /\ Swept(mem, ok)
    /\ UNCHANGED <<backups, time, operations>>

-----------------------------------------------------------------------------
(* The file and its backups.                                                *)

Loaded(registry) == IF disk = Unknown THEN registry ELSE disk

\* recover: load the file, then detect_stale.
Recover(ok) ==
    /\ IF Overdue(Loaded(mem)) = {}
         THEN ok /\ mem' = Loaded(mem) /\ UNCHANGED <<disk, faults, heard>>
         ELSE Swept(Loaded(mem), ok)
    /\ UNCHANGED <<backups, time, operations>>

\* A backup is written before the file; it may be the one restored later.
Backup(ok, chosen) ==
    /\ Operator
    /\ Save(mem, ok)
    /\ backups' = IF chosen THEN mem ELSE backups
    /\ UNCHANGED heard

Restore(ok) ==
    /\ Operator
    /\ backups # Unknown
    /\ Save(backups, ok)
    /\ heard' = [a \in Agents |-> 2]
    /\ UNCHANGED backups

\* The process dies; the next one loads the file.
Crash ==
    /\ faults < MaxFaults
    /\ faults' = faults + 1
    /\ mem' = Loaded(Nobody)
    /\ UNCHANGED <<disk, backups, time, operations, heard>>

Next ==
    \/ Crash
    \/ \E a \in Agents, n \in 1..MaxBeats : Lapse(a, n)
    \/ \E ok \in BOOLEAN :
          \/ DetectStale(ok) \/ Recover(ok) \/ Restore(ok)
          \/ \E chosen \in BOOLEAN : Backup(ok, chosen)
          \/ \E a \in Agents :
                \/ Heartbeat(a, ok) \/ Unregister(a, ok)
                \/ \E st \in AvailabilityStatus : Register(a, st, ok) \/ SetStatus(a, st, ok)

Spec == Init /\ [][Next]_vars

-----------------------------------------------------------------------------
\* filter with available_only: whether the agent is offered work.
Offered(a) == a \in Known /\ mem[a].st \notin {"offline", "unavailable"}

\* health_check: whether a delegator may assign it a task.
Healthy(a) ==
    /\ a \in Known
    /\ mem[a].st \in {"online", "busy"}
    /\ mem[a].beat > lapsed[a]

\* Memory, file and backup hold agents as AgentRecord allows them.
TypeOK ==
    /\ mem \in Registries
    /\ disk \in Registries \union {Unknown} /\ backups \in Registries \union {Unknown}
    /\ beats \in [Agents -> 0..MaxBeats] /\ lapsed \in [Agents -> 0..MaxBeats]
    /\ operations \in 0..MaxOperations /\ faults \in 0..MaxFaults
    /\ heard \in [Agents -> 0..2]

\* An agent that detect_stale reported is not offered work before it is heard of
\* again, and not healthy before it is heard of twice, unless an operator says
\* otherwise: no failed write, recovery or restart ends its probation.
ProbationHolds ==
    \A a \in Agents :
        /\ heard[a] = 0 => ~Offered(a)
        /\ heard[a] <= 1 => ~Healthy(a)

=============================================================================
