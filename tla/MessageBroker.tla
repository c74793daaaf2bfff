---------------------------- MODULE MessageBroker ----------------------------
(***************************************************************************)
(* MessageBroker (messaging.py): the messages of one sender, from send to  *)
(* completion, retry or expiry, and the file the broker rewrites after     *)
(* every operation.  The write may raise after the memory changed, and the *)
(* process may die and load the file again.                                *)
(*                                                                         *)
(* The kinds of message (direct, targeted, request, heartbeat, ...) differ *)
(* in payload only: each send_* is Send, and broadcast is one Send for     *)
(* each receiver, up to the first that raises.  Left out: scopes, payloads *)
(* and validation (they only refuse), events and traces (nothing reads     *)
(* them), and the queries.  A resent id whose idempotency key is the same  *)
(* returns the stored message and changes nothing.                         *)
(***************************************************************************)
EXTENDS Naturals

CONSTANTS
    Ids,         \* message ids
    Agents,
    Sender,      \* the agent that sends
    To,          \* To[m]: the receiver of m, or Nobody
    Nobody,
    NoMsg,       \* no message with this id, and no file
    MaxRetries,  \* max_retries
    MaxFaults    \* bound: writes that raise and crashes

\* _VALID_TRANSITIONS.
Allowed ==
    [queued       |-> {"sent", "cancelled", "expired"},
     sent         |-> {"delivered", "failed", "expired", "cancelled"},
     delivered    |-> {"acknowledged", "failed", "cancelled"},
     acknowledged |-> {"processing", "failed", "cancelled"},
     processing   |-> {"completed", "failed", "cancelled"},
     completed    |-> {},
     failed       |-> {"queued"},
     expired      |-> {"queued"},
     cancelled    |-> {"queued"}]

Status == DOMAIN Allowed

\* st: status; seq: sequence; tries: retry_count; arrived: delivered_at is set.
Messages ==
    [st : Status, seq : Nat \ {0}, tries : 0..MaxRetries, arrived : BOOLEAN]

\* What _save writes: the messages, the last number of each receiver, and the
\* agents that may send and receive.
Images ==
    [msgs : [Ids -> Messages \union {NoMsg}],
     seq : [Agents \union {Nobody} -> Nat],
     known : SUBSET Agents]

\* Receivers are agents, and NoMsg is neither a message nor what _save writes.
BrokerAssumption ==
    /\ To \in [Ids -> Agents \union {Nobody}]
    /\ MaxRetries \in Nat /\ MaxFaults \in Nat
    /\ NoMsg \notin Messages \union Images

VARIABLES
    mem,         \* the broker's dictionaries
    disk,        \* messaging.json, or NoMsg
    old,         \* ids whose time to live is over, counted from their creation
    faults,      \* how many so far
    first,       \* history: ids whose first send returned
    deliveries,  \* history: how many deliver calls returned, of each id
    done         \* history: ids whose complete returned

vars == <<mem, disk, old, faults, first, deliveries, done>>
history == <<first, deliveries, done>>

Empty ==
    [msgs |-> [m \in Ids |-> NoMsg],
     seq |-> [a \in Agents \union {Nobody} |-> 0],
     known |-> {}]

Init ==
    /\ mem = Empty
    /\ disk = NoMsg
    /\ old = {}
    /\ faults = 0
    /\ first = {}
    /\ deliveries = [m \in Ids |-> 0]
    /\ done = {}

\* Mutated form of Save: the file is written before the memory changes.
SaveBehind(image, ok) ==
    /\ ok \/ faults < MaxFaults
    /\ mem' = image
    /\ disk' = IF ok THEN mem ELSE disk
    /\ faults' = IF ok THEN faults ELSE faults + 1
    /\ UNCHANGED old

\* The memory changes, then _save rewrites the file or raises.
Save(image, ok) ==
    /\ ok \/ faults < MaxFaults
    /\ mem' = image
    /\ disk' = IF ok THEN image ELSE disk
    /\ faults' = IF ok THEN faults ELSE faults + 1
    /\ UNCHANGED old

Sent == {m \in Ids : mem.msgs[m] # NoMsg}

-----------------------------------------------------------------------------
(* Agents and sending.                                                      *)

RegisterKnownAgent(a, ok) ==
    /\ Save([mem EXCEPT !.known = @ \union {a}], ok)
    /\ UNCHANGED history

UnregisterKnownAgent(a, ok) ==
    /\ Save([mem EXCEPT !.known = @ \ {a}], ok)
    /\ UNCHANGED history

Authorized(m) == Sender \in mem.known /\ (To[m] = Nobody \/ To[m] \in mem.known)

NextSequence(m) == [mem.seq EXCEPT ![To[m]] = @ + 1]

\* create_message: an envelope that was never sent.
CreateMessage(sequence) ==
    [st |-> "queued", seq |-> sequence, tries |-> 0, arrived |-> FALSE]

\* send of an unknown id.  An envelope that is too old is stored expired.
Send(m, ok) ==
    /\ m \notin Sent
    /\ Authorized(m)
    /\ LET new == CreateMessage(NextSequence(m)[To[m]])
       IN  Save([mem EXCEPT
                   !.seq = NextSequence(m),
                   !.msgs[m] = IF m \in old THEN [new EXCEPT !.st = "expired"] ELSE new], ok)
    /\ first' = IF ok THEN first \union {m} ELSE first
    /\ UNCHANGED <<deliveries, done>>

-----------------------------------------------------------------------------
(* The receiver's side, and the end of a message.                           *)

May(m, st) == m \in Sent /\ st \in Allowed[mem.msgs[m].st]

With(m, st) == [mem EXCEPT !.msgs[m].st = st]

\* A queued message is marked sent on the way.
MaySent(m, st) ==
    /\ m \in Sent
    /\ st \in Allowed[IF mem.msgs[m].st = "queued" THEN "sent" ELSE mem.msgs[m].st]

Deliver(m, ok) ==
    /\ MaySent(m, "delivered")
    /\ Save([mem EXCEPT !.msgs[m].st = "delivered", !.msgs[m].arrived = TRUE], ok)
    /\ deliveries' = [deliveries EXCEPT ![m] = IF ok THEN @ + 1 ELSE @]
    /\ UNCHANGED <<first, done>>

Acknowledge(m, ok) ==
    May(m, "acknowledged") /\ Save(With(m, "acknowledged"), ok) /\ UNCHANGED history

Process(m, ok) ==
    May(m, "processing") /\ Save(With(m, "processing"), ok) /\ UNCHANGED history

Complete(m, ok) ==
    /\ May(m, "completed")
    /\ Save(With(m, "completed"), ok)
    /\ done' = IF ok THEN done \union {m} ELSE done
    /\ UNCHANGED <<first, deliveries>>

Fail(m, ok) ==
    MaySent(m, "failed") /\ Save(With(m, "failed"), ok) /\ UNCHANGED history

Cancel(m, ok) ==
    May(m, "cancelled") /\ Save(With(m, "cancelled"), ok) /\ UNCHANGED history

-----------------------------------------------------------------------------
(* Retries, staleness and agents that go away.                              *)

\* Mutated form of Requeued: the attempt is not counted.
RequeuedUncounted(msg) == [msg EXCEPT !.st = "queued"]

Requeued(msg) == [msg EXCEPT !.st = "queued", !.tries = @ + 1]

Retry(m, ok) ==
    /\ May(m, "queued")
    /\ mem.msgs[m].tries < MaxRetries
    /\ Save([mem EXCEPT !.msgs[m] = Requeued(@)], ok)
    /\ UNCHANGED history

\* detect_stale looks at every message that is not completed ...
Unfinished(msg) == msg # NoMsg /\ msg.st # "completed"

StaleOf(image) == {m \in old : Unfinished(image.msgs[m])}

\* ... and expires it without asking the transition table.
Expired(image) ==
    [image EXCEPT !.msgs =
        [m \in Ids |-> IF m \in StaleOf(image) THEN [@[m] EXCEPT !.st = "expired"]
                                               ELSE @[m]]]

DetectStale(ok) ==
    /\ StaleOf(mem) # {}
    /\ Save(Expired(mem), ok)
    /\ UNCHANGED history

\* detect_delivery_failures: queued or sent, and never delivered before.
Stuck ==
    {m \in Sent : mem.msgs[m].st \in {"queued", "sent"} /\ ~mem.msgs[m].arrived}

Retriable == {m \in Stuck : mem.msgs[m].tries < MaxRetries}

RequeuedAll(S) ==
    [mem EXCEPT !.msgs = [m \in Ids |-> IF m \in S THEN Requeued(@[m]) ELSE @[m]]]

\* retry_stuck_messages writes the file after each message ...
RetryStuckMessages ==
    /\ Retriable # {}
    /\ Save(RequeuedAll(Retriable), TRUE)
    /\ UNCHANGED history

\* ... and the write of message m raises after those of S.
RetryStuckMessagesRaises(S, m) ==
    /\ m \in Retriable \ S
    /\ S \subseteq Retriable
    /\ faults < MaxFaults
    /\ mem' = RequeuedAll(S \union {m})
    /\ disk' = IF S = {} THEN disk ELSE RequeuedAll(S)
    /\ faults' = faults + 1
    /\ UNCHANGED <<old, history>>

Pending(a) == {m \in Sent : To[m] = a /\ mem.msgs[m].st \in {"queued", "sent"}}

\* handle_unavailable_agent.
HandleUnavailableAgent(a, ok) ==
    /\ Pending(a) # {}
    /\ Save([mem EXCEPT !.msgs = [m \in Ids |->
                IF m \in Pending(a) THEN [@[m] EXCEPT !.st = "cancelled"] ELSE @[m]]], ok)
    /\ UNCHANGED history

-----------------------------------------------------------------------------
(* The file.                                                                *)

\* _load puts the messages of the file over those in memory, and replaces the
\* rest.
Loaded(image) ==
    IF disk = NoMsg THEN image
    ELSE [disk EXCEPT !.msgs =
             [m \in Ids |-> IF @[m] # NoMsg THEN @[m] ELSE image.msgs[m]]]

\* recover: _load, then detect_stale.
Recover(ok) ==
    /\ IF StaleOf(Loaded(mem)) = {}
         THEN /\ ok
              /\ mem' = Loaded(mem)
              /\ UNCHANGED <<disk, old, faults>>
         ELSE Save(Expired(Loaded(mem)), ok)
    /\ UNCHANGED history

\* The process dies; the next one loads the file.
Crash ==
    /\ faults < MaxFaults
    /\ faults' = faults + 1
    /\ mem' = Loaded(Empty)
    /\ UNCHANGED <<disk, old, history>>

\* is_expired counts from the creation of the envelope, retried or not.
Lapse(m) ==
    /\ old' = old \union {m}
    /\ UNCHANGED <<mem, disk, faults, history>>

Next ==
    \/ Crash
    \/ RetryStuckMessages
    \/ \E m \in Ids : Lapse(m) \/ \E S \in SUBSET Ids : RetryStuckMessagesRaises(S, m)
    \/ \E ok \in BOOLEAN :
          \/ DetectStale(ok) \/ Recover(ok)
          \/ \E a \in Agents :
                \/ RegisterKnownAgent(a, ok)
                \/ UnregisterKnownAgent(a, ok)
                \/ HandleUnavailableAgent(a, ok)
          \/ \E m \in Ids :
                \/ Send(m, ok) \/ Deliver(m, ok) \/ Acknowledge(m, ok) \/ Process(m, ok)
                \/ Complete(m, ok) \/ Fail(m, ok) \/ Cancel(m, ok) \/ Retry(m, ok)

Spec == Init /\ [][Next]_vars

-----------------------------------------------------------------------------
\* Memory and file hold messages as MessageEnvelope allows them.
TypeOK ==
    /\ mem \in Images
    /\ disk \in Images \union {NoMsg}
    /\ old \subseteq Ids
    /\ faults \in 0..MaxFaults
    /\ first \subseteq Ids /\ done \subseteq Ids
    /\ deliveries \in [Ids -> Nat]

\* Once complete has returned, the message is completed in memory and in the
\* file: no lapse, no recovery, no failed write and no crash brings it back.
ReportedIsFinal ==
    \A m \in done :
        /\ mem.msgs[m] # NoMsg /\ mem.msgs[m].st = "completed"
        /\ disk # NoMsg /\ disk.msgs[m] # NoMsg /\ disk.msgs[m].st = "completed"

\* A message is handed over at most once per attempt, and so at most
\* MaxRetries + 1 times, whatever writes raise and whenever the file is
\* loaded again.
OneDeliveryPerAttempt ==
    \A m \in Ids :
        deliveries[m] > 0 =>
            mem.msgs[m] # NoMsg /\ deliveries[m] <= mem.msgs[m].tries + 1

\* Messages to one receiver have numbers of their own, provided that send
\* returned when it stored them.  (A message whose send raised, and was called
\* again after a recover, may share one.)
NumbersDistinct ==
    \A m, n \in first :
        m # n /\ To[m] = To[n] => mem.msgs[m].seq # mem.msgs[n].seq

=============================================================================
