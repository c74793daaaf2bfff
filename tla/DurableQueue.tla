---------------------------- MODULE DurableQueue ----------------------------
(***************************************************************************)
(* The crash-safe FIFO queue of reliability.py (class DurableQueue).       *)
(*                                                                         *)
(* Every operation first changes the dictionaries in memory and then       *)
(* appends one record to an append-only journal; a new process rebuilds    *)
(* the dictionaries by replaying the journal.  Three images of the queue   *)
(* are kept:                                                               *)
(*   mem   the dictionaries of the running process;                        *)
(*   log   what replaying every record handed to the file object, the      *)
(*         buffered ones included, would yield;                            *)
(*   disk  what replaying the file would yield if the process died now.    *)
(* A line that replay cannot read hides every record appended after it, so *)
(* once a crash has torn a line (broken) log and disk no longer move.      *)
(* Module JournalledQueue keeps the lines and implements this one.         *)
(*                                                                         *)
(* Abstractions: a message is its id; kinds and payloads are left out; the *)
(* clock is left out, so a lease may have lapsed whenever a message is in  *)
(* processing, and a message that waits for its retry may be due or not.   *)
(***************************************************************************)
EXTENDS Naturals, SequencesExt

CONSTANTS
    Ids,          \* message ids
    Workers,      \* callers that dequeue a message and settle it later
    NoMsg,        \* what an idle worker holds
    MaxAttempts,  \* RetryPolicy.max_attempts
    MaxPending,   \* DEFAULT_MAX_PENDING
    MaxFaults,    \* bound: crashes, failed appends and interrupted callers
    Tearing       \* whether a crash may leave a partial last line

ASSUME BoundsAssumption ==
    /\ MaxAttempts \in Nat \ {0}
    /\ MaxPending \in Nat \ {0}
    /\ MaxFaults \in Nat
    /\ Tearing \in BOOLEAN
ASSUME NoMsgAssumption == NoMsg \notin Ids

VARIABLES
    mem, log, disk,  \* the three images
    broken,          \* the file holds a line replay cannot read
    up,              \* the process is running
    held,            \* the message each worker took and has not settled
    accepted,        \* ids whose enqueue returned to its caller
    reclaimed,       \* ids taken back by recover_stale while a worker held them
    faults           \* faults so far

vars == <<mem, log, disk, broken, up, held, accepted, reclaimed, faults>>

Status == {"absent", "pending", "processing", "acked", "dead"}

-----------------------------------------------------------------------------
(* The effect of each journal record on an image: DurableQueue._apply.      *)

EmptyQueue ==
    [st |-> [m \in Ids |-> "absent"], att |-> [m \in Ids |-> 0],
     wait |-> {}, pending |-> <<>>, processing |-> {}, dead |-> {}, acked |-> {}]

\* list.remove, if the id is listed; it never is twice (PendingListSound).
Without(s, m) ==
    IF \E i \in DOMAIN s : s[i] = m
    THEN RemoveAt(s, CHOOSE i \in DOMAIN s : s[i] = m)
    ELSE s

With(s, m) == IF \E i \in DOMAIN s : s[i] = m THEN s ELSE Append(s, m)

Enqueued(q, m) ==
    [q EXCEPT !.st[m] = "pending", !.att[m] = 0,
              !.wait = @ \ {m}, !.pending = Append(@, m)]

\* Mutated form of Leased: the message stays listed, and pending.
LeasedStillPending(q, m) == [q EXCEPT !.processing = @ \union {m}]

Leased(q, m) ==
    [q EXCEPT !.st[m] = "processing", !.pending = Without(@, m),
              !.processing = @ \union {m}]

\* Mutated form of Acked: the lease is kept.
AckedLeased(q, m) == [q EXCEPT !.st[m] = "acked", !.acked = @ \union {m}]

Acked(q, m) ==
    [q EXCEPT !.st[m] = "acked", !.pending = Without(@, m),
              !.processing = @ \ {m}, !.acked = @ \union {m}]

Retried(q, m, attempts) ==
    [q EXCEPT !.st[m] = "pending", !.att[m] = attempts, !.wait = @ \union {m},
              !.pending = With(@, m), !.processing = @ \ {m}]

\* Replaying "dead" takes the id out of the pending list and leaves the
\* number of attempts alone ...
Buried(q, m) ==
    [q EXCEPT !.st[m] = "dead", !.pending = Without(@, m),
              !.processing = @ \ {m}, !.dead = @ \union {m}]

\* ... whereas nack, in memory, does the opposite of both.
Exhausted(q, m) ==
    [q EXCEPT !.st[m] = "dead", !.att[m] = @ + 1,
              !.processing = @ \ {m}, !.dead = @ \union {m}]

Requeued(q, m) ==
    [q EXCEPT !.st[m] = "pending", !.wait = @ \ {m},
              !.pending = With(@, m), !.processing = @ \ {m}]

\* _enforce_pending_limit: drop the oldest ids; those still pending are dead.
\* No record is written for it.
Evicted(q) ==
    LET excess == Len(q.pending) - MaxPending
        gone == {m \in Ids : q.st[m] = "pending" /\
                             \E i \in DOMAIN q.pending : i <= excess /\ q.pending[i] = m}
    IN  IF excess <= 0 THEN q
        ELSE [q EXCEPT !.pending = SubSeq(@, excess + 1, Len(@)),
                       !.st = [m \in Ids |-> IF m \in gone THEN "dead" ELSE @[m]],
                       !.dead = @ \union gone]

-----------------------------------------------------------------------------
(* Appending a record.  It may raise: the memory has already changed, and   *)
(* the record is either in the file or stays in the writer's buffer, to be  *)
(* written with the next one.                                               *)

\* Mutated form of Journal: no record is written.
JournalSkipped(image, ok) == ok /\ UNCHANGED <<log, disk, faults, broken, up>>

Journal(image, ok) ==
    /\ log' = IF broken THEN log ELSE image
    /\ \/ ok /\ disk' = log' /\ UNCHANGED faults
       \/ /\ ~ok
          /\ faults < MaxFaults
          /\ faults' = faults + 1
          /\ disk' \in {disk, log'}
    /\ UNCHANGED <<broken, up>>

-----------------------------------------------------------------------------
Init ==
    /\ mem = EmptyQueue
    /\ log = EmptyQueue
    /\ disk = EmptyQueue
    /\ broken = FALSE
    /\ up = TRUE
    /\ held = [w \in Workers |-> NoMsg]
    /\ accepted = {}
    /\ reclaimed = {}
    /\ faults = 0

\* enqueue, with an id never seen before (the engine passes a fresh one).  The
\* pending limit is enforced after the append: not if the append raises.
Enqueue(m, ok) ==
    /\ up
    /\ m \notin accepted
    /\ mem.st[m] = "absent"
    /\ mem' = IF ok THEN Evicted(Enqueued(mem, m)) ELSE Enqueued(mem, m)
    /\ Journal(Enqueued(log, m), ok)
    /\ accepted' = IF ok THEN accepted \union {m} ELSE accepted
    /\ UNCHANGED <<held, reclaimed>>

\* The first id of the list that is pending and due: every pending one before
\* it is waiting for its retry.
IsNextDue(m) ==
    \E i \in DOMAIN mem.pending :
        /\ mem.pending[i] = m
        /\ mem.st[m] = "pending"
        /\ \A j \in 1..(i - 1) :
              mem.st[mem.pending[j]] = "pending" => mem.pending[j] \in mem.wait

\* dequeue_due with limit = 1.  If the append raises, the message is leased to
\* nobody.
Dequeue(w, m, ok) ==
    /\ up
    /\ held[w] = NoMsg
    /\ IsNextDue(m)
    /\ mem' = Leased(mem, m)
    /\ Journal(Leased(log, m), ok)
    /\ held' = IF ok THEN [held EXCEPT ![w] = m] ELSE held
    /\ UNCHANGED <<accepted, reclaimed>>

\* ack and nack do not look at the state of the message.
Ack(w, ok) ==
    /\ up
    /\ held[w] # NoMsg
    /\ mem' = Acked(mem, held[w])
    /\ Journal(Acked(log, held[w]), ok)
    /\ held' = [held EXCEPT ![w] = NoMsg]
    /\ UNCHANGED <<accepted, reclaimed>>

\* permanent stands for a NonRetryableError.
Nack(w, permanent, ok) ==
    LET m == held[w]
        attempts == mem.att[m] + 1
    IN  /\ up
        /\ m # NoMsg
        /\ \/ /\ permanent \/ attempts >= MaxAttempts
              /\ mem' = Exhausted(mem, m)
              /\ Journal(Buried(log, m), ok)
           \/ /\ ~permanent /\ attempts < MaxAttempts
              /\ mem' = Retried(mem, m, attempts)
              /\ Journal(Retried(log, m, attempts), ok)
        /\ held' = [held EXCEPT ![w] = NoMsg]
        /\ UNCHANGED <<accepted, reclaimed>>

\* A caller is interrupted between taking a message and settling it; the
\* process lives on and the message stays leased.
Abandon(w) ==
    /\ up
    /\ held[w] # NoMsg
    /\ faults < MaxFaults
    /\ faults' = faults + 1
    /\ held' = [held EXCEPT ![w] = NoMsg]
    /\ UNCHANGED <<mem, log, disk, broken, up, accepted, reclaimed>>

\* recover_stale, one message of its loop: each is journalled on its own and
\* nothing is shared between two iterations, so a call over several messages is
\* several of these steps.
RecoverStale(m, ok) ==
    /\ up
    /\ m \in mem.processing
    /\ mem' = Requeued(mem, m)
    /\ Journal(Requeued(log, m), ok)
    /\ reclaimed' = IF \E w \in Workers : held[w] = m
                    THEN reclaimed \union {m} ELSE reclaimed
    /\ UNCHANGED <<held, accepted>>

\* The process dies; with Tearing, possibly while a line is being written.
Crash ==
    /\ up
    /\ faults < MaxFaults
    /\ faults' = faults + 1
    /\ up' = FALSE
    /\ mem' = EmptyQueue
    /\ log' = disk
    /\ broken' \in {broken, broken \/ Tearing}
    /\ held' = [w \in Workers |-> NoMsg]
    /\ UNCHANGED <<disk, accepted, reclaimed>>

\* A new process: open and recover.
Restart ==
    /\ ~up
    /\ up' = TRUE
    /\ mem' = disk
    /\ UNCHANGED <<log, disk, broken, held, accepted, reclaimed, faults>>

Next ==
    \/ \E ok \in BOOLEAN :
          \/ \E m \in Ids : Enqueue(m, ok) \/ RecoverStale(m, ok)
          \/ \E w \in Workers, m \in Ids : Dequeue(w, m, ok)
          \/ \E w \in Workers : Ack(w, ok)
          \/ \E w \in Workers, permanent \in BOOLEAN : Nack(w, permanent, ok)
    \/ \E w \in Workers : Abandon(w)
    \/ Crash
    \/ Restart

Spec == Init /\ [][Next]_vars

-----------------------------------------------------------------------------
QueueImage ==
    [st : [Ids -> Status], att : [Ids -> Nat], wait : SUBSET Ids,
     pending : Seq(Ids), processing : SUBSET Ids,
     dead : SUBSET Ids, acked : SUBSET Ids]

\* Every image has the shape of the queue's dictionaries.
TypeOK ==
    /\ mem \in QueueImage
    /\ log \in QueueImage
    /\ disk \in QueueImage
    /\ broken \in BOOLEAN
    /\ up \in BOOLEAN
    /\ held \in [Workers -> Ids \union {NoMsg}]
    /\ accepted \subseteq Ids
    /\ reclaimed \subseteq Ids
    /\ faults \in Nat

\* A worker whose lease was never taken back holds a message that is being
\* processed, in memory: no other operation settled it behind its back
\* (dequeue_due, ack, nack and recover_stale interleaved).
HolderBacked ==
    \A w \in Workers :
        held[w] # NoMsg /\ held[w] \notin reclaimed =>
            mem.st[held[w]] = "processing" /\ held[w] \in mem.processing

\* Two workers hold the same message only after recover_stale took it from one
\* of them (dequeue_due hands a message to one caller).
ExclusiveHolder ==
    \A w1, w2 \in Workers :
        w1 # w2 /\ held[w1] = held[w2] /\ held[w1] # NoMsg => held[w1] \in reclaimed

\* While the file is readable, a message whose enqueue returned is in it: it
\* survives every crash (enqueue appends and syncs before it returns).
AcceptedIsDurable == ~broken => \A m \in accepted : disk.st[m] # "absent"

\* While the file is readable, replaying what was journalled yields what the
\* process has in memory, except for evicted messages and for messages that
\* were settled twice because their lease was taken back.
MemoryMatchesJournal ==
    up /\ ~broken =>
        \A m \in Ids \ reclaimed :
            /\ m \in mem.processing <=> m \in log.processing
            /\ mem.st[m] = log.st[m] \/ (mem.st[m] = "dead" /\ log.st[m] = "pending")
            /\ mem.st[m] # "dead" => mem.att[m] = log.att[m]

\* The strengthening the proofs use, and what recovery rests on.  A leased id is
\* in status processing, in every image; the file lags behind the journal and
\* the journal behind the memory by appends that raised, so nothing the file
\* knows, and no ack it holds, is news to the running process; and a stopped
\* process, or an unreadable file, has no records on the way.
JournalLags ==
    /\ \A q \in {mem, log, disk} : \A m \in q.processing : q.st[m] = "processing"
    /\ ~up \/ broken => log = disk
    /\ ~up => \A w \in Workers : held[w] = NoMsg
    /\ \A m \in Ids :
          /\ disk.st[m] # "absent" => log.st[m] # "absent"
          /\ disk.st[m] = "acked" /\ m \notin reclaimed => log.st[m] = "acked"
    /\ up /\ ~broken =>
          \A m \in Ids :
             /\ log.st[m] # "absent" => mem.st[m] # "absent"
             /\ log.st[m] = "acked" /\ m \notin reclaimed => mem.st[m] = "acked"

IInv == TypeOK /\ HolderBacked /\ ExclusiveHolder /\ AcceptedIsDurable /\ JournalLags

\* An id is listed as pending at most once and never while it is leased
\* (recover_stale appends to the list without looking).
PendingListSound ==
    /\ \A i, j \in DOMAIN mem.pending : mem.pending[i] = mem.pending[j] => i = j
    /\ \A i \in DOMAIN mem.pending : mem.pending[i] \notin mem.processing

\* The three images have their shape, the pending list is sound, and a restart
\* would find what the process has in memory, as far as the journal can tell.
QueueSound == TypeOK /\ PendingListSound /\ MemoryMatchesJournal

\* A journalled ack is final: unless its lease was taken back from a worker, an
\* acknowledged message is never made pending, leased or dead again, whatever
\* crashes and restarts follow.
AckedStaysAcked ==
    [][\A m \in Ids : disk.st[m] = "acked" /\ m \notin reclaimed
                         => disk'.st[m] = "acked"]_vars

(* A statement of the documentation that the code does not keep. *)

\* "a truncated final line (crash during append) is tolerated": what is
\* accepted, before or after the crash, survives the next one.
TruncationTolerated == \A m \in accepted : disk.st[m] # "absent"

=============================================================================
