------------------------- MODULE ReliabilityEngine --------------------------
(***************************************************************************)
(* The coordination facade of reliability.py (class ReliabilityEngine):    *)
(* submit, process_next and recover over the durable queue, the execution  *)
(* registry, the dead-letter files and the circuit breaker.  The engine is *)
(* one thread; every step below ends with one file written (a journal      *)
(* record, registry.json, a dead-letter file), and the process may die     *)
(* between any two.                                                        *)
(*                                                                         *)
(* A submission is its idempotency key: register gives a key one execution,*)
(* whose id is the message's id.  Journal appends are atomic here          *)
(* (DurableQueue treats the ones that raise or are torn): q is the queue in *)
(* memory, stored what its journal replays to.  Leases (LeaseManager) and  *)
(* diagnostics are left out.                                               *)
(***************************************************************************)
EXTENDS Naturals, Sequences

CONSTANTS
    Keys, NoKey,
    MaxAttempts, FailureThreshold, HalfOpenAllowance,
    MaxPending,  \* DEFAULT_MAX_PENDING
    MaxFaults    \* bound: crashes and interrupted handlers

ASSUME EngineAssumption ==
    /\ MaxAttempts \in Nat \ {0}
    /\ MaxPending \in Nat \ {0}
    /\ MaxFaults \in Nat
    /\ NoKey \notin Keys

VARIABLES
    q, stored,  \* the queue's image in memory, and in its journal
    phase,      \* phase of each key's execution in registry.json
    dlq,        \* keys with a file under dead/
    returned,   \* keys for which a submit returned to its caller
    pc, cur,    \* where the engine is, and the message it works on
    up, accepted, reclaimed, faults,             \* as in DurableQueue
    state, failures, probes, elapsed, running, failed  \* the breaker, in memory

queueVars == <<q, stored, up, accepted, reclaimed>>
breakerVars == <<state, failures, probes, elapsed, running, failed>>
vars == <<q, stored, phase, dlq, returned, pc, cur, up, accepted, reclaimed, faults,
          state, failures, probes, elapsed, running, failed>>

B == INSTANCE CircuitBreaker
       WITH Callers <- {"engine"}, MaxFailures <- 100

\* The queue as a component: the engine is its only caller, and holds the
\* message it has dequeued until it settles it.
Holding == {"dequeued", "running", "handled", "marked"}

D == INSTANCE DurableQueue
       WITH Ids <- Keys, NoMsg <- NoKey, Workers <- {"engine"},
            Tearing <- FALSE, broken <- FALSE,
            mem <- q, log <- stored, disk <- stored,
            held <- [w \in {"engine"} |-> IF pc \in Holding THEN cur ELSE NoKey]

-----------------------------------------------------------------------------
Init ==
    /\ q = D!EmptyQueue /\ stored = D!EmptyQueue
    /\ phase = [k \in Keys |-> "none"]
    /\ dlq = {}
    /\ returned = {}
    /\ pc = "idle" /\ cur = NoKey
    /\ up = TRUE /\ accepted = {} /\ reclaimed = {} /\ faults = 0
    /\ B!Init

At(place) == up /\ pc = place
Goto(place, k) == pc' = place /\ cur' = k

\* submit: a known key is a duplicate, whatever its phase.
SubmitDuplicate(k) ==
    /\ At("idle")
    /\ phase[k] # "none"
    /\ returned' = returned \union {k}
    /\ UNCHANGED <<queueVars, breakerVars, phase, dlq, pc, cur, faults>>

\* submit: register ...
Register(k) ==
    /\ At("idle")
    /\ phase[k] = "none"
    /\ phase' = [phase EXCEPT ![k] = "queued"]
    /\ Goto("registered", k)
    /\ UNCHANGED <<queueVars, breakerVars, dlq, returned, faults>>

\* ... then enqueue, and return.
EnqueueSubmitted ==
    /\ At("registered")
    /\ q' = D!Evicted(D!Enqueued(q, cur)) /\ stored' = D!Enqueued(stored, cur)
    /\ accepted' = accepted \union {cur}
    /\ returned' = returned \union {cur}
    /\ Goto("idle", NoKey)
    /\ UNCHANGED <<up, reclaimed, breakerVars, phase, dlq, faults>>

\* process_next: allow_call ...
AllowCall ==
    /\ At("idle")
    /\ B!Admit("engine")
    /\ Goto("admitted", NoKey)
    /\ UNCHANGED <<queueVars, phase, dlq, returned, faults>>

\* ... dequeue_due; without a due message it returns, and the breaker is told
\* nothing.
TakeNext(k) ==
    /\ At("admitted")
    /\ D!IsNextDue(k)
    /\ q' = D!Leased(q, k) /\ stored' = D!Leased(stored, k)
    /\ Goto("dequeued", k)
    /\ UNCHANGED <<up, accepted, reclaimed, breakerVars, phase, dlq, returned, faults>>

NothingDue ==
    /\ At("admitted")
    /\ \A k \in Keys : q.st[k] = "pending" => k \in q.wait
    /\ B!Leave("engine")
    /\ Goto("idle", NoKey)
    /\ UNCHANGED <<queueVars, phase, dlq, returned, faults>>

MarkProcessing ==
    /\ At("dequeued")
    /\ phase' = [phase EXCEPT ![cur] = "processing"]
    /\ Goto("running", cur)
    /\ UNCHANGED <<queueVars, breakerVars, dlq, returned, faults>>

\* The handler returns ...
HandlerReturns ==
    /\ At("running")
    /\ Goto("handled", cur)
    /\ UNCHANGED <<queueVars, breakerVars, phase, dlq, returned, faults>>

\* Mutated form of MarkSucceeded: the outcome is not recorded.
MarkSucceededUnrecorded ==
    /\ At("handled")
    /\ Goto("marked", cur)
    /\ UNCHANGED <<queueVars, breakerVars, phase, dlq, returned, faults>>

\* ... mark_succeeded, before the breaker is told and the message acked.
MarkSucceeded ==
    /\ At("handled")
    /\ phase' = [phase EXCEPT ![cur] = "succeeded"]
    /\ Goto("marked", cur)
    /\ UNCHANGED <<queueVars, breakerVars, dlq, returned, faults>>

\* Mutated form of AckSucceeded: the message is not acked.
AckForgotten ==
    /\ At("marked")
    /\ B!Succeed("engine")
    /\ Goto("idle", NoKey)
    /\ UNCHANGED <<queueVars, phase, dlq, returned, faults>>

AckSucceeded ==
    /\ At("marked")
    /\ B!Succeed("engine")
    /\ q' = D!Acked(q, cur) /\ stored' = D!Acked(stored, cur)
    /\ Goto("idle", NoKey)
    /\ UNCHANGED <<up, accepted, reclaimed, phase, dlq, returned, faults>>

\* Mutated form of Spent: one attempt too many.
SpentLate(permanent, attempts) == permanent \/ attempts > MaxAttempts

\* Not should_retry; permanent stands for a NonRetryableError.
Spent(permanent, attempts) == permanent \/ attempts >= MaxAttempts

\* The handler raises: the breaker is told and the message nacked.  After a
\* NonRetryableError the execution goes straight to mark_dead.
HandlerRaises(permanent) ==
    LET attempts == q.att[cur] + 1
    IN  /\ At("running")
        /\ B!Fail("engine")
        /\ IF Spent(permanent, attempts)
           THEN /\ q' = D!Exhausted(q, cur)
                /\ stored' = D!Buried(stored, cur)
           ELSE /\ q' = D!Retried(q, cur, attempts)
                /\ stored' = D!Retried(stored, cur, attempts)
        /\ Goto(IF permanent THEN "nacked_dead" ELSE "nacked", cur)
        /\ UNCHANGED <<up, accepted, reclaimed, phase, dlq, returned, faults>>

\* Mutated form of MarkQueued: the execution stays in phase processing.
MarkQueuedForgotten ==
    /\ At("nacked")
    /\ IF q.st[cur] = "dead" THEN Goto("nacked_dead", cur) ELSE Goto("idle", NoKey)
    /\ UNCHANGED <<queueVars, breakerVars, phase, dlq, returned, faults>>

\* touch: the execution is queued again, also when the message is dead by now.
MarkQueued ==
    /\ At("nacked")
    /\ phase' = [phase EXCEPT ![cur] = "queued"]
    /\ IF q.st[cur] = "dead" THEN Goto("nacked_dead", cur) ELSE Goto("idle", NoKey)
    /\ UNCHANGED <<queueVars, breakerVars, dlq, returned, faults>>

MarkDead ==
    /\ At("nacked_dead")
    /\ phase' = [phase EXCEPT ![cur] = "dead"]
    /\ Goto("marked_dead", cur)
    /\ UNCHANGED <<queueVars, breakerVars, dlq, returned, faults>>

FileDeadLetter ==
    /\ At("marked_dead")
    /\ dlq' = dlq \union {cur}
    /\ Goto("idle", NoKey)
    /\ UNCHANGED <<queueVars, breakerVars, phase, returned, faults>>

\* The handler is stopped by an exception process_next does not catch
\* (_SimulatedCrash, KeyboardInterrupt): the message stays in processing.
Interrupt ==
    /\ At("running")
    /\ faults < MaxFaults
    /\ faults' = faults + 1
    /\ B!Leave("engine")
    /\ Goto("idle", NoKey)
    /\ UNCHANGED <<queueVars, phase, dlq, returned>>

\* recover, for one message whose lease has lapsed.
Recover(k) ==
    /\ At("idle")
    /\ k \in q.processing
    /\ q' = D!Requeued(q, k) /\ stored' = D!Requeued(stored, k)
    /\ UNCHANGED <<up, accepted, reclaimed, breakerVars, phase, dlq, returned, pc, cur, faults>>

Crash ==
    /\ up
    /\ faults < MaxFaults
    /\ faults' = faults + 1
    /\ up' = FALSE
    /\ q' = D!EmptyQueue
    /\ Goto("idle", NoKey)
    /\ UNCHANGED <<stored, accepted, reclaimed, breakerVars, phase, dlq, returned>>

\* A new engine: the queue is replayed, the registry loaded, the breaker new.
Restart ==
    /\ ~up
    /\ up' = TRUE
    /\ q' = stored
    /\ state' = "closed" /\ failures' = 0 /\ probes' = 0 /\ elapsed' = FALSE
    /\ running' = {} /\ UNCHANGED failed
    /\ UNCHANGED <<stored, accepted, reclaimed, phase, dlq, returned, pc, cur, faults>>

TimeoutPasses ==
    /\ B!TimeoutPasses
    /\ UNCHANGED <<queueVars, phase, dlq, returned, pc, cur, faults>>

Settling ==
    \/ MarkSucceeded \/ AckSucceeded \/ MarkQueued \/ MarkDead \/ FileDeadLetter

Processing ==
    \/ AllowCall \/ NothingDue \/ (\E k \in Keys : TakeNext(k))
    \/ MarkProcessing \/ HandlerReturns \/ (\E p \in BOOLEAN : HandlerRaises(p))
    \/ Settling

Next ==
    \/ \E k \in Keys : SubmitDuplicate(k) \/ Register(k) \/ Recover(k)
    \/ EnqueueSubmitted
    \/ Processing
    \/ Interrupt \/ Crash \/ Restart \/ TimeoutPasses

Spec == Init /\ [][Next]_vars

(***************************************************************************)
(* Fairness: the caller runs process_next again and again and recover now  *)
(* and then, submit and process_next finish what they began, a message is  *)
(* taken when process_next finds one due often enough, a dead process is   *)
(* restarted and the breaker's timeout passes.                             *)
(***************************************************************************)
Fairness ==
    /\ WF_vars(Processing)
    /\ \A k \in Keys : SF_vars(TakeNext(k)) /\ SF_vars(Recover(k))
    /\ WF_vars(EnqueueSubmitted)
    /\ WF_vars(Restart)
    /\ WF_vars(TimeoutPasses)

FairSpec == Spec /\ Fairness

-----------------------------------------------------------------------------
Phases == {"none", "queued", "processing", "succeeded", "dead"}

\* Queue, registry and dead letters keep their shape, and no message is attempted
\* more often than the retry policy allows.
TypeOK ==
    /\ {q, stored} \subseteq
          [st : [Keys -> D!Status], att : [Keys -> 0..MaxAttempts],
           wait : SUBSET Keys, pending : Seq(Keys), processing : SUBSET Keys,
           dead : SUBSET Keys, acked : SUBSET Keys]
    /\ phase \in [Keys -> Phases]
    /\ dlq \subseteq Keys /\ returned \subseteq Keys
    /\ cur \in Keys \union {NoKey}
    /\ up \in BOOLEAN

\* A message the queue has acked is recorded as succeeded: mark_succeeded is on
\* disk before the ack, and nothing takes the record back afterwards, whatever
\* crashes, interrupts and re-deliveries come between.
AckedHasSucceeded == \A k \in Keys : stored.st[k] = "acked" => phase[k] = "succeeded"

\* A dead-letter file is written for messages that are dead in the queue and in
\* the registry, never for one that will be delivered again.
FiledIsDead == \A k \in dlq : stored.st[k] = "dead" /\ phase[k] = "dead"

\* Without a crash or an interrupt, the queue, the registry and the dead-letter
\* files agree whenever the engine is between two operations.
AgreeWhenQuiet ==
    faults = 0 /\ pc = "idle" =>
        \A k \in Keys :
            /\ phase[k] = "none" <=> q.st[k] = "absent"
            /\ phase[k] = "queued" <=> q.st[k] = "pending" \/ k \in q.processing
            /\ phase[k] = "succeeded" <=> q.st[k] = "acked"
            /\ phase[k] = "dead" <=> q.st[k] = "dead"
            /\ k \in dlq <=> q.st[k] = "dead"

\* Queue, registry and dead-letter files have their shape and agree: about what
\* is dead at any time, about everything once nothing is under way.
FilesAgree == TypeOK /\ FiledIsDead /\ AgreeWhenQuiet

\* The engine uses the queue as its specification allows: one caller that
\* settles what it took, or abandons it.
UsesTheQueue == D!Spec

\* Every message that was enqueued ends up acked or dead, although the breaker
\* refuses calls after failures and a crash forgets the breaker.
EventuallySettled ==
    \A k \in Keys : k \in accepted ~> [](q.st[k] \in {"acked", "dead"})

(* A statement of the documentation that the code does not keep. *)

\* "submit -> dedupe + durable enqueue": when submit has returned for a key, its
\* message is in the queue.
SubmittedIsEnqueued == \A k \in returned : stored.st[k] # "absent"

=============================================================================
