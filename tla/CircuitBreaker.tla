--------------------------- MODULE CircuitBreaker ---------------------------
(***************************************************************************)
(* The CLOSED / OPEN / HALF_OPEN breaker of reliability.py, with callers   *)
(* that ask allow_call first and report the outcome later, as              *)
(* ReliabilityEngine.process_next does; an admitted caller may find no     *)
(* work and never report.  The clock is one bit: recovery_timeout_ms has   *)
(* passed since the breaker opened.                                        *)
(***************************************************************************)
EXTENDS Naturals

CONSTANTS
    Callers,
    FailureThreshold,   \* failure_threshold
    HalfOpenAllowance,  \* half_open_allowance
    MaxFailures         \* bound: failures reported in a behaviour

\* What CircuitBreaker.__init__ checks; an instance of this module assumes it.
ThresholdAssumption ==
    /\ FailureThreshold \in Nat \ {0}
    /\ HalfOpenAllowance \in Nat \ {0}

VARIABLES
    state,     \* "closed", "open" or "half_open"
    failures,  \* consecutive_failures
    probes,    \* _half_open_probes
    elapsed,   \* recovery_timeout_ms has passed since _opened_at_ms
    running,   \* callers admitted that have not reported
    failed     \* failures reported so far

vars == <<state, failures, probes, elapsed, running, failed>>

Init ==
    /\ state = "closed"
    /\ failures = 0
    /\ probes = 0
    /\ elapsed = FALSE
    /\ running = {}
    /\ failed = 0

TimeoutPasses ==
    /\ state = "open" /\ ~elapsed
    /\ elapsed' = TRUE
    /\ UNCHANGED <<state, failures, probes, running, failed>>

CanAdmit ==
    \/ state = "closed"
    \/ state = "open" /\ elapsed
    \/ state = "half_open" /\ probes < HalfOpenAllowance

\* allow_call returning True: an open breaker whose timeout has passed turns
\* half open.  Returning False changes nothing.
Admit(c) ==
    /\ c \notin running
    /\ CanAdmit
    /\ running' = running \union {c}
    /\ IF state = "open"
       THEN state' = "half_open" /\ probes' = 0
       ELSE UNCHANGED <<state, probes>>
    /\ UNCHANGED <<failures, elapsed, failed>>

\* The admitted caller found nothing to do (process_next without a message).
Leave(c) ==
    /\ c \in running
    /\ running' = running \ {c}
    /\ UNCHANGED <<state, failures, probes, elapsed, failed>>

\* Mutated form of Succeed: the probes are counted and the breaker not closed.
SucceedStaysOpen(c) ==
    /\ c \in running
    /\ running' = running \ {c}
    /\ failures' = 0
    /\ probes' = IF state = "half_open" THEN probes + 1 ELSE probes
    /\ UNCHANGED <<state, elapsed, failed>>

\* record_success.
Succeed(c) ==
    /\ c \in running
    /\ running' = running \ {c}
    /\ failures' = 0
    /\ \/ state # "half_open" /\ UNCHANGED <<state, probes>>
       \/ /\ state = "half_open" /\ probes + 1 < HalfOpenAllowance
          /\ probes' = probes + 1
          /\ UNCHANGED state
       \/ /\ state = "half_open" /\ probes + 1 >= HalfOpenAllowance
          /\ state' = "closed"
          /\ probes' = 0
    /\ UNCHANGED <<elapsed, failed>>

\* The failure opens the breaker.
Opens ==
    \/ state = "half_open" /\ probes > 0
    \/ state = "closed" /\ failures + 1 >= FailureThreshold

\* record_failure.
Fail(c) ==
    /\ c \in running
    /\ failed < MaxFailures
    /\ failed' = failed + 1
    /\ running' = running \ {c}
    /\ failures' = failures + 1
    /\ IF Opens
       THEN state' = "open" /\ elapsed' = FALSE
       ELSE UNCHANGED <<state, elapsed>>
    /\ UNCHANGED probes

Next == TimeoutPasses \/ \E c \in Callers : Admit(c) \/ Leave(c) \/ Succeed(c) \/ Fail(c)

Spec == Init /\ [][Next]_vars

\* Time passes, callers keep coming, and calls that can succeed forever do.
Fairness ==
    /\ WF_vars(TimeoutPasses)
    /\ \A c \in Callers : WF_vars(Admit(c)) /\ SF_vars(Succeed(c))

FairSpec == Spec /\ Fairness

-----------------------------------------------------------------------------
\* The breaker's fields keep their ranges: no count goes below zero and the state
\* is one of the three, whatever outcomes are reported.
TypeOK ==
    /\ state \in {"closed", "open", "half_open"}
    /\ failures \in Nat
    /\ probes \in Nat
    /\ elapsed \in BOOLEAN
    /\ running \subseteq Callers
    /\ failed \in Nat

\* A closed breaker has seen fewer failures in a row than its threshold, and a
\* half-open one has a probe left: however late the outcomes of admitted calls
\* arrive, and in whatever state of the breaker, it is never stuck half open.
BreakerConsistent ==
    /\ state = "closed" => failures < FailureThreshold
    /\ state = "half_open" => probes < HalfOpenAllowance

\* An open breaker admits nobody before its timeout has passed, whatever late
\* outcomes are reported to it meanwhile.
OpenBlocks ==
    [][state = "open" /\ ~elapsed => running' \subseteq running /\ state' = "open"]_vars

\* Once failures stop, the breaker ends up closed for good: an open one is
\* probed after its timeout and the probes that succeed close it.
EventuallyCloses == <>[](state = "closed")

=============================================================================
