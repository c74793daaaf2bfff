------------------------------ MODULE Telemetry ------------------------------
(***************************************************************************)
(* TelemetryCollector (telemetry.py): spans, the traces they belong to,    *)
(* and a ring of events, all in memory.  The oldest traces go when there   *)
(* are too many, each with its spans, while their callers may still hold a *)
(* span's id; the ring drops its oldest events; and a sampler keeps the    *)
(* events of some traces only, except failures, which are always kept.     *)
(*                                                                         *)
(* A trace without an id of its own gets a fresh one, and a span without a *)
(* trace that of its parent: both are traces like any other here.  Left    *)
(* out: the domain metrics, hash chains, redaction, and the reports, which *)
(* only read.                                                              *)
(***************************************************************************)
EXTENDS Naturals, Sequences, FiniteSets

CONSTANTS
    NTraces,          \* trace ids 1..NTraces, in their order
    Sampled,          \* the traces the sampler keeps
    MaxTraces, MaxEvents, MaxSampledEvents,   \* RetentionPolicy
    NoSpan, NoTrace,
    MaxSpans,         \* bound: spans ever made
    MaxSecond         \* bound: the clock

\* The policy keeps something, and no more when sampling than otherwise, as its
\* defaults do; bounds are numbers, and a record is not mistaken for none.
RetentionAssumption ==
    /\ NTraces \in Nat /\ MaxSpans \in Nat /\ MaxSecond \in Nat
    /\ MaxTraces \in Nat \ {0} /\ MaxSampledEvents \in Nat \ {0}
    /\ MaxEvents \in Nat /\ MaxSampledEvents <= MaxEvents
    /\ NoSpan \notin [trace : Nat, status : {"started", "ok", "failed"}]
    /\ NoTrace \notin [started : Nat, spans : SUBSET Nat, status : {"started", "ok", "failed"}]

Traces == 1..NTraces
Spans == 1..MaxSpans
EventStatus == {"started", "ok", "failed"}

VARIABLES
    enabled,
    sampling,      \* the sampler's rate is below 1
    spans,         \* _spans: the trace and status of each live span
    traces,        \* _traces: when each started, its spans, its status
    events,        \* _events: the statuses in the ring
    made,          \* spans made so far: their ids are 1..made
    second,        \* the clock, as started_at shows it
    sinceFailure   \* history: events kept since the last failure emitted

vars == <<enabled, sampling, spans, traces, events, made, second, sinceFailure>>

NoFailure == MaxEvents

Init ==
    /\ enabled = TRUE
    /\ sampling \in BOOLEAN
    /\ spans = [s \in Spans |-> NoSpan]
    /\ traces = [t \in Traces |-> NoTrace]
    /\ events = <<>>
    /\ made = 0
    /\ second = 0
    /\ sinceFailure = NoFailure

Retained == {t \in Traces : traces[t] # NoTrace}

-----------------------------------------------------------------------------
Limit == IF sampling THEN MaxSampledEvents ELSE MaxEvents

\* Sampler.sample
Keeps(t, status) == status = "failed" \/ ~sampling \/ t \in Sampled

\* emit: the event is dropped, or appended to the ring, which loses its oldest.
Record(t, status) ==
    IF Keeps(t, status)
      THEN LET longer == Append(events, status) IN
           /\ events' = SubSeq(longer, IF Len(longer) > Limit THEN Len(longer) - Limit + 1
                                       ELSE 1, Len(longer))
           /\ sinceFailure' = IF status = "failed" THEN 0
                              ELSE IF sinceFailure < NoFailure THEN sinceFailure + 1
                              ELSE NoFailure
      ELSE events' = events /\ sinceFailure' = IF status = "failed" THEN 0 ELSE sinceFailure

\* Which of the traces ts go: the oldest, by the second they started and their id.
Older(ts, u, t) ==
    ts[u].started < ts[t].started \/ (ts[u].started = ts[t].started /\ u < t)

Evicted(ts) ==
    LET live == {t \in Traces : ts[t] # NoTrace}
    IN  {t \in live : Cardinality({u \in live : Older(ts, u, t)}) + MaxTraces
                          < Cardinality(live)}

\* Mutated form of Lost: an evicted trace leaves its spans behind.
LostNone(ts) == {}

\* The spans that go with them.
Lost(ts) == UNION {ts[t].spans : t \in Evicted(ts)}

\* _attach_span: a new span, and its trace if there is none; what is evicted
\* then may be what was just made.
Attach(t) ==
    /\ made < MaxSpans
    /\ made' = made + 1
    /\ LET before == IF traces[t] = NoTrace
                       THEN [started |-> second, spans |-> {}, status |-> "started"]
                       ELSE traces[t]
           ts == [traces EXCEPT ![t] = [before EXCEPT !.spans = @ \union {made'}]]
           ss == [spans EXCEPT ![made'] = [trace |-> t, status |-> "started"]]
       IN  /\ traces' = [u \in Traces |-> IF u \in Evicted(ts) THEN NoTrace ELSE ts[u]]
           /\ spans' = [s \in Spans |-> IF s \in Lost(ts) THEN NoSpan ELSE ss[s]]

StartSpan(t) ==
    /\ enabled
    /\ Attach(t)
    /\ Record(t, "started")
    /\ UNCHANGED <<enabled, sampling, second>>

\* emit, without a span: it makes one.
Emit(t, status) ==
    /\ enabled
    /\ Attach(t)
    /\ Record(t, status)
    /\ UNCHANGED <<enabled, sampling, second>>

\* emit, with the id of a span, whether that is still there or not.
EmitWithin(t, status) ==
    /\ enabled
    /\ Record(t, status)
    /\ UNCHANGED <<enabled, sampling, spans, traces, made, second>>

\* end_span: nothing for a span that was evicted; the trace takes the status of
\* the span that ended last.
EndSpan(s, status) ==
    /\ enabled
    /\ spans[s] # NoSpan
    /\ LET t == spans[s].trace IN
       /\ spans' = [spans EXCEPT ![s].status = status]
       /\ traces' = IF traces[t] = NoTrace THEN traces
                    ELSE [traces EXCEPT ![t].status = status]
       /\ Record(t, status)
    /\ UNCHANGED <<enabled, sampling, made, second>>

Reset ==
    /\ spans' = [s \in Spans |-> NoSpan]
    /\ traces' = [t \in Traces |-> NoTrace]
    /\ events' = <<>>
    /\ sinceFailure' = NoFailure
    /\ UNCHANGED <<enabled, sampling, made, second>>

SetEnabled ==
    /\ enabled' \in BOOLEAN
    /\ UNCHANGED <<sampling, spans, traces, events, made, second, sinceFailure>>

\* set_local_only(True): everything is sampled from here on.
SetLocalOnly ==
    /\ sampling' = FALSE
    /\ UNCHANGED <<enabled, spans, traces, events, made, second, sinceFailure>>

Tick ==
    /\ second < MaxSecond
    /\ second' = second + 1
    /\ UNCHANGED <<enabled, sampling, spans, traces, events, made, sinceFailure>>

Next ==
    \/ Reset \/ SetEnabled \/ SetLocalOnly \/ Tick
    \/ \E t \in Traces : StartSpan(t)
    \/ \E t \in Traces, status \in {"ok", "failed"} : Emit(t, status) \/ EmitWithin(t, status)
    \/ \E s \in Spans, status \in {"ok", "failed"} : EndSpan(s, status)

Spec == Init /\ [][Next]_vars

-----------------------------------------------------------------------------
\* Spans, traces and events keep their shape.
TypeOK ==
    /\ enabled \in BOOLEAN /\ sampling \in BOOLEAN
    /\ spans \in [Spans -> [trace : Traces, status : EventStatus] \union {NoSpan}]
    /\ traces \in [Traces -> [started : 0..MaxSecond, spans : SUBSET Spans,
                              status : EventStatus] \union {NoTrace}]
    /\ events \in Seq(EventStatus)
    /\ made \in 0..MaxSpans /\ second \in 0..MaxSecond /\ sinceFailure \in 0..NoFailure

\* Eviction leaves nothing dangling: the live spans are those of the traces that
\* are retained, each in its own, ...
SpansMatchTraces ==
    /\ \A s \in Spans : spans[s] # NoSpan =>
          /\ traces[spans[s].trace] # NoTrace
          /\ s \in traces[spans[s].trace].spans
    /\ \A t \in Retained : \A s \in traces[t].spans : spans[s] # NoSpan /\ spans[s].trace = t

\* ... a trace is still open just when none of its spans has ended, ...
StatusOfSpans ==
    \A t \in Retained :
        traces[t].status = "started" <=> \A s \in traces[t].spans : spans[s].status = "started"

\* ... traces and events stay within their limits, and the last failure is found
\* in the ring until as many events as it holds have been kept after it: neither
\* sampling nor its end loses it.
RetentionSound ==
    /\ SpansMatchTraces
    /\ StatusOfSpans
    /\ Cardinality(Retained) <= MaxTraces
    /\ Len(events) <= Limit
    /\ sinceFailure < MaxSampledEvents =>
          sinceFailure < Len(events) /\ events[Len(events) - sinceFailure] = "failed"

=============================================================================
