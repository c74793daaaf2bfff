---------------------------- MODULE RemoteHandoff ----------------------------
(***************************************************************************)
(* RemoteHandoff and its EndpointRegistry (remote.py): operations sent to  *)
(* remote endpoints with retries, while other callers of the process use   *)
(* and edit the same endpoints.  execute takes a copy of the endpoint when *)
(* it starts and writes that copy back, with a new status, when it ends;   *)
(* between its attempts it waits, and the others go on.  The request ids   *)
(* seen are in memory only.                                                *)
(*                                                                         *)
(* The network and the remote side are external: a request may be lost, be *)
(* carried out and not answered (or be answered too late, too long or with *)
(* a rate limit), be answered with a damaged payload, or be refused as not *)
(* authenticated.  Left out: which operation it is, SSRF, TLS, scopes, the *)
(* read-only modes and approvals (they only refuse, before anything        *)
(* changes), the operation log, and conflicts, which execute never sees.   *)
(***************************************************************************)
EXTENDS Naturals

CONSTANTS
    Endpoints,
    Requests,     \* request ids, or correlation ids where there is none
    Callers,
    Credentials,  \* environment variables that endpoints name
    First,        \* the credential an endpoint is registered with
    NoCall,       \* no call, no endpoint
    MaxRetries,   \* max_retries
    MaxLives      \* bound: processes, one after the other

RetriesAssumption ==
    MaxRetries \in Nat /\ MaxLives \in Nat \ {0} /\ First \in Credentials

Statuses == {"unknown", "healthy", "degraded", "unavailable"}
Records == [st : Statuses, cred : Credentials]

\* copy: the endpoint as execute found it; attempts: those that failed.
Calls == [ep : Endpoints, id : Requests, copy : Records, attempts : 0..MaxRetries]

VARIABLES
    mem, disk,  \* _endpoints and endpoints.json
    seen,       \* _request_history: pairs of endpoint and request id
    call,       \* what each caller is executing
    usable,     \* external: the credentials that have not expired
    effects,    \* external: how often each endpoint carried out each request
    lives       \* processes so far

vars == <<mem, disk, seen, call, usable, effects, lives>>
outside == <<usable, lives>>

Init ==
    /\ mem = [e \in Endpoints |-> NoCall]
    /\ disk = mem
    /\ seen = {}
    /\ call = [c \in Callers |-> NoCall]
    /\ usable = Credentials
    /\ effects = [e \in Endpoints |-> [r \in Requests |-> 0]]
    /\ lives = 1

\* The memory changes, then _save rewrites the file or raises.
Save(endpoints, ok) ==
    /\ mem' = endpoints
    /\ disk' = IF ok THEN endpoints ELSE disk

Marked(e, record, st) == [mem EXCEPT ![e] = [record EXCEPT !.st = st]]

Idle == UNCHANGED <<seen, call, effects, outside>>

-----------------------------------------------------------------------------
(* The registry.                                                            *)

Register(e, ok) ==
    /\ mem[e] = NoCall
    /\ Save([mem EXCEPT ![e] = [st |-> "unknown", cred |-> First]], ok)
    /\ Idle

Unregister(e, ok) ==
    /\ mem[e] # NoCall
    /\ Save([mem EXCEPT ![e] = NoCall], ok)
    /\ Idle

RotateCredential(e, cred, ok) ==
    /\ mem[e] # NoCall
    /\ Save([mem EXCEPT ![e] = [st |-> "unknown", cred |-> cred]], ok)
    /\ Idle

\* check_health (and remote_failure_recovery, which calls it): one short
\* request without an id; only a failure is written to the file.
CheckHealth(e, answered, ok) ==
    /\ mem[e] # NoCall
    /\ IF answered
         THEN /\ mem' = Marked(e, mem[e], "healthy")
              /\ UNCHANGED disk
         ELSE Save(Marked(e, mem[e], "unavailable"), ok)
    /\ Idle

-----------------------------------------------------------------------------
(* execute.                                                                 *)

\* Mutated form of Replayed: request ids are not looked up.
ReplayedNever(e, r) == e \notin Endpoints

\* _detect_replay.
Replayed(e, r) == <<e, r>> \in seen

\* The request id is recorded before the credential is looked at: a call that
\* is refused has used it up.
Execute(c, e, r, ok) ==
    /\ call[c] = NoCall
    /\ mem[e] # NoCall
    /\ ~Replayed(e, r)
    /\ seen' = seen \union {<<e, r>>}
    /\ IF mem[e].cred \in usable
         THEN /\ call' = [call EXCEPT ![c] = [ep |-> e, id |-> r, copy |-> mem[e],
                                              attempts |-> 0]]
              /\ UNCHANGED <<mem, disk>>
         ELSE /\ Save(Marked(e, mem[e], "degraded"), ok)
              /\ UNCHANGED call
    /\ UNCHANGED <<effects, outside>>

Ends(c) == call' = [call EXCEPT ![c] = NoCall]

CarriedOut(c) ==
    effects' = [effects EXCEPT ![call[c].ep][call[c].id] = @ + 1]

\* A valid answer; _mark_healthy does not write the file.
Answered(c) ==
    /\ call[c] # NoCall
    /\ CarriedOut(c)
    /\ mem' = Marked(call[c].ep, call[c].copy, "healthy")
    /\ Ends(c)
    /\ UNCHANGED <<disk, seen, outside>>

\* An answer whose digest or signature is wrong is not asked for again.
Damaged(c) ==
    /\ call[c] # NoCall
    /\ CarriedOut(c)
    /\ Ends(c)
    /\ UNCHANGED <<mem, disk, seen, outside>>

LastAttempt(c) == call[c].attempts >= MaxRetries

\* An attempt fails: wait and try again, or mark the endpoint unavailable.
Fails(c, ok) ==
    IF LastAttempt(c)
    THEN Save(Marked(call[c].ep, call[c].copy, "unavailable"), ok) /\ Ends(c)
    ELSE call' = [call EXCEPT ![c].attempts = @ + 1] /\ UNCHANGED <<mem, disk>>

Lost(c, ok) ==
    /\ call[c] # NoCall
    /\ Fails(c, ok)
    /\ UNCHANGED <<seen, effects, outside>>

Unanswered(c, ok) ==
    /\ call[c] # NoCall
    /\ CarriedOut(c)
    /\ Fails(c, ok)
    /\ UNCHANGED <<seen, outside>>

\* Refused as not authenticated: no further attempt, unless it was the last.
Refused(c, ok) ==
    /\ call[c] # NoCall
    /\ Save(Marked(call[c].ep, call[c].copy,
                   IF LastAttempt(c) THEN "unavailable" ELSE "degraded"), ok)
    /\ Ends(c)
    /\ UNCHANGED <<seen, effects, outside>>

-----------------------------------------------------------------------------
Expire(cred) ==
    /\ cred \in usable
    /\ usable' = usable \ {cred}
    /\ UNCHANGED <<mem, disk, seen, call, effects, lives>>

\* The process ends and another one loads the file: the request ids are gone.
Restart ==
    /\ lives < MaxLives
    /\ lives' = lives + 1
    /\ mem' = disk
    /\ seen' = {}
    /\ call' = [c \in Callers |-> NoCall]
    /\ UNCHANGED <<disk, usable, effects>>

Next ==
    \/ Restart
    \/ \E cred \in Credentials : Expire(cred)
    \/ \E c \in Callers : Answered(c) \/ Damaged(c)
    \/ \E ok \in BOOLEAN :
          \/ \E c \in Callers : Lost(c, ok) \/ Unanswered(c, ok) \/ Refused(c, ok)
          \/ \E e \in Endpoints :
                \/ Register(e, ok) \/ Unregister(e, ok)
                \/ \E cred \in Credentials : RotateCredential(e, cred, ok)
                \/ \E answered \in BOOLEAN : CheckHealth(e, answered, ok)
                \/ \E c \in Callers, r \in Requests : Execute(c, e, r, ok)

Spec == Init /\ [][Next]_vars

-----------------------------------------------------------------------------
\* Endpoints, calls and counters keep their shape.
TypeOK ==
    /\ mem \in [Endpoints -> Records \union {NoCall}]
    /\ disk \in [Endpoints -> Records \union {NoCall}]
    /\ seen \subseteq Endpoints \X Requests
    /\ call \in [Callers -> Calls \union {NoCall}]
    /\ usable \subseteq Credentials
    /\ effects \in [Endpoints -> [Requests -> Nat]]
    /\ lives \in 1..MaxLives

\* However often callers repeat a request, and whatever answers are lost, an
\* endpoint carries it out at most MaxRetries + 1 times for each process that
\* ran: the calls in progress have no more attempts left than that.
BoundedEffects ==
    \A e \in Endpoints, r \in Requests : effects[e][r] <= lives * (MaxRetries + 1)

=============================================================================
