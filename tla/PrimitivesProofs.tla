-------------------------- MODULE PrimitivesProofs ---------------------------
(***************************************************************************)
(* Proofs about the components that MCPrimitives brings together, one      *)
(* section each, for every value of the constants that satisfies the       *)
(* assumptions.  A component's theorem is about its own specification;     *)
(* the last section draws from it what the run of MCPrimitives checks.     *)
(***************************************************************************)
EXTENDS MCPrimitives, FiniteSetTheorems, SequenceTheorems, TLAPS

-----------------------------------------------------------------------------
(* LeaseManager, with a single process on the data directory.               *)

SingleProcess == \A p, q \in Procs : p = q

\* Nobody relies on a lease for longer than one granted now would last.
TrustBounded == \A h \in Holders, k \in Keys : trust[h][k] <= now + TTL

LeaseInv == TypeOK /\ TrustBounded /\ DurableLease /\ RememberedLease

\* The invariant holds in the initial states.
LEMMA LeaseInit == Init => LeaseInv
<1>. SUFFICES ASSUME Init PROVE LeaseInv
    OBVIOUS
<1>1. \A h \in Holders, k \in Keys : trust[h][k] = 0
    BY DEF Init
<1>2. now = 0 /\ TTL \in Nat
    BY TTLAssumption DEF Init
<1>3. TypeOK
    BY DEF Init, TypeOK, Leases
<1>4. TrustBounded
    BY <1>1, <1>2 DEF TrustBounded
<1>5. DurableLease /\ RememberedLease
    BY <1>1, <1>2 DEF DurableLease, RememberedLease
<1>. QED
    BY <1>3, <1>4, <1>5 DEF LeaseInv

\* Rewriting the file after a change of one key: if the memory after the change
\* backs what holders then rely on, so does the file, written or not.
LEMMA LeaseSave ==
    ASSUME SingleProcess, LeaseInv, NEW p \in alive, NEW L \in Leases, NEW ok \in BOOLEAN,
           Save(p, L, ok),
           trust' \in [Holders -> [Keys -> Nat]],
           \A h \in Holders, k \in Keys : trust'[h][k] <= now + TTL,
           \A h \in Holders, k \in Keys :
              trust'[h][k] > now => Backs(L[k], h, trust'[h][k]),
           ~ok => \A h \in Holders, k \in Keys : trust'[h][k] \in {0, trust[h][k]}
    PROVE  LeaseInv'
<1>1. now' = now /\ now \in Nat /\ alive' = alive
    BY DEF Save, LeaseInv, TypeOK
<1>2. /\ mem' = [mem EXCEPT ![p] = L]
      /\ disk' = IF ok THEN L ELSE disk
    BY DEF Save
<1>3. mem' \in [Procs -> Leases] /\ mem'[p] = L
    BY <1>2 DEF LeaseInv, TypeOK
<1>4. TypeOK'
    BY <1>1, <1>2, <1>3 DEF LeaseInv, TypeOK
<1>5. TrustBounded'
    BY <1>1 DEF TrustBounded
<1>6. RememberedLease'
    <2>1. \A q \in alive : q = p
        BY DEF SingleProcess, LeaseInv, TypeOK
    <2>. QED
        BY <1>1, <1>3, <2>1 DEF RememberedLease, Backs
<1>7. DurableLease'
    <2>. SUFFICES ASSUME NEW k \in Keys, NEW h \in Holders, trust'[h][k] > now
                  PROVE  Backs(disk'[k], h, trust'[h][k])
        BY <1>1 DEF DurableLease, Backs
    <2>1. CASE ok
        BY <1>2, <2>1
    <2>2. CASE ~ok
        <3>1. trust'[h][k] = trust[h][k] /\ disk' = disk
            BY <1>1, <1>2, <2>2
        <3>. QED
            BY <3>1 DEF LeaseInv, DurableLease
    <2>. QED
        BY <2>1, <2>2
<1>. QED
    BY <1>4, <1>5, <1>6, <1>7 DEF LeaseInv

\* acquire and renew write a lease of the caller, over none, an expired one or
\* one of the caller's own.
LEMMA LeaseGrant ==
    ASSUME SingleProcess, LeaseInv, NEW p \in alive, NEW h \in Holders, NEW k \in Keys,
           NEW ok \in BOOLEAN, Free(p, h, k),
           Save(p, [mem[p] EXCEPT ![k] = Granted(h)], ok),
           trust' = IF ok THEN [trust EXCEPT ![h][k] = now + TTL] ELSE trust
    PROVE  LeaseInv'
<1>. DEFINE L == [mem[p] EXCEPT ![k] = Granted(h)]
<1>1. now \in Nat /\ TTL \in Nat /\ p \in Procs /\ mem[p] \in Leases
    BY TTLAssumption DEF LeaseInv, TypeOK
<1>2. trust \in [Holders -> [Keys -> Nat]]
    BY DEF LeaseInv, TypeOK
<1>3. Granted(h) \in Lease /\ Granted(h).holder = h /\ Granted(h).expires = now + TTL
    BY <1>1 DEF Granted, Lease
<1>4. L \in Leases /\ L[k] = Granted(h) /\ \A j \in Keys : j # k => L[j] = mem[p][j]
    BY <1>1, <1>3 DEF Leases
<1>5. trust' \in [Holders -> [Keys -> Nat]]
    BY <1>1, <1>2
<1>6. /\ trust'[h][k] \in {now + TTL, trust[h][k]}
      /\ \A g \in Holders, j \in Keys : g # h \/ j # k => trust'[g][j] = trust[g][j]
    BY <1>1, <1>2
<1>7. \A g \in Holders, j \in Keys : trust[g][j] <= now + TTL /\ trust[g][j] \in Nat
    BY <1>2 DEF LeaseInv, TrustBounded
<1>8. \A g \in Holders, j \in Keys : trust'[g][j] <= now + TTL
    BY <1>1, <1>6, <1>7
<1>9. ASSUME NEW g \in Holders, g # h
      PROVE  ~ (trust[g][k] > now)
    <2>. SUFFICES ASSUME trust[g][k] > now PROVE FALSE
        OBVIOUS
    <2>1. Backs(mem[p][k], g, trust[g][k])
        BY DEF LeaseInv, RememberedLease
    <2>2. mem[p][k] \in Lease \/ mem[p][k] = NoLease
        BY <1>1 DEF Leases
    <2>3. mem[p][k].expires \in Nat
        BY <2>1, <2>2 DEF Backs, Lease
    <2>4. ~Expired(mem[p][k])
        BY <1>1, <1>7, <2>1, <2>3 DEF Backs, Expired
    <2>. QED
        BY <1>9, <2>1, <2>4 DEF Free, Backs
<1>10. ASSUME NEW g \in Holders, NEW j \in Keys, trust'[g][j] > now
       PROVE  Backs(L[j], g, trust'[g][j])
    <2>1. CASE j # k
        <3>1. trust'[g][j] = trust[g][j] /\ L[j] = mem[p][j]
            BY <1>4, <1>6, <2>1
        <3>. QED
            BY <1>10, <3>1 DEF LeaseInv, RememberedLease
    <2>2. CASE j = k /\ g # h
        BY <1>6, <1>9, <1>10, <2>2
    <2>3. CASE j = k /\ g = h
        <3>1. Granted(h) # NoLease
            BY <1>3, NoLeaseAssumption DEF Lease
        <3>2. trust'[h][k] <= now + TTL
            BY <1>8
        <3>. QED
            BY <1>1, <1>3, <1>4, <2>3, <3>1, <3>2 DEF Backs
    <2>. QED
        BY <2>1, <2>2, <2>3
<1>11. ~ok => trust' = trust
    OBVIOUS
<1>. HIDE DEF L
<1>12. Save(p, L, ok)
    BY DEF L
<1>. QED
    BY <1>4, <1>5, <1>8, <1>10, <1>11, <1>12, LeaseSave

\* Every step with a single process keeps the invariant.
LEMMA LeaseStep ==
    ASSUME SingleProcess, LeaseInv, [Next]_vars
    PROVE  LeaseInv'
<1>1. /\ now \in Nat /\ TTL \in Nat /\ alive \subseteq Procs
      /\ trust \in [Holders -> [Keys -> Nat]]
      /\ mem \in [Procs -> Leases] /\ disk \in Leases
    BY TTLAssumption DEF LeaseInv, TypeOK
<1>2. CASE Tick
    <2>1. now' = now + 1 /\ disk' = disk /\ mem' = mem /\ alive' = alive /\ trust' = trust
        BY <1>2 DEF Tick
    <2>2. TrustBounded'
        BY <1>1, <2>1 DEF LeaseInv, TrustBounded
    <2>3. \A h \in Holders, k \in Keys : trust[h][k] > now' => trust[h][k] > now
        BY <1>1, <2>1
    <2>4. DurableLease' /\ RememberedLease'
        BY <2>1, <2>3 DEF LeaseInv, DurableLease, RememberedLease, Backs
    <2>. QED
        BY <1>1, <2>1, <2>2, <2>4 DEF LeaseInv, TypeOK
<1>3. ASSUME NEW p \in Procs, Crash(p) \/ Start(p)
      PROVE  LeaseInv'
    <2>1. now' = now /\ disk' = disk /\ trust' = trust
        BY <1>3 DEF Crash, Start
    <2>2. TypeOK' /\ TrustBounded' /\ DurableLease'
        BY <1>1, <1>3, <2>1
        DEF LeaseInv, TypeOK, TrustBounded, DurableLease, Backs, Crash, Start
    <2>3. ASSUME NEW q \in alive' PROVE (mem'[q] = mem[q] /\ q \in alive) \/ mem'[q] = disk
        BY <1>1, <1>3 DEF Crash, Start
    <2>4. RememberedLease'
        BY <2>1, <2>3 DEF LeaseInv, RememberedLease, DurableLease, Backs
    <2>. QED
        BY <2>2, <2>4 DEF LeaseInv
<1>4. ASSUME NEW p \in Procs, NEW ok \in BOOLEAN, RecoverStale(p, ok)
      PROVE  LeaseInv'
    <2>. DEFINE L == [k \in Keys |-> IF k \in Stale(p) THEN NoLease ELSE mem[p][k]]
    <2>1. p \in alive /\ trust' = trust /\ Save(p, L, ok)
        BY <1>4 DEF RecoverStale
    <2>2. L \in Leases
        BY <1>1 DEF Leases
    <2>3. ASSUME NEW h \in Holders, NEW k \in Keys, trust[h][k] > now
          PROVE  Backs(L[k], h, trust[h][k])
        <3>1. Backs(mem[p][k], h, trust[h][k])
            BY <2>1, <2>3 DEF LeaseInv, RememberedLease
        <3>2. mem[p][k] \in Lease
            BY <1>1, <3>1 DEF Leases, Backs
        <3>3. mem[p][k].expires \in Nat
            BY <3>2 DEF Lease
        <3>4. k \notin Stale(p)
            BY <1>1, <2>3, <3>1, <3>3 DEF Backs, Stale, Expired
        <3>. QED
            BY <3>1, <3>4
    <2>. HIDE DEF L
    <2>4. \A h \in Holders, k \in Keys : trust[h][k] <= now + TTL
        BY DEF LeaseInv, TrustBounded
    <2>. QED
        BY <1>1, <2>1, <2>2, <2>3, <2>4, LeaseSave
<1>5. ASSUME NEW p \in Procs, NEW ok \in BOOLEAN, NEW h \in Holders, NEW k \in Keys,
             Release(p, h, k, ok)
      PROVE  LeaseInv'
    <2>. DEFINE L == [mem[p] EXCEPT ![k] = NoLease]
    <2>1. /\ p \in alive /\ mem[p][k] # NoLease /\ mem[p][k].holder = h
          /\ Save(p, L, ok) /\ trust' = [trust EXCEPT ![h][k] = 0]
        BY <1>5 DEF Release
    <2>2. L \in Leases /\ \A j \in Keys : j # k => L[j] = mem[p][j]
        BY <1>1 DEF Leases
    <2>3. trust' \in [Holders -> [Keys -> Nat]]
        BY <1>1, <2>1
    <2>4. \A g \in Holders, j \in Keys :
             trust'[g][j] = IF g = h /\ j = k THEN 0 ELSE trust[g][j]
        BY <1>1, <2>1
    <2>5. \A g \in Holders, j \in Keys : trust'[g][j] <= now + TTL
        BY <1>1, <2>4 DEF LeaseInv, TrustBounded
    <2>6. ASSUME NEW g \in Holders, NEW j \in Keys, trust'[g][j] > now
          PROVE  Backs(L[j], g, trust'[g][j])
        <3>1. (g # h \/ j # k) /\ trust'[g][j] = trust[g][j]
            BY <1>1, <2>4, <2>6
        <3>2. Backs(mem[p][j], g, trust[g][j])
            BY <2>1, <2>6, <3>1 DEF LeaseInv, RememberedLease
        <3>3. j # k
            BY <2>1, <3>1, <3>2 DEF Backs
        <3>. QED
            BY <2>2, <3>1, <3>2, <3>3
    <2>. HIDE DEF L
    <2>7. \A g \in Holders, j \in Keys : trust'[g][j] \in {0, trust[g][j]}
        BY <2>4
    <2>. QED
        BY <2>1, <2>2, <2>3, <2>5, <2>6, <2>7, LeaseSave
<1>6. ASSUME NEW p \in Procs, NEW ok \in BOOLEAN, NEW h \in Holders, NEW k \in Keys,
             Acquire(p, h, k, ok) \/ Renew(p, h, k, ok)
      PROVE  LeaseInv'
    <2>1. Free(p, h, k)
        BY <1>6 DEF Acquire, Renew, Free
    <2>. QED
        BY <1>6, <2>1, LeaseGrant DEF Acquire, Renew
<1>7. CASE UNCHANGED vars
    BY <1>7 DEF vars, LeaseInv, TypeOK, TrustBounded, DurableLease, RememberedLease, Backs
<1>. QED
    BY <1>2, <1>3, <1>4, <1>5, <1>6, <1>7 DEF Next

\* Two holders backed by the same file are the same.
LEMMA BackedExclusion == LeaseInv => OneHolder
    BY DEF LeaseInv, DurableLease, OneHolder, Backs

\* With a single process, the inductive invariant of the lease manager.
THEOREM LeaseInvariant == SingleProcess /\ Spec => []LeaseInv
<1>1. ASSUME SingleProcess PROVE Spec => []LeaseInv
    <2>1. LeaseInv /\ [Next]_vars => LeaseInv'
        BY <1>1, LeaseStep
    <2>. QED
        BY <2>1, LeaseInit, PTL DEF Spec
<1>. QED
    BY <1>1

\* With a single process no key has two holders that rely on it.
THEOREM LeaseExclusion == SingleProcess /\ Spec => []OneHolder
<1>1. SingleProcess /\ Spec => []LeaseInv
    BY LeaseInvariant
<1>. QED
    BY <1>1, BackedExclusion, PTL

\* With a single process a lease that is relied on survives every crash.
THEOREM LeaseDurability == SingleProcess /\ Spec => []DurableLease
<1>1. SingleProcess /\ Spec => []LeaseInv
    BY LeaseInvariant
<1>2. LeaseInv => DurableLease
    BY DEF LeaseInv
<1>. QED
    BY <1>1, <1>2, PTL

-----------------------------------------------------------------------------
(* CircuitBreaker.                                                          *)

BreakerInv == B!TypeOK /\ B!BreakerConsistent

\* Both thresholds are positive integers.
LEMMA ThresholdsPositive ==
    ASSUME B!ThresholdAssumption
    PROVE  /\ FailureThreshold \in Nat /\ 0 < FailureThreshold
           /\ HalfOpenAllowance \in Nat /\ 0 < HalfOpenAllowance
    BY DEF B!ThresholdAssumption

\* The types and the bounds of both counters hold initially.
LEMMA BreakerInit == ASSUME B!ThresholdAssumption PROVE B!Init => BreakerInv
<1>. SUFFICES ASSUME B!Init PROVE BreakerInv
    OBVIOUS
<1>1. elapsed \in BOOLEAN
    BY Zenon DEF B!Init
<1>2. /\ state = "closed" /\ failures = 0 /\ probes = 0
      /\ running = {} /\ failed = 0
    BY DEF B!Init
<1>. QED
    BY <1>1, <1>2, ThresholdsPositive DEF BreakerInv, B!TypeOK, B!BreakerConsistent

\* Every step keeps them, and an open breaker admits nobody before its timeout.
LEMMA BreakerNext ==
    ASSUME B!ThresholdAssumption, BreakerInv, [B!Next]_(B!vars)
    PROVE  /\ BreakerInv'
           /\ state = "open" /\ ~elapsed => running' \subseteq running /\ state' = "open"
<1>. USE ThresholdsPositive DEF BreakerInv, B!TypeOK, B!BreakerConsistent
<1>1. CASE B!TimeoutPasses
    BY <1>1 DEF B!TimeoutPasses
<1>2. ASSUME NEW c \in Callers, B!Admit(c)
      PROVE  /\ BreakerInv'
             /\ state = "open" /\ ~elapsed => running' \subseteq running /\ state' = "open"
    BY <1>2 DEF B!Admit, B!CanAdmit
<1>3. ASSUME NEW c \in Callers, B!Leave(c)
      PROVE  /\ BreakerInv'
             /\ state = "open" /\ ~elapsed => running' \subseteq running /\ state' = "open"
    BY <1>3 DEF B!Leave
<1>4. ASSUME NEW c \in Callers, B!Succeed(c)
      PROVE  /\ BreakerInv'
             /\ state = "open" /\ ~elapsed => running' \subseteq running /\ state' = "open"
    BY <1>4 DEF B!Succeed
<1>5. ASSUME NEW c \in Callers, B!Fail(c)
      PROVE  /\ BreakerInv'
             /\ state = "open" /\ ~elapsed => running' \subseteq running /\ state' = "open"
    <2>1. CASE B!Opens
        <3>1. elapsed' \in BOOLEAN
            BY <1>5, <2>1, Zenon DEF B!Fail
        <3>2. /\ failures' = failures + 1 /\ state' = "open" /\ probes' = probes
              /\ failed' = failed + 1 /\ running' \subseteq running
            BY <1>5, <2>1 DEF B!Fail
        <3>. QED
            BY <3>1, <3>2
    <2>2. CASE ~B!Opens
        <3>1. /\ failures' = failures + 1 /\ state' = state /\ probes' = probes
              /\ failed' = failed + 1 /\ elapsed' = elapsed /\ running' \subseteq running
            BY <1>5, <2>2 DEF B!Fail
        <3>2. state = "closed" => failures + 1 < FailureThreshold
            BY <2>2 DEF B!Opens
        <3>. QED
            BY <3>1, <3>2
    <2>. QED
        BY <2>1, <2>2
<1>6. CASE UNCHANGED B!vars
    BY <1>6 DEF B!vars
<1>. QED
    BY <1>1, <1>2, <1>3, <1>4, <1>5, <1>6 DEF B!Next

\* The types of the breaker's fields.
THEOREM BreakerTypes ==
    ASSUME B!ThresholdAssumption
    PROVE  B!Spec => []B!TypeOK
<1>1. BreakerInv => B!TypeOK
    BY DEF BreakerInv
<1>. QED
    BY <1>1, BreakerInit, BreakerNext, PTL DEF B!Spec

\* A closed breaker is below its threshold and a half-open one has a probe
\* left, in every reachable state.
THEOREM BreakerIsConsistent ==
    ASSUME B!ThresholdAssumption
    PROVE  B!Spec => []B!BreakerConsistent
<1>1. BreakerInv => B!BreakerConsistent
    BY DEF BreakerInv
<1>. QED
    BY <1>1, BreakerInit, BreakerNext, PTL DEF B!Spec

\* No call is admitted by an open breaker before its timeout.
THEOREM BreakerBlocks ==
    ASSUME B!ThresholdAssumption
    PROVE  B!Spec => B!OpenBlocks
<1>1. BreakerInv /\ [B!Next]_(B!vars) =>
        [state = "open" /\ ~elapsed => running' \subseteq running /\ state' = "open"]_(B!vars)
    BY BreakerNext
<1>. QED
    BY <1>1, BreakerInit, BreakerNext, PTL DEF B!Spec, B!OpenBlocks

-----------------------------------------------------------------------------
(* CheckpointStore.                                                         *)

\* The current file is the last revision saved, unless there is none or it was
\* damaged; the backup is that or the one before it, and not older while a save
\* is under way.
CheckpointInv ==
    /\ C!TypeOK
    /\ target \in {saved, Missing, Corrupt}
    /\ target = Missing <=> saved = 0
    /\ target = Missing => backup = Missing
    /\ backup \in {saved, previous, Missing, Corrupt}
    /\ saving => started > 0 /\ backup \in {saved, Missing, Corrupt}
    /\ corruptions = 0 => target # Corrupt

LEMMA CheckpointInit == ASSUME C!Init PROVE CheckpointInv
<1>1. /\ target = Missing /\ backup = Missing /\ started = 0 /\ saved = 0
      /\ previous = 0 /\ corruptions = 0 /\ ~saving /\ saving \in BOOLEAN
    BY DEF C!Init
<1> QED
    BY <1>1, CheckpointAssumption DEF C!FileAssumption, CheckpointInv, C!TypeOK, C!Contents

LEMMA CheckpointNext == ASSUME CheckpointInv, [C!Next]_(C!vars) PROVE CheckpointInv'
<1> USE CheckpointAssumption DEF C!FileAssumption, CheckpointInv, C!TypeOK, C!Contents
<1>1. CASE C!BeginSave
    BY <1>1 DEF C!BeginSave, C!KeepPrevious
<1>2. CASE C!EndSave
    <2>1. /\ saving /\ ~saving' /\ saving' \in BOOLEAN
          /\ target' = started /\ saved' = started /\ previous' = saved
          /\ backup' = backup /\ started' = started /\ corruptions' = corruptions
        BY <1>2 DEF C!EndSave
    <2> QED
        BY <2>1
<1>3. CASE C!Interrupt
    BY <1>3 DEF C!Interrupt
<1>4. CASE C!Damage
    BY <1>4 DEF C!Damage
<1>5. CASE UNCHANGED C!vars
    BY <1>5 DEF C!vars
<1> QED
    BY <1>1, <1>2, <1>3, <1>4, <1>5 DEF C!Next

\* A restore finds the last completed save, or the one before it.
LEMMA CheckpointRestored ==
    ASSUME CheckpointInv
    PROVE  C!TypeOK /\ C!RestoresLastSave /\ C!FallbackIsPrevious
    BY CheckpointAssumption
       DEF C!FileAssumption, CheckpointInv, C!TypeOK, C!Contents, C!RestoresLastSave,
           C!FallbackIsPrevious, C!Restored

\* Of CheckpointStore: whatever is interrupted or damaged, the two files are the
\* last completed save and the one it replaced, or known to be damaged.
THEOREM CheckpointInvariant == C!Spec => []CheckpointInv
    BY CheckpointInit, CheckpointNext, PTL DEF C!Spec

-----------------------------------------------------------------------------
(* ConflictManager.                                                         *)

ConflictInv == M!TypeOK /\ M!DecisionStands

LEMMA ConflictInit == ASSUME M!Init PROVE ConflictInv
    BY ConflictAssumption
       DEF M!Init, ConflictInv, M!TypeOK, M!DecisionStands, M!BoundAssumption

\* A change of the conflict about k to c: nobody has decided about it since its
\* detection, or what was decided is c, or c may stand besides, or c is merged over it.
LEMMA ConflictSave ==
    ASSUME ConflictInv, NEW k \in Conflicts, NEW c \in M!Records, NEW ok \in BOOLEAN,
           M!Save([conflicts EXCEPT ![k] = c], ok),
           detected' \in 0..MaxDetections, copies' \in [Conflicts -> SUBSET M!Records],
           NEW may \in SUBSET M!Records, decided' = [decided EXCEPT ![k] = may],
           may # {} => c \in may \/ M!MergedOver(c),
           may # {} /\ ~ok => decided[k] # {} /\ decided[k] \subseteq may
    PROVE  ConflictInv'
<1> USE DEF ConflictInv, M!TypeOK, M!DecisionStands, M!MergedOver
<1>1. /\ conflicts' = [conflicts EXCEPT ![k] = c] /\ kind' = kind
      /\ recorded' = IF ok THEN conflicts' ELSE recorded
      /\ broken' \in 0..MaxBroken
    BY ConflictAssumption DEF M!Save, M!BoundAssumption
<1>2. conflicts' \in [Conflicts -> M!Records \union {NoConflict}]
    BY <1>1
<1>3. recorded' \in [Conflicts -> M!Records \union {NoConflict}]
    BY <1>1, <1>2
<1>4. decided' \in [Conflicts -> SUBSET M!Records]
    OBVIOUS
<1>5. M!DecisionStands'
    <2> SUFFICES ASSUME NEW j \in Conflicts, decided'[j] # {},
                        NEW d \in {conflicts'[j], recorded'[j]}
                 PROVE  d \in decided'[j] \/ M!MergedOver(d)'
        OBVIOUS
    <2>1. CASE j = k
        BY <1>1, <2>1
    <2>2. CASE j # k
        BY <1>1, <2>2
    <2> QED
        BY <2>1, <2>2
<1> QED
    BY <1>1, <1>2, <1>3, <1>4, <1>5

LEMMA ConflictNext == ASSUME ConflictInv, [M!Next]_(M!vars) PROVE ConflictInv'
<1> USE DEF ConflictInv, M!TypeOK
<1>1. MaxDetections \in Nat /\ MaxBroken \in Nat
    BY ConflictAssumption DEF M!BoundAssumption
<1>2. CASE M!Restart
    BY <1>1, <1>2 DEF M!Restart, M!DecisionStands, M!MergedOver
<1>3. ASSUME NEW k \in Conflicts, NEW ok \in BOOLEAN, M!Detect(k, ok)
      PROVE  ConflictInv'
    <2> DEFINE c == [n |-> detected + 1, res |-> "none"]
    <2>1. c \in M!Records /\ detected' = detected + 1 /\ detected' \in 0..MaxDetections
        BY <1>1, <1>3 DEF M!Detect, M!Records, M!Resolutions
    <2>2. M!Save([conflicts EXCEPT ![k] = c], ok)
        BY <1>3, <2>1 DEF M!Detect
    <2>3. conflicts'[k] = c
        BY <2>2 DEF M!Save
    <2> DEFINE may == IF ok \/ decided[k] = {} THEN {} ELSE decided[k] \union {c}
    <2>4. decided' = [decided EXCEPT ![k] = may]
        BY <1>3, <2>3 DEF M!Detect, M!Replaceable
    <2>5. /\ may \in SUBSET M!Records
          /\ may # {} => c \in may
          /\ may # {} /\ ~ok => decided[k] # {} /\ decided[k] \subseteq may
        BY <2>1
    <2>6. copies' \in [Conflicts -> SUBSET M!Records]
        BY <1>3, <2>1, <2>3 DEF M!Detect
    <2>7. c \in M!Records /\ detected' \in 0..MaxDetections
        BY <2>1
    <2> HIDE DEF c, may, ConflictInv, M!TypeOK
    <2> QED
        BY <2>2, <2>4, <2>5, <2>6, <2>7, ConflictSave
<1>4. ASSUME NEW k \in Conflicts, NEW ok \in BOOLEAN, NEW copy \in copies[k],
             M!ResolveAutomatically(k, copy, ok)
      PROVE  ConflictInv'
    <2> DEFINE c == [copy EXCEPT !.res = "automatic"]
    <2>1. c \in M!Records
        BY DEF M!Records, M!Resolutions
    <2>2. /\ M!Save([conflicts EXCEPT ![k] = c], ok)
          /\ decided' = decided /\ copies' = copies /\ detected' = detected
        BY <1>4 DEF M!ResolveAutomatically
    <2>3. M!MergedOver(c)
        BY <1>4, <2>1 DEF M!ResolveAutomatically, M!MergedOver
    <2>4. detected' \in 0..MaxDetections /\ copies' \in [Conflicts -> SUBSET M!Records]
        BY <2>2
    <2> DEFINE may == decided[k]
    <2>5. /\ may \in SUBSET M!Records
          /\ decided' = [decided EXCEPT ![k] = may]
          /\ may # {} /\ ~ok => decided[k] # {} /\ decided[k] \subseteq may
        BY <2>2
    <2> HIDE DEF c, may
    <2> QED
        BY <2>1, <2>2, <2>3, <2>4, <2>5, ConflictSave
<1>5. ASSUME NEW k \in Conflicts, NEW ok \in BOOLEAN, NEW copy \in copies[k],
             M!ResolveRemotely(k, copy, ok)
      PROVE  ConflictInv'
    BY <1>1, <1>5 DEF M!ResolveRemotely, M!Save, M!DecisionStands, M!MergedOver
<1>6. ASSUME NEW k \in Conflicts, NEW ok \in BOOLEAN, NEW chosen \in {"local", "remote"},
             M!ResolveManually(k, chosen, ok)
      PROVE  ConflictInv'
    <2> DEFINE c == [conflicts[k] EXCEPT !.res = chosen]
    <2>1. c \in M!Records
        BY <1>6 DEF M!ResolveManually, M!Records, M!Resolutions
    <2>2. /\ M!Save([conflicts EXCEPT ![k] = c], ok)
          /\ copies' = copies /\ detected' = detected
        BY <1>6 DEF M!ResolveManually
    <2>3. conflicts'[k] = c
        BY <2>2 DEF M!Save
    <2> DEFINE may == IF ok THEN {c}
                      ELSE IF decided[k] = {} THEN {} ELSE decided[k] \union {c}
    <2>4. decided' = [decided EXCEPT ![k] = may]
        BY <1>6, <2>3 DEF M!ResolveManually, M!Replaceable
    <2>5. /\ may \in SUBSET M!Records
          /\ may # {} => c \in may
          /\ may # {} /\ ~ok => decided[k] # {} /\ decided[k] \subseteq may
        BY <2>1
    <2>6. detected' \in 0..MaxDetections /\ copies' \in [Conflicts -> SUBSET M!Records]
        BY <2>2
    <2> HIDE DEF c, may
    <2> QED
        BY <2>1, <2>2, <2>4, <2>5, <2>6, ConflictSave
<1>7. CASE UNCHANGED M!vars
    BY <1>7 DEF M!vars, M!DecisionStands, M!MergedOver
<1> QED
    BY <1>2, <1>3, <1>4, <1>5, <1>6, <1>7 DEF M!Next

\* Of either conflict manager: what a human decided stands in memory and file, but
\* for an automatic merge of the sync manager.
THEOREM ConflictInvariant == M!Spec => []ConflictInv
    BY ConflictInit, ConflictNext, PTL DEF M!Spec

-----------------------------------------------------------------------------
(* BackupManager.                                                           *)

\* A manifest lists what the snapshot found and, unless they were damaged, what
\* the copies hold.
ManifestsTrue ==
    \A i \in Snapshots \ damaged :
        manifest[i] # Nothing => manifest[i] = seen[i] /\ copied[i] = seen[i]

\* A snapshot under way has no manifest yet; what it copied is what it found.
SnapshotProgress ==
    S!At("snapshot") =>
        /\ manifest[call.id] = Nothing
        /\ call.id \notin damaged =>
              \A f \in call.done : copied[call.id][f] = seen[call.id][f]

\* A restore under way has a manifest; what it copied back is what was found.
RestoreProgress ==
    S!At("restore") =>
        /\ manifest[call.id] # Nothing
        /\ restored = Nothing
        /\ call.id \notin damaged =>
              \A f \in call.done : into[f] = seen[call.id][f]

\* What was restored has a manifest, and is in place.
RestoredInPlace ==
    \A i \in Snapshots :
        restored = i => /\ manifest[i] # Nothing
                        /\ i \notin damaged => into = seen[i]

BackupInv ==
    S!TypeOK /\ ManifestsTrue /\ SnapshotProgress /\ RestoreProgress /\ RestoredInPlace

LEMMA BackupInit == ASSUME S!Init PROVE BackupInv
<1> USE BackupAssumption DEF S!SnapshotAssumption
<1>1. S!TypeOK
    BY DEF S!Init, S!TypeOK, S!Contents, S!NoFiles
<1>2. ManifestsTrue /\ SnapshotProgress /\ RestoreProgress /\ RestoredInPlace
    BY DEF S!Init, ManifestsTrue, SnapshotProgress, RestoreProgress, RestoredInPlace, S!At
<1> QED
    BY <1>1, <1>2 DEF BackupInv

LEMMA BackupTypes ==
    ASSUME S!TypeOK, [S!Next]_(S!vars)
    PROVE  S!TypeOK'
<1> USE BackupAssumption DEF S!SnapshotAssumption, S!TypeOK, S!Contents
<1>1. CASE S!WriteManifest
    BY <1>1 DEF S!WriteManifest, S!At, S!history
<1>2. ASSUME NEW i \in Snapshots, S!BeginSnapshot(i) \/ S!BeginRestore(i)
      PROVE  S!TypeOK'
    BY <1>2 DEF S!BeginSnapshot, S!BeginRestore, S!history
<1>3. ASSUME NEW f \in Files, S!CopyFile(f)
      PROVE  S!TypeOK'
    BY <1>3 DEF S!CopyFile, S!At
<1>4. ASSUME NEW f \in Files, S!RestoreFile(f)
      PROVE  S!TypeOK'
    BY <1>4 DEF S!RestoreFile, S!At
<1>5. ASSUME NEW f \in Files, S!FileMissing(f)
      PROVE  S!TypeOK'
    BY <1>5 DEF S!FileMissing, S!history
<1>6. ASSUME NEW f \in Files, S!BreakOff(f)
      PROVE  S!TypeOK'
    <2>1. call.id \in Snapshots /\ breaks' \in 0..MaxBreaks /\ call' = Nothing
        BY <1>6 DEF S!BreakOff
    <2>2. copied' \in [Snapshots -> [Files -> S!Contents]]
        <3>1. [copied EXCEPT ![call.id][f] = Partial] \in [Snapshots -> [Files -> S!Contents]]
            BY <2>1
        <3> QED
            BY <1>6, <3>1 DEF S!BreakOff
    <2>3. into' \in [Files -> S!Contents]
        BY <1>6 DEF S!BreakOff
    <2>4. UNCHANGED <<source, revision, manifest, seen, damaged, restored>>
        BY <1>6 DEF S!BreakOff, S!history
    <2> QED
        BY <2>1, <2>2, <2>3, <2>4
<1>7. ASSUME NEW f \in Files, S!Change(f)
      PROVE  S!TypeOK'
    BY <1>7 DEF S!Change, S!history
<1>8. ASSUME NEW f \in Files, NEW i \in Snapshots, S!Damage(i, f)
      PROVE  S!TypeOK'
    BY <1>8 DEF S!Damage
<1>9. CASE UNCHANGED S!vars
    BY <1>9 DEF S!vars, S!history
<1> QED
    BY <1>1, <1>2, <1>3, <1>4, <1>5, <1>6, <1>7, <1>8, <1>9 DEF S!Next

LEMMA BackupNext == ASSUME BackupInv, [S!Next]_(S!vars) PROVE BackupInv'
<1> USE BackupAssumption DEF S!SnapshotAssumption
<1> DEFINE Rest == ManifestsTrue /\ SnapshotProgress /\ RestoreProgress /\ RestoredInPlace
<1> USE DEF BackupInv, ManifestsTrue, SnapshotProgress, RestoreProgress, RestoredInPlace,
            S!At, S!TypeOK
<1>1. CASE S!WriteManifest
    BY <1>1 DEF S!WriteManifest, S!history
<1>2. ASSUME NEW i \in Snapshots, S!BeginSnapshot(i) \/ S!BeginRestore(i)
      PROVE  Rest'
    BY <1>2 DEF S!BeginSnapshot, S!Unused, S!BeginRestore, S!history
<1>3. ASSUME NEW f \in Files, S!CopyFile(f)
      PROVE  Rest'
    BY <1>3 DEF S!CopyFile
<1>4. ASSUME NEW f \in Files, S!RestoreFile(f)
      PROVE  Rest'
    <2>1. /\ S!At("restore") /\ call.id \in Snapshots /\ call.done \subseteq Files
          /\ manifest[call.id] # Nothing /\ restored = Nothing
          /\ UNCHANGED <<copied, manifest, seen, damaged>>
        BY <1>4 DEF S!RestoreFile
    <2>2. into' = [into EXCEPT ![f] = copied[call.id][f]]
        BY <1>4 DEF S!RestoreFile
    <2>3. call.id \notin damaged => copied[call.id][f] = seen[call.id][f]
        BY <2>1
    <2>4. call.id \notin damaged =>
             \A g \in call.done \union {f} : into'[g] = seen[call.id][g]
        BY <2>1, <2>2, <2>3
    <2>5. CASE call.done \union {f} = Files
        <3>1. call' = Nothing /\ restored' = call.id
            BY <1>4, <2>5 DEF S!RestoreFile
        <3>2. into' \in [Files -> S!Contents] /\ seen[call.id] \in [Files -> S!Contents]
            BY <2>1, <2>2
        <3>3. call.id \notin damaged => \A g \in Files : into'[g] = seen[call.id][g]
            BY <2>4, <2>5
        <3>4. call.id \notin damaged => into' = seen[call.id]
            BY <3>2, <3>3
        <3> QED
            BY <2>1, <3>1, <3>4
    <2>6. CASE call.done \union {f} # Files
        <3>1. call' = [call EXCEPT !.done = @ \union {f}] /\ restored' = restored
            BY <1>4, <2>6 DEF S!RestoreFile
        <3>2. /\ call'.op = "restore" /\ call'.id = call.id
              /\ call'.done = call.done \union {f}
            <4>1. /\ call \in [op : {"snapshot", "restore"}, id : Snapshots, done : SUBSET Files]
                  /\ call.op = "restore"
                BY <2>1
            <4> QED
                BY <3>1, <4>1
        <3>3. ManifestsTrue' /\ SnapshotProgress'
            BY <2>1, <3>1, <3>2
        <3>4. RestoreProgress'
            BY <2>1, <2>4, <3>1, <3>2
        <3>5. RestoredInPlace'
            BY <2>1, <3>1
        <3> QED
            BY <3>3, <3>4, <3>5
    <2> QED
        BY <2>5, <2>6
<1>5. ASSUME NEW f \in Files, S!FileMissing(f)
      PROVE  Rest'
    BY <1>5 DEF S!FileMissing, S!history
<1>6. ASSUME NEW f \in Files, S!BreakOff(f)
      PROVE  Rest'
    BY <1>6 DEF S!BreakOff, S!history
<1>7. ASSUME NEW f \in Files, S!Change(f)
      PROVE  Rest'
    BY <1>7 DEF S!Change, S!history
<1>8. ASSUME NEW f \in Files, NEW i \in Snapshots, S!Damage(i, f)
      PROVE  Rest'
    BY <1>8 DEF S!Damage
<1>9. CASE UNCHANGED S!vars
    BY <1>9 DEF S!vars, S!history
<1>10. S!TypeOK'
    BY BackupTypes DEF BackupInv
<1> QED
    BY <1>1, <1>2, <1>3, <1>4, <1>5, <1>6, <1>7, <1>8, <1>9, <1>10 DEF S!Next

\* A manifest that is true verifies.
LEMMA BackupRestores == ASSUME BackupInv PROVE S!SnapshotsRestore /\ S!TypeOK
    BY DEF BackupInv, ManifestsTrue, RestoredInPlace, S!SnapshotsRestore, S!Valid

\* Of BackupManager: manifests, snapshots and restores under way, and what was
\* restored agree with what the snapshots found, whatever was cut off or damaged.
THEOREM BackupInvariant == S!Spec => []BackupInv
    BY BackupInit, BackupNext, PTL DEF S!Spec

-----------------------------------------------------------------------------
(* HandoffDocument, with a single writer of the checkpoint.                 *)

OneWriter == \A v, w \in Writers : v = w

\* The checkpoints in gone are among the first n entries of the log, in order.
Embeds(gone, log, n) ==
    \E place \in [1..Len(gone) -> 1..n] :
        /\ \A i, j \in 1..Len(gone) : i < j => place[i] < place[j]
        /\ \A i \in 1..Len(gone) : log[place[i]] = gone[i]

\* A call that is about to write the changelog has read all of it; one that is
\* about to replace a checkpoint has written that as the last entry.
CallArchives(w) ==
    /\ D!At(w, "read") => writing[w].old \in Texts
    /\ D!At(w, "append") => writing[w].old \in Texts /\ writing[w].base = changelog
    /\ D!At(w, "replace") /\ writing[w].old \in Texts =>
          /\ Len(changelog) > 0
          /\ changelog[Len(changelog)] = writing[w].old
          /\ Embeds(replaced, changelog, Len(changelog) - 1)

DocumentInv ==
    /\ D!TypeOK
    /\ Embeds(replaced, changelog, Len(changelog))
    /\ \A w \in Writers : CallArchives(w)

\* What is among the first entries of a log is among those of a longer one.
LEMMA EmbedsLonger ==
    ASSUME NEW gone \in Seq(Texts), NEW log \in Seq(Texts), NEW longer \in Seq(Texts),
           NEW n \in Nat, NEW m \in Nat, n <= m, n <= Len(log),
           \A i \in 1..n : longer[i] = log[i],
           Embeds(gone, log, n)
    PROVE  Embeds(gone, longer, m)
<1>1. PICK place \in [1..Len(gone) -> 1..n] :
          /\ \A i, j \in 1..Len(gone) : i < j => place[i] < place[j]
          /\ \A i \in 1..Len(gone) : log[place[i]] = gone[i]
    BY DEF Embeds
<1>2. place \in [1..Len(gone) -> 1..m]
    BY <1>1
<1>3. \A i \in 1..Len(gone) : longer[place[i]] = gone[i]
    BY <1>1
<1> QED
    BY <1>1, <1>2, <1>3 DEF Embeds

\* The last entry of the log is the place of one more checkpoint.
LEMMA EmbedsOneMore ==
    ASSUME NEW gone \in Seq(Texts), NEW log \in Seq(Texts), NEW text \in Texts,
           Len(log) > 0, log[Len(log)] = text, Embeds(gone, log, Len(log) - 1)
    PROVE  Embeds(Append(gone, text), log, Len(log))
<1> DEFINE more == Append(gone, text)
           n == Len(log)
           g == Len(gone)
<1>1. PICK place \in [1..g -> 1..(n - 1)] :
          /\ \A i, j \in 1..g : i < j => place[i] < place[j]
          /\ \A i \in 1..g : log[place[i]] = gone[i]
    BY DEF Embeds
<1>2. /\ Len(more) = g + 1 /\ g \in Nat /\ n \in Nat
      /\ \A i \in 1..g : more[i] = gone[i]
      /\ more[g + 1] = text
    BY AppendProperties, LenProperties
<1> DEFINE next == [i \in 1..Len(more) |-> IF i = g + 1 THEN n ELSE place[i]]
<1> HIDE DEF more, n, g
<1>3. \A i \in 1..Len(more) : i # g + 1 => i \in 1..g /\ place[i] \in 1..(n - 1)
    BY <1>1, <1>2
<1>4. next \in [1..Len(more) -> 1..n]
    BY <1>2, <1>3 DEF n
<1>5. \A i, j \in 1..Len(more) : i < j => next[i] < next[j]
    BY <1>1, <1>2, <1>3
<1>6. \A i \in 1..Len(more) : log[next[i]] = more[i]
    BY <1>1, <1>2, <1>3 DEF n
<1>7. Embeds(more, log, n)
    BY <1>4, <1>5, <1>6 DEF Embeds
<1> QED
    BY <1>7 DEF more, n

LEMMA DocumentInit == ASSUME D!Init PROVE DocumentInv
<1>1. D!TypeOK
    BY DocumentAssumption, EmptySeq DEF D!Init, D!TypeOK, D!Contents, D!WritesAssumption
<1>2. Embeds(replaced, changelog, Len(changelog))
    <2>1. replaced = <<>> /\ changelog = <<>> /\ Len(<<>>) = 0
        BY DEF D!Init
    <2> DEFINE none == [i \in 1..Len(replaced) |-> 1]
    <2>2. none \in [1..Len(replaced) -> 1..Len(changelog)]
        BY <2>1
    <2>3. 1..Len(replaced) = {}
        BY <2>1
    <2> QED
        BY <2>2, <2>3 DEF Embeds
<1>3. \A w \in Writers : CallArchives(w)
    BY DEF D!Init, CallArchives, D!At
<1> QED
    BY <1>1, <1>2, <1>3 DEF DocumentInv

LEMMA DocumentNext ==
    ASSUME OneWriter, DocumentInv, [D!Next]_(D!vars)
    PROVE  DocumentInv'
<1> USE DEF D!TypeOK
<1>1. /\ MaxWrites \in Nat /\ changelog \in Seq(Texts) /\ replaced \in Seq(Texts)
      /\ writing \in [Writers -> D!Writings \union {Absent}]
      /\ Len(changelog) \in Nat
    BY DocumentAssumption, LenProperties DEF DocumentInv, D!WritesAssumption
<1>2. ASSUME NEW content \in D!Contents, D!Edit(content)
      PROVE  DocumentInv'
    BY <1>1, <1>2 DEF D!Edit, D!Count, DocumentInv, CallArchives, D!At
<1>3. ASSUME NEW w \in Writers, NEW content \in Texts \union {Blank},
             D!WriteCheckpoint(w, content)
      PROVE  DocumentInv'
    <2> DEFINE c == [at |-> IF D!Archived(document) THEN "read" ELSE "replace",
                     new |-> content, old |-> document, base |-> <<>>]
    <2>1. /\ writing' = [writing EXCEPT ![w] = c] /\ writes' \in 0..MaxWrites
          /\ UNCHANGED <<document, changelog, replaced>>
        BY <1>1, <1>3 DEF D!WriteCheckpoint, D!Count, DocumentInv
    <2>2. c \in D!Writings
        BY EmptySeq DEF D!Writings, DocumentInv
    <2>3. D!TypeOK'
        BY <1>1, <2>1, <2>2 DEF DocumentInv
    <2>4. CallArchives(w)'
        BY <1>1, <2>1 DEF CallArchives, D!At, D!Archived
    <2> QED
        BY <1>1, <2>1, <2>3, <2>4 DEF DocumentInv, OneWriter
<1>4. ASSUME NEW w \in Writers, D!ReadChangelog(w)
      PROVE  DocumentInv'
    <2>1. /\ writing[w] \in D!Writings /\ writing[w].at = "read"
          /\ writing[w].old \in Texts
          /\ UNCHANGED <<document, changelog, replaced, writes>>
        BY <1>1, <1>4 DEF D!ReadChangelog, D!At, DocumentInv, CallArchives
    <2> DEFINE c == [writing[w] EXCEPT !.at = "append", !.base = changelog]
    <2>2. writing' = [writing EXCEPT ![w] = c]
        BY <1>1, <1>4 DEF D!ReadChangelog
    <2>3. c \in D!Writings /\ c.at = "append" /\ c.old = writing[w].old /\ c.base = changelog
        BY <1>1, <2>1 DEF D!Writings
    <2> HIDE DEF c
    <2>4. D!TypeOK'
        BY <1>1, <2>1, <2>2, <2>3 DEF DocumentInv
    <2>5. CallArchives(w)'
        BY <1>1, <2>1, <2>2, <2>3 DEF CallArchives, D!At
    <2> QED
        BY <1>1, <2>1, <2>4, <2>5 DEF DocumentInv, OneWriter
<1>5. ASSUME NEW w \in Writers, D!AppendEntry(w)
      PROVE  DocumentInv'
    <2>1. /\ writing[w] \in D!Writings /\ writing[w].at = "append"
          /\ writing[w].old \in Texts /\ writing[w].base = changelog
          /\ UNCHANGED <<document, replaced, writes>>
        BY <1>1, <1>5 DEF D!AppendEntry, D!At, DocumentInv, CallArchives
    <2> DEFINE c == [writing[w] EXCEPT !.at = "replace"]
    <2>2. writing' = [writing EXCEPT ![w] = c] /\ changelog' = Append(changelog, writing[w].old)
        BY <1>1, <1>5, <2>1 DEF D!AppendEntry
    <2>3. c \in D!Writings /\ c.at = "replace" /\ c.old = writing[w].old
        BY <1>1, <2>1 DEF D!Writings
    <2> HIDE DEF c
    <2>4. /\ changelog' \in Seq(Texts) /\ Len(changelog') = Len(changelog) + 1
          /\ \A i \in 1..Len(changelog) : changelog'[i] = changelog[i]
          /\ changelog'[Len(changelog')] = writing[w].old
        BY <1>1, <2>1, <2>2, AppendProperties
    <2>5. /\ Embeds(replaced, changelog', Len(changelog') - 1)
          /\ Embeds(replaced, changelog', Len(changelog'))
        <3>1. Embeds(replaced, changelog, Len(changelog))
            BY DEF DocumentInv
        <3>2. ASSUME NEW m \in Nat, Len(changelog) <= m
              PROVE  Embeds(replaced, changelog', m)
            <4>1. Len(changelog) <= Len(changelog)
                BY <1>1
            <4> QED
                BY <1>1, <2>4, <3>1, <3>2, <4>1, EmbedsLonger, Zenon
        <3>3. /\ Len(changelog') - 1 \in Nat /\ Len(changelog) <= Len(changelog') - 1
              /\ Len(changelog') \in Nat /\ Len(changelog) <= Len(changelog')
            BY <1>1, <2>4
        <3> QED
            BY <3>2, <3>3
    <2>6. D!TypeOK'
        BY <1>1, <2>1, <2>2, <2>3, <2>4 DEF DocumentInv
    <2>7. CallArchives(w)'
        BY <1>1, <2>1, <2>2, <2>3, <2>4, <2>5 DEF CallArchives, D!At
    <2> QED
        BY <1>1, <2>1, <2>5, <2>6, <2>7 DEF DocumentInv, OneWriter
<1>6. ASSUME NEW w \in Writers, D!Replace(w)
      PROVE  DocumentInv'
    <2>1. /\ writing[w] \in D!Writings /\ writing[w].at = "replace"
          /\ document' = writing[w].new /\ writing' = [writing EXCEPT ![w] = Absent]
          /\ UNCHANGED <<changelog, writes>>
        BY <1>1, <1>6 DEF D!Replace, D!At
    <2>2. document' \in D!Contents
        BY <2>1 DEF D!Writings, D!Contents
    <2>3. replaced' \in Seq(Texts) /\ Embeds(replaced', changelog, Len(changelog))
        <3>1. CASE writing[w].old \in Texts
            <4>1. replaced' = Append(replaced, writing[w].old)
                BY <1>6, <3>1 DEF D!Replace, D!Archived
            <4>2. /\ Len(changelog) > 0 /\ changelog[Len(changelog)] = writing[w].old
                  /\ Embeds(replaced, changelog, Len(changelog) - 1)
                BY <1>6, <3>1 DEF D!Replace, DocumentInv, CallArchives
            <4> QED
                BY <1>1, <3>1, <4>1, <4>2, AppendProperties, EmbedsOneMore
        <3>2. CASE writing[w].old \notin Texts
            BY <1>1, <1>6, <3>2 DEF D!Replace, D!Archived, DocumentInv
        <3> QED
            BY <3>1, <3>2
    <2>4. D!TypeOK'
        BY <1>1, <2>1, <2>2, <2>3 DEF DocumentInv
    <2>5. CallArchives(w)'
        BY <1>1, <2>1 DEF CallArchives, D!At
    <2> QED
        BY <1>1, <2>1, <2>3, <2>4, <2>5 DEF DocumentInv, OneWriter
<1>7. ASSUME NEW w \in Writers, D!BreakOff(w)
      PROVE  DocumentInv'
    <2>1. writing' = [writing EXCEPT ![w] = Absent]
          /\ UNCHANGED <<document, changelog, replaced, writes>>
        BY <1>7 DEF D!BreakOff
    <2>2. CallArchives(w)'
        BY <1>1, <2>1 DEF CallArchives, D!At
    <2> QED
        BY <1>1, <2>1, <2>2 DEF DocumentInv, OneWriter
<1>8. CASE UNCHANGED D!vars
    BY <1>8 DEF D!vars, DocumentInv, CallArchives, D!At
<1> QED
    BY <1>2, <1>3, <1>4, <1>5, <1>6, <1>7, <1>8 DEF D!Next

LEMMA DocumentArchived == ASSUME DocumentInv PROVE D!ReplacedIsArchived /\ D!TypeOK
<1>1. /\ replaced \in Seq(Texts) /\ DOMAIN replaced = 1..Len(replaced)
      /\ changelog \in Seq(Texts) /\ DOMAIN changelog = 1..Len(changelog)
    BY LenProperties DEF DocumentInv, D!TypeOK
<1> QED
    BY <1>1, Zenon DEF DocumentInv, Embeds, D!ReplacedIsArchived

\* Of HandoffDocument with one writer: at every step of a call, what was replaced
\* is in the changelog in order, and what is about to be is its last entry.
THEOREM DocumentInvariant == OneWriter /\ D!Spec => []DocumentInv
<1>1. ASSUME OneWriter PROVE D!Spec => []DocumentInv
    <2>1. DocumentInv /\ [D!Next]_(D!vars) => DocumentInv'
        BY <1>1, DocumentNext
    <2> QED
        BY <2>1, DocumentInit, PTL DEF D!Spec
<1> QED
    BY <1>1

-----------------------------------------------------------------------------
(* Telemetry.                                                               *)

SomeTraces == [T!Traces -> [started : 0..MaxSecond, spans : SUBSET T!Spans,
                            status : T!EventStatus] \union {NoTrace}]
SomeSpans == [T!Spans -> [trace : T!Traces, status : T!EventStatus] \union {NoSpan}]

Live(ts) == {t \in T!Traces : ts[t] # NoTrace}

\* The spans ss are those of the traces ts, each in its own.
Matched(ts, ss) ==
    /\ \A s \in T!Spans : ss[s] # NoSpan =>
          ts[ss[s].trace] # NoTrace /\ s \in ts[ss[s].trace].spans
    /\ \A t \in Live(ts) : \A s \in ts[t].spans : ss[s] # NoSpan /\ ss[s].trace = t

\* A trace is open just when none of its spans has ended.
Statuses(ts, ss) ==
    \A t \in Live(ts) :
        ts[t].status = "started" <=> \A s \in ts[t].spans : ss[s].status = "started"

\* The ring holds the last failure until enough was kept after it.
RingKeeps ==
    /\ Len(events) <= T!Limit
    /\ sinceFailure < MaxSampledEvents =>
          sinceFailure < Len(events) /\ events[Len(events) - sinceFailure] = "failed"

TelemetryInv ==
    /\ T!TypeOK
    /\ Matched(traces, spans) /\ Statuses(traces, spans)
    /\ Cardinality(Live(traces)) <= MaxTraces
    /\ \A s \in T!Spans : made < s => spans[s] = NoSpan
    /\ RingKeeps

\* Fewer traces than ids; one more trace is one more.
LEMMA LiveCount ==
    ASSUME NEW ts
    PROVE  /\ IsFiniteSet(Live(ts)) /\ Cardinality(Live(ts)) \in Nat
           /\ \A A \in SUBSET Live(ts) :
                 IsFiniteSet(A) /\ Cardinality(A) \in Nat /\ Cardinality(A) <= Cardinality(Live(ts))
<1>1. IsFiniteSet(1..NTraces)
    BY TelemetryAssumption, FS_Interval DEF T!RetentionAssumption
<1>2. Live(ts) \in SUBSET (1..NTraces)
    BY DEF Live, T!Traces
<1>3. IsFiniteSet(Live(ts))
    BY <1>1, <1>2, FS_Subset
<1> QED
    BY <1>3, FS_Subset, FS_CardinalityType

\* Some live trace is older than all others.
LEMMA OldestExists ==
    ASSUME NEW ts \in SomeTraces, Live(ts) # {}
    PROVE  \E t \in Live(ts) : Cardinality({u \in Live(ts) : T!Older(ts, u, t)}) = 0
<1> DEFINE Before(t) == {u \in Live(ts) : T!Older(ts, u, t)}
           n == Cardinality(Live(ts))
<1>1. \A t \in Live(ts) : t \in Nat /\ ts[t].started \in Nat
    BY TelemetryAssumption DEF T!RetentionAssumption, Live, T!Traces, SomeTraces
<1>2. ASSUME NEW t \in Live(ts)
      PROVE  /\ t \notin Before(t) /\ IsFiniteSet(Before(t))
             /\ Cardinality(Before(t)) \in Nat /\ Cardinality(Before(t)) < n
    <2>1. t \notin Before(t)
        BY <1>1 DEF T!Older
    <2>2. /\ IsFiniteSet(Before(t)) /\ Cardinality(Before(t)) \in Nat
          /\ n \in Nat /\ Cardinality(Before(t)) <= n
        BY LiveCount
    <2>3. Cardinality(Before(t)) # n
        BY <2>1, LiveCount, FS_Subset
    <2> QED
        BY <2>1, <2>2, <2>3
<1>3. ASSUME NEW t \in Live(ts), NEW u \in Live(ts), t # u
      PROVE  Cardinality(Before(t)) # Cardinality(Before(u))
    <2>1. ASSUME NEW v \in Live(ts), NEW w \in Live(ts), v \in Before(w)
          PROVE  Cardinality(Before(v)) # Cardinality(Before(w))
        <3>1. Before(v) \in SUBSET Before(w)
            BY <1>1, <2>1 DEF T!Older
        <3>2. v \notin Before(v) /\ v \in Before(w) /\ IsFiniteSet(Before(w))
            BY <1>2, <2>1
        <3> HIDE DEF Before
        <3> QED
            BY <3>1, <3>2, FS_Subset
    <2>2. t \in Before(u) \/ u \in Before(t)
        BY <1>1, <1>3 DEF T!Older
    <2> QED
        BY <2>1, <2>2
<1> SUFFICES ASSUME \A t \in Live(ts) : Cardinality(Before(t)) # 0 PROVE FALSE
    OBVIOUS
<1> DEFINE rank == [t \in Live(ts) |-> Cardinality(Before(t))]
<1>4. n \in Nat /\ IsFiniteSet(Live(ts)) /\ n # 0
    BY LiveCount, FS_EmptySet
<1> HIDE DEF Before, n
<1>5. rank \in [Live(ts) -> 1..(n - 1)]
    <2>1. \A t \in Live(ts) : Cardinality(Before(t)) \in 1..(n - 1)
        BY <1>2, <1>4
    <2> QED
        BY <2>1
<1>6. IsFiniteSet(1..(n - 1)) /\ Cardinality(1..(n - 1)) = n - 1
    <2>1. 1 \in Int /\ n - 1 \in Int /\ (1 > n - 1 => n - 1 = 0) /\ (n - 1) - 1 + 1 = n - 1
        BY <1>4
    <2> QED
        BY <2>1, FS_Interval
<1>7. \E t, u \in Live(ts) : t # u /\ rank[t] = rank[u]
    <2> DEFINE Ranks == 1..(n - 1)
    <2>1. Cardinality(Ranks) < Cardinality(Live(ts))
        BY <1>4, <1>6 DEF n
    <2>2. rank \in [Live(ts) -> Ranks] /\ IsFiniteSet(Ranks)
        BY <1>5, <1>6
    <2> HIDE DEF rank, Ranks
    <2> QED
        BY <1>4, <2>1, <2>2, FS_PigeonHole
<1>8. PICK t \in Live(ts), u \in Live(ts) : t # u /\ rank[t] = rank[u]
    BY <1>7
<1> QED
    BY <1>3, <1>8

\* The instance of the cardinality of finite sets is the cardinality.
LEMMA SameCardinality == ASSUME NEW A PROVE T!Cardinality(A) = Cardinality(A)
    BY DEF T!Cardinality, Cardinality

\* The oldest of too many traces are evicted, and those only.
LEMMA EvictedAreLive ==
    ASSUME NEW ts
    PROVE  T!Evicted(ts) = {t \in Live(ts) :
               Cardinality({u \in Live(ts) : T!Older(ts, u, t)}) + MaxTraces
                   < Cardinality(Live(ts))}
<1> DEFINE live == {t \in T!Traces : ts[t] # NoTrace}
<1>1. T!Evicted(ts) = {t \in live :
           Cardinality({u \in live : T!Older(ts, u, t)}) + MaxTraces < Cardinality(live)}
    BY SameCardinality DEF T!Evicted
<1>2. Live(ts) = live
    BY DEF Live
<1> HIDE DEF live
<1> QED
    BY <1>1, <1>2

\* With one trace too many at most, what eviction leaves is within the limit.
LEMMA EvictionBounds ==
    ASSUME NEW ts \in SomeTraces, Cardinality(Live(ts)) <= MaxTraces + 1
    PROVE  Cardinality(Live(ts) \ T!Evicted(ts)) <= MaxTraces
<1> DEFINE rest == Live(ts) \ T!Evicted(ts)
<1>1. /\ MaxTraces \in Nat /\ Cardinality(Live(ts)) \in Nat /\ IsFiniteSet(Live(ts))
      /\ Cardinality(rest) \in Nat /\ Cardinality(rest) <= Cardinality(Live(ts))
    BY TelemetryAssumption, LiveCount DEF T!RetentionAssumption
<1>2. CASE Cardinality(Live(ts)) <= MaxTraces
    BY <1>1, <1>2
<1>3. CASE Cardinality(Live(ts)) = MaxTraces + 1
    <2>1. Live(ts) # {}
        BY <1>1, <1>3, FS_EmptySet
    <2>2. PICK t \in Live(ts) : Cardinality({u \in Live(ts) : T!Older(ts, u, t)}) = 0
        BY <2>1, OldestExists
    <2>3. t \in T!Evicted(ts)
        <3>1. Cardinality({u \in Live(ts) : T!Older(ts, u, t)}) + MaxTraces
                  < Cardinality(Live(ts))
            BY <1>1, <1>3, <2>2
        <3> QED
            BY <2>2, <3>1, EvictedAreLive
    <2>4. Cardinality(Live(ts) \ {t}) = MaxTraces /\ IsFiniteSet(Live(ts) \ {t})
        <3>1. /\ IsFiniteSet(Live(ts) \ {t})
              /\ Cardinality(Live(ts) \ {t}) = Cardinality(Live(ts)) - 1
            BY <1>1, <2>2, FS_RemoveElement
        <3> QED
            BY <1>1, <1>3, <3>1
    <2>5. rest \in SUBSET (Live(ts) \ {t})
        BY <2>3
    <2>6. Cardinality(rest) <= Cardinality(Live(ts) \ {t})
        BY <2>4, <2>5, FS_Subset
    <2> QED
        BY <2>4, <2>6
<1> QED
    BY <1>1, <1>2, <1>3

\* The trace t, as it is or new, with one more span s; and that span.
Joined(ts, t, s, at) ==
    LET before == IF ts[t] = NoTrace
                    THEN [started |-> at, spans |-> {}, status |-> "started"]
                    ELSE ts[t]
    IN  [ts EXCEPT ![t] = [before EXCEPT !.spans = @ \union {s}]]
Opened(ss, t, s) == [ss EXCEPT ![s] = [trace |-> t, status |-> "started"]]

\* A new span belongs to its trace, which is open if that is new as well.
LEMMA AttachKeeps ==
    ASSUME NEW ts \in SomeTraces, NEW ss \in SomeSpans, Matched(ts, ss), Statuses(ts, ss),
           NEW t \in T!Traces, NEW s \in T!Spans, ss[s] = NoSpan, NEW at \in 0..MaxSecond
    PROVE  /\ Joined(ts, t, s, at) \in SomeTraces /\ Opened(ss, t, s) \in SomeSpans
           /\ Matched(Joined(ts, t, s, at), Opened(ss, t, s))
           /\ Statuses(Joined(ts, t, s, at), Opened(ss, t, s))
           /\ Live(Joined(ts, t, s, at)) = Live(ts) \union {t}
<1> DEFINE tt == Joined(ts, t, s, at)
           sn == Opened(ss, t, s)
           before == IF ts[t] = NoTrace
                       THEN [started |-> at, spans |-> {}, status |-> "started"]
                       ELSE ts[t]
           made1 == [trace |-> t, status |-> "started"]
           after == [before EXCEPT !.spans = @ \union {s}]
           Good == [started : 0..MaxSecond, spans : SUBSET T!Spans, status : T!EventStatus]
<1>1. before \in Good
    BY DEF SomeTraces, T!EventStatus
<1>2. /\ after \in Good /\ after.spans = before.spans \union {s}
      /\ after.status = before.status
    BY <1>1
<1>3. after # NoTrace /\ made1 # NoSpan /\ made1 \in [trace : T!Traces, status : T!EventStatus]
    <2>1. after \in [started : Nat, spans : SUBSET Nat, status : {"started", "ok", "failed"}]
        BY <1>2, TelemetryAssumption DEF T!RetentionAssumption, T!Spans, T!EventStatus
    <2>2. made1 \in [trace : Nat, status : {"started", "ok", "failed"}]
        BY TelemetryAssumption DEF T!RetentionAssumption, T!Traces
    <2>3. made1 \in [trace : T!Traces, status : T!EventStatus]
        BY DEF T!EventStatus
    <2> QED
        BY <2>1, <2>2, <2>3, TelemetryAssumption DEF T!RetentionAssumption
<1>4. made1.trace = t /\ made1.status = "started"
    OBVIOUS
<1> HIDE DEF made1, after, Good, tt, sn
<1>5. /\ tt = [ts EXCEPT ![t] = after] /\ sn = [ss EXCEPT ![s] = made1]
      /\ ts \in [T!Traces -> Good \union {NoTrace}]
      /\ ss \in [T!Spans -> [trace : T!Traces, status : T!EventStatus] \union {NoSpan}]
    BY DEF made1, after, Good, SomeTraces, SomeSpans, tt, sn, Joined, Opened
<1>6. tt \in SomeTraces /\ sn \in SomeSpans
    BY <1>2, <1>3, <1>5 DEF Good, SomeTraces, SomeSpans
<1>7. Live(tt) = Live(ts) \union {t}
    BY <1>3, <1>5 DEF Live
<1>8. \A u \in T!Traces : u # t => tt[u] = ts[u]
    BY <1>5
<1>9. \A q \in T!Spans : q # s => sn[q] = ss[q]
    BY <1>5
<1>10. tt[t] = after /\ sn[s] = made1
    BY <1>5
<1>11. \A u \in Live(ts) : s \notin ts[u].spans
    BY DEF Matched
<1>12. /\ before.spans \subseteq T!Spans
       /\ \A q \in before.spans : q # s /\ ss[q] # NoSpan /\ ss[q].trace = t
       /\ before.status = "started" <=> \A q \in before.spans : ss[q].status = "started"
    <2>1. CASE ts[t] = NoTrace
        BY <2>1
    <2>2. CASE ts[t] # NoTrace
        <3>1. before = ts[t] /\ t \in Live(ts)
            BY <2>2 DEF Live
        <3> QED
            BY <1>1, <1>11, <3>1 DEF Matched, Statuses, Good
    <2> QED
        BY <2>1, <2>2
<1>13. \A q \in T!Spans : ss[q] # NoSpan /\ ss[q].trace = t => q \in before.spans
    BY DEF Matched
<1>14. \A u \in Live(ts) : ts[u].spans \subseteq T!Spans
    BY <1>5 DEF Live, Good
<1>15. Matched(tt, sn)
    <2>1. ASSUME NEW q \in T!Spans, sn[q] # NoSpan
          PROVE  tt[sn[q].trace] # NoTrace /\ q \in tt[sn[q].trace].spans
        <3>1. CASE q = s
            BY <1>2, <1>3, <1>4, <1>10, <3>1
        <3>2. CASE q # s /\ ss[q].trace = t
            BY <1>2, <1>3, <1>9, <1>10, <1>13, <2>1, <3>2
        <3>3. CASE q # s /\ ss[q].trace # t
            <4>1. ss[q] \in [trace : T!Traces, status : T!EventStatus]
                BY <1>5, <1>9, <2>1, <3>3
            <4>2. ss[q].trace \in T!Traces
                BY <4>1
            <4> QED
                BY <1>8, <1>9, <2>1, <3>3, <4>2 DEF Matched
        <3> QED
            BY <3>1, <3>2, <3>3
    <2>2. ASSUME NEW u \in Live(tt), NEW q \in tt[u].spans
          PROVE  sn[q] # NoSpan /\ sn[q].trace = u
        <3>1. CASE u = t
            BY <1>2, <1>3, <1>4, <1>9, <1>10, <1>12, <2>2, <3>1
        <3>2. CASE u # t
            <4>1. u \in Live(ts) /\ tt[u] = ts[u] /\ q # s /\ q \in T!Spans
                BY <1>7, <1>8, <1>11, <1>14, <2>2, <3>2 DEF Live
            <4> QED
                BY <1>9, <2>2, <4>1 DEF Matched
        <3> QED
            BY <3>1, <3>2
    <2> QED
        BY <2>1, <2>2 DEF Matched
<1>16. Statuses(tt, sn)
    <2> SUFFICES ASSUME NEW u \in Live(tt)
                 PROVE  tt[u].status = "started" <=>
                           \A q \in tt[u].spans : sn[q].status = "started"
        BY DEF Statuses
    <2>1. CASE u = t
        BY <1>2, <1>4, <1>9, <1>10, <1>12, <2>1
    <2>2. CASE u # t
        <3>1. u \in Live(ts) /\ tt[u] = ts[u] /\ \A q \in ts[u].spans : sn[q] = ss[q]
            BY <1>7, <1>8, <1>9, <1>11, <1>14, <2>2 DEF Live
        <3> QED
            BY <3>1 DEF Statuses
    <2> QED
        BY <2>1, <2>2
<1> QED
    BY <1>6, <1>7, <1>15, <1>16 DEF tt, sn

\* What is evicted takes its spans along, and no other.
LEMMA EvictionKeeps ==
    ASSUME NEW ts \in SomeTraces, NEW ss \in SomeSpans, Matched(ts, ss), Statuses(ts, ss),
           NEW tt, tt = [u \in T!Traces |-> IF u \in T!Evicted(ts) THEN NoTrace ELSE ts[u]],
           NEW sn, sn = [s \in T!Spans |-> IF s \in T!Lost(ts) THEN NoSpan ELSE ss[s]]
    PROVE  /\ tt \in SomeTraces /\ sn \in SomeSpans
           /\ Matched(tt, sn) /\ Statuses(tt, sn)
           /\ Live(tt) = Live(ts) \ T!Evicted(ts)
<1>1. tt \in SomeTraces /\ sn \in SomeSpans
    BY DEF SomeTraces, SomeSpans
<1>2. Live(tt) = Live(ts) \ T!Evicted(ts)
    BY DEF Live
<1>3. \A u \in Live(tt) : tt[u] = ts[u] /\ u \in Live(ts) /\ ts[u].spans \subseteq T!Spans
    <2>1. \A u \in Live(ts) : ts[u].spans \subseteq T!Spans
        BY DEF Live, SomeTraces
    <2> QED
        BY <1>2, <2>1 DEF Live
<1>4. \A s \in T!Spans : ss[s] # NoSpan => ss[s].trace \in T!Traces /\ ss[s].trace \in Live(ts)
    BY DEF SomeSpans, Matched, Live
<1>5. \A s \in T!Spans : ss[s] # NoSpan => (s \in T!Lost(ts) <=> ss[s].trace \in T!Evicted(ts))
    <2>1. T!Evicted(ts) \subseteq Live(ts)
        BY EvictedAreLive, Zenon
    <2>2. \A s : s \in T!Lost(ts) <=> \E u \in T!Evicted(ts) : s \in ts[u].spans
        BY DEF T!Lost
    <2> QED
        BY <1>4, <2>1, <2>2 DEF Matched
<1>6. \A u \in Live(tt) : \A s \in ts[u].spans : sn[s] = ss[s]
    BY <1>2, <1>3, <1>5 DEF Matched
<1>7. Matched(tt, sn)
    <2>1. ASSUME NEW s \in T!Spans, sn[s] # NoSpan
          PROVE  tt[sn[s].trace] # NoTrace /\ s \in tt[sn[s].trace].spans
        <3>1. sn[s] = ss[s] /\ s \notin T!Lost(ts)
            BY <2>1
        <3>2. ss[s].trace \in Live(tt)
            BY <1>2, <1>4, <1>5, <2>1, <3>1
        <3> QED
            BY <1>3, <2>1, <3>1, <3>2 DEF Matched, Live
    <2> QED
        BY <1>3, <1>6, <2>1 DEF Matched
<1>8. Statuses(tt, sn)
    BY <1>3, <1>6 DEF Statuses
<1> QED
    BY <1>1, <1>2, <1>7, <1>8

\* An event that is kept, or not, leaves the last failure where it is looked for.
LEMMA RecordKeeps ==
    ASSUME T!TypeOK, RingKeeps, sampling' = sampling,
           NEW t \in T!Traces, NEW status \in T!EventStatus, T!Record(t, status)
    PROVE  /\ events' \in Seq(T!EventStatus) /\ sinceFailure' \in 0..T!NoFailure
           /\ RingKeeps'
<1> DEFINE limit == T!Limit
           longer == Append(events, status)
           size == Len(events)
<1>1. /\ MaxSampledEvents \in Nat \ {0} /\ MaxEvents \in Nat /\ MaxSampledEvents <= MaxEvents
      /\ limit \in Nat /\ MaxSampledEvents <= limit
      /\ T!NoFailure = MaxEvents /\ T!Limit' = limit
    BY TelemetryAssumption DEF T!RetentionAssumption, T!Limit, T!NoFailure
<1>2. events \in Seq(T!EventStatus) /\ sinceFailure \in 0..MaxEvents /\ size \in Nat
    BY <1>1, LenProperties DEF T!TypeOK
<1>3. size <= limit
    BY DEF RingKeeps
<1>4. sinceFailure < MaxSampledEvents =>
          sinceFailure < size /\ events[size - sinceFailure] = "failed"
    BY DEF RingKeeps
<1>5. CASE T!Keeps(t, status)
    <2> DEFINE first == IF Len(longer) > limit THEN Len(longer) - limit + 1 ELSE 1
    <2>1. events' = SubSeq(longer, first, Len(longer))
        BY <1>5 DEF T!Record
    <2>2. sinceFailure' = IF status = "failed" THEN 0
                          ELSE IF sinceFailure < MaxEvents THEN sinceFailure + 1 ELSE MaxEvents
        BY <1>1, <1>5 DEF T!Record
    <2>3. /\ longer \in Seq(T!EventStatus) /\ Len(longer) = size + 1
          /\ \A i \in 1..size : longer[i] = events[i]
          /\ longer[size + 1] = status
        BY <1>2, AppendProperties
    <2>4. \A i \in 1..Len(longer) : longer[i] \in T!EventStatus
        BY <2>3, ElementOfSeq
    <2> HIDE DEF longer, limit, size
    <2>5. first \in 1..(size + 1) /\ first \in Int /\ Len(longer) \in Int
        BY <1>1, <1>2, <1>3, <2>3
    <2>6. \A i \in first..Len(longer) : longer[i] \in T!EventStatus
        BY <1>2, <2>3, <2>4, <2>5
    <2> DEFINE last == Len(longer) - first + 1
    <2>7. /\ events' \in Seq(T!EventStatus)
          /\ Len(events') = last
          /\ \A i \in 1..last : events'[i] = longer[first + i - 1]
        <3> HIDE DEF first, last
        <3>1. first <= Len(longer)
            BY <1>2, <2>3, <2>5
        <3> QED
            BY <2>1, <2>5, <2>6, <3>1, SubSeqProperties DEF last
    <2>8. /\ last \in Nat \ {0} /\ last <= limit
          /\ (last = limit \/ first = 1)
          /\ first + last = size + 2 /\ first \in Nat
        BY <1>1, <1>2, <1>3, <2>3
    <2> HIDE DEF first, last
    <2>9. \A d \in Nat : d < last => events'[last - d] = longer[size + 1 - d]
        <3> SUFFICES ASSUME NEW d \in Nat, d < last
                     PROVE  events'[last - d] = longer[size + 1 - d]
            OBVIOUS
        <3>1. last - d \in 1..last /\ first + (last - d) - 1 = size + 1 - d
            BY <1>2, <2>8
        <3> QED
            BY <2>7, <3>1
    <2>10. sinceFailure' < MaxSampledEvents =>
               sinceFailure' < last /\ events'[last - sinceFailure'] = "failed"
        <3> SUFFICES ASSUME sinceFailure' < MaxSampledEvents
                     PROVE  sinceFailure' < last /\ events'[last - sinceFailure'] = "failed"
            OBVIOUS
        <3>1. CASE status = "failed"
            <4>1. sinceFailure' = 0 /\ 0 \in Nat /\ 0 < last
                BY <2>2, <2>8, <3>1
            <4>2. events'[last - 0] = longer[size + 1 - 0]
                BY <2>9, <4>1
            <4>3. last - 0 = last /\ size + 1 - 0 = size + 1
                BY <1>2, <2>8
            <4> QED
                BY <2>3, <3>1, <4>1, <4>2, <4>3
        <3>2. CASE status # "failed"
            <4>1. /\ sinceFailure < MaxEvents /\ sinceFailure' = sinceFailure + 1
                  /\ sinceFailure < MaxSampledEvents
                BY <1>1, <1>2, <2>2, <3>2
            <4>2. sinceFailure < size /\ events[size - sinceFailure] = "failed"
                BY <1>4, <4>1
            <4>3. sinceFailure' < last /\ sinceFailure' \in Nat
                BY <1>1, <1>2, <2>8, <4>1, <4>2
            <4>4. longer[size + 1 - sinceFailure'] = "failed"
                <5>1. size + 1 - sinceFailure' = size - sinceFailure /\ size - sinceFailure \in 1..size
                    BY <1>2, <4>1, <4>2
                <5> QED
                    BY <2>3, <4>2, <5>1
            <4> QED
                BY <2>9, <4>3, <4>4
        <3> QED
            BY <3>1, <3>2
    <2>11. sinceFailure' \in 0..MaxEvents
        BY <1>1, <1>2, <2>2
    <2> QED
        <3>1. Len(events') = last /\ T!Limit' = limit
            BY <1>1, <2>7
        <3>2. RingKeeps'
            BY <2>8, <2>10, <3>1 DEF RingKeeps
        <3> QED
            BY <1>1, <2>7, <2>11, <3>2
<1>6. CASE ~T!Keeps(t, status)
    <2>1. /\ events' = events /\ sinceFailure' = sinceFailure
        BY <1>6 DEF T!Record, T!Keeps
    <2> QED
        BY <1>1, <1>2, <2>1 DEF RingKeeps
<1> QED
    BY <1>5, <1>6

LEMMA TelemetryInit == ASSUME T!Init PROVE TelemetryInv
<1> USE TelemetryAssumption DEF T!RetentionAssumption
<1>1. T!TypeOK
    BY EmptySeq DEF T!Init, T!TypeOK, T!NoFailure
<1>2. Live(traces) = {}
    BY DEF T!Init, Live
<1>3. Matched(traces, spans) /\ Statuses(traces, spans)
    BY <1>2 DEF T!Init, Matched, Statuses
<1>4. Cardinality(Live(traces)) <= MaxTraces
    BY <1>2, FS_EmptySet
<1>5. RingKeeps
    BY DEF T!Init, RingKeeps, T!NoFailure, T!Limit
<1> QED
    BY <1>1, <1>3, <1>4, <1>5 DEF TelemetryInv, T!Init

\* A new span, and what is evicted for it.
LEMMA AttachStep ==
    ASSUME TelemetryInv, NEW t \in T!Traces, T!Attach(t)
    PROVE  /\ traces' \in SomeTraces /\ spans' \in SomeSpans /\ made' \in 0..MaxSpans
           /\ Matched(traces', spans') /\ Statuses(traces', spans')
           /\ Cardinality(Live(traces')) <= MaxTraces
           /\ \A s \in T!Spans : made' < s => spans'[s] = NoSpan
<1>1. /\ MaxSpans \in Nat /\ MaxTraces \in Nat /\ made \in 0..MaxSpans
      /\ traces \in SomeTraces /\ spans \in SomeSpans /\ second \in 0..MaxSecond
    BY TelemetryAssumption
       DEF TelemetryInv, T!RetentionAssumption, T!TypeOK, SomeTraces, SomeSpans
<1>2. made' = made + 1 /\ made' \in T!Spans /\ made' \in 0..MaxSpans
    BY <1>1 DEF T!Attach, T!Spans
<1> DEFINE ts == Joined(traces, t, made', second)
           ss == Opened(spans, t, made')
<1>3. /\ traces' = [u \in T!Traces |-> IF u \in T!Evicted(ts) THEN NoTrace ELSE ts[u]]
      /\ spans' = [s \in T!Spans |-> IF s \in T!Lost(ts) THEN NoSpan ELSE ss[s]]
    BY DEF T!Attach, Joined, Opened
<1>4. spans[made'] = NoSpan
    BY <1>1, <1>2 DEF TelemetryInv
<1>5. /\ ts \in SomeTraces /\ ss \in SomeSpans /\ Matched(ts, ss) /\ Statuses(ts, ss)
      /\ Live(ts) = Live(traces) \union {t}
    <2>1. Matched(traces, spans) /\ Statuses(traces, spans)
        BY DEF TelemetryInv
    <2> QED
        BY <1>1, <1>2, <1>4, <2>1, AttachKeeps
<1>6. \A s \in T!Spans : made' < s => ss[s] = NoSpan
    BY <1>1, <1>2 DEF TelemetryInv, T!Spans, SomeSpans, Opened
<1> HIDE DEF ts, ss
<1>7. /\ traces' \in SomeTraces /\ spans' \in SomeSpans
      /\ Matched(traces', spans') /\ Statuses(traces', spans')
      /\ Live(traces') = Live(ts) \ T!Evicted(ts)
    BY <1>3, <1>5, EvictionKeeps
<1>8. Cardinality(Live(ts)) <= MaxTraces + 1
    <2>1. /\ IsFiniteSet(Live(traces)) /\ Cardinality(Live(traces)) \in Nat
          /\ Cardinality(Live(traces)) <= MaxTraces
        BY LiveCount DEF TelemetryInv
    <2>2. Cardinality(Live(ts)) \in {Cardinality(Live(traces)), Cardinality(Live(traces)) + 1}
        BY <1>5, <2>1, FS_AddElement
    <2> QED
        BY <1>1, <2>1, <2>2
<1>9. Cardinality(Live(traces')) <= MaxTraces
    BY <1>5, <1>7, <1>8, EvictionBounds
<1>10. \A s \in T!Spans : made' < s => spans'[s] = NoSpan
    BY <1>3, <1>6
<1> QED
    BY <1>2, <1>7, <1>9, <1>10

LEMMA TelemetryNext == ASSUME TelemetryInv, [T!Next]_(T!vars) PROVE TelemetryInv'
<1>1. /\ MaxTraces \in Nat /\ MaxSpans \in Nat /\ MaxSecond \in Nat
      /\ MaxSampledEvents \in Nat \ {0} /\ MaxEvents \in Nat /\ MaxSampledEvents <= MaxEvents
    BY TelemetryAssumption DEF T!RetentionAssumption
<1>2. /\ traces \in SomeTraces /\ spans \in SomeSpans
      /\ second \in 0..MaxSecond /\ made \in 0..MaxSpans
      /\ enabled \in BOOLEAN /\ sampling \in BOOLEAN
      /\ T!TypeOK
    BY DEF TelemetryInv, T!TypeOK, SomeTraces, SomeSpans
<1>3. CASE T!Reset
    <2>1. /\ spans' = [s \in T!Spans |-> NoSpan] /\ traces' = [t \in T!Traces |-> NoTrace]
          /\ events' = <<>> /\ sinceFailure' = T!NoFailure
          /\ UNCHANGED <<enabled, sampling, made, second>>
        BY <1>3 DEF T!Reset
    <2>2. Live(traces') = {}
        BY <2>1 DEF Live
    <2>3. T!TypeOK'
        BY <1>1, <1>2, <2>1, EmptySeq DEF T!TypeOK, T!NoFailure
    <2>4. Matched(traces', spans') /\ Statuses(traces', spans')
        BY <2>1, <2>2 DEF Matched, Statuses
    <2>5. Cardinality(Live(traces')) <= MaxTraces
        BY <1>1, <2>2, FS_EmptySet
    <2>6. RingKeeps'
        BY <1>1, <2>1 DEF RingKeeps, T!NoFailure, T!Limit
    <2> QED
        BY <2>1, <2>3, <2>4, <2>5, <2>6 DEF TelemetryInv
<1>4. CASE T!SetEnabled
    BY <1>4 DEF T!SetEnabled, TelemetryInv, T!TypeOK, RingKeeps, T!Limit
<1>5. CASE T!SetLocalOnly
    <2>1. sampling' = FALSE /\ sampling' \in BOOLEAN
          /\ UNCHANGED <<enabled, spans, traces, events, made, second, sinceFailure>>
        BY <1>5 DEF T!SetLocalOnly
    <2>2. T!TypeOK'
        BY <1>2, <2>1 DEF T!TypeOK
    <2>3. T!Limit <= MaxEvents /\ T!Limit' = MaxEvents /\ T!Limit \in Nat
        BY <1>1, <2>1 DEF T!Limit
    <2>4. Len(events) \in Nat
        BY <1>2, LenProperties DEF T!TypeOK
    <2>5. RingKeeps'
        BY <1>1, <2>1, <2>3, <2>4 DEF TelemetryInv, RingKeeps
    <2> QED
        BY <2>1, <2>2, <2>5 DEF TelemetryInv
<1>6. CASE T!Tick
    BY <1>1, <1>6 DEF T!Tick, TelemetryInv, T!TypeOK, RingKeeps, T!Limit
<1>7. ASSUME NEW t \in T!Traces, NEW status \in T!EventStatus,
             T!Attach(t), T!Record(t, status), UNCHANGED <<enabled, sampling, second>>
      PROVE  TelemetryInv'
    <2>1. /\ traces' \in SomeTraces /\ spans' \in SomeSpans /\ made' \in 0..MaxSpans
          /\ Matched(traces', spans') /\ Statuses(traces', spans')
          /\ Cardinality(Live(traces')) <= MaxTraces
          /\ \A s \in T!Spans : made' < s => spans'[s] = NoSpan
        BY <1>7, AttachStep
    <2>2. /\ events' \in Seq(T!EventStatus) /\ sinceFailure' \in 0..T!NoFailure
          /\ RingKeeps'
        BY <1>2, <1>7, RecordKeeps DEF TelemetryInv
    <2>3. T!TypeOK'
        BY <1>2, <1>7, <2>1, <2>2 DEF T!TypeOK, SomeTraces, SomeSpans, T!NoFailure
    <2> QED
        BY <2>1, <2>2, <2>3 DEF TelemetryInv
<1>8. ASSUME NEW t \in T!Traces, T!StartSpan(t)
      PROVE  TelemetryInv'
    BY <1>7, <1>8 DEF T!StartSpan, T!EventStatus
<1>9. ASSUME NEW t \in T!Traces, NEW status \in {"ok", "failed"}, T!Emit(t, status)
      PROVE  TelemetryInv'
    BY <1>7, <1>9 DEF T!Emit, T!EventStatus
<1>10. ASSUME NEW t \in T!Traces, NEW status \in {"ok", "failed"}, T!EmitWithin(t, status)
       PROVE  TelemetryInv'
    <2>1. T!Record(t, status) /\ UNCHANGED <<enabled, sampling, spans, traces, made, second>>
        BY <1>10 DEF T!EmitWithin
    <2>2. /\ events' \in Seq(T!EventStatus) /\ sinceFailure' \in 0..T!NoFailure
          /\ RingKeeps'
        BY <1>2, <2>1, RecordKeeps DEF TelemetryInv, T!EventStatus
    <2>3. T!TypeOK'
        BY <1>2, <2>1, <2>2 DEF T!TypeOK, T!NoFailure
    <2> QED
        BY <2>1, <2>2, <2>3 DEF TelemetryInv
<1>11. ASSUME NEW s \in T!Spans, NEW status \in {"ok", "failed"}, T!EndSpan(s, status)
       PROVE  TelemetryInv'
    <2> DEFINE t == spans[s].trace
               ended == [spans[s] EXCEPT !.status = status]
               closed == [traces[t] EXCEPT !.status = status]
    <2>1. /\ spans[s] # NoSpan /\ spans' = [spans EXCEPT ![s].status = status]
          /\ traces' = IF traces[t] = NoTrace THEN traces
                       ELSE [traces EXCEPT ![t].status = status]
          /\ T!Record(t, status) /\ UNCHANGED <<enabled, sampling, made, second>>
        BY <1>11 DEF T!EndSpan
    <2>2. /\ t \in T!Traces /\ traces[t] # NoTrace /\ s \in traces[t].spans
          /\ spans[s] \in [trace : T!Traces, status : T!EventStatus]
          /\ traces[t] \in [started : 0..MaxSecond, spans : SUBSET T!Spans, status : T!EventStatus]
        BY <1>2, <2>1 DEF TelemetryInv, Matched, SomeSpans, SomeTraces
    <2>3. /\ ended \in [trace : T!Traces, status : T!EventStatus]
          /\ ended.trace = t /\ ended.status = status
        BY <2>2 DEF T!EventStatus
    <2>4. /\ closed \in [started : 0..MaxSecond, spans : SUBSET T!Spans, status : T!EventStatus]
          /\ closed.spans = traces[t].spans /\ closed.status = status
        BY <2>2 DEF T!EventStatus
    <2>5. ended # NoSpan /\ closed # NoTrace
        <3>1. ended \in [trace : Nat, status : {"started", "ok", "failed"}]
            BY <2>3, TelemetryAssumption DEF T!RetentionAssumption, T!Traces, T!EventStatus
        <3>2. closed \in [started : Nat, spans : SUBSET Nat, status : {"started", "ok", "failed"}]
            BY <2>4, TelemetryAssumption DEF T!RetentionAssumption, T!Spans, T!EventStatus
        <3> QED
            BY <3>1, <3>2, TelemetryAssumption DEF T!RetentionAssumption
    <2>6. spans' = [spans EXCEPT ![s] = ended] /\ traces' = [traces EXCEPT ![t] = closed]
        BY <1>2, <2>1, <2>2
    <2> HIDE DEF ended, closed, t
    <2>7. spans' \in SomeSpans /\ traces' \in SomeTraces
        BY <1>2, <2>3, <2>4, <2>6 DEF SomeSpans, SomeTraces
    <2>8. /\ \A q \in T!Spans : q # s => spans'[q] = spans[q]
          /\ \A u \in T!Traces : u # t => traces'[u] = traces[u]
          /\ spans'[s] = ended /\ traces'[t] = closed
        BY <1>2, <2>2, <2>6 DEF SomeSpans, SomeTraces
    <2>9. Live(traces') = Live(traces)
        BY <2>2, <2>5, <2>8 DEF Live
    <2>10. \A u \in Live(traces) : u # t => s \notin traces[u].spans
        BY DEF TelemetryInv, Matched, t
    <2>11. \A u \in Live(traces) : traces[u].spans \subseteq T!Spans
        BY <1>2 DEF Live, SomeTraces
    <2>12. \A q \in T!Spans : spans[q] # NoSpan => spans[q].trace \in T!Traces
        BY <1>2 DEF SomeSpans
    <2>13. Matched(traces, spans) /\ Statuses(traces, spans)
        BY DEF TelemetryInv
    <2>14. Matched(traces', spans')
        <3>1. \A q \in T!Spans : /\ spans'[q] # NoSpan <=> spans[q] # NoSpan
                                 /\ spans[q] # NoSpan => spans'[q].trace = spans[q].trace
            BY <2>1, <2>3, <2>5, <2>8 DEF t
        <3>2. \A u \in T!Traces : /\ traces'[u] # NoTrace <=> traces[u] # NoTrace
                                  /\ traces[u] # NoTrace => traces'[u].spans = traces[u].spans
            BY <2>2, <2>4, <2>5, <2>8
        <3>3. Live(traces) \subseteq T!Traces /\ \A u \in Live(traces) : traces[u] # NoTrace
            BY DEF Live
        <3>4. ASSUME NEW q \in T!Spans, spans'[q] # NoSpan
              PROVE  /\ traces'[spans'[q].trace] # NoTrace
                     /\ q \in traces'[spans'[q].trace].spans
            BY <2>12, <2>13, <3>1, <3>2, <3>4 DEF Matched
        <3>5. ASSUME NEW u \in Live(traces), NEW q \in traces'[u].spans
              PROVE  spans'[q] # NoSpan /\ spans'[q].trace = u
            <4>1. q \in traces[u].spans /\ q \in T!Spans
                BY <2>11, <3>2, <3>3, <3>5
            <4> QED
                BY <2>13, <3>1, <4>1 DEF Matched
        <3> QED
            BY <2>9, <3>4, <3>5 DEF Matched
    <2>15. Statuses(traces', spans')
        <3> SUFFICES ASSUME NEW u \in Live(traces)
                     PROVE  traces'[u].status = "started" <=>
                               \A q \in traces'[u].spans : spans'[q].status = "started"
            BY <2>9 DEF Statuses
        <3>1. CASE u = t
            BY <2>2, <2>3, <2>4, <2>8, <3>1
        <3>2. CASE u # t
            <4>1. traces'[u] = traces[u] /\ \A q \in traces[u].spans : spans'[q] = spans[q]
                BY <2>8, <2>10, <2>11, <3>2 DEF Live
            <4> QED
                BY <2>13, <4>1 DEF Statuses
        <3> QED
            BY <3>1, <3>2
    <2>16. /\ events' \in Seq(T!EventStatus) /\ sinceFailure' \in 0..T!NoFailure
           /\ RingKeeps'
        BY <1>2, <2>1, <2>2, RecordKeeps DEF TelemetryInv, T!EventStatus, t
    <2>17. T!TypeOK'
        BY <1>2, <2>1, <2>7, <2>16 DEF T!TypeOK, SomeTraces, SomeSpans, T!NoFailure
    <2>18. \A q \in T!Spans : made' < q => spans'[q] = NoSpan
        BY <2>1, <2>8 DEF TelemetryInv
    <2>19. Cardinality(Live(traces')) <= MaxTraces
        BY <2>9 DEF TelemetryInv
    <2> QED
        BY <2>14, <2>15, <2>16, <2>17, <2>18, <2>19 DEF TelemetryInv
<1>12. CASE UNCHANGED T!vars
    BY <1>12 DEF T!vars, TelemetryInv, T!TypeOK, RingKeeps, T!Limit
<1> QED
    BY <1>3, <1>4, <1>5, <1>6, <1>8, <1>9, <1>10, <1>11, <1>12 DEF T!Next

LEMMA TelemetryRetains == ASSUME TelemetryInv PROVE T!RetentionSound /\ T!TypeOK
<1>1. T!Retained = Live(traces)
    BY DEF T!Retained, Live
<1>2. T!SpansMatchTraces /\ T!StatusOfSpans
    BY <1>1 DEF TelemetryInv, Matched, Statuses, T!SpansMatchTraces, T!StatusOfSpans
<1>3. T!Cardinality(T!Retained) <= MaxTraces
    BY <1>1, SameCardinality DEF TelemetryInv
<1> QED
    BY <1>2, <1>3 DEF TelemetryInv, RingKeeps, T!RetentionSound

\* Of Telemetry: spans and traces refer to each other, and the limits hold.
THEOREM TelemetryInvariant == T!Spec => []TelemetryInv
    BY TelemetryInit, TelemetryNext, PTL DEF T!Spec

-----------------------------------------------------------------------------
(* The components together.                                                 *)

\* A step is a step of one component, or changes nothing of it.
LEMMA PartsStep ==
    ASSUME [PartsNext]_allVars
    PROVE  /\ [Next]_vars /\ [B!Next]_(B!vars) /\ [C!Next]_(C!vars)
           /\ [D!Next]_(D!vars) /\ [M!Next]_(M!vars) /\ [T!Next]_(T!vars)
           /\ [S!Next]_(S!vars)
    BY DEF PartsNext, allVars, reliabilityVars, otherVars, BreakerStep, vars,
           breakerVars, B!vars, checkpointVars, C!vars, documentVars, D!vars,
           conflictVars, M!vars, telemetryVars, T!vars, backupVars, S!vars

\* A restore returns the last completed save; with damaged files it returns that,
\* the one it replaced, or an error.
THEOREM CheckpointRestores == PartsSpec => []RestoresLastSave
<1>1. PartsInit => CheckpointInv
    BY CheckpointInit DEF PartsInit
<1>2. CheckpointInv /\ [PartsNext]_allVars => CheckpointInv'
    BY CheckpointNext, PartsStep
<1>3. CheckpointInv => RestoresLastSave
    BY CheckpointRestored DEF RestoresLastSave
<1> QED
    BY <1>1, <1>2, <1>3, PTL DEF PartsSpec

\* What a human decided about a conflict stands, whatever is written, raises or is
\* restarted, until the item comes into conflict again; the sync manager (and never
\* the remote one) may have stored an automatic merge over it.
THEOREM DecisionsStand == PartsSpec => []DecisionStands
<1>1. PartsInit => ConflictInv
    BY ConflictInit DEF PartsInit
<1>2. ConflictInv /\ [PartsNext]_allVars => ConflictInv'
    BY ConflictNext, PartsStep
<1>3. ConflictInv => DecisionStands
    BY DEF ConflictInv, DecisionStands
<1> QED
    BY <1>1, <1>2, <1>3, PTL DEF PartsSpec

\* A listed snapshot that nobody damaged verifies, and a restore that returned gave
\* back every file as the snapshot found it.
THEOREM BackupsRestore == PartsSpec => []SnapshotsRestore
<1>1. PartsInit => BackupInv
    BY BackupInit DEF PartsInit
<1>2. BackupInv /\ [PartsNext]_allVars => BackupInv'
    BY BackupNext, PartsStep
<1>3. BackupInv => SnapshotsRestore
    BY BackupRestores DEF SnapshotsRestore
<1> QED
    BY <1>1, <1>2, <1>3, PTL DEF PartsSpec

\* With one writer, every checkpoint that a call found and replaced is in the
\* changelog, in the order they were replaced.
THEOREM ReplacedAreArchived == OneWriter /\ PartsSpec => []ReplacedIsArchived
<1>1. ASSUME OneWriter PROVE PartsSpec => []ReplacedIsArchived
    <2>1. PartsInit => DocumentInv
        BY DocumentInit DEF PartsInit
    <2>2. DocumentInv /\ [PartsNext]_allVars => DocumentInv'
        BY <1>1, DocumentNext, PartsStep
    <2>3. DocumentInv => ReplacedIsArchived
        BY DocumentArchived DEF ReplacedIsArchived
    <2> QED
        BY <2>1, <2>2, <2>3, PTL DEF PartsSpec
<1> QED
    BY <1>1

\* Eviction leaves no span without its trace, traces and events stay within their
\* limits, and the last failure is in the ring until enough was kept after it.
THEOREM TelemetryRetention == PartsSpec => []RetentionSound
<1>1. PartsInit => TelemetryInv
    BY TelemetryInit DEF PartsInit
<1>2. TelemetryInv /\ [PartsNext]_allVars => TelemetryInv'
    BY TelemetryNext, PartsStep
<1>3. TelemetryInv => RetentionSound
    BY TelemetryRetains DEF RetentionSound
<1> QED
    BY <1>1, <1>2, <1>3, PTL DEF PartsSpec

=============================================================================
