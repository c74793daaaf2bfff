----------------------- MODULE ReliabilityEngineProofs -----------------------
(***************************************************************************)
(* Proofs about ReliabilityEngine, for every set of keys, every limit and  *)
(* every number of faults: that the engine implements the specification of *)
(* the queue it is built on, and, with what is proved of that queue, that  *)
(* the files it writes one after another agree.                            *)
(***************************************************************************)
EXTENDS ReliabilityEngine, FiniteSetTheorems, TLAPS

\* The queue, with what is proved of it.
P == INSTANCE DurableQueueProofs
       WITH Ids <- Keys, NoMsg <- NoKey, Workers <- {"engine"},
            Tearing <- FALSE, broken <- FALSE,
            mem <- q, log <- stored, disk <- stored,
            held <- [w \in {"engine"} |-> IF pc \in Holding THEN cur ELSE NoKey]

held == [w \in {"engine"} |-> IF pc \in Holding THEN cur ELSE NoKey]

LEMMA QueueAssumptions == P!BoundsAssumption /\ P!NoMsgAssumption
  BY EngineAssumption DEF P!BoundsAssumption, P!NoMsgAssumption

-----------------------------------------------------------------------------
(* P and D are the same queue.                                              *)

LEMMA SameEffects ==
    ASSUME NEW x, NEW k, NEW a
    PROVE  /\ D!Enqueued(x, k) = P!Enqueued(x, k)
           /\ D!Leased(x, k) = P!Leased(x, k)
           /\ D!Acked(x, k) = P!Acked(x, k)
           /\ D!Retried(x, k, a) = P!Retried(x, k, a)
           /\ D!Buried(x, k) = P!Buried(x, k)
           /\ D!Exhausted(x, k) = P!Exhausted(x, k)
           /\ D!Requeued(x, k) = P!Requeued(x, k)
           /\ D!Evicted(x) = P!Evicted(x)
<1>1. D!Enqueued(x, k) = P!Enqueued(x, k)
  BY DEF D!Enqueued, P!Enqueued
<1>2. ASSUME NEW s PROVE D!Without(s, k) = P!Without(s, k)
  BY DEF D!Without, P!Without, D!RemoveAt, P!RemoveAt
<1>3. ASSUME NEW s PROVE D!With(s, k) = P!With(s, k)
  BY DEF D!With, P!With
<1>4. D!Leased(x, k) = P!Leased(x, k)
  BY <1>2 DEF D!Leased, P!Leased
<1>5. D!Acked(x, k) = P!Acked(x, k)
  BY <1>2 DEF D!Acked, P!Acked
<1>6. D!Retried(x, k, a) = P!Retried(x, k, a)
  BY <1>3 DEF D!Retried, P!Retried
<1>7. D!Buried(x, k) = P!Buried(x, k)
  BY <1>2 DEF D!Buried, P!Buried
<1>8. D!Exhausted(x, k) = P!Exhausted(x, k)
  BY DEF D!Exhausted, P!Exhausted
<1>9. D!Requeued(x, k) = P!Requeued(x, k)
  BY <1>3 DEF D!Requeued, P!Requeued
<1>10. D!Evicted(x) = P!Evicted(x)
  BY DEF D!Evicted, P!Evicted
<1>. QED
  BY <1>1, <1>4, <1>5, <1>6, <1>7, <1>8, <1>9, <1>10

LEMMA SameEmpty == D!EmptyQueue = P!EmptyQueue
  BY DEF D!EmptyQueue, P!EmptyQueue

LEMMA SameVars == P!vars = D!vars
  BY DEF P!vars, D!vars

LEMMA SameJournal ==
    ASSUME NEW x, NEW ok, P!Journal(x, ok) PROVE D!Journal(x, ok)
  BY DEF D!Journal, P!Journal

LEMMA SameNext == P!Next => D!Next
<1>1. ASSUME NEW k, NEW ok, P!Enqueue(k, ok) PROVE D!Enqueue(k, ok)
  BY <1>1, SameEffects, SameJournal DEF P!Enqueue, D!Enqueue
<1>2. ASSUME NEW w, NEW k, NEW ok, P!Dequeue(w, k, ok) PROVE D!Dequeue(w, k, ok)
  <2>1. P!IsNextDue(k) => D!IsNextDue(k)
    BY DEF P!IsNextDue, D!IsNextDue
  <2>. QED
    BY <1>2, <2>1, SameEffects, SameJournal DEF P!Dequeue, D!Dequeue
<1>3. ASSUME NEW w, NEW ok, P!Ack(w, ok) PROVE D!Ack(w, ok)
  BY <1>3, SameEffects, SameJournal DEF P!Ack, D!Ack
<1>4. ASSUME NEW w, NEW p, NEW ok, P!Nack(w, p, ok) PROVE D!Nack(w, p, ok)
  BY <1>4, SameEffects, SameJournal DEF P!Nack, D!Nack
<1>5. ASSUME NEW k, NEW ok, P!RecoverStale(k, ok) PROVE D!RecoverStale(k, ok)
  BY <1>5, SameEffects, SameJournal DEF P!RecoverStale, D!RecoverStale
<1>6. ASSUME NEW w, P!Abandon(w) PROVE D!Abandon(w)
  BY <1>6 DEF P!Abandon, D!Abandon
<1>7. (P!Crash => D!Crash) /\ (P!Restart => D!Restart)
  BY SameEmpty DEF P!Crash, D!Crash, P!Restart, D!Restart
<1>. QED
  BY <1>1, <1>2, <1>3, <1>4, <1>5, <1>6, <1>7 DEF P!Next, D!Next

-----------------------------------------------------------------------------
(* The engine uses the queue as its specification allows.  What there is to *)
(* show of the engine: that a message it enqueues was never in the queue,   *)
(* and that it holds a message from dequeue_due to ack or nack.             *)

Places ==
    {"idle", "registered", "admitted", "dequeued", "running", "handled", "marked",
     "nacked", "nacked_dead", "marked_dead"}

\* The engine works on no message.
Free == pc \in {"idle", "admitted"}

Fresh(k) == q.st[k] = "absent" /\ stored.st[k] = "absent" /\ k \notin accepted

EngineTypes ==
    /\ q \in P!QueueImage /\ stored \in P!QueueImage
    /\ phase \in [Keys -> Phases]
    /\ dlq \subseteq Keys /\ returned \subseteq Keys /\ accepted \subseteq Keys
    /\ pc \in Places /\ cur \in Keys \union {NoKey} /\ up \in BOOLEAN /\ faults \in Nat
    /\ ~Free => up /\ cur \in Keys
    /\ ~up => pc = "idle"
    /\ reclaimed = {}

FreshKeys ==
    /\ \A k \in Keys : phase[k] = "none" => Fresh(k)
    /\ pc = "registered" => Fresh(cur)
    /\ ~Free => phase[cur] # "none"
    /\ \A k \in q.processing \union stored.processing : phase[k] # "none"

Ready == EngineTypes /\ FreshKeys

LEMMA EffectTypes ==
    ASSUME NEW x \in P!QueueImage, NEW k \in Keys, NEW a \in Nat
    PROVE  /\ P!Enqueued(x, k) \in P!QueueImage
           /\ P!Leased(x, k) \in P!QueueImage
           /\ P!Acked(x, k) \in P!QueueImage
           /\ P!Retried(x, k, a) \in P!QueueImage
           /\ P!Buried(x, k) \in P!QueueImage
           /\ P!Exhausted(x, k) \in P!QueueImage
           /\ P!Requeued(x, k) \in P!QueueImage
           /\ P!Evicted(x) \in P!QueueImage
  BY QueueAssumptions, P!EffectType, P!EvictedType

\* An image that differs in the message m and in evicted ones.
Touched(x, y, m) ==
    /\ y \in P!QueueImage
    /\ \A k \in Keys \ {m} :
          /\ y.st[k] = x.st[k] \/ (x.st[k] = "pending" /\ y.st[k] = "dead")
          /\ k \in y.processing => k \in x.processing

LEMMA EffectsTouch ==
    ASSUME NEW x \in P!QueueImage, NEW k \in Keys, NEW a \in Nat
    PROVE  /\ Touched(x, P!Enqueued(x, k), k)
           /\ Touched(x, P!Evicted(P!Enqueued(x, k)), k)
           /\ Touched(x, P!Leased(x, k), k)
           /\ Touched(x, P!Acked(x, k), k)
           /\ Touched(x, P!Retried(x, k, a), k)
           /\ Touched(x, P!Buried(x, k), k)
           /\ Touched(x, P!Exhausted(x, k), k)
           /\ Touched(x, P!Requeued(x, k), k)
<1>1. x.st \in [Keys -> P!Status]
  BY DEF P!QueueImage
<1>2. ASSUME NEW y \in P!QueueImage, NEW v, y.st = [x.st EXCEPT ![k] = v],
             y.processing \in {x.processing, x.processing \union {k}, x.processing \ {k}}
      PROVE  Touched(x, y, k)
  BY <1>1, <1>2 DEF Touched
<1> DEFINE y == P!Enqueued(x, k)
<1>3. y \in P!QueueImage /\ P!Evicted(y) \in P!QueueImage /\ Touched(x, y, k)
  <2>1. y \in P!QueueImage /\ P!Evicted(y) \in P!QueueImage
    BY EffectTypes
  <2>2. y.st = [x.st EXCEPT ![k] = "pending"] /\ y.processing = x.processing
    BY QueueAssumptions, P!EffectStatus
  <2>. QED
    BY <1>2, <2>1, <2>2
<1>4. Touched(x, P!Evicted(y), k)
  <2>. HIDE DEF y
  <2>1. \A m \in Keys : /\ P!Evicted(y).st[m] # y.st[m]
                              => y.st[m] = "pending" /\ P!Evicted(y).st[m] = "dead"
                        /\ P!Evicted(y).processing = y.processing
    BY <1>3, QueueAssumptions, P!EvictedStatus
  <2>. QED
    BY <1>3, <2>1 DEF Touched
<1>5. Touched(x, P!Leased(x, k), k)
  BY <1>2, EffectTypes, QueueAssumptions, P!EffectStatus
<1>6. Touched(x, P!Acked(x, k), k)
  BY <1>2, EffectTypes, QueueAssumptions, P!EffectStatus
<1>7. Touched(x, P!Retried(x, k, a), k)
  <2>1. /\ P!Retried(x, k, a).st = [x.st EXCEPT ![k] = "pending"]
        /\ P!Retried(x, k, a).processing = x.processing \ {k}
    BY DEF P!Retried, P!QueueImage
  <2>2. P!Retried(x, k, a) \in P!QueueImage
    BY EffectTypes
  <2>. QED
    BY <1>2, <2>1, <2>2
<1>8. Touched(x, P!Buried(x, k), k)
  BY <1>2, EffectTypes, QueueAssumptions, P!EffectStatus
<1>9. Touched(x, P!Exhausted(x, k), k)
  BY <1>2, EffectTypes, QueueAssumptions, P!EffectStatus
<1>10. Touched(x, P!Requeued(x, k), k)
  <2>1. /\ P!Requeued(x, k).st = [x.st EXCEPT ![k] = "pending"]
        /\ P!Requeued(x, k).processing = x.processing \ {k}
    BY DEF P!Requeued, P!QueueImage
  <2>2. P!Requeued(x, k) \in P!QueueImage
    BY EffectTypes
  <2>. QED
    BY <1>2, <2>1, <2>2
<1>. QED
  BY <1>3, <1>4, <1>5, <1>6, <1>7, <1>8, <1>9, <1>10

\* A step that changes the queue for one message whose phase is not "none".
LEMMA QueueStep ==
    ASSUME Ready, up, NEW m \in Keys, phase[m] # "none",
           Touched(q, q', m), Touched(stored, stored', m),
           UNCHANGED <<phase, dlq, reclaimed, up, faults>>,
           accepted' \subseteq accepted \union {m}, returned' \subseteq Keys,
           pc' \in Places \ {"registered"}, cur' \in Keys \union {NoKey},
           pc' \notin {"idle", "admitted"} => cur' = m
    PROVE  Ready'
<1>1. q' \in P!QueueImage /\ stored' \in P!QueueImage
  BY DEF Touched
<1>2. accepted' \subseteq Keys /\ up' /\ (~Free' => cur' \in Keys)
  BY DEF Ready, EngineTypes, Free
<1>3. EngineTypes'
  BY <1>1, <1>2 DEF Ready, EngineTypes
<1>4. \A k \in Keys : phase[k] = "none" => Fresh(k)'
  <2>1. SUFFICES ASSUME NEW k \in Keys, phase[k] = "none" PROVE Fresh(k)'
    OBVIOUS
  <2>2. Fresh(k) /\ k # m
    BY <2>1 DEF Ready, FreshKeys
  <2>3. q'.st[k] = "absent" /\ stored'.st[k] = "absent"
    BY <2>2 DEF Touched, Fresh
  <2>. QED
    BY <2>2, <2>3 DEF Fresh
<1>5. \A k \in q'.processing \union stored'.processing : phase[k] # "none"
  <2>1. q'.processing \subseteq Keys /\ stored'.processing \subseteq Keys
    BY <1>1 DEF P!QueueImage
  <2>. QED
    BY <2>1 DEF Ready, FreshKeys, Touched
<1>6. ~Free' => phase[cur'] # "none"
  BY DEF Free
<1>7. FreshKeys'
  BY <1>4, <1>5, <1>6 DEF FreshKeys, Fresh
<1>. QED
  BY <1>3, <1>7 DEF Ready

\* A step that leaves the queue alone.
LEMMA QuietStep ==
    ASSUME Ready, UNCHANGED <<q, stored, accepted, reclaimed, up>>,
           phase' \in [Keys -> Phases], dlq' \subseteq Keys, returned' \subseteq Keys,
           faults' \in Nat,
           \A k \in Keys : phase'[k] = "none" => phase[k] = "none",
           pc' \in Places, cur' \in Keys \union {NoKey},
           pc' \notin {"idle", "admitted"} => up /\ cur' \in Keys /\ phase'[cur'] # "none",
           ~up => pc' = "idle",
           pc' = "registered" => Fresh(cur')
    PROVE  Ready'
<1>1. EngineTypes'
  BY DEF Ready, EngineTypes, Free
<1>2. \A k \in q.processing \union stored.processing : k \in Keys /\ phase'[k] # "none"
  BY DEF Ready, EngineTypes, FreshKeys, P!QueueImage
<1>3. \A k \in Keys : phase'[k] = "none" => Fresh(k)
  BY DEF Ready, FreshKeys
<1>4. FreshKeys'
  BY <1>2, <1>3 DEF FreshKeys, Fresh, Free
<1>. QED
  BY <1>1, <1>4 DEF Ready

\* What the queue sees of the engine.
LEMMA HeldKept ==
    ASSUME \/ pc \in Holding /\ pc' \in Holding /\ cur' = cur
           \/ pc \notin Holding /\ pc' \notin Holding
    PROVE  held' = held
  BY DEF held, Holding

LEMMA QuietQueue ==
    ASSUME UNCHANGED <<q, stored, up, accepted, reclaimed, faults>>, held' = held
    PROVE  UNCHANGED P!vars
  BY DEF P!vars, held

LEMMA Holds ==
    ASSUME EngineTypes, pc \in Holding
    PROVE  up /\ cur \in Keys /\ cur # NoKey /\ held["engine"] = cur
  BY EngineAssumption DEF EngineTypes, Free, Holding, held

LEMMA HoldsNothing == ASSUME pc \notin Holding PROVE held["engine"] = NoKey
  BY DEF held

LEMMA LetsGo == ASSUME pc' \notin Holding PROVE held' = [held EXCEPT !["engine"] = NoKey]
  BY DEF held

LEMMA Takes == ASSUME pc' \in Holding PROVE held' = [held EXCEPT !["engine"] = cur']
  BY DEF held

LEMMA Journalled ==
    ASSUME NEW image, stored' = image, faults' = faults, up' = up
    PROVE  P!Journal(image, TRUE)
  BY DEF P!Journal

\* submit: the message is in no image yet.
LEMMA EnqueueIsOne ==
    ASSUME Ready, EnqueueSubmitted
    PROVE  Ready' /\ P!Next
<1>1. /\ up /\ pc = "registered" /\ pc' = "idle" /\ cur' = NoKey
      /\ q' = P!Evicted(P!Enqueued(q, cur)) /\ stored' = P!Enqueued(stored, cur)
      /\ accepted' = accepted \union {cur} /\ returned' = returned \union {cur}
      /\ UNCHANGED <<up, reclaimed, phase, dlq, faults>>
  BY SameEffects DEF EnqueueSubmitted, At, Goto
<1>2. /\ cur \in Keys /\ phase[cur] # "none" /\ Fresh(cur)
      /\ q \in P!QueueImage /\ stored \in P!QueueImage /\ 0 \in Nat
  BY <1>1 DEF Ready, EngineTypes, FreshKeys, Free
<1>3. Touched(q, q', cur) /\ Touched(stored, stored', cur)
  BY <1>1, <1>2, EffectsTouch
<1>4. Ready'
  <2>1. /\ accepted' \subseteq accepted \union {cur} /\ returned' \subseteq Keys
        /\ pc' \in Places \ {"registered"} /\ cur' \in Keys \union {NoKey}
        /\ pc' \notin {"idle", "admitted"} => cur' = cur
    BY <1>1, <1>2 DEF Ready, EngineTypes, Places
  <2>. QED
    BY <1>1, <1>2, <1>3, <2>1, QueueStep
<1>5. P!Enqueue(cur, TRUE)
  <2>1. pc \notin Holding /\ pc' \notin Holding
    BY <1>1 DEF Holding
  <2>2. held' = held
    BY <2>1, HeldKept
  <2>. QED
    BY <1>1, <1>2, <2>2, Journalled DEF P!Enqueue, Fresh, held
<1>. QED
  BY <1>2, <1>4, <1>5 DEF P!Next

LEMMA TakeIsOne ==
    ASSUME Ready, NEW k \in Keys, TakeNext(k)
    PROVE  Ready' /\ P!Next
<1>1. /\ up /\ pc = "admitted" /\ pc' = "dequeued" /\ cur' = k /\ P!IsNextDue(k)
      /\ q' = P!Leased(q, k) /\ stored' = P!Leased(stored, k)
      /\ UNCHANGED <<up, accepted, reclaimed, phase, dlq, returned, faults>>
  BY SameEffects DEF TakeNext, At, Goto, D!IsNextDue, P!IsNextDue
<1>2. q \in P!QueueImage /\ stored \in P!QueueImage /\ 0 \in Nat
  BY DEF Ready, EngineTypes
<1>3. phase[k] # "none"
  BY <1>1 DEF Ready, FreshKeys, Fresh, P!IsNextDue
<1>4. Touched(q, q', k) /\ Touched(stored, stored', k)
  BY <1>1, <1>2, EffectsTouch
<1>5. Ready'
  <2>1. /\ accepted' \subseteq accepted \union {k} /\ returned' \subseteq Keys
        /\ pc' \in Places \ {"registered"} /\ cur' \in Keys \union {NoKey}
        /\ pc' \notin {"idle", "admitted"} => cur' = k
    BY <1>1 DEF Ready, EngineTypes, Places
  <2>. QED
    BY <1>1, <1>3, <1>4, <2>1, QueueStep
<1>6. P!Dequeue("engine", k, TRUE)
  <2>1. held["engine"] = NoKey
    BY <1>1, HoldsNothing DEF Holding
  <2>2. held' = [held EXCEPT !["engine"] = k]
    BY <1>1, Takes DEF Holding
  <2>. QED
    BY <1>1, <2>1, <2>2, Journalled DEF P!Dequeue, held
<1>. QED
  BY <1>5, <1>6 DEF P!Next

LEMMA AckIsOne ==
    ASSUME Ready, AckSucceeded
    PROVE  Ready' /\ P!Next
<1>1. /\ up /\ pc = "marked" /\ pc' = "idle" /\ cur' = NoKey
      /\ q' = P!Acked(q, cur) /\ stored' = P!Acked(stored, cur)
      /\ UNCHANGED <<up, accepted, reclaimed, phase, dlq, returned, faults>>
  BY SameEffects DEF AckSucceeded, At, Goto
<1>2. /\ cur \in Keys /\ phase[cur] # "none"
      /\ q \in P!QueueImage /\ stored \in P!QueueImage /\ 0 \in Nat
  BY <1>1 DEF Ready, EngineTypes, FreshKeys, Free
<1>3. Touched(q, q', cur) /\ Touched(stored, stored', cur)
  BY <1>1, <1>2, EffectsTouch
<1>4. Ready'
  <2>1. /\ accepted' \subseteq accepted \union {cur} /\ returned' \subseteq Keys
        /\ pc' \in Places \ {"registered"} /\ cur' \in Keys \union {NoKey}
        /\ pc' \notin {"idle", "admitted"} => cur' = cur
    BY <1>1 DEF Ready, EngineTypes, Places
  <2>. QED
    BY <1>1, <1>2, <1>3, <2>1, QueueStep
<1>5. P!Ack("engine", TRUE)
  <2>1. held["engine"] = cur /\ cur # NoKey
    BY <1>1, Holds DEF Holding, Ready
  <2>2. held' = [held EXCEPT !["engine"] = NoKey]
    BY <1>1, LetsGo DEF Holding
  <2>. QED
    BY <1>1, <2>1, <2>2, Journalled DEF P!Ack, held
<1>. QED
  BY <1>4, <1>5 DEF P!Next

LEMMA NackIsOne ==
    ASSUME Ready, NEW permanent \in BOOLEAN, HandlerRaises(permanent)
    PROVE  Ready' /\ P!Next
<1> DEFINE attempts == q.att[cur] + 1
<1>1. /\ up /\ pc = "running" /\ pc' \in {"nacked", "nacked_dead"} /\ cur' = cur
      /\ \/ /\ permanent \/ attempts >= MaxAttempts
            /\ q' = P!Exhausted(q, cur) /\ stored' = P!Buried(stored, cur)
         \/ /\ ~(permanent \/ attempts >= MaxAttempts)
            /\ q' = P!Retried(q, cur, attempts) /\ stored' = P!Retried(stored, cur, attempts)
      /\ UNCHANGED <<up, accepted, reclaimed, phase, dlq, returned, faults>>
  BY SameEffects DEF HandlerRaises, At, Goto, Spent
<1>2. /\ cur \in Keys /\ phase[cur] # "none"
      /\ q \in P!QueueImage /\ stored \in P!QueueImage
  BY <1>1 DEF Ready, EngineTypes, FreshKeys, Free
<1>3. attempts \in Nat /\ MaxAttempts \in Nat
  BY <1>2, EngineAssumption DEF P!QueueImage
<1>4. Touched(q, q', cur) /\ Touched(stored, stored', cur)
  <2>. HIDE DEF attempts
  <2>. QED
    BY <1>1, <1>2, <1>3, EffectsTouch
<1>5. Ready'
  <2>1. /\ accepted' \subseteq accepted \union {cur} /\ returned' \subseteq Keys
        /\ pc' \in Places \ {"registered"} /\ cur' \in Keys \union {NoKey}
        /\ pc' \notin {"idle", "admitted"} => cur' = cur
    BY <1>1, <1>2 DEF Ready, EngineTypes, Places
  <2>. QED
    BY <1>1, <1>2, <1>4, <2>1, QueueStep
<1>6. P!Nack("engine", permanent, TRUE)
  <2>1. held["engine"] = cur /\ cur # NoKey
    BY <1>1, Holds DEF Holding, Ready
  <2>2. held' = [held EXCEPT !["engine"] = NoKey]
    BY <1>1, LetsGo DEF Holding
  <2>3. \/ /\ permanent \/ attempts >= MaxAttempts
           /\ q' = P!Exhausted(q, cur) /\ P!Journal(P!Buried(stored, cur), TRUE)
        \/ /\ ~permanent /\ attempts < MaxAttempts
           /\ q' = P!Retried(q, cur, attempts)
           /\ P!Journal(P!Retried(stored, cur, attempts), TRUE)
    <3>. HIDE DEF attempts
    <3>1. CASE permanent \/ attempts >= MaxAttempts
      BY <1>1, <3>1, Journalled
    <3>2. CASE ~(permanent \/ attempts >= MaxAttempts)
      <4>1. P!Journal(P!Retried(stored, cur, attempts), TRUE)
        BY <1>1, <3>2, Journalled
      <4>2. ~permanent /\ attempts < MaxAttempts
        BY <1>3, <3>2
      <4>. QED
        BY <1>1, <3>2, <4>1, <4>2
    <3>. QED
      BY <3>1, <3>2
  <2>. QED
    BY <1>1, <2>1, <2>2, <2>3 DEF P!Nack, held
<1>. QED
  BY <1>5, <1>6 DEF P!Next

LEMMA RecoverIsOne ==
    ASSUME Ready, NEW k \in Keys, Recover(k)
    PROVE  Ready' /\ P!Next
<1>1. /\ up /\ pc = "idle" /\ pc' = pc /\ cur' = cur /\ k \in q.processing
      /\ q' = P!Requeued(q, k) /\ stored' = P!Requeued(stored, k)
      /\ UNCHANGED <<up, accepted, reclaimed, phase, dlq, returned, faults>>
  BY SameEffects DEF Recover, At
<1>2. /\ phase[k] # "none" /\ cur \in Keys \union {NoKey}
      /\ q \in P!QueueImage /\ stored \in P!QueueImage /\ 0 \in Nat
  BY <1>1 DEF Ready, EngineTypes, FreshKeys
<1>3. Touched(q, q', k) /\ Touched(stored, stored', k)
  BY <1>1, <1>2, EffectsTouch
<1>4. Ready'
  <2>1. /\ accepted' \subseteq accepted \union {k} /\ returned' \subseteq Keys
        /\ pc' \in Places \ {"registered"} /\ cur' \in Keys \union {NoKey}
        /\ pc' \notin {"idle", "admitted"} => cur' = k
    BY <1>1, <1>2 DEF Ready, EngineTypes, Places
  <2>. QED
    BY <1>1, <1>2, <1>3, <2>1, QueueStep
<1>5. P!RecoverStale(k, TRUE)
  <2>1. held["engine"] = NoKey /\ held' = held
    BY <1>1, HoldsNothing, HeldKept DEF Holding
  <2>2. ~ \E w \in {"engine"} : held[w] = k
    BY <2>1, EngineAssumption
  <2>. QED
    BY <1>1, <2>1, <2>2, Journalled DEF P!RecoverStale, held
<1>. QED
  BY <1>4, <1>5 DEF P!Next

LEMMA CrashIsOne ==
    ASSUME Ready, Crash
    PROVE  Ready' /\ P!Next
<1>1. /\ up /\ ~up' /\ pc' = "idle" /\ cur' = NoKey /\ q' = P!EmptyQueue
      /\ faults < MaxFaults /\ faults' = faults + 1
      /\ UNCHANGED <<stored, accepted, reclaimed, phase, dlq, returned>>
  BY SameEmpty DEF Crash, Goto
<1>2. /\ P!EmptyQueue \in P!QueueImage /\ P!EmptyQueue.processing = {}
      /\ \A k \in Keys : P!EmptyQueue.st[k] = "absent"
  BY DEF P!EmptyQueue, P!QueueImage, P!Status
<1>3. EngineTypes'
  <2>1. up' = FALSE
    BY DEF Crash
  <2>2. faults' \in Nat
    <3>1. faults \in Nat
      BY DEF Ready, EngineTypes
    <3>. QED
      BY <1>1, <3>1
  <2>. QED
    BY <1>1, <1>2, <2>1, <2>2 DEF Ready, EngineTypes, Free, Places
<1>4. FreshKeys'
  BY <1>1, <1>2 DEF Ready, FreshKeys, Fresh, Free
<1>5. P!Crash
  <2>1. held' = [w \in {"engine"} |-> NoKey]
    BY <1>1 DEF held, Holding
  <2>2. up' = FALSE
    BY DEF Crash
  <2>. QED
    BY <1>1, <2>1, <2>2 DEF P!Crash, held
<1>. QED
  BY <1>3, <1>4, <1>5 DEF Ready, P!Next

LEMMA RestartIsOne ==
    ASSUME Ready, Restart
    PROVE  Ready' /\ P!Next
<1>1. /\ ~up /\ up' = TRUE /\ q' = stored
      /\ UNCHANGED <<stored, accepted, reclaimed, phase, dlq, returned, pc, cur, faults>>
  BY DEF Restart
<1>2. pc = "idle"
  BY <1>1 DEF Ready, EngineTypes
<1>3. EngineTypes'
  BY <1>1, <1>2 DEF Ready, EngineTypes, Free
<1>4. FreshKeys'
  BY <1>1, <1>2 DEF Ready, FreshKeys, Fresh, Free
<1>5. P!Restart
  <2>1. held' = held
    BY <1>1, <1>2, HeldKept DEF Holding
  <2>. QED
    BY <1>1, <2>1 DEF P!Restart, held
<1>. QED
  BY <1>3, <1>4, <1>5 DEF Ready, P!Next

\* A handler that is interrupted abandons its message.
LEMMA InterruptIsOne ==
    ASSUME Ready, Interrupt
    PROVE  Ready' /\ P!Next
<1>1. /\ up /\ pc = "running" /\ pc' = "idle" /\ cur' = NoKey
      /\ faults < MaxFaults /\ faults' = faults + 1
      /\ UNCHANGED <<q, stored, up, accepted, reclaimed, phase, dlq, returned>>
  BY DEF Interrupt, At, Goto, queueVars
<1>2. Ready'
  <2>1. faults' \in Nat /\ phase' \in [Keys -> Phases] /\ dlq' \subseteq Keys
        /\ returned' \subseteq Keys /\ pc' \in Places
    BY <1>1 DEF Ready, EngineTypes, Places
  <2>. QED
    BY <1>1, <2>1, QuietStep
<1>3. P!Abandon("engine")
  <2>1. held["engine"] # NoKey
    BY <1>1, Holds DEF Holding, Ready
  <2>2. held' = [held EXCEPT !["engine"] = NoKey]
    BY <1>1, LetsGo DEF Holding
  <2>. QED
    BY <1>1, <2>1, <2>2 DEF P!Abandon, held
<1>. QED
  BY <1>2, <1>3 DEF P!Next

\* The other steps are none of the queue's.
LEMMA RegistrySteps ==
    ASSUME Ready,
           \/ \E k \in Keys : SubmitDuplicate(k) \/ Register(k)
           \/ AllowCall \/ NothingDue \/ MarkProcessing \/ HandlerReturns
           \/ MarkSucceeded \/ MarkQueued \/ MarkDead \/ FileDeadLetter \/ TimeoutPasses
    PROVE  Ready' /\ UNCHANGED P!vars
<1>1. UNCHANGED <<q, stored, up, accepted, reclaimed, faults>>
  BY DEF SubmitDuplicate, Register, AllowCall, NothingDue, MarkProcessing, HandlerReturns,
         MarkSucceeded, MarkQueued, MarkDead, FileDeadLetter, TimeoutPasses, queueVars
<1>2. /\ phase \in [Keys -> Phases] /\ dlq \subseteq Keys /\ returned \subseteq Keys
      /\ cur \in Keys \union {NoKey} /\ faults \in Nat /\ pc \in Places
      /\ pc \notin {"idle", "admitted"} => up /\ cur \in Keys /\ phase[cur] # "none"
      /\ ~up => pc = "idle"
      /\ pc = "registered" => Fresh(cur)
  BY DEF Ready, EngineTypes, FreshKeys, Free
<1>3. held' = held
  BY HeldKept
  DEF Holding, SubmitDuplicate, Register, AllowCall, NothingDue, MarkProcessing,
      HandlerReturns, MarkSucceeded, MarkQueued, MarkDead, FileDeadLetter, TimeoutPasses,
      At, Goto
<1>4. Ready'
  <2>1. ASSUME NEW k \in Keys, SubmitDuplicate(k) PROVE Ready'
    <3>1. returned' \subseteq Keys /\ UNCHANGED <<phase, dlq, pc, cur>>
      BY <1>2, <2>1 DEF SubmitDuplicate
    <3>. QED
      BY <1>1, <1>2, <3>1, QuietStep
  <2>2. ASSUME NEW k \in Keys, Register(k) PROVE Ready'
    <3>1. /\ up /\ pc' = "registered" /\ cur' = k /\ phase[k] = "none"
          /\ phase' = [phase EXCEPT ![k] = "queued"] /\ UNCHANGED <<dlq, returned>>
      BY <2>2 DEF Register, At, Goto
    <3>2. Fresh(k)
      BY <3>1 DEF Ready, FreshKeys
    <3>3. /\ phase' \in [Keys -> Phases] /\ phase'[k] = "queued" /\ pc' \in Places
          /\ \A m \in Keys : phase'[m] = "none" => phase[m] = "none"
      BY <1>2, <3>1 DEF Phases, Places
    <3>4. ~up => pc' = "idle"
      BY <3>1
    <3>. QED
      BY <1>1, <1>2, <3>1, <3>2, <3>3, <3>4, QuietStep
  <2>3. CASE AllowCall \/ NothingDue \/ FileDeadLetter
    <3>1. /\ up /\ pc' \in {"idle", "admitted"} /\ cur' = NoKey /\ phase' = phase
          /\ returned' = returned /\ dlq' \in {dlq, dlq \union {cur}}
          /\ dlq' # dlq => pc = "marked_dead"
      BY <2>3 DEF AllowCall, NothingDue, FileDeadLetter, At, Goto
    <3>2. dlq' \subseteq Keys /\ pc' \in Places
      BY <1>2, <3>1 DEF Places
    <3>. QED
      BY <1>1, <1>2, <3>1, <3>2, QuietStep
  <2>4. CASE MarkProcessing \/ HandlerReturns \/ MarkSucceeded \/ MarkQueued \/ MarkDead
    <3>1. /\ pc \in {"dequeued", "running", "handled", "nacked", "nacked_dead"}
          /\ \E v \in {"processing", "succeeded", "queued", "dead", phase[cur]} :
                phase' = [phase EXCEPT ![cur] = v]
          /\ pc' \in Places \ {"registered"}
          /\ cur' = cur \/ (cur' = NoKey /\ pc' = "idle")
          /\ UNCHANGED <<dlq, returned>>
      <4>1. [phase EXCEPT ![cur] = phase[cur]] = phase
        BY <1>2
      <4>. QED
        BY <2>4, <4>1
        DEF MarkProcessing, HandlerReturns, MarkSucceeded, MarkQueued, MarkDead, At, Goto, Places
    <3>2. up /\ cur \in Keys /\ phase[cur] # "none"
      BY <1>2, <3>1
    <3>3. PICK v \in {"processing", "succeeded", "queued", "dead", phase[cur]} :
              phase' = [phase EXCEPT ![cur] = v]
      BY <3>1
    <3>4. /\ phase' \in [Keys -> Phases] /\ phase'[cur] # "none"
          /\ \A m \in Keys : phase'[m] = "none" => phase[m] = "none"
      BY <1>2, <3>2, <3>3 DEF Phases
    <3>5. /\ pc' \notin {"idle", "admitted"} => up /\ cur' \in Keys /\ phase'[cur'] # "none"
          /\ ~up => pc' = "idle"
          /\ pc' = "registered" => Fresh(cur')
          /\ cur' \in Keys \union {NoKey} /\ dlq' \subseteq Keys /\ returned' \subseteq Keys
          /\ faults' \in Nat /\ pc' \in Places
      BY <1>1, <1>2, <3>1, <3>2, <3>4
    <3>. QED
      BY <1>1, <3>4, <3>5, QuietStep
  <2>5. CASE TimeoutPasses
    <3>1. UNCHANGED <<phase, dlq, returned, pc, cur>>
      BY <2>5 DEF TimeoutPasses
    <3>. QED
      BY <1>1, <1>2, <3>1, QuietStep
  <2>. QED
    BY <2>1, <2>2, <2>3, <2>4, <2>5
<1>. QED
  BY <1>1, <1>3, <1>4, QuietQueue

LEMMA ReadyInit == Init => Ready /\ P!Init
<1>. SUFFICES ASSUME Init PROVE Ready /\ P!Init
  OBVIOUS
<1>1. /\ P!EmptyQueue \in P!QueueImage /\ P!EmptyQueue.processing = {}
      /\ \A k \in Keys : P!EmptyQueue.st[k] = "absent"
  BY DEF P!EmptyQueue, P!QueueImage, P!Status
<1>2. q = P!EmptyQueue /\ stored = P!EmptyQueue /\ pc = "idle" /\ cur = NoKey /\ up = TRUE
      /\ accepted = {} /\ reclaimed = {} /\ faults = 0 /\ dlq = {} /\ returned = {}
      /\ phase = [k \in Keys |-> "none"]
  BY SameEmpty DEF Init
<1>3. EngineTypes
  BY <1>1, <1>2 DEF EngineTypes, Free, Places, Phases
<1>4. FreshKeys
  BY <1>1, <1>2 DEF FreshKeys, Fresh, Free
<1>5. P!Init
  BY <1>2 DEF P!Init, Holding
<1>. QED
  BY <1>3, <1>4, <1>5 DEF Ready

LEMMA EngineStep ==
    ASSUME Ready, [Next]_vars
    PROVE  Ready' /\ [P!Next]_(P!vars)
<1>1. CASE UNCHANGED vars
  <2>1. UNCHANGED <<q, stored, phase, dlq, returned, pc, cur, up, accepted, reclaimed, faults>>
    BY <1>1 DEF vars
  <2>2. held' = held
    BY <2>1 DEF held
  <2>3. UNCHANGED P!vars
    BY <2>1, <2>2, QuietQueue
  <2>. QED
    BY <2>1, <2>3 DEF Ready, EngineTypes, FreshKeys, Fresh, Free
<1>2. CASE Next
  BY <1>2, EnqueueIsOne, TakeIsOne, AckIsOne, NackIsOne, RecoverIsOne, CrashIsOne,
     RestartIsOne, InterruptIsOne, RegistrySteps
  DEF Next, Processing, Settling
<1>. QED
  BY <1>1, <1>2

\* The engine implements the specification of its queue, with itself as the one
\* caller: it enqueues every message once, and settles or abandons what it took.
THEOREM EngineUsesTheQueue == Spec => UsesTheQueue
<1>1. Init => D!Init
  BY SameEmpty, ReadyInit DEF P!Init, D!Init
<1>2. Ready /\ [Next]_vars => Ready' /\ [D!Next]_(D!vars)
  <2>. SUFFICES ASSUME Ready, [Next]_vars PROVE Ready' /\ [D!Next]_(D!vars)
    OBVIOUS
  <2>1. Ready' /\ [P!Next]_(P!vars)
    BY EngineStep
  <2>2. CASE P!Next
    BY <2>1, <2>2, SameNext
  <2>3. CASE UNCHANGED P!vars
    BY <2>1, <2>3 DEF P!vars, D!vars
  <2>. QED
    BY <2>1, <2>2, <2>3
<1>. QED
  BY <1>1, <1>2, ReadyInit, PTL DEF Spec, UsesTheQueue, D!Spec

-----------------------------------------------------------------------------
(* What is recorded agrees.  The strengthening says where each step of      *)
(* process_next finds the message it works on: still leased until it is     *)
(* settled, in the same state in the queue and in its journal afterwards,   *)
(* and without a dead-letter file until the last step.                      *)

\* A message that may be attempted again has attempts left.
Attempts(x) ==
    \A k \in Keys :
        /\ x.att[k] <= MaxAttempts
        /\ x.st[k] \in {"pending", "processing"} => x.att[k] < MaxAttempts

Nacked == {"nacked", "nacked_dead", "marked_dead"}

Recorded ==
    /\ Attempts(q) /\ Attempts(stored)
    /\ AckedHasSucceeded
    /\ FiledIsDead
    /\ pc = "registered" => phase[cur] = "queued"
    /\ pc = "marked" => phase[cur] = "succeeded"
    /\ pc \in Nacked =>
          cur \notin dlq /\ stored.st[cur] = q.st[cur] /\ q.st[cur] \in {"pending", "dead"}
    /\ pc \in {"nacked_dead", "marked_dead"} => q.st[cur] = "dead"
    /\ pc = "marked_dead" => phase[cur] = "dead"

QueueInv == P!IInv /\ P!FileMatches

\* The inductive invariant; QueueInv is what DurableQueueProofs proves of any queue.
EngineInv == Ready /\ QueueInv /\ Recorded

\* What the effects do to the fields of an image.
LEMMA Fields ==
    ASSUME NEW x \in P!QueueImage, NEW m \in Keys
    PROVE  /\ P!Enqueued(x, m).st = [x.st EXCEPT ![m] = "pending"]
           /\ P!Enqueued(x, m).att = [x.att EXCEPT ![m] = 0]
           /\ P!Enqueued(x, m).processing = x.processing
           /\ P!Leased(x, m).st = [x.st EXCEPT ![m] = "processing"]
           /\ P!Leased(x, m).att = x.att
           /\ P!Leased(x, m).processing = x.processing \union {m}
           /\ P!Acked(x, m).st = [x.st EXCEPT ![m] = "acked"]
           /\ P!Acked(x, m).att = x.att
           /\ P!Acked(x, m).processing = x.processing \ {m}
           /\ P!Buried(x, m).st = [x.st EXCEPT ![m] = "dead"]
           /\ P!Buried(x, m).att = x.att
           /\ P!Exhausted(x, m).st = [x.st EXCEPT ![m] = "dead"]
           /\ P!Exhausted(x, m).att = [x.att EXCEPT ![m] = @ + 1]
           /\ P!Exhausted(x, m).processing = x.processing \ {m}
           /\ P!Requeued(x, m).st = [x.st EXCEPT ![m] = "pending"]
           /\ P!Requeued(x, m).att = x.att
           /\ P!Requeued(x, m).processing = x.processing \ {m}
  BY DEF P!QueueImage, P!Enqueued, P!Leased, P!Acked, P!Buried, P!Exhausted, P!Requeued

LEMMA RetriedFields ==
    ASSUME NEW x \in P!QueueImage, NEW m \in Keys, NEW a
    PROVE  /\ P!Retried(x, m, a).st = [x.st EXCEPT ![m] = "pending"]
           /\ P!Retried(x, m, a).att = [x.att EXCEPT ![m] = a]
           /\ P!Retried(x, m, a).processing = x.processing \ {m}
  BY DEF P!QueueImage, P!Retried

LEMMA AttemptsKept ==
    ASSUME NEW x \in P!QueueImage, Attempts(x), NEW m \in Keys, NEW a \in Nat
    PROVE  /\ Attempts(P!Enqueued(x, m)) /\ Attempts(P!Evicted(x))
           /\ Attempts(P!Acked(x, m)) /\ Attempts(P!Buried(x, m))
           /\ x.st[m] = "pending" => Attempts(P!Leased(x, m))
           /\ a < MaxAttempts => Attempts(P!Retried(x, m, a))
           /\ x.st[m] = "processing" => Attempts(P!Exhausted(x, m)) /\ Attempts(P!Requeued(x, m))
<1>1. /\ x.st \in [Keys -> P!Status] /\ x.att \in [Keys -> Nat]
      /\ MaxAttempts \in Nat \ {0}
  BY EngineAssumption DEF P!QueueImage
<1>2. /\ P!Enqueued(x, m).st = [x.st EXCEPT ![m] = "pending"]
      /\ P!Enqueued(x, m).att = [x.att EXCEPT ![m] = 0]
  BY Fields
<1>3. /\ \A k \in Keys : P!Evicted(x).st[k] # x.st[k] => P!Evicted(x).st[k] = "dead"
      /\ P!Evicted(x).att = x.att
  BY QueueAssumptions, P!EvictedStatus, P!EffectAttempts
<1>4. /\ P!Acked(x, m).st = [x.st EXCEPT ![m] = "acked"] /\ P!Acked(x, m).att = x.att
      /\ P!Buried(x, m).st = [x.st EXCEPT ![m] = "dead"] /\ P!Buried(x, m).att = x.att
      /\ P!Leased(x, m).st = [x.st EXCEPT ![m] = "processing"] /\ P!Leased(x, m).att = x.att
      /\ P!Requeued(x, m).st = [x.st EXCEPT ![m] = "pending"] /\ P!Requeued(x, m).att = x.att
      /\ P!Exhausted(x, m).st = [x.st EXCEPT ![m] = "dead"]
      /\ P!Exhausted(x, m).att = [x.att EXCEPT ![m] = @ + 1]
  BY Fields
<1>5. /\ P!Retried(x, m, a).st = [x.st EXCEPT ![m] = "pending"]
      /\ P!Retried(x, m, a).att = [x.att EXCEPT ![m] = a]
  BY RetriedFields
<1>6. ASSUME NEW y, NEW v, y.st = [x.st EXCEPT ![m] = v], y.att = x.att,
             v \in {"pending", "processing"} => x.att[m] < MaxAttempts
      PROVE  Attempts(y)
  BY <1>1, <1>6 DEF Attempts
<1>7. ASSUME NEW y, NEW v, NEW n \in Nat, y.st = [x.st EXCEPT ![m] = v],
             y.att = [x.att EXCEPT ![m] = n], n <= MaxAttempts,
             v \in {"pending", "processing"} => n < MaxAttempts
      PROVE  Attempts(y)
  BY <1>1, <1>7 DEF Attempts
<1>8. x.st[m] = "processing" => x.att[m] + 1 \in Nat /\ x.att[m] + 1 <= MaxAttempts
  BY <1>1 DEF Attempts
<1>9. Attempts(P!Enqueued(x, m))
  BY <1>1, <1>2, <1>7
<1>10. Attempts(P!Evicted(x))
  BY <1>1, <1>3 DEF Attempts
<1>11. /\ Attempts(P!Acked(x, m)) /\ Attempts(P!Buried(x, m))
       /\ x.st[m] = "pending" => Attempts(P!Leased(x, m))
       /\ x.st[m] = "processing" => Attempts(P!Requeued(x, m))
  BY <1>4, <1>6 DEF Attempts
<1>12. x.st[m] = "processing" => Attempts(P!Exhausted(x, m))
  <2>. SUFFICES ASSUME x.st[m] = "processing" PROVE Attempts(P!Exhausted(x, m))
    OBVIOUS
  <2>1. P!Exhausted(x, m).att = [x.att EXCEPT ![m] = x.att[m] + 1]
    BY <1>4
  <2>. QED
    BY <1>4, <1>7, <1>8, <2>1
<1>13. a < MaxAttempts => Attempts(P!Retried(x, m, a))
  BY <1>1, <1>5, <1>7
<1>. QED
  BY <1>9, <1>10, <1>11, <1>12, <1>13

\* What the queue's invariant says of the message the engine holds, and of those
\* it takes.
LEMMA QueueFacts ==
    ASSUME EngineTypes, QueueInv
    PROVE  /\ \A k \in q.processing : q.st[k] = "processing"
           /\ \A k \in stored.processing : stored.st[k] = "processing"
           /\ up => \A k \in Keys : P!Matches(q, stored, k)
           /\ pc \in Holding => /\ q.st[cur] = "processing" /\ stored.st[cur] = "processing"
                                /\ cur \in q.processing
           /\ P!Listed(q)
<1>1. /\ \A k \in q.processing : q.st[k] = "processing"
      /\ \A k \in stored.processing : stored.st[k] = "processing"
  BY DEF QueueInv, P!IInv, P!JournalLags
<1>2. up => \A k \in Keys : P!Matches(q, stored, k)
  BY DEF QueueInv, P!FileMatches, P!Matching, EngineTypes
<1>3. ASSUME pc \in Holding
      PROVE  /\ q.st[cur] = "processing" /\ stored.st[cur] = "processing"
             /\ cur \in q.processing
  <2>1. up /\ cur \in Keys /\ cur # NoKey /\ reclaimed = {}
    BY <1>3, Holds DEF EngineTypes
  <2>2. q.st[cur] = "processing" /\ cur \in q.processing
    BY <1>3, <2>1 DEF QueueInv, P!IInv, P!HolderBacked
  <2>3. stored.st[cur] = "processing"
    BY <1>2, <2>1, <2>2 DEF P!Matches
  <2>. QED
    BY <2>2, <2>3
<1>. QED
  BY <1>1, <1>2, <1>3 DEF QueueInv, P!FileMatches, P!ListsSound

\* One message gets a new status, in the queue and in its journal.
Changes(m, v) ==
    /\ q'.st = [q.st EXCEPT ![m] = v]
    /\ stored'.st = [stored.st EXCEPT ![m] = v]
    /\ \A k \in Keys \ {m} : k \in q'.processing <=> k \in q.processing
    /\ Attempts(q)' /\ Attempts(stored)'

LEMMA TakeChanges ==
    ASSUME EngineInv, NEW k \in Keys, TakeNext(k)
    PROVE  Changes(k, "processing") /\ q.st[k] = "pending" /\ stored.st[k] = "pending"
<1>1. /\ up /\ P!IsNextDue(k) /\ q' = P!Leased(q, k) /\ stored' = P!Leased(stored, k)
  BY SameEffects DEF TakeNext, At, D!IsNextDue, P!IsNextDue
<1>2. q \in P!QueueImage /\ stored \in P!QueueImage /\ 0 \in Nat
  BY DEF EngineInv, Ready, EngineTypes
<1>3. q.st[k] = "pending" /\ stored.st[k] = "pending"
  <2>1. q.st[k] = "pending"
    BY <1>1 DEF P!IsNextDue
  <2>2. P!Matches(q, stored, k)
    BY <1>1, QueueFacts DEF EngineInv, Ready
  <2>. QED
    BY <2>1, <2>2 DEF P!Matches
<1>4. Attempts(P!Leased(q, k)) /\ Attempts(P!Leased(stored, k))
  BY <1>2, <1>3, AttemptsKept DEF EngineInv, Recorded
<1>5. /\ q'.st = [q.st EXCEPT ![k] = "processing"]
      /\ stored'.st = [stored.st EXCEPT ![k] = "processing"]
      /\ q'.processing = q.processing \union {k}
  BY <1>1, <1>2, Fields
<1>. QED
  BY <1>1, <1>3, <1>4, <1>5 DEF Changes, Attempts

LEMMA AckChanges == ASSUME EngineInv, AckSucceeded PROVE Changes(cur, "acked")
<1>1. /\ up /\ pc = "marked" /\ q' = P!Acked(q, cur) /\ stored' = P!Acked(stored, cur)
  BY SameEffects DEF AckSucceeded, At
<1>2. q \in P!QueueImage /\ stored \in P!QueueImage /\ 0 \in Nat /\ cur \in Keys
  BY <1>1 DEF EngineInv, Ready, EngineTypes, Free
<1>3. Attempts(P!Acked(q, cur)) /\ Attempts(P!Acked(stored, cur))
  BY <1>2, AttemptsKept DEF EngineInv, Recorded
<1>4. /\ q'.st = [q.st EXCEPT ![cur] = "acked"]
      /\ stored'.st = [stored.st EXCEPT ![cur] = "acked"]
      /\ q'.processing = q.processing \ {cur}
  BY <1>1, <1>2, Fields
<1>. QED
  BY <1>1, <1>3, <1>4 DEF Changes, Attempts

\* A message is dead after a nack, or has attempts left.
LEMMA NackChanges ==
    ASSUME EngineInv, NEW permanent \in BOOLEAN, HandlerRaises(permanent)
    PROVE  \/ Changes(cur, "dead")
           \/ ~permanent /\ Changes(cur, "pending")
<1> DEFINE attempts == q.att[cur] + 1
<1>1. /\ up /\ pc = "running"
      /\ \/ /\ permanent \/ attempts >= MaxAttempts
            /\ q' = P!Exhausted(q, cur) /\ stored' = P!Buried(stored, cur)
         \/ /\ ~(permanent \/ attempts >= MaxAttempts)
            /\ q' = P!Retried(q, cur, attempts) /\ stored' = P!Retried(stored, cur, attempts)
  BY SameEffects DEF HandlerRaises, At, Spent
<1>2. q \in P!QueueImage /\ stored \in P!QueueImage /\ 0 \in Nat /\ cur \in Keys
  BY <1>1 DEF EngineInv, Ready, EngineTypes, Free
<1>3. attempts \in Nat /\ MaxAttempts \in Nat
  BY <1>2, EngineAssumption DEF P!QueueImage
<1>4. q.st[cur] = "processing" /\ Attempts(q) /\ Attempts(stored)
  BY <1>1, QueueFacts DEF EngineInv, Ready, Recorded, Holding
<1>5. CASE q' = P!Exhausted(q, cur) /\ stored' = P!Buried(stored, cur)
  <2>1. Attempts(P!Exhausted(q, cur)) /\ Attempts(P!Buried(stored, cur))
    BY <1>2, <1>4, AttemptsKept
  <2>2. /\ q'.st = [q.st EXCEPT ![cur] = "dead"]
        /\ stored'.st = [stored.st EXCEPT ![cur] = "dead"]
        /\ q'.processing = q.processing \ {cur}
    BY <1>2, <1>5, Fields
  <2>. QED
    BY <1>5, <2>1, <2>2 DEF Changes, Attempts
<1>6. CASE /\ ~(permanent \/ attempts >= MaxAttempts)
           /\ q' = P!Retried(q, cur, attempts) /\ stored' = P!Retried(stored, cur, attempts)
  <2>. HIDE DEF attempts
  <2>1. attempts < MaxAttempts
    BY <1>3, <1>6
  <2>2. Attempts(P!Retried(q, cur, attempts)) /\ Attempts(P!Retried(stored, cur, attempts))
    BY <1>2, <1>3, <1>4, <2>1, AttemptsKept
  <2>3. /\ q'.st = [q.st EXCEPT ![cur] = "pending"]
        /\ stored'.st = [stored.st EXCEPT ![cur] = "pending"]
        /\ q'.processing = q.processing \ {cur}
    BY <1>2, <1>6, RetriedFields
  <2>. QED
    BY <1>6, <2>2, <2>3 DEF Changes, Attempts
<1>. QED
  BY <1>1, <1>5, <1>6

LEMMA RecoverChanges ==
    ASSUME EngineInv, NEW k \in Keys, Recover(k)
    PROVE  Changes(k, "pending") /\ stored.st[k] = "processing" /\ k \notin q'.processing
<1>1. /\ up /\ k \in q.processing /\ q' = P!Requeued(q, k) /\ stored' = P!Requeued(stored, k)
  BY SameEffects DEF Recover, At
<1>2. q \in P!QueueImage /\ stored \in P!QueueImage /\ 0 \in Nat
  BY DEF EngineInv, Ready, EngineTypes
<1>3. q.st[k] = "processing" /\ stored.st[k] = "processing"
  BY <1>1, QueueFacts DEF EngineInv, Ready, P!Matches
<1>4. Attempts(P!Requeued(q, k)) /\ Attempts(P!Requeued(stored, k))
  BY <1>2, <1>3, AttemptsKept DEF EngineInv, Recorded
<1>5. /\ q'.st = [q.st EXCEPT ![k] = "pending"]
      /\ stored'.st = [stored.st EXCEPT ![k] = "pending"]
      /\ q'.processing = q.processing \ {k}
  BY <1>1, <1>2, Fields
<1>. QED
  BY <1>1, <1>3, <1>4, <1>5 DEF Changes, Attempts

-----------------------------------------------------------------------------
(* Every step keeps the records in agreement.                                *)

\* A step that gives one message a new status, and records no phase.
LEMMA ChangeKept ==
    ASSUME EngineInv, NEW m \in Keys, NEW v, Changes(m, v),
           UNCHANGED <<phase, dlq>>,
           v = "acked" => phase[m] = "succeeded",
           stored.st[m] # "dead",
           pc' \in Places \ {"registered", "marked", "marked_dead"},
           pc' \in Nacked => cur' = m /\ v \in {"pending", "dead"},
           pc' = "nacked_dead" => v = "dead"
    PROVE  Recorded'
<1>1. /\ q.st \in [Keys -> P!Status] /\ stored.st \in [Keys -> P!Status] /\ dlq \subseteq Keys
  BY DEF EngineInv, Ready, EngineTypes, P!QueueImage
<1>2. /\ q'.st[m] = v /\ stored'.st[m] = v
      /\ \A k \in Keys \ {m} : stored'.st[k] = stored.st[k]
  BY <1>1 DEF Changes
<1>3. AckedHasSucceeded'
  BY <1>2 DEF AckedHasSucceeded, EngineInv, Recorded
<1>4. FiledIsDead' /\ m \notin dlq
  BY <1>1, <1>2 DEF FiledIsDead, EngineInv, Recorded
<1>5. /\ pc' \in Nacked => /\ cur' \notin dlq' /\ stored'.st[cur'] = q'.st[cur']
                           /\ q'.st[cur'] \in {"pending", "dead"}
      /\ pc' \in {"nacked_dead", "marked_dead"} => q'.st[cur'] = "dead"
  BY <1>2, <1>4 DEF Nacked
<1>. QED
  BY <1>3, <1>4, <1>5 DEF Recorded, Changes

LEMMA QueueKeepsRecords ==
    ASSUME EngineInv,
           \/ \E k \in Keys : TakeNext(k) \/ Recover(k)
           \/ EnqueueSubmitted \/ AckSucceeded
           \/ \E permanent \in BOOLEAN : HandlerRaises(permanent)
    PROVE  Recorded'
<1>1. ASSUME NEW k \in Keys, TakeNext(k) PROVE Recorded'
  <2>1. UNCHANGED <<phase, dlq>> /\ pc' = "dequeued"
    BY <1>1 DEF TakeNext, Goto
  <2>. QED
    BY <1>1, <2>1, TakeChanges, ChangeKept DEF Places, Nacked
<1>2. ASSUME NEW k \in Keys, Recover(k) PROVE Recorded'
  <2>1. UNCHANGED <<phase, dlq>> /\ pc' = "idle"
    BY <1>2 DEF Recover, At
  <2>. QED
    BY <1>2, <2>1, RecoverChanges, ChangeKept DEF Places, Nacked
<1>3. CASE AckSucceeded
  <2>1. UNCHANGED <<phase, dlq>> /\ pc' = "idle" /\ pc = "marked"
    BY <1>3 DEF AckSucceeded, Goto, At
  <2>2. cur \in Keys /\ phase[cur] = "succeeded" /\ stored.st[cur] # "dead"
    BY <2>1, QueueFacts DEF EngineInv, Ready, EngineTypes, Free, Holding, Recorded
  <2>. QED
    BY <1>3, <2>1, <2>2, AckChanges, ChangeKept DEF Places, Nacked
<1>4. ASSUME NEW permanent \in BOOLEAN, HandlerRaises(permanent) PROVE Recorded'
  <2>1. /\ UNCHANGED <<phase, dlq>> /\ pc = "running" /\ cur' = cur
        /\ pc' = IF permanent THEN "nacked_dead" ELSE "nacked"
    BY <1>4 DEF HandlerRaises, Goto, At
  <2>2. cur \in Keys /\ stored.st[cur] # "dead"
    BY <2>1, QueueFacts DEF EngineInv, Ready, EngineTypes, Free, Holding
  <2>3. CASE Changes(cur, "dead")
    BY <2>1, <2>2, <2>3, ChangeKept DEF Places, Nacked
  <2>4. CASE ~permanent /\ Changes(cur, "pending")
    BY <2>1, <2>2, <2>4, ChangeKept DEF Places, Nacked
  <2>. QED
    BY <1>4, <2>3, <2>4, NackChanges
<1>5. CASE EnqueueSubmitted
  <2>1. /\ UNCHANGED <<phase, dlq>> /\ pc = "registered" /\ pc' = "idle"
        /\ q' = P!Evicted(P!Enqueued(q, cur)) /\ stored' = P!Enqueued(stored, cur)
    BY <1>5, SameEffects DEF EnqueueSubmitted, Goto, At
  <2>2. /\ q \in P!QueueImage /\ stored \in P!QueueImage /\ cur \in Keys /\ 0 \in Nat
        /\ stored.st[cur] = "absent" /\ dlq \subseteq Keys
    BY <2>1 DEF EngineInv, Ready, EngineTypes, FreshKeys, Fresh, Free
  <2>3. Attempts(q') /\ Attempts(stored')
    <3>1. P!Enqueued(q, cur) \in P!QueueImage /\ Attempts(P!Enqueued(q, cur))
      BY <2>2, EffectTypes, AttemptsKept DEF EngineInv, Recorded
    <3>2. Attempts(P!Evicted(P!Enqueued(q, cur)))
      BY <2>2, <3>1, AttemptsKept
    <3>. QED
      BY <2>1, <2>2, <3>2, AttemptsKept DEF EngineInv, Recorded
  <2>4. stored'.st = [stored.st EXCEPT ![cur] = "pending"]
    BY <2>1, <2>2, Fields
  <2>5. AckedHasSucceeded' /\ FiledIsDead'
    <3>1. stored.st \in [Keys -> P!Status]
      BY <2>2 DEF P!QueueImage
    <3>2. \A k \in Keys : stored'.st[k] = IF k = cur THEN "pending" ELSE stored.st[k]
      BY <2>4, <3>1
    <3>. QED
      BY <2>1, <2>2, <3>2 DEF EngineInv, Recorded, AckedHasSucceeded, FiledIsDead
  <2>. QED
    BY <2>1, <2>3, <2>5 DEF Recorded, Nacked, Attempts
<1>. QED
  BY <1>1, <1>2, <1>3, <1>4, <1>5

\* A step that records a phase for the message the engine works on.
LEMMA PhaseKept ==
    ASSUME EngineInv, UNCHANGED <<q, stored, dlq>>, NEW m \in Keys, NEW v,
           phase' = [phase EXCEPT ![m] = v],
           stored.st[m] # "acked", m \notin dlq \/ v = "dead",
           pc' \in Places, cur' = m \/ pc' \in {"idle", "admitted"},
           pc' = "registered" => v = "queued",
           pc' = "marked" => v = "succeeded",
           pc' \in Nacked =>
              m \notin dlq /\ stored.st[m] = q.st[m] /\ q.st[m] \in {"pending", "dead"},
           pc' \in {"nacked_dead", "marked_dead"} => q.st[m] = "dead",
           pc' = "marked_dead" => v = "dead"
    PROVE  Recorded'
<1>1. phase \in [Keys -> Phases] /\ dlq \subseteq Keys
  BY DEF EngineInv, Ready, EngineTypes
<1>2. \A k \in Keys : phase'[k] = IF k = m THEN v ELSE phase[k]
  BY <1>1
<1>3. AckedHasSucceeded' /\ FiledIsDead'
  BY <1>1, <1>2 DEF EngineInv, Recorded, AckedHasSucceeded, FiledIsDead
<1>4. Attempts(q)' /\ Attempts(stored)'
  BY DEF EngineInv, Recorded, Attempts
<1>5. /\ pc' = "registered" => phase'[cur'] = "queued"
      /\ pc' = "marked" => phase'[cur'] = "succeeded"
      /\ pc' = "marked_dead" => phase'[cur'] = "dead"
  BY <1>2
<1>6. /\ pc' \in Nacked => /\ cur' \notin dlq' /\ stored'.st[cur'] = q'.st[cur']
                           /\ q'.st[cur'] \in {"pending", "dead"}
      /\ pc' \in {"nacked_dead", "marked_dead"} => q'.st[cur'] = "dead"
  BY DEF Nacked
<1>. QED
  BY <1>3, <1>4, <1>5, <1>6 DEF Recorded

\* A step after which the engine is not settling anything.
LEMMA UnsettledKept ==
    ASSUME EngineInv, UNCHANGED <<phase, dlq>>, stored' = stored, Attempts(q)',
           pc' \notin Nacked \union {"registered", "marked"}
    PROVE  Recorded'
<1>1. AckedHasSucceeded' /\ FiledIsDead' /\ Attempts(stored)'
  BY DEF EngineInv, Recorded, AckedHasSucceeded, FiledIsDead, Attempts
<1>. QED
  BY <1>1 DEF Recorded, Nacked

LEMMA EngineKeepsRecords ==
    ASSUME EngineInv,
           \/ \E k \in Keys : SubmitDuplicate(k) \/ Register(k)
           \/ AllowCall \/ NothingDue \/ MarkProcessing \/ HandlerReturns
           \/ MarkSucceeded \/ MarkQueued \/ MarkDead \/ FileDeadLetter \/ TimeoutPasses
           \/ Interrupt \/ Crash \/ Restart
    PROVE  Recorded'
<1>1. Attempts(q) /\ Attempts(stored) /\ Recorded /\ cur \in Keys \union {NoKey}
  BY DEF EngineInv, Recorded, Ready, EngineTypes
<1>2. CASE \/ \E k \in Keys : SubmitDuplicate(k)
           \/ AllowCall \/ NothingDue \/ HandlerReturns \/ Interrupt
  <2>1. /\ UNCHANGED <<q, stored, phase, dlq>>
        /\ pc' \in {"idle", "admitted", "handled"}
    BY <1>2 DEF SubmitDuplicate, AllowCall, NothingDue, HandlerReturns, Interrupt, At, Goto,
                queueVars
  <2>2. Attempts(q)'
    BY <1>1, <2>1 DEF Attempts
  <2>. QED
    BY <2>1, <2>2, UnsettledKept DEF Nacked
<1>3. CASE Crash
  <2>1. q' = P!EmptyQueue /\ UNCHANGED <<stored, phase, dlq>> /\ pc' = "idle"
    BY <1>3, SameEmpty DEF Crash, Goto
  <2>2. Attempts(q)'
    BY <2>1, EngineAssumption DEF Attempts, P!EmptyQueue
  <2>. QED
    BY <2>1, <2>2, UnsettledKept DEF Nacked
<1>4. CASE Restart
  <2>1. q' = stored /\ UNCHANGED <<stored, phase, dlq>> /\ pc' = "idle"
    BY <1>4 DEF Restart, EngineInv, Ready, EngineTypes
  <2>2. Attempts(q)'
    BY <1>1, <2>1 DEF Attempts
  <2>. QED
    BY <2>1, <2>2, UnsettledKept DEF Nacked
<1>5. CASE TimeoutPasses
  <2>1. UNCHANGED <<q, stored, phase, dlq, pc, cur>>
    BY <1>5 DEF TimeoutPasses, queueVars
  <2>. QED
    BY <1>1, <2>1 DEF Recorded, Attempts, AckedHasSucceeded, FiledIsDead
<1>6. ASSUME NEW k \in Keys, Register(k) PROVE Recorded'
  <2>1. /\ UNCHANGED <<q, stored, dlq>> /\ phase[k] = "none" /\ pc' = "registered" /\ cur' = k
        /\ phase' = [phase EXCEPT ![k] = "queued"]
    BY <1>6 DEF Register, At, Goto, queueVars
  <2>2. stored.st[k] = "absent"
    BY <2>1 DEF EngineInv, Ready, FreshKeys, Fresh
  <2>3. k \notin dlq
    BY <1>1, <2>2 DEF Recorded, FiledIsDead
  <2>. QED
    BY <2>1, <2>2, <2>3, PhaseKept DEF Places, Nacked
<1>7. CASE MarkProcessing \/ MarkSucceeded
  <2>1. /\ UNCHANGED <<q, stored, dlq>> /\ pc \in {"dequeued", "handled"} /\ cur' = cur
        /\ \/ phase' = [phase EXCEPT ![cur] = "processing"] /\ pc' = "running"
           \/ phase' = [phase EXCEPT ![cur] = "succeeded"] /\ pc' = "marked"
    BY <1>7 DEF MarkProcessing, MarkSucceeded, At, Goto, queueVars
  <2>2. cur \in Keys /\ stored.st[cur] = "processing"
    BY <2>1, QueueFacts DEF EngineInv, Ready, EngineTypes, Free, Holding
  <2>3. cur \notin dlq
    BY <1>1, <2>2 DEF Recorded, FiledIsDead
  <2>. QED
    BY <2>1, <2>2, <2>3, PhaseKept DEF Places, Nacked
<1>8. CASE MarkQueued
  <2>1. /\ UNCHANGED <<q, stored, dlq>> /\ pc = "nacked"
        /\ phase' = [phase EXCEPT ![cur] = "queued"]
        /\ \/ q.st[cur] = "dead" /\ pc' = "nacked_dead" /\ cur' = cur
           \/ pc' = "idle"
    BY <1>8 DEF MarkQueued, At, Goto, queueVars
  <2>2. /\ cur \in Keys /\ cur \notin dlq /\ stored.st[cur] = q.st[cur]
        /\ q.st[cur] \in {"pending", "dead"}
    BY <1>1, <2>1 DEF Recorded, Nacked, EngineInv, Ready, EngineTypes, Free
  <2>. QED
    BY <2>1, <2>2, PhaseKept DEF Places, Nacked
<1>9. CASE MarkDead
  <2>1. /\ UNCHANGED <<q, stored, dlq>> /\ pc = "nacked_dead"
        /\ phase' = [phase EXCEPT ![cur] = "dead"] /\ pc' = "marked_dead" /\ cur' = cur
    BY <1>9 DEF MarkDead, At, Goto, queueVars
  <2>2. /\ cur \in Keys /\ cur \notin dlq /\ stored.st[cur] = q.st[cur] /\ q.st[cur] = "dead"
    BY <1>1, <2>1 DEF Recorded, Nacked, EngineInv, Ready, EngineTypes, Free
  <2>. QED
    BY <2>1, <2>2, PhaseKept DEF Places, Nacked
<1>10. CASE FileDeadLetter
  <2>1. /\ UNCHANGED <<q, stored, phase>> /\ pc = "marked_dead" /\ pc' = "idle"
        /\ dlq' = dlq \union {cur}
    BY <1>10 DEF FileDeadLetter, At, Goto, queueVars
  <2>2. stored.st[cur] = "dead" /\ phase[cur] = "dead"
    BY <1>1, <2>1 DEF Recorded, Nacked
  <2>3. AckedHasSucceeded' /\ FiledIsDead' /\ Attempts(q)' /\ Attempts(stored)'
    BY <1>1, <2>1, <2>2 DEF Recorded, AckedHasSucceeded, FiledIsDead, Attempts
  <2>. QED
    BY <2>1, <2>3 DEF Recorded, Nacked
<1>. QED
  BY <1>2, <1>3, <1>4, <1>5, <1>6, <1>7, <1>8, <1>9, <1>10

LEMMA EngineInvStep == ASSUME EngineInv, [Next]_vars PROVE EngineInv'
<1>1. Ready' /\ [P!Next]_(P!vars)
  BY EngineStep DEF EngineInv
<1>2. P!IInv' /\ P!FileMatches'
  BY <1>1, QueueAssumptions, P!NextStep, P!MatchesKept DEF EngineInv, QueueInv
<1>3. Recorded'
  <2>1. CASE UNCHANGED vars
    BY <2>1 DEF vars, EngineInv, Recorded, Attempts, AckedHasSucceeded, FiledIsDead
  <2>2. CASE Next
    BY <2>2, QueueKeepsRecords, EngineKeepsRecords DEF Next, Processing, Settling
  <2>. QED
    BY <2>1, <2>2
<1>. QED
  BY <1>1, <1>2, <1>3 DEF EngineInv, QueueInv

LEMMA EngineInvInit == Init => EngineInv
<1>. SUFFICES ASSUME Init PROVE EngineInv
  OBVIOUS
<1>1. Ready /\ P!Init
  BY ReadyInit
<1>2. P!IInv /\ P!FileMatches
  BY <1>1, QueueAssumptions, P!InitHolds, P!InitMatches
<1>3. /\ q = P!EmptyQueue /\ stored = P!EmptyQueue /\ pc = "idle" /\ dlq = {}
  BY SameEmpty DEF Init
<1>4. Recorded
  BY <1>3, EngineAssumption
  DEF Recorded, Attempts, AckedHasSucceeded, FiledIsDead, Nacked, P!EmptyQueue
<1>. QED
  BY <1>1, <1>2, <1>4 DEF EngineInv, QueueInv

\* The engine's place, its queue and the files it has written so far belong together,
\* in every interleaving of its steps with crashes and interrupts.
THEOREM EngineInvariant == Spec => []EngineInv
  BY EngineInvInit, EngineInvStep, PTL DEF Spec

\* A message the queue has acked is recorded as succeeded, whatever crashes,
\* interrupts, evictions and re-deliveries come between.
THEOREM EngineAcksTheSucceeded == Spec => []AckedHasSucceeded
<1>1. EngineInv => AckedHasSucceeded
  BY DEF EngineInv, Recorded
<1>. QED
  BY <1>1, EngineInvariant, PTL

-----------------------------------------------------------------------------
(* Between two operations of a run without crashes and interrupts, queue,   *)
(* registry and dead-letter files agree about every message, as long as     *)
(* there are no more messages than the queue lists: what the limit evicts   *)
(* is dead in the queue and queued in the registry.                         *)

KeysFit == IsFiniteSet(Keys) /\ Cardinality(Keys) <= MaxPending

Agree(x, registered, files, k) ==
    /\ registered[k] = "none" <=> x.st[k] = "absent"
    /\ registered[k] = "queued" <=> x.st[k] = "pending" \/ k \in x.processing
    /\ registered[k] = "succeeded" <=> x.st[k] = "acked"
    /\ registered[k] = "dead" <=> x.st[k] = "dead"
    /\ k \in files <=> x.st[k] = "dead"

Agrees(k) == Agree(q, phase, dlq, k)

\* All messages agree but the one the engine works on.
OthersAgree == faults = 0 => up /\ \A k \in Keys : Free \/ k # cur => Agrees(k)

\* A list that names each message once is not longer than there are messages.
LEMMA NothingEvicted ==
    ASSUME KeysFit, NEW x \in P!QueueImage, P!Listed(x)
    PROVE  P!Evicted(x) = x
<1>1. /\ x.pending \in [1..Len(x.pending) -> Keys] /\ Len(x.pending) \in Nat
      /\ DOMAIN x.pending = 1..Len(x.pending)
  BY DEF P!QueueImage
<1>2. \A i, j \in 1..Len(x.pending) : x.pending[i] = x.pending[j] => i = j
  BY <1>1 DEF P!Listed, P!Distinct
<1>3. Cardinality(Keys) \in Nat /\ MaxPending \in Nat
  BY EngineAssumption, FS_CardinalityType DEF KeysFit
<1>4. /\ IsFiniteSet(1..Len(x.pending))
      /\ Cardinality(1..Len(x.pending)) = Len(x.pending)
  <2>1. /\ IsFiniteSet(1..Len(x.pending))
        /\ Cardinality(1..Len(x.pending)) =
              IF 1 > Len(x.pending) THEN 0 ELSE Len(x.pending) - 1 + 1
    BY <1>1, FS_Interval
  <2>. QED
    BY <1>1, <2>1
<1>5. ~(Cardinality(Keys) < Len(x.pending))
  BY <1>1, <1>2, <1>4, FS_PigeonHole DEF KeysFit
<1>6. Len(x.pending) - MaxPending <= 0
  BY <1>1, <1>3, <1>5 DEF KeysFit
<1>. QED
  BY <1>6 DEF P!Evicted

\* One message changes, and is left to the engine or agrees.
LEMMA OneChange ==
    ASSUME EngineInv, OthersAgree, NEW m \in Keys, Free \/ cur = m, faults' = faults, up' = up,
           NEW v, q'.st = [q.st EXCEPT ![m] = v],
           \A k \in Keys \ {m} : /\ k \in q'.processing <=> k \in q.processing
                                 /\ phase'[k] = phase[k]
                                 /\ k \in dlq' <=> k \in dlq,
           faults = 0 => (~Free' /\ cur' = m) \/ Agree(q', phase', dlq', m)
    PROVE  OthersAgree'
<1>. SUFFICES ASSUME faults = 0
              PROVE  up' /\ \A k \in Keys : Free' \/ k # cur' => Agrees(k)'
  BY DEF OthersAgree
<1>1. q.st \in [Keys -> P!Status]
  BY DEF EngineInv, Ready, EngineTypes, P!QueueImage
<1>2. \A k \in Keys \ {m} : q'.st[k] = q.st[k]
  BY <1>1
<1>3. \A k \in Keys \ {m} : Agrees(k)
  BY DEF OthersAgree
<1>4. \A k \in Keys \ {m} : Agrees(k)'
  BY <1>2, <1>3 DEF Agrees, Agree
<1>5. Agree(q', phase', dlq', m) => Agrees(m)'
  BY DEF Agrees
<1>. QED
  BY <1>4, <1>5 DEF OthersAgree

LEMMA EnqueueAgrees ==
    ASSUME KeysFit, EngineInv, OthersAgree, EnqueueSubmitted
    PROVE  OthersAgree'
<1>1. /\ UNCHANGED <<phase, dlq, faults, up>> /\ pc = "registered"
      /\ q' = P!Evicted(P!Enqueued(q, cur))
  BY SameEffects DEF EnqueueSubmitted, At
<1>2. /\ q \in P!QueueImage /\ cur \in Keys /\ 0 \in Nat /\ ~Free
      /\ q.st[cur] = "absent" /\ stored.st[cur] = "absent" /\ phase[cur] = "queued"
  BY <1>1 DEF EngineInv, Ready, EngineTypes, FreshKeys, Fresh, Free, Recorded
<1>3. cur \notin q.processing /\ P!Listed(q)
  BY <1>2, QueueFacts DEF EngineInv, Ready
<1>4. P!Enqueued(q, cur) \in P!QueueImage /\ P!Listed(P!Enqueued(q, cur))
  BY <1>2, <1>3, QueueAssumptions, EffectTypes, P!EffectsListed
<1>5. q' = P!Enqueued(q, cur)
  BY <1>1, <1>4, NothingEvicted
<1>6. q'.st = [q.st EXCEPT ![cur] = "pending"] /\ q'.processing = q.processing
  BY <1>2, <1>5, Fields
<1>7. cur \notin dlq
  BY <1>2 DEF EngineInv, Recorded, FiledIsDead
<1>8. q'.st[cur] = "pending"
  BY <1>2, <1>6 DEF P!QueueImage
<1>9. Agree(q', phase', dlq', cur)
  BY <1>1, <1>2, <1>6, <1>7, <1>8 DEF Agrees, Agree
<1>10. faults = 0 => up' /\ \A k \in Keys : Agrees(k)'
  <2>. SUFFICES ASSUME faults = 0, NEW k \in Keys, k # cur PROVE up' /\ Agrees(k)'
    BY <1>1, <1>9 DEF OthersAgree, Agrees
  <2>1. up /\ Agrees(k)
    BY DEF OthersAgree
  <2>2. q'.st[k] = q.st[k]
    BY <1>2, <1>6 DEF P!QueueImage
  <2>. QED
    BY <1>1, <1>6, <2>1, <2>2 DEF Agrees, Agree
<1>. QED
  BY <1>1, <1>10 DEF OthersAgree

LEMMA QueueAgrees ==
    ASSUME EngineInv, OthersAgree,
           \/ \E k \in Keys : TakeNext(k) \/ Recover(k)
           \/ AckSucceeded
           \/ \E permanent \in BOOLEAN : HandlerRaises(permanent)
    PROVE  OthersAgree'
<1>1. ASSUME NEW k \in Keys, TakeNext(k) PROVE OthersAgree'
  <2>1. /\ UNCHANGED <<phase, dlq, faults, up>> /\ pc = "admitted"
        /\ pc' = "dequeued" /\ cur' = k
    BY <1>1 DEF TakeNext, Goto, At
  <2>2. Changes(k, "processing")
    BY <1>1, TakeChanges
  <2>. QED
    BY <2>1, <2>2, OneChange DEF Changes, Free
<1>2. ASSUME NEW k \in Keys, Recover(k) PROVE OthersAgree'
  <2>1. /\ UNCHANGED <<phase, dlq, faults, up, pc, cur>> /\ pc = "idle" /\ k \in q.processing
    BY <1>2 DEF Recover, At
  <2>2. Changes(k, "pending") /\ k \notin q'.processing
    BY <1>2, RecoverChanges
  <2>3. q'.st[k] = "pending" /\ q.st[k] = "processing"
    BY <2>1, <2>2, QueueFacts DEF Changes, EngineInv, Ready, EngineTypes, P!QueueImage
  <2>4. faults = 0 => Agree(q', phase', dlq', k)
    <3>. SUFFICES ASSUME faults = 0 PROVE Agree(q', phase', dlq', k)
      OBVIOUS
    <3>1. Agrees(k)
      BY <2>1 DEF OthersAgree, Free
    <3>. QED
      BY <2>1, <2>2, <2>3, <3>1 DEF Agrees, Agree
  <2>. QED
    BY <2>1, <2>2, <2>4, OneChange DEF Changes, Free
<1>3. CASE AckSucceeded
  <2>1. UNCHANGED <<phase, dlq, faults, up>> /\ pc' = "idle" /\ pc = "marked"
    BY <1>3 DEF AckSucceeded, Goto, At
  <2>2. /\ cur \in Keys /\ phase[cur] = "succeeded" /\ stored.st[cur] = "processing"
        /\ q \in P!QueueImage
    BY <2>1, QueueFacts DEF EngineInv, Ready, EngineTypes, Free, Holding, Recorded
  <2>3. cur \notin dlq
    BY <2>2 DEF EngineInv, Recorded, FiledIsDead
  <2>4. q' = P!Acked(q, cur)
    BY <1>3, SameEffects DEF AckSucceeded
  <2>5. Changes(cur, "acked")
    BY <1>3, AckChanges
  <2>6. q'.st[cur] = "acked" /\ cur \notin q'.processing
    <3>1. q'.st = [q.st EXCEPT ![cur] = "acked"] /\ q'.processing = q.processing \ {cur}
      BY <2>2, <2>4, Fields
    <3>2. q.st \in [Keys -> P!Status]
      BY <2>2 DEF P!QueueImage
    <3>. QED
      BY <2>2, <3>1, <3>2
  <2>7. Agree(q', phase', dlq', cur)
    BY <2>1, <2>2, <2>3, <2>6 DEF Agrees, Agree
  <2>. QED
    BY <2>1, <2>2, <2>5, <2>7, OneChange DEF Changes
<1>4. ASSUME NEW permanent \in BOOLEAN, HandlerRaises(permanent) PROVE OthersAgree'
  <2>1. /\ UNCHANGED <<phase, dlq, faults, up>> /\ pc = "running" /\ cur' = cur
        /\ pc' \in {"nacked", "nacked_dead"}
    BY <1>4 DEF HandlerRaises, Goto, At
  <2>2. cur \in Keys /\ ~Free'
    BY <2>1 DEF EngineInv, Ready, EngineTypes, Free
  <2>3. PICK v : Changes(cur, v)
    BY <1>4, NackChanges
  <2>. QED
    BY <2>1, <2>2, <2>3, OneChange DEF Changes
<1>. QED
  BY <1>1, <1>2, <1>3, <1>4

LEMMA RegistryAgrees ==
    ASSUME EngineInv, OthersAgree,
           \/ \E k \in Keys : SubmitDuplicate(k) \/ Register(k)
           \/ AllowCall \/ NothingDue \/ MarkProcessing \/ HandlerReturns
           \/ MarkSucceeded \/ MarkQueued \/ MarkDead \/ FileDeadLetter \/ TimeoutPasses
           \/ Interrupt \/ Crash \/ Restart
    PROVE  OthersAgree'
<1>1. /\ faults \in Nat /\ phase \in [Keys -> Phases] /\ q.st \in [Keys -> P!Status]
      /\ ~Free => cur \in Keys
  BY DEF EngineInv, Ready, EngineTypes, P!QueueImage
<1>2. CASE \/ \E k \in Keys : SubmitDuplicate(k)
           \/ AllowCall \/ NothingDue \/ HandlerReturns \/ TimeoutPasses
  <2>1. /\ UNCHANGED <<q, phase, dlq, faults, up>>
        /\ (Free' <=> Free) /\ (Free \/ cur' = cur)
    BY <1>2 DEF SubmitDuplicate, AllowCall, NothingDue, HandlerReturns, TimeoutPasses, At, Goto,
                queueVars, Free
  <2>. QED
    BY <2>1 DEF OthersAgree, Agrees, Agree
<1>3. CASE Interrupt \/ Crash
  <2>1. faults' = faults + 1
    BY <1>3 DEF Interrupt, Crash
  <2>. QED
    BY <1>1, <2>1 DEF OthersAgree
<1>4. CASE Restart
  BY <1>4 DEF Restart, OthersAgree
<1>5. ASSUME NEW k \in Keys, Register(k) PROVE OthersAgree'
  <2>1. /\ UNCHANGED <<q, dlq, faults, up>> /\ pc = "idle" /\ pc' = "registered" /\ cur' = k
        /\ phase' = [phase EXCEPT ![k] = "queued"]
    BY <1>5 DEF Register, At, Goto, queueVars
  <2>2. q'.st = [q.st EXCEPT ![k] = q.st[k]] /\ \A m \in Keys \ {k} : phase'[m] = phase[m]
    BY <1>1, <2>1
  <2>. QED
    BY <2>1, <2>2, OneChange DEF Free
<1>6. CASE MarkProcessing \/ MarkSucceeded \/ MarkQueued \/ MarkDead \/ FileDeadLetter
  <2>1. /\ UNCHANGED <<q, faults, up>> /\ ~Free /\ cur \in Keys
        /\ phase' = phase \/ \E v : phase' = [phase EXCEPT ![cur] = v]
        /\ dlq' \in {dlq, dlq \union {cur}}
    BY <1>1, <1>6 DEF MarkProcessing, MarkSucceeded, MarkQueued, MarkDead, FileDeadLetter, At, Goto,
                      queueVars, Free
  <2>2. /\ q'.st = [q.st EXCEPT ![cur] = q.st[cur]]
        /\ \A m \in Keys \ {cur} : phase'[m] = phase[m] /\ (m \in dlq' <=> m \in dlq)
    BY <1>1, <2>1
  <2>3. ASSUME Free' PROVE Agree(q', phase', dlq', cur)
    <3>1. CASE MarkQueued
      <4>1. /\ pc = "nacked" /\ dlq' = dlq /\ phase' = [phase EXCEPT ![cur] = "queued"]
            /\ q.st[cur] # "dead"
        BY <2>3, <3>1 DEF MarkQueued, At, Goto, Free
      <4>2. q.st[cur] = "pending" /\ cur \notin dlq
        BY <4>1 DEF EngineInv, Recorded, Nacked
      <4>. QED
        BY <1>1, <2>1, <4>1, <4>2 DEF Agrees, Agree
    <3>2. CASE FileDeadLetter
      <4>1. pc = "marked_dead" /\ phase' = phase /\ dlq' = dlq \union {cur}
        BY <3>2 DEF FileDeadLetter, At
      <4>2. q.st[cur] = "dead" /\ phase[cur] = "dead"
        BY <4>1 DEF EngineInv, Recorded, Nacked
      <4>3. cur \notin q.processing
        BY <4>2, QueueFacts DEF EngineInv, Ready
      <4>. QED
        BY <2>1, <4>1, <4>2, <4>3 DEF Agrees, Agree
    <3>3. CASE MarkProcessing \/ MarkSucceeded \/ MarkDead
      BY <2>3, <3>3 DEF MarkProcessing, MarkSucceeded, MarkDead, Goto, Free
    <3>. QED
      BY <1>6, <3>1, <3>2, <3>3
  <2>4. ASSUME ~Free' PROVE cur' = cur
    BY <1>6, <2>4
    DEF MarkProcessing, MarkSucceeded, MarkQueued, MarkDead, FileDeadLetter, Goto, Free
  <2>. QED
    BY <2>1, <2>2, <2>3, <2>4, OneChange
<1>. QED
  BY <1>2, <1>3, <1>4, <1>5, <1>6

LEMMA AgreeStep ==
    ASSUME KeysFit, EngineInv, OthersAgree, [Next]_vars
    PROVE  OthersAgree'
<1>1. CASE UNCHANGED vars
  BY <1>1 DEF vars, OthersAgree, Agrees, Agree, Free
<1>2. CASE Next
  BY <1>2, EnqueueAgrees, QueueAgrees, RegistryAgrees DEF Next, Processing, Settling
<1>. QED
  BY <1>1, <1>2

LEMMA EngineShape == EngineInv => TypeOK /\ FiledIsDead
<1>. SUFFICES ASSUME EngineInv PROVE TypeOK /\ FiledIsDead
  OBVIOUS
<1>1. ASSUME NEW x \in P!QueueImage, Attempts(x)
      PROVE  x \in [st : [Keys -> D!Status], att : [Keys -> 0..MaxAttempts],
                    wait : SUBSET Keys, pending : Seq(Keys), processing : SUBSET Keys,
                    dead : SUBSET Keys, acked : SUBSET Keys]
  <2>1. MaxAttempts \in Nat /\ x.att \in [Keys -> Nat]
    BY EngineAssumption DEF P!QueueImage
  <2>2. x.att \in [Keys -> 0..MaxAttempts]
    BY <1>1, <2>1 DEF Attempts
  <2>. QED
    BY <2>2 DEF P!QueueImage, P!Status, D!Status
<1>. QED
  BY <1>1 DEF EngineInv, Ready, EngineTypes, Recorded, TypeOK

\* Whatever crashes: queue, registry and dead-letter files keep their shape, no
\* message is attempted more often than the policy allows, and a dead-letter file is
\* one of a message that is dead in the queue and in the registry.
THEOREM EngineTypesAndFiles == Spec => [](TypeOK /\ FiledIsDead)
  BY EngineShape, EngineInvariant, PTL

\* As long as the messages fit into the queue, queue, registry and dead-letter files
\* agree whenever nothing is under way and nothing has crashed.
THEOREM EngineFilesAgree == ASSUME KeysFit PROVE Spec => []FilesAgree
<1>1. Init => OthersAgree
  <2>1. SUFFICES ASSUME Init PROVE \A k \in Keys : Agrees(k)
    BY DEF Init, OthersAgree
  <2>2. /\ q = P!EmptyQueue /\ phase = [k \in Keys |-> "none"] /\ dlq = {}
    BY <2>1, SameEmpty DEF Init
  <2>. QED
    BY <2>2 DEF Agrees, Agree, P!EmptyQueue
<1>2. EngineInv /\ OthersAgree /\ [Next]_vars => OthersAgree'
  BY AgreeStep
<1>3. EngineInv /\ OthersAgree => FilesAgree
  BY EngineShape DEF OthersAgree, Agrees, Agree, Free, AgreeWhenQuiet, FilesAgree
<1>. QED
  BY <1>1, <1>2, <1>3, EngineInvariant, PTL DEF Spec

=============================================================================
