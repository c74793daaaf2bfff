------------------------- MODULE DurableQueueProofs -------------------------
(* Proofs about DurableQueue, for every set of messages and workers, every  *)
(* limit and every number of faults.                                        *)
EXTENDS DurableQueue, SequenceTheorems, TLAPS

-----------------------------------------------------------------------------
(* The effects of the journal records preserve the shape of an image.       *)

\* Removing an id from a list of ids, and adding one, yields a list of ids.
LEMMA ListType ==
    ASSUME NEW s \in Seq(Ids), NEW m \in Ids
    PROVE  Without(s, m) \in Seq(Ids) /\ With(s, m) \in Seq(Ids)
<1>1. With(s, m) \in Seq(Ids)
    BY DEF With
<1>2. ASSUME NEW i \in DOMAIN s
      PROVE  RemoveAt(s, i) \in Seq(Ids)
    <2>1. i \in 1..Len(s) /\ Len(s) \in Nat
        OBVIOUS
    <2>2. SubSeq(s, 1, i - 1) \in Seq(Ids)
        BY <2>1, SubSeqProperties
    <2>3. SubSeq(s, i + 1, Len(s)) \in Seq(Ids)
        BY <2>1, SubSeqProperties
    <2>. QED
        BY <2>2, <2>3, ConcatProperties DEF RemoveAt
<1>. QED
    BY <1>1, <1>2 DEF Without

\* Each record's effect maps an image to an image.
LEMMA EffectType ==
    ASSUME NEW q \in QueueImage, NEW m \in Ids, NEW a \in Nat
    PROVE  /\ Enqueued(q, m) \in QueueImage
           /\ Leased(q, m) \in QueueImage
           /\ Acked(q, m) \in QueueImage
           /\ Retried(q, m, a) \in QueueImage
           /\ Buried(q, m) \in QueueImage
           /\ Exhausted(q, m) \in QueueImage
           /\ Requeued(q, m) \in QueueImage
<1>1. /\ q.pending \in Seq(Ids)
      /\ Without(q.pending, m) \in Seq(Ids)
      /\ With(q.pending, m) \in Seq(Ids)
      /\ Append(q.pending, m) \in Seq(Ids)
    BY ListType DEF QueueImage
<1>2. q.att[m] + 1 \in Nat
    BY DEF QueueImage
<1>. QED
    BY <1>1, <1>2 DEF QueueImage, Status, Enqueued, Leased, Acked, Retried,
                      Buried, Exhausted, Requeued

\* Evicting the oldest pending ids maps an image to an image.
LEMMA EvictedType ==
    ASSUME NEW q \in QueueImage
    PROVE  Evicted(q) \in QueueImage
<1>. DEFINE excess == Len(q.pending) - MaxPending
            gone == {m \in Ids : q.st[m] = "pending" /\
                                 \E i \in DOMAIN q.pending : i <= excess /\ q.pending[i] = m}
<1>1. q.pending \in Seq(Ids) /\ Len(q.pending) \in Nat /\ excess \in Int
    BY BoundsAssumption DEF QueueImage
<1>2. CASE excess <= 0
    BY <1>2 DEF Evicted
<1>3. CASE ~ (excess <= 0)
    <2>1. SubSeq(q.pending, excess + 1, Len(q.pending)) \in Seq(Ids)
        BY <1>1, <1>3, SubSeqProperties, ElementOfSeq
    <2>2. [m \in Ids |-> IF m \in gone THEN "dead" ELSE q.st[m]] \in [Ids -> Status]
        BY DEF QueueImage, Status
    <2>3. Evicted(q) = [q EXCEPT !.pending = SubSeq(@, excess + 1, Len(@)),
                            !.st = [m \in Ids |-> IF m \in gone THEN "dead" ELSE @[m]],
                            !.dead = @ \union gone]
        BY <1>3 DEF Evicted
    <2>. HIDE DEF excess, gone
    <2>4. gone \subseteq Ids
        BY DEF gone
    <2>. QED
        BY <2>1, <2>2, <2>3, <2>4 DEF QueueImage
<1>. QED
    BY <1>2, <1>3

\* Eviction only turns pending messages into dead ones.
LEMMA EvictedStatus ==
    ASSUME NEW q \in QueueImage, NEW m \in Ids
    PROVE  /\ Evicted(q).st[m] # q.st[m] => q.st[m] = "pending" /\ Evicted(q).st[m] = "dead"
           /\ Evicted(q).processing = q.processing
    BY DEF Evicted, QueueImage

\* What each record's effect does to the status of ids and to the leased ones.
LEMMA EffectStatus ==
    ASSUME NEW q \in QueueImage, NEW m \in Ids, NEW a \in Nat
    PROVE  /\ Enqueued(q, m).st = [q.st EXCEPT ![m] = "pending"]
           /\ Enqueued(q, m).processing = q.processing
           /\ Leased(q, m).st = [q.st EXCEPT ![m] = "processing"]
           /\ Leased(q, m).processing = q.processing \union {m}
           /\ Acked(q, m).st = [q.st EXCEPT ![m] = "acked"]
           /\ Acked(q, m).processing = q.processing \ {m}
           /\ Retried(q, m, a).st = [q.st EXCEPT ![m] = "pending"]
           /\ Retried(q, m, a).processing = q.processing \ {m}
           /\ Buried(q, m).st = [q.st EXCEPT ![m] = "dead"]
           /\ Buried(q, m).processing = q.processing \ {m}
           /\ Exhausted(q, m).st = [q.st EXCEPT ![m] = "dead"]
           /\ Exhausted(q, m).processing = q.processing \ {m}
           /\ Requeued(q, m).st = [q.st EXCEPT ![m] = "pending"]
           /\ Requeued(q, m).processing = q.processing \ {m}
    BY DEF QueueImage, Enqueued, Leased, Acked, Retried, Buried, Exhausted, Requeued

-----------------------------------------------------------------------------
(* What the operations have in common: one id changes in memory, the same   *)
(* id changes in the record appended, and an acknowledged message is not    *)
(* touched unless its lease was taken back.                                 *)

Leases(q) == \A m \in q.processing : q.st[m] = "processing"

\* An operation on the id m whose record gives it status v keeps what the
\* journal promises, and every journalled ack.
LEMMA OperationStep ==
    ASSUME IInv, up,
           NEW m \in Ids, NEW v \in Status \ {"absent"}, NEW ok \in BOOLEAN,
           NEW L \in QueueImage, mem' \in QueueImage, Journal(L, ok),
           Leases(mem'), Leases(L) \/ broken,
           L.st = [log.st EXCEPT ![m] = v],
           mem'.st[m] # "absent",
           \A x \in Ids \ {m} : mem'.st[x] # mem.st[x] => mem.st[x] = "pending" /\ mem'.st[x] = "dead",
           mem.st[m] = "acked" => m \in reclaimed \/ v = "acked",
           v = "acked" => mem'.st[m] = "acked",
           held' \in [Workers -> Ids \union {NoMsg}],
           accepted' \in {accepted, accepted \union {m}},
           ~ok => accepted' = accepted,
           reclaimed' \in {reclaimed, reclaimed \union {m}}
    PROVE  /\ TypeOK' /\ AcceptedIsDurable' /\ JournalLags'
           /\ \A x \in Ids : disk.st[x] = "acked" /\ x \notin reclaimed => disk'.st[x] = "acked"
<1>. USE DEF IInv
<1>1. /\ log' = IF broken THEN log ELSE L
      /\ disk' \in {disk, log'}
      /\ ok => disk' = log'
      /\ broken' = broken /\ up' = up
      /\ faults' \in Nat
    BY DEF Journal, TypeOK
<1>2. TypeOK'
    BY <1>1 DEF TypeOK
<1>3. log.st \in [Ids -> Status]
    BY DEF TypeOK, QueueImage
<1>4. /\ Leases(mem) /\ Leases(log) /\ Leases(disk)
      /\ broken => log = disk
    BY DEF JournalLags, Leases
<1>a. ASSUME NEW x \in Ids
      PROVE  /\ disk.st[x] # "absent" => log.st[x] # "absent"
             /\ disk.st[x] = "acked" /\ x \notin reclaimed => log.st[x] = "acked"
    BY DEF JournalLags
<1>b. ASSUME ~broken, NEW x \in Ids
      PROVE  /\ log.st[x] # "absent" => mem.st[x] # "absent"
             /\ log.st[x] = "acked" /\ x \notin reclaimed => mem.st[x] = "acked"
    BY <1>b DEF JournalLags
<1>5. \A x \in Ids : x # m => L.st[x] = log.st[x]
    BY <1>3
<1>6. L.st[m] = v
    BY <1>3
<1>7. CASE broken
    <2>1. log' = log /\ disk' = disk /\ log = disk
        BY <1>1, <1>4, <1>7
    <2>2. JournalLags'
        <3>1. \A x \in Ids : /\ disk'.st[x] # "absent" => log'.st[x] # "absent"
                             /\ disk'.st[x] = "acked" /\ x \notin reclaimed' => log'.st[x] = "acked"
            BY <2>1
        <3>. QED
            BY <3>1, <2>1, <1>1, <1>4, <1>7 DEF JournalLags, Leases
    <2>3. AcceptedIsDurable'
        BY <1>1, <1>7 DEF AcceptedIsDurable
    <2>. QED
        BY <1>2, <2>1, <2>2, <2>3
<1>8. CASE ~broken
    <2>1. log' = L /\ disk' \in {disk, L} /\ (ok => disk' = L)
        BY <1>1, <1>8
    <2>2. ASSUME NEW x \in Ids, disk.st[x] # "absent" PROVE L.st[x] # "absent"
        BY <2>2, <1>a, <1>5, <1>6
    <2>3. ASSUME NEW x \in Ids, disk.st[x] = "acked", x \notin reclaimed
          PROVE  L.st[x] = "acked"
        <3>1. log.st[x] = "acked" /\ mem.st[x] = "acked"
            BY <2>3, <1>a, <1>b, <1>8
        <3>2. CASE x = m
            BY <3>1, <3>2, <2>3, <1>6
        <3>3. CASE x # m
            BY <3>1, <3>3, <1>5
        <3>. QED
            BY <3>2, <3>3
    <2>4. \A x \in Ids : L.st[x] # "absent" => mem'.st[x] # "absent"
        <3>. SUFFICES ASSUME NEW x \in Ids, L.st[x] # "absent"
                      PROVE  mem'.st[x] # "absent"
            OBVIOUS
        <3>1. CASE x = m
            BY <3>1
        <3>2. CASE x # m
            <4>1. log.st[x] # "absent"
                BY <3>2, <1>5
            <4>2. mem.st[x] # "absent"
                BY <4>1, <1>b, <1>8
            <4>. QED
                BY <4>2, <3>2
        <3>. QED
            BY <3>1, <3>2
    <2>5. \A x \in Ids : L.st[x] = "acked" /\ x \notin reclaimed => mem'.st[x] = "acked"
        <3>. SUFFICES ASSUME NEW x \in Ids, L.st[x] = "acked", x \notin reclaimed
                      PROVE  mem'.st[x] = "acked"
            OBVIOUS
        <3>1. CASE x = m
            BY <3>1, <1>6
        <3>2. CASE x # m
            <4>1. log.st[x] = "acked"
                BY <3>2, <1>5
            <4>2. mem.st[x] = "acked"
                BY <4>1, <1>b, <1>8
            <4>. QED
                BY <4>2, <3>2
        <3>. QED
            BY <3>1, <3>2
    <2>6. reclaimed \subseteq reclaimed'
        OBVIOUS
    <2>7. JournalLags'
        <3>1. Leases(mem') /\ Leases(log') /\ Leases(disk')
            BY <2>1, <1>4, <1>8
        <3>2. \A x \in Ids : /\ disk'.st[x] # "absent" => log'.st[x] # "absent"
                             /\ disk'.st[x] = "acked" /\ x \notin reclaimed' => log'.st[x] = "acked"
            BY <2>1, <2>2, <2>3, <2>6
        <3>3. \A x \in Ids : /\ log'.st[x] # "absent" => mem'.st[x] # "absent"
                             /\ log'.st[x] = "acked" /\ x \notin reclaimed' => mem'.st[x] = "acked"
            BY <2>1, <2>4, <2>5, <2>6
        <3>4. up' /\ ~broken'
            BY <1>1, <1>8
        <3>. QED
            BY <3>1, <3>2, <3>3, <3>4 DEF JournalLags, Leases
    <2>8. AcceptedIsDurable'
        <3>1. \A x \in accepted : x \in Ids /\ disk.st[x] # "absent"
            BY <1>8 DEF AcceptedIsDurable, TypeOK
        <3>2. \A x \in accepted : disk'.st[x] # "absent"
            BY <3>1, <2>1, <2>2
        <3>3. accepted' # accepted => disk'.st[m] # "absent"
            BY <2>1, <1>6
        <3>. QED
            BY <3>2, <3>3 DEF AcceptedIsDurable
    <2>9. \A x \in Ids : disk.st[x] = "acked" /\ x \notin reclaimed => disk'.st[x] = "acked"
        BY <2>1, <2>3
    <2>. QED
        BY <1>2, <2>7, <2>8, <2>9
<1>. QED
    BY <1>7, <1>8

-----------------------------------------------------------------------------
(* Each operation preserves the invariant and the journalled acks.          *)

Kept == \A x \in Ids : disk.st[x] = "acked" /\ x \notin reclaimed => disk'.st[x] = "acked"

\* The images of a state satisfying the invariant.
LEMMA Images ==
    ASSUME IInv
    PROVE  /\ mem \in QueueImage /\ log \in QueueImage
           /\ mem.st \in [Ids -> Status] /\ log.st \in [Ids -> Status]
           /\ mem.processing \subseteq Ids /\ log.processing \subseteq Ids
           /\ mem.att \in [Ids -> Nat]
           /\ Leases(mem) /\ Leases(log)
           /\ held \in [Workers -> Ids \union {NoMsg}]
           /\ up /\ ~broken => \A m \in Ids : mem.st[m] = "absent" => log.st[m] = "absent"
    BY DEF IInv, TypeOK, QueueImage, JournalLags, Leases

\* enqueue, with the eviction it ends in.
LEMMA EnqueueStep ==
    ASSUME IInv, NEW m \in Ids, NEW ok \in BOOLEAN, Enqueue(m, ok)
    PROVE  IInv' /\ Kept
<1>. DEFINE M == Enqueued(mem, m)
            L == Enqueued(log, m)
<1>1. /\ up /\ mem.st[m] = "absent" /\ mem' = (IF ok THEN Evicted(M) ELSE M) /\ Journal(L, ok)
      /\ held' = held /\ reclaimed' = reclaimed
      /\ accepted' = IF ok THEN accepted \union {m} ELSE accepted
    BY DEF Enqueue
<1>2. M \in QueueImage /\ L \in QueueImage
    BY Images, EffectType
<1>3. /\ M.st = [mem.st EXCEPT ![m] = "pending"] /\ M.processing = mem.processing
      /\ L.st = [log.st EXCEPT ![m] = "pending"] /\ L.processing = log.processing
    BY Images, EffectStatus
<1>. HIDE DEF M, L
<1>4. mem' \in QueueImage
    BY <1>1, <1>2, EvictedType
<1>5. /\ \A x \in Ids : mem'.st[x] # M.st[x] => M.st[x] = "pending" /\ mem'.st[x] = "dead"
      /\ mem'.processing = mem.processing
    BY <1>1, <1>2, <1>3, EvictedStatus
<1>6. \A x \in Ids \ {m} : M.st[x] = mem.st[x]
    BY <1>3, Images
<1>7. m \notin mem.processing /\ (broken \/ m \notin log.processing)
    BY <1>1, Images DEF Leases
<1>8. Leases(mem')
    <2>. SUFFICES ASSUME NEW x \in mem.processing PROVE mem'.st[x] = "processing"
        BY <1>5 DEF Leases
    <2>1. x \in Ids \ {m} /\ mem.st[x] = "processing"
        BY <1>7, Images DEF Leases
    <2>2. M.st[x] = "processing"
        BY <2>1, <1>6
    <2>. QED
        BY <2>1, <2>2, <1>5
<1>9. Leases(L) \/ broken
    BY <1>3, <1>7, Images DEF Leases
<1>10. mem'.st[m] # "absent"
    <2>1. M.st[m] = "pending"
        BY <1>3, Images
    <2>. QED
        BY <2>1, <1>5
<1>11. \A x \in Ids \ {m} : mem'.st[x] # mem.st[x] => mem.st[x] = "pending" /\ mem'.st[x] = "dead"
    BY <1>5, <1>6
<1>12. TypeOK' /\ AcceptedIsDurable' /\ JournalLags' /\ Kept
    BY <1>1, <1>2, <1>3, <1>4, <1>8, <1>9, <1>10, <1>11, Images, OperationStep
    DEF Status, Kept
<1>13. HolderBacked'
    <2>. SUFFICES ASSUME NEW w \in Workers, held[w] # NoMsg, held[w] \notin reclaimed
                  PROVE  mem'.st[held[w]] = "processing" /\ held[w] \in mem'.processing
        BY <1>1 DEF HolderBacked
    <2>1. mem.st[held[w]] = "processing" /\ held[w] \in mem.processing
        BY DEF IInv, HolderBacked
    <2>. QED
        BY <2>1, <1>5, <1>8 DEF Leases
<1>14. ExclusiveHolder'
    BY <1>1 DEF IInv, ExclusiveHolder
<1>. QED
    BY <1>12, <1>13, <1>14 DEF IInv

\* dequeue_due: a message it leases was pending, so no worker whose lease
\* stands holds it.
LEMMA DequeueStep ==
    ASSUME IInv, NEW w \in Workers, NEW m \in Ids, NEW ok \in BOOLEAN, Dequeue(w, m, ok)
    PROVE  IInv' /\ Kept
<1>1. /\ up /\ held[w] = NoMsg /\ mem.st[m] = "pending"
      /\ mem' = Leased(mem, m) /\ Journal(Leased(log, m), ok)
      /\ held' = IF ok THEN [held EXCEPT ![w] = m] ELSE held
      /\ reclaimed' = reclaimed /\ accepted' = accepted
    BY DEF Dequeue, IsNextDue
<1>2. mem' \in QueueImage /\ Leased(log, m) \in QueueImage
    BY <1>1, Images, EffectType
<1>3. /\ mem'.st = [mem.st EXCEPT ![m] = "processing"]
      /\ mem'.processing = mem.processing \union {m}
      /\ Leased(log, m).st = [log.st EXCEPT ![m] = "processing"]
      /\ Leased(log, m).processing = log.processing \union {m}
    <2>1. mem \in QueueImage /\ log \in QueueImage /\ 0 \in Nat
        BY Images
    <2>. QED
        BY <1>1, <2>1, EffectStatus
<1>4. Leases(mem') /\ Leases(Leased(log, m))
    BY <1>3, Images DEF Leases
<1>5. \A x \in Ids \ {m} : mem'.st[x] = mem.st[x]
    BY <1>3, Images
<1>6. mem'.st[m] = "processing"
    BY <1>3, Images
<1>7. held' \in [Workers -> Ids \union {NoMsg}]
    BY <1>1, Images
<1>8. TypeOK' /\ AcceptedIsDurable' /\ JournalLags' /\ Kept
    BY <1>1, <1>2, <1>3, <1>4, <1>5, <1>6, <1>7, OperationStep DEF Status, Kept
<1>9. \A v \in Workers : held[v] = m => m \in reclaimed
    BY <1>1, NoMsgAssumption DEF IInv, HolderBacked
<1>10. \A v \in Workers : held'[v] = held[v] \/ (v = w /\ held'[v] = m)
    BY <1>1, Images
<1>11. HolderBacked'
    <2>. SUFFICES ASSUME NEW v \in Workers, held'[v] # NoMsg, held'[v] \notin reclaimed
                  PROVE  mem'.st[held'[v]] = "processing" /\ held'[v] \in mem'.processing
        BY <1>1 DEF HolderBacked
    <2>1. CASE held'[v] = m
        BY <2>1, <1>3, <1>6
    <2>2. CASE held'[v] # m
        <3>1. held'[v] = held[v]
            BY <2>2, <1>10
        <3>2. held[v] \in mem.processing
            BY <3>1 DEF IInv, HolderBacked
        <3>. QED
            BY <3>1, <3>2, <1>3, <1>4 DEF Leases
    <2>. QED
        BY <2>1, <2>2
<1>12. ExclusiveHolder'
    BY <1>1, <1>9, <1>10 DEF IInv, ExclusiveHolder
<1>. QED
    BY <1>8, <1>11, <1>12 DEF IInv

\* Settling a message, by ack or nack: the holder lets go of it, and no other
\* worker whose lease stands holds it.
LEMMA SettleStep ==
    ASSUME IInv, up, NEW w \in Workers, held[w] # NoMsg,
           NEW v \in Status \ {"absent"}, NEW ok \in BOOLEAN,
           NEW L \in QueueImage, mem' \in QueueImage, Journal(L, ok),
           mem'.st = [mem.st EXCEPT ![held[w]] = v],
           mem'.processing = mem.processing \ {held[w]},
           L.st = [log.st EXCEPT ![held[w]] = v],
           L.processing = log.processing \ {held[w]},
           held' = [held EXCEPT ![w] = NoMsg],
           accepted' = accepted, reclaimed' = reclaimed
    PROVE  IInv' /\ Kept
<1>. DEFINE m == held[w]
<1>1. m \in Ids
    BY Images
<1>2. m \notin reclaimed => mem.st[m] = "processing"
    BY DEF IInv, HolderBacked
<1>3. Leases(mem') /\ Leases(L)
    BY Images, <1>1 DEF Leases
<1>4. \A x \in Ids \ {m} : mem'.st[x] = mem.st[x]
    BY Images, <1>1
<1>5. mem'.st[m] = v
    BY Images, <1>1
<1>6. held' \in [Workers -> Ids \union {NoMsg}]
    BY Images
<1>7. \A u \in Workers : held'[u] # NoMsg => u # w /\ held'[u] = held[u]
    BY Images
<1>8. TypeOK' /\ AcceptedIsDurable' /\ JournalLags' /\ Kept
    <2>. HIDE DEF m
    <2>1. L.st = [log.st EXCEPT ![m] = v]
        BY DEF m
    <2>. QED
        BY <1>1, <1>2, <1>3, <1>4, <1>5, <1>6, <2>1, OperationStep DEF Kept
<1>9. HolderBacked'
    <2>. SUFFICES ASSUME NEW u \in Workers, held'[u] # NoMsg, held'[u] \notin reclaimed
                  PROVE  mem'.st[held'[u]] = "processing" /\ held'[u] \in mem'.processing
        BY DEF HolderBacked
    <2>1. u # w /\ held'[u] = held[u]
        BY <1>7
    <2>2. held[u] \in mem.processing
        BY <2>1 DEF IInv, HolderBacked
    <2>3. held[u] # m
        BY <2>1 DEF IInv, ExclusiveHolder
    <2>. QED
        BY <2>1, <2>2, <2>3, <1>3 DEF Leases
<1>10. ExclusiveHolder'
    BY <1>7 DEF IInv, ExclusiveHolder
<1>. QED
    BY <1>8, <1>9, <1>10 DEF IInv

\* ack.
LEMMA AckStep ==
    ASSUME IInv, NEW w \in Workers, NEW ok \in BOOLEAN, Ack(w, ok)
    PROVE  IInv' /\ Kept
<1>1. /\ held[w] \in Ids /\ held[w] # NoMsg
      /\ mem \in QueueImage /\ log \in QueueImage /\ 0 \in Nat
    BY Images DEF Ack
<1>2. ASSUME NEW q \in QueueImage
      PROVE  /\ Acked(q, held[w]) \in QueueImage
             /\ Acked(q, held[w]).st = [q.st EXCEPT ![held[w]] = "acked"]
             /\ Acked(q, held[w]).processing = q.processing \ {held[w]}
    BY <1>1, EffectType, EffectStatus
<1>. QED
    BY <1>1, <1>2, SettleStep DEF Ack, Status

\* nack, whether it ends in a retry or in the dead letters.
LEMMA NackStep ==
    ASSUME IInv, NEW w \in Workers, NEW permanent \in BOOLEAN, NEW ok \in BOOLEAN,
           Nack(w, permanent, ok)
    PROVE  IInv' /\ Kept
<1>. DEFINE m == held[w]
            attempts == mem.att[m] + 1
<1>1. /\ m \in Ids /\ m # NoMsg
      /\ mem \in QueueImage /\ log \in QueueImage /\ attempts \in Nat
    BY Images DEF Nack
<1>2. CASE mem' = Exhausted(mem, m) /\ Journal(Buried(log, m), ok)
    <2>. HIDE DEF m
    <2>1. /\ Exhausted(mem, m) \in QueueImage
          /\ Exhausted(mem, m).st = [mem.st EXCEPT ![m] = "dead"]
          /\ Exhausted(mem, m).processing = mem.processing \ {m}
        BY <1>1, EffectType, EffectStatus
    <2>2. /\ Buried(log, m) \in QueueImage
          /\ Buried(log, m).st = [log.st EXCEPT ![m] = "dead"]
          /\ Buried(log, m).processing = log.processing \ {m}
        BY <1>1, EffectType, EffectStatus
    <2>. QED
        BY <1>1, <1>2, <2>1, <2>2, SettleStep DEF Nack, Status, m
<1>3. CASE mem' = Retried(mem, m, attempts) /\ Journal(Retried(log, m, attempts), ok)
    <2>. HIDE DEF m, attempts
    <2>1. ASSUME NEW q \in QueueImage, NEW a \in Nat
          PROVE  /\ Retried(q, m, a) \in QueueImage
                 /\ Retried(q, m, a).st = [q.st EXCEPT ![m] = "pending"]
                 /\ Retried(q, m, a).processing = q.processing \ {m}
        <3>1. m \in Ids
            BY <1>1
        <3>2. Retried(q, m, a) \in QueueImage
            BY <3>1, EffectType
        <3>. QED
            BY <3>1, <3>2 DEF Retried, QueueImage
    <2>. QED
        BY <1>1, <1>3, <2>1, SettleStep DEF Nack, Status, m
<1>. QED
    BY <1>2, <1>3 DEF Nack

\* recover_stale: whoever still holds the message is no longer entitled to it.
LEMMA RecoverStaleStep ==
    ASSUME IInv, NEW m \in Ids, NEW ok \in BOOLEAN, RecoverStale(m, ok)
    PROVE  IInv' /\ Kept
<1>1. /\ up /\ m \in mem.processing
      /\ mem' = Requeued(mem, m) /\ Journal(Requeued(log, m), ok)
      /\ reclaimed' = IF \E w \in Workers : held[w] = m
                      THEN reclaimed \union {m} ELSE reclaimed
      /\ held' = held /\ accepted' = accepted
    BY DEF RecoverStale
<1>2. mem \in QueueImage /\ log \in QueueImage /\ 0 \in Nat
    BY Images
<1>3. /\ mem' \in QueueImage
      /\ mem'.st = [mem.st EXCEPT ![m] = "pending"]
      /\ mem'.processing = mem.processing \ {m}
    BY <1>1, <1>2, EffectType, EffectStatus
<1>4. /\ Requeued(log, m) \in QueueImage
      /\ Requeued(log, m).st = [log.st EXCEPT ![m] = "pending"]
      /\ Requeued(log, m).processing = log.processing \ {m}
    BY <1>2, EffectType, EffectStatus
<1>5. Leases(mem') /\ Leases(Requeued(log, m))
    BY <1>3, <1>4, Images DEF Leases
<1>6. \A x \in Ids \ {m} : mem'.st[x] = mem.st[x]
    BY <1>3, Images
<1>7. mem.st[m] = "processing" /\ mem'.st[m] = "pending"
    BY <1>1, <1>3, Images DEF Leases
<1>8. held' \in [Workers -> Ids \union {NoMsg}]
    BY <1>1, Images
<1>9. reclaimed' \in {reclaimed, reclaimed \union {m}}
    BY <1>1
<1>10. TypeOK' /\ AcceptedIsDurable' /\ JournalLags' /\ Kept
    BY <1>1, <1>3, <1>4, <1>5, <1>6, <1>7, <1>8, <1>9, OperationStep DEF Status, Kept
<1>11. HolderBacked'
    <2>. SUFFICES ASSUME NEW w \in Workers, held[w] # NoMsg, held[w] \notin reclaimed'
                  PROVE  mem'.st[held[w]] = "processing" /\ held[w] \in mem'.processing
        BY <1>1 DEF HolderBacked
    <2>1. held[w] # m /\ held[w] \notin reclaimed
        BY <1>1
    <2>2. held[w] \in mem.processing
        BY <2>1 DEF IInv, HolderBacked
    <2>. QED
        BY <2>1, <2>2, <1>3, <1>5 DEF Leases
<1>12. ExclusiveHolder'
    BY <1>1 DEF IInv, ExclusiveHolder
<1>. QED
    BY <1>10, <1>11, <1>12 DEF IInv

\* An interrupted caller forgets a message and changes nothing else.
LEMMA AbandonStep ==
    ASSUME IInv, NEW w \in Workers, Abandon(w)
    PROVE  IInv' /\ Kept
<1>1. /\ mem' = mem /\ log' = log /\ disk' = disk /\ broken' = broken /\ up' = up
      /\ accepted' = accepted /\ reclaimed' = reclaimed /\ up
      /\ faults' = faults + 1 /\ held' = [held EXCEPT ![w] = NoMsg]
    BY DEF Abandon
<1>2. \A v \in Workers : held'[v] # NoMsg => held'[v] = held[v]
    BY <1>1, Images
<1>3. TypeOK'
    BY <1>1 DEF IInv, TypeOK
<1>4. HolderBacked' /\ ExclusiveHolder'
    BY <1>1, <1>2 DEF IInv, HolderBacked, ExclusiveHolder
<1>5. AcceptedIsDurable' /\ JournalLags'
    BY <1>1 DEF IInv, AcceptedIsDurable, JournalLags
<1>. QED
    BY <1>1, <1>3, <1>4, <1>5 DEF IInv, Kept

\* A crash and a restart keep the file, so they keep what it promises.
LEMMA CrashRestartStep ==
    ASSUME IInv, Crash \/ Restart
    PROVE  IInv' /\ Kept
<1>1. EmptyQueue \in QueueImage /\ Leases(EmptyQueue)
    BY DEF EmptyQueue, QueueImage, Status, Leases
<1>2. CASE Crash
    <2>1. broken' \in BOOLEAN /\ faults' \in Nat
        BY <1>2, BoundsAssumption DEF IInv, TypeOK, Crash
    <2>5. TypeOK'
        BY <1>1, <1>2, <2>1 DEF IInv, TypeOK, Crash
    <2>2. HolderBacked' /\ ExclusiveHolder'
        BY <1>2 DEF Crash, HolderBacked, ExclusiveHolder
    <2>3. AcceptedIsDurable'
        BY <1>2 DEF Crash, IInv, AcceptedIsDurable
    <2>4. JournalLags'
        BY <1>1, <1>2 DEF Crash, IInv, JournalLags, Leases
    <2>. QED
        BY <1>2, <2>5, <2>2, <2>3, <2>4 DEF IInv, Kept, Crash
<1>3. CASE Restart
    <2>1. TypeOK'
        BY <1>3 DEF IInv, TypeOK, Restart
    <2>2. HolderBacked' /\ ExclusiveHolder'
        BY <1>3 DEF Restart, IInv, JournalLags, HolderBacked, ExclusiveHolder
    <2>3. AcceptedIsDurable'
        BY <1>3 DEF Restart, IInv, AcceptedIsDurable
    <2>4. JournalLags'
        BY <1>3 DEF Restart, IInv, JournalLags
    <2>. QED
        BY <1>3, <2>1, <2>2, <2>3, <2>4 DEF IInv, Kept, Restart
<1>. QED
    BY <1>2, <1>3

-----------------------------------------------------------------------------
\* Every step keeps the invariant and the journalled acks.
LEMMA NextStep ==
    ASSUME IInv, [Next]_vars
    PROVE  IInv' /\ Kept
<1>1. CASE Next
    BY <1>1, EnqueueStep, DequeueStep, AckStep, NackStep, RecoverStaleStep,
       AbandonStep, CrashRestartStep DEF Next
<1>2. CASE UNCHANGED vars
    BY <1>2 DEF vars, IInv, TypeOK, HolderBacked, ExclusiveHolder,
                AcceptedIsDurable, JournalLags, Kept
<1>. QED
    BY <1>1, <1>2

\* The invariant holds in the initial states.
LEMMA InitHolds == Init => IInv
<1>. SUFFICES ASSUME Init PROVE IInv
    OBVIOUS
<1>1. EmptyQueue \in QueueImage
    BY DEF EmptyQueue, QueueImage, Status
<1>2. TypeOK
    BY <1>1 DEF Init, TypeOK
<1>3. HolderBacked /\ ExclusiveHolder /\ AcceptedIsDurable
    BY DEF Init, HolderBacked, ExclusiveHolder, AcceptedIsDurable
<1>4. JournalLags
    BY DEF Init, JournalLags, EmptyQueue
<1>. QED
    BY <1>2, <1>3, <1>4 DEF IInv

\* The inductive invariant of the queue holds in every reachable state.
THEOREM QueueInvariant == Spec => []IInv
<1>. QED
    BY InitHolds, NextStep, PTL DEF Spec

\* The images and the workers' messages keep their types.
THEOREM QueueTypes == Spec => []TypeOK
<1>1. IInv => TypeOK
    BY DEF IInv
<1>. QED
    BY <1>1, QueueInvariant, PTL

\* dequeue_due hands a message to one worker at a time, except after its lease
\* was taken back.
THEOREM QueueExclusion == Spec => []ExclusiveHolder
<1>1. IInv => ExclusiveHolder
    BY DEF IInv
<1>. QED
    BY <1>1, QueueInvariant, PTL

\* A worker whose lease stands holds a message that is being processed.
THEOREM QueueHolderBacked == Spec => []HolderBacked
<1>1. IInv => HolderBacked
    BY DEF IInv
<1>. QED
    BY <1>1, QueueInvariant, PTL

\* A message whose enqueue returned survives every crash, while the journal
\* can be read.
THEOREM QueueDurability == Spec => []AcceptedIsDurable
<1>1. IInv => AcceptedIsDurable
    BY DEF IInv
<1>. QED
    BY <1>1, QueueInvariant, PTL

\* No crash, restart or later operation undoes a journalled ack, unless the
\* lease of the message was taken back from a worker.
THEOREM QueueAckIsFinal == Spec => AckedStaysAcked
<1>1. IInv /\ [Next]_vars =>
        [\A m \in Ids : disk.st[m] = "acked" /\ m \notin reclaimed
                         => disk'.st[m] = "acked"]_vars
    BY NextStep DEF Kept
<1>. QED
    BY <1>1, QueueInvariant, PTL DEF Spec, AckedStaysAcked

-----------------------------------------------------------------------------
(* The lists of pending ids, and what the file says of each message.  The   *)
(* lists are sound in all three images, since a restart turns the file's    *)
(* into the memory's.                                                       *)

Distinct(s) == \A i, j \in DOMAIN s : s[i] = s[j] => i = j

Listed(q) ==
    /\ Distinct(q.pending)
    /\ \A m \in ToSet(q.pending) : q.st[m] # "absent" /\ m \notin q.processing

ListsSound == Listed(mem) /\ Listed(log) /\ Listed(disk)

\* What the journal says of a message when memory and journal match.
Matches(q, j, m) ==
    /\ m \in q.processing <=> m \in j.processing
    /\ q.st[m] = j.st[m] \/ (q.st[m] = "dead" /\ j.st[m] = "pending")
    /\ q.st[m] # "dead" => q.att[m] = j.att[m]

Matching == up /\ ~broken => \A m \in Ids \ reclaimed : Matches(mem, log, m)

\* A position taken out of a list.
LEMMA RemovedAt ==
    ASSUME NEW s \in Seq(Ids), NEW p \in DOMAIN s
    PROVE  /\ DOMAIN RemoveAt(s, p) = 1..(Len(s) - 1)
           /\ \A i \in 1..(Len(s) - 1) :
                 RemoveAt(s, p)[i] = IF i < p THEN s[i] ELSE s[i + 1]
<1>. DEFINE a == SubSeq(s, 1, p - 1)
            b == SubSeq(s, p + 1, Len(s))
<1>1. p \in 1..Len(s) /\ Len(s) \in Nat
    OBVIOUS
<1>2. /\ a \in Seq(Ids) /\ Len(a) = p - 1
      /\ \A i \in 1..(p - 1) : a[i] = s[i]
    BY <1>1, SubSeqProperties
<1>3. /\ b \in Seq(Ids) /\ Len(b) = Len(s) - p
      /\ \A i \in 1..(Len(s) - p) : b[i] = s[p + i]
    <2>1. \A i \in (p + 1)..Len(s) : s[i] \in Ids
        BY <1>1
    <2>. QED
        BY <1>1, <2>1, SubSeqProperties
<1>4. RemoveAt(s, p) = a \o b
    BY DEF RemoveAt
<1>. HIDE DEF a, b
<1>5. /\ a \o b \in Seq(Ids) /\ Len(a \o b) = Len(s) - 1
      /\ \A i \in 1..(Len(s) - 1) : (a \o b)[i] = IF i <= p - 1 THEN a[i] ELSE b[i - (p - 1)]
    BY <1>1, <1>2, <1>3, ConcatProperties
<1>6. ASSUME NEW i \in 1..(Len(s) - 1)
      PROVE  (a \o b)[i] = IF i < p THEN s[i] ELSE s[i + 1]
    <2>1. CASE i < p
        BY <1>1, <1>2, <1>5, <2>1
    <2>2. CASE ~(i < p)
        <3>1. i - (p - 1) \in 1..(Len(s) - p)
            BY <1>1, <2>2
        <3>2. b[i - (p - 1)] = s[p + (i - (p - 1))] /\ p + (i - (p - 1)) = i + 1
            BY <1>1, <1>3, <3>1
        <3>. QED
            BY <1>1, <1>5, <2>2, <3>2
    <2>. QED
        BY <2>1, <2>2
<1>7. DOMAIN (a \o b) = 1..(Len(s) - 1)
    BY <1>5
<1>. QED
    BY <1>4, <1>6, <1>7

\* Taking an id out of a list without repetition, and adding one.
LEMMA ListElements ==
    ASSUME NEW s \in Seq(Ids), Distinct(s), NEW m \in Ids
    PROVE  /\ Distinct(Without(s, m)) /\ ToSet(Without(s, m)) \subseteq ToSet(s) \ {m}
           /\ Distinct(With(s, m)) /\ ToSet(With(s, m)) \subseteq ToSet(s) \union {m}
           /\ m \notin ToSet(s) => /\ Distinct(Append(s, m))
                                   /\ ToSet(Append(s, m)) \subseteq ToSet(s) \union {m}
<1>1. ASSUME m \notin ToSet(s)
      PROVE  Distinct(Append(s, m)) /\ ToSet(Append(s, m)) \subseteq ToSet(s) \union {m}
    <2>1. \A i \in DOMAIN s : s[i] # m
        BY <1>1 DEF ToSet
    <2>2. /\ DOMAIN Append(s, m) = 1..(Len(s) + 1) /\ DOMAIN s = 1..Len(s) /\ Len(s) \in Nat
          /\ \A i \in 1..Len(s) : Append(s, m)[i] = s[i]
          /\ Append(s, m)[Len(s) + 1] = m
        BY AppendProperties
    <2>3. \A i \in DOMAIN Append(s, m) :
              \/ i \in DOMAIN s /\ Append(s, m)[i] = s[i]
              \/ i = Len(s) + 1 /\ Append(s, m)[i] = m
        BY <2>2
    <2>4. Distinct(Append(s, m))
        BY <2>1, <2>3 DEF Distinct
    <2>. QED
        BY <2>3, <2>4 DEF ToSet
<1>2. Distinct(With(s, m)) /\ ToSet(With(s, m)) \subseteq ToSet(s) \union {m}
    BY <1>1 DEF With, ToSet
<1>3. Distinct(Without(s, m)) /\ ToSet(Without(s, m)) \subseteq ToSet(s) \ {m}
    <2>1. CASE ~ \E i \in DOMAIN s : s[i] = m
        BY <2>1 DEF Without, ToSet
    <2>2. CASE \E i \in DOMAIN s : s[i] = m
        <3>. DEFINE p == CHOOSE i \in DOMAIN s : s[i] = m
                    t == RemoveAt(s, p)
        <3>1. p \in DOMAIN s /\ s[p] = m
            BY <2>2
        <3>2. Without(s, m) = t
            BY <2>2 DEF Without
        <3>. HIDE DEF p
        <3>3. /\ DOMAIN t = 1..(Len(s) - 1)
              /\ \A i \in 1..(Len(s) - 1) : t[i] = IF i < p THEN s[i] ELSE s[i + 1]
            BY <3>1, RemovedAt
        <3>. HIDE DEF t
        <3>4. DOMAIN s = 1..Len(s) /\ Len(s) \in Nat /\ p \in Nat
            BY <3>1
        <3>5. ASSUME NEW i \in DOMAIN t
              PROVE  \E k \in DOMAIN s : k # p /\ t[i] = s[k] /\ k = IF i < p THEN i ELSE i + 1
            BY <3>3, <3>4
        <3>6. Distinct(t)
            <4>. SUFFICES ASSUME NEW i \in DOMAIN t, NEW j \in DOMAIN t, t[i] = t[j]
                          PROVE  i = j
                BY DEF Distinct
            <4>1. PICK k \in DOMAIN s : t[i] = s[k] /\ k = IF i < p THEN i ELSE i + 1
                BY <3>5
            <4>2. PICK l \in DOMAIN s : t[j] = s[l] /\ l = IF j < p THEN j ELSE j + 1
                BY <3>5
            <4>3. k = l
                BY <4>1, <4>2 DEF Distinct
            <4>. QED
                BY <3>3, <3>4, <4>1, <4>2, <4>3
        <3>7. \A i \in DOMAIN t : t[i] \in ToSet(s) /\ t[i] # m
            BY <3>1, <3>5 DEF Distinct, ToSet
        <3>. QED
            BY <3>2, <3>6, <3>7 DEF ToSet
    <2>. QED
        BY <2>1, <2>2
<1>. QED
    BY <1>1, <1>2, <1>3

\* What the effects do to the list; the rest of an image is in EffectStatus.
LEMMA EffectList ==
    ASSUME NEW q \in QueueImage, NEW m \in Ids, NEW a \in Nat
    PROVE  /\ Enqueued(q, m).pending = Append(q.pending, m)
           /\ Leased(q, m).pending = Without(q.pending, m)
           /\ Acked(q, m).pending = Without(q.pending, m)
           /\ Retried(q, m, a).pending = With(q.pending, m)
           /\ Buried(q, m).pending = Without(q.pending, m)
           /\ Exhausted(q, m).pending = q.pending
           /\ Requeued(q, m).pending = With(q.pending, m)
    BY DEF QueueImage, Enqueued, Leased, Acked, Retried, Buried, Exhausted, Requeued

LEMMA EffectAttempts ==
    ASSUME NEW q \in QueueImage, NEW m \in Ids, NEW a \in Nat
    PROVE  /\ Enqueued(q, m).att = [q.att EXCEPT ![m] = 0]
           /\ Leased(q, m).att = q.att
           /\ Acked(q, m).att = q.att
           /\ Retried(q, m, a).att = [q.att EXCEPT ![m] = a]
           /\ Buried(q, m).att = q.att
           /\ Exhausted(q, m).att = [q.att EXCEPT ![m] = @ + 1]
           /\ Requeued(q, m).att = q.att
           /\ Evicted(q).att = q.att
    BY DEF QueueImage, Enqueued, Leased, Acked, Retried, Buried, Exhausted, Requeued, Evicted

\* An effect on the message m keeps the list sound, if what it adds is pending.
LEMMA ListedChange ==
    ASSUME NEW q, Listed(q), NEW m, NEW new, Distinct(new.pending),
           ToSet(new.pending) \subseteq ToSet(q.pending) \union {m},
           \A x \in ToSet(q.pending) \ {m} :
              /\ q.st[x] # "absent" => new.st[x] # "absent"
              /\ x \notin q.processing => x \notin new.processing,
           m \in ToSet(new.pending) => new.st[m] # "absent" /\ m \notin new.processing
    PROVE  Listed(new)
    BY DEF Listed

LEMMA EffectsListed ==
    ASSUME NEW q \in QueueImage, Listed(q), NEW m \in Ids, NEW a \in Nat
    PROVE  /\ q.st[m] = "absent" /\ m \notin q.processing => Listed(Enqueued(q, m))
           /\ Listed(Leased(q, m)) /\ Listed(Acked(q, m)) /\ Listed(Retried(q, m, a))
           /\ Listed(Buried(q, m)) /\ Listed(Exhausted(q, m)) /\ Listed(Requeued(q, m))
<1>1. /\ q.pending \in Seq(Ids) /\ Distinct(q.pending) /\ q.st \in [Ids -> Status]
      /\ ToSet(q.pending) \subseteq Ids
    BY DEF QueueImage, Listed, ToSet
<1>2. ASSUME NEW new, NEW v \in Status \ {"absent"}, new.st = [q.st EXCEPT ![m] = v],
             new.processing = q.processing \ {m},
             new.pending \in {Without(q.pending, m), With(q.pending, m), q.pending}
      PROVE  Listed(new)
    <2>1. Distinct(new.pending) /\ ToSet(new.pending) \subseteq ToSet(q.pending) \union {m}
        BY <1>1, <1>2, ListElements
    <2>2. new.st[m] # "absent" /\ m \notin new.processing
        BY <1>1, <1>2
    <2>3. \A x \in ToSet(q.pending) \ {m} :
              new.st[x] = q.st[x] /\ (x \in new.processing => x \in q.processing)
        BY <1>1, <1>2
    <2>. QED
        BY <2>1, <2>2, <2>3, ListedChange
<1>3. Listed(Leased(q, m))
    <2>. DEFINE new == Leased(q, m)
    <2>1. new.st = [q.st EXCEPT ![m] = "processing"] /\ new.processing = q.processing \union {m}
        BY <1>1, EffectStatus
    <2>2. new.pending = Without(q.pending, m)
        BY EffectList
    <2>. HIDE DEF new
    <2>3. Distinct(new.pending) /\ ToSet(new.pending) \subseteq ToSet(q.pending) \ {m}
        BY <1>1, <2>2, ListElements
    <2>4. \A x \in ToSet(q.pending) \ {m} :
              new.st[x] = q.st[x] /\ (x \in new.processing => x \in q.processing)
        BY <1>1, <2>1
    <2>5. \A x \in ToSet(q.pending) \ {m} : new.st[x] # "absent" /\ x \notin new.processing
        BY <2>4 DEF Listed
    <2>6. \A x \in ToSet(new.pending) : new.st[x] # "absent" /\ x \notin new.processing
        BY <2>3, <2>5
    <2>. QED
        BY <2>3, <2>6 DEF Listed, new
<1>4. ASSUME q.st[m] = "absent", m \notin q.processing PROVE Listed(Enqueued(q, m))
    <2>. DEFINE new == Enqueued(q, m)
    <2>1. new.st = [q.st EXCEPT ![m] = "pending"] /\ new.processing = q.processing
        BY <1>1, EffectStatus
    <2>2. new.pending = Append(q.pending, m) /\ m \notin ToSet(q.pending)
        BY <1>4, EffectList DEF Listed
    <2>. HIDE DEF new
    <2>3. Distinct(new.pending) /\ ToSet(new.pending) \subseteq ToSet(q.pending) \union {m}
        BY <1>1, <2>2, ListElements
    <2>4. /\ new.st[m] # "absent" /\ m \notin new.processing
          /\ \A x \in ToSet(q.pending) \ {m} : new.st[x] = q.st[x]
        BY <1>1, <1>4, <2>1
    <2>5. \A x \in ToSet(q.pending) \ {m} : new.st[x] # "absent" /\ x \notin new.processing
        BY <2>1, <2>4 DEF Listed
    <2>6. \A x \in ToSet(new.pending) : new.st[x] # "absent" /\ x \notin new.processing
        BY <2>3, <2>4, <2>5
    <2>. QED
        BY <2>3, <2>6 DEF Listed, new
<1>5. /\ Listed(Acked(q, m)) /\ Listed(Retried(q, m, a)) /\ Listed(Buried(q, m))
      /\ Listed(Exhausted(q, m)) /\ Listed(Requeued(q, m))
    <2>1. {"acked", "pending", "dead"} \subseteq Status \ {"absent"}
        BY DEF Status
    <2>2. Listed(Acked(q, m))
        BY <1>2, <2>1, EffectStatus, EffectList
    <2>3. Listed(Retried(q, m, a))
        <3>1. /\ Retried(q, m, a).st = [q.st EXCEPT ![m] = "pending"]
              /\ Retried(q, m, a).processing = q.processing \ {m}
              /\ Retried(q, m, a).pending = With(q.pending, m)
            BY DEF Retried, QueueImage
        <3>. QED
            BY <1>2, <2>1, <3>1
    <2>4. Listed(Buried(q, m))
        BY <1>2, <2>1, EffectStatus, EffectList
    <2>5. Listed(Exhausted(q, m))
        BY <1>2, <2>1, EffectStatus, EffectList
    <2>6. Listed(Requeued(q, m))
        BY <1>2, <2>1, EffectStatus, EffectList
    <2>. QED
        BY <2>2, <2>3, <2>4, <2>5, <2>6
<1>. QED
    BY <1>3, <1>4, <1>5

LEMMA EvictedListed ==
    ASSUME NEW q \in QueueImage, Listed(q)
    PROVE  Listed(Evicted(q))
<1>. DEFINE excess == Len(q.pending) - MaxPending
            rest == SubSeq(q.pending, excess + 1, Len(q.pending))
<1>1. q.pending \in Seq(Ids) /\ Len(q.pending) \in Nat /\ excess \in Int
    BY BoundsAssumption DEF QueueImage
<1>2. CASE excess <= 0
    BY <1>2 DEF Evicted
<1>3. CASE ~(excess <= 0)
    <2>1. Evicted(q).pending = rest
        BY <1>3 DEF Evicted, QueueImage
    <2>2. /\ rest \in Seq(Ids) /\ Len(rest) = IF excess + 1 <= Len(q.pending) THEN Len(q.pending) - excess ELSE 0
          /\ \A i \in 1..(Len(q.pending) - excess) : rest[i] = q.pending[excess + i]
        <3>1. \A i \in (excess + 1)..Len(q.pending) : q.pending[i] \in Ids
            BY <1>1, <1>3
        <3>. QED
            BY <1>1, <3>1, SubSeqProperties
    <2>. HIDE DEF rest
    <2>3. DOMAIN q.pending = 1..Len(q.pending) /\ DOMAIN rest = 1..Len(rest)
        BY <1>1, <2>2
    <2>. HIDE DEF excess
    <2>4. \A i \in DOMAIN rest : excess + i \in DOMAIN q.pending /\ rest[i] = q.pending[excess + i]
                                 /\ i \in Int
        BY <1>1, <1>3, <2>2, <2>3
    <2>5. Distinct(rest)
        <3>. SUFFICES ASSUME NEW i \in DOMAIN rest, NEW j \in DOMAIN rest, rest[i] = rest[j]
                      PROVE  i = j
            BY DEF Distinct
        <3>1. excess + i = excess + j
            BY <2>4 DEF Listed, Distinct
        <3>. QED
            BY <1>1, <2>4, <3>1
    <2>6. ToSet(rest) \subseteq ToSet(q.pending) /\ ToSet(q.pending) \subseteq Ids
        BY <1>1, <2>4 DEF ToSet
    <2>7. /\ Evicted(q).processing = q.processing
          /\ \A x \in Ids : q.st[x] # "absent" => Evicted(q).st[x] # "absent"
        <3>1. Evicted(q).processing = q.processing
            BY DEF Evicted, QueueImage
        <3>. QED
            BY <3>1, EvictedStatus
    <2>. QED
        BY <2>1, <2>5, <2>6, <2>7 DEF Listed
<1>. QED
    BY <1>2, <1>3

-----------------------------------------------------------------------------
(* The operations keep the lists sound, and memory and journal matching.    *)

LEMMA ListsStep ==
    ASSUME ListsSound, NEW L, NEW ok \in BOOLEAN, Journal(L, ok),
           Listed(mem'), broken \/ Listed(L)
    PROVE  ListsSound'
<1>1. log' \in {log, L} /\ disk' \in {disk, log'} /\ (broken => log' = log)
      /\ (~broken => log' = L)
    BY DEF Journal
<1>2. Listed(mem') /\ Listed(log') /\ Listed(disk')
    BY <1>1 DEF ListsSound
<1>. QED
    BY <1>2 DEF ListsSound, Listed

\* From the images q and j to the images r and l, only m changes, and pending
\* messages that are evicted from q.
OthersKept(q, r, j, l, m) ==
    \A x \in Ids \ {m} :
        /\ r.st[x] = q.st[x] \/ (q.st[x] = "pending" /\ r.st[x] = "dead")
        /\ r.att[x] = q.att[x] /\ l.st[x] = j.st[x] /\ l.att[x] = j.att[x]
        /\ x \in r.processing <=> x \in q.processing
        /\ x \in l.processing <=> x \in j.processing

\* An operation on the message m.
LEMMA MatchStep ==
    ASSUME IInv, Matching, up, NEW m \in Ids, NEW L, NEW ok \in BOOLEAN, Journal(L, ok),
           reclaimed \subseteq reclaimed',
           OthersKept(mem, mem', log, L, m),
           ~broken /\ m \notin reclaimed' => Matches(mem', L, m)
    PROVE  Matching'
<1>1. up' = up /\ broken' = broken /\ (~broken => log' = L)
    BY DEF Journal
<1>2. ASSUME ~broken, NEW x \in Ids \ reclaimed'
      PROVE  Matches(mem', L, x)
    <2>1. CASE x = m
        BY <1>2, <2>1
    <2>2. CASE x # m
        <3>1. Matches(mem, log, x)
            BY <1>2 DEF Matching
        <3>. QED
            BY <2>2, <3>1 DEF Matches, OthersKept
    <2>. QED
        BY <2>1, <2>2
<1>. QED
    BY <1>1, <1>2 DEF Matching, Matches

\* What the run checks of the queue, beyond the inductive invariant.
FileMatches == ListsSound /\ Matching

LEMMA EnqueueMatches ==
    ASSUME IInv, FileMatches, NEW m \in Ids, NEW ok \in BOOLEAN, Enqueue(m, ok)
    PROVE  FileMatches'
<1>. DEFINE M == Enqueued(mem, m)
            L == Enqueued(log, m)
<1>1. /\ up /\ mem.st[m] = "absent" /\ mem' = (IF ok THEN Evicted(M) ELSE M) /\ Journal(L, ok)
      /\ reclaimed' = reclaimed
    BY DEF Enqueue
<1>2. /\ mem \in QueueImage /\ log \in QueueImage /\ Leases(mem) /\ Leases(log)
      /\ M \in QueueImage /\ L \in QueueImage
    BY Images, EffectType
<1>3. /\ m \notin mem.processing
      /\ ~broken => log.st[m] = "absent" /\ m \notin log.processing
    <2>1. ~broken => log.st[m] = "absent"
        BY <1>1, Images
    <2>. QED
        BY <1>1, <1>2, <2>1 DEF Leases
<1>4. Listed(M) /\ (broken \/ Listed(L))
    BY <1>2, <1>1, <1>3, EffectsListed DEF FileMatches, ListsSound
<1>5. Listed(mem')
    BY <1>1, <1>2, <1>4, EvictedListed
<1>6. /\ M.st = [mem.st EXCEPT ![m] = "pending"] /\ M.processing = mem.processing
      /\ M.att = [mem.att EXCEPT ![m] = 0]
      /\ L.st = [log.st EXCEPT ![m] = "pending"] /\ L.processing = log.processing
      /\ L.att = [log.att EXCEPT ![m] = 0]
    BY <1>2 DEF Enqueued, QueueImage
<1>. HIDE DEF M, L
<1>7. /\ mem'.processing = M.processing /\ mem'.att = M.att
      /\ \A x \in Ids : mem'.st[x] = M.st[x] \/ (M.st[x] = "pending" /\ mem'.st[x] = "dead")
    <2>1. mem'.processing = M.processing /\ mem'.att = M.att
        BY <1>1, <1>2 DEF Evicted, QueueImage
    <2>. QED
        BY <1>1, <1>2, <2>1, EvictedStatus
<1>8. /\ mem.st \in [Ids -> Status] /\ mem.att \in [Ids -> Nat]
      /\ log.st \in [Ids -> Status] /\ log.att \in [Ids -> Nat]
    BY <1>2 DEF QueueImage
<1>9. \A x \in Ids \ {m} :
          /\ M.st[x] = mem.st[x] /\ M.att[x] = mem.att[x]
          /\ L.st[x] = log.st[x] /\ L.att[x] = log.att[x]
    BY <1>6, <1>8
<1>10. ~broken => Matches(mem', L, m)
    <2>1. M.st[m] = "pending" /\ M.att[m] = 0 /\ L.st[m] = "pending" /\ L.att[m] = 0
        BY <1>6, <1>8
    <2>. QED
        BY <1>3, <1>6, <1>7, <2>1 DEF Matches
<1>11. ListsSound'
    BY <1>1, <1>4, <1>5, ListsStep DEF FileMatches
<1>12. OthersKept(mem, mem', log, L, m)
    BY <1>6, <1>7, <1>9 DEF OthersKept
<1>13. Matching'
    BY <1>1, <1>10, <1>12, MatchStep DEF FileMatches
<1>. QED
    BY <1>11, <1>13 DEF FileMatches

\* The other operations: one message changes alike in memory and in the journal.
LEMMA OperationMatches ==
    ASSUME IInv, FileMatches, up, NEW m \in Ids, NEW v \in Status, NEW ok \in BOOLEAN,
           NEW L, Journal(L, ok), Listed(mem'), Listed(L),
           reclaimed \subseteq reclaimed',
           mem'.st = [mem.st EXCEPT ![m] = v], L.st = [log.st EXCEPT ![m] = v],
           \A x \in Ids \ {m} : mem'.att[x] = mem.att[x] /\ L.att[x] = log.att[x],
           \/ /\ mem'.processing = mem.processing \ {m}
              /\ L.processing = log.processing \ {m}
           \/ /\ mem'.processing = mem.processing \union {m}
              /\ L.processing = log.processing \union {m},
           v # "dead" /\ ~broken /\ m \notin reclaimed' => mem'.att[m] = L.att[m]
    PROVE  FileMatches'
<1>1. mem.st \in [Ids -> Status] /\ log.st \in [Ids -> Status]
    BY Images
<1>2. ListsSound'
    BY ListsStep DEF FileMatches
<1>3. ~broken /\ m \notin reclaimed' => Matches(mem', L, m)
    BY <1>1 DEF Matches
<1>4. OthersKept(mem, mem', log, L, m)
    BY <1>1 DEF OthersKept
<1>5. Matching'
    BY <1>3, <1>4, MatchStep DEF FileMatches
<1>. QED
    BY <1>2, <1>5 DEF FileMatches

\* While the journal can be read, a message that is not dead in memory has as many
\* attempts in the journal.
LEMMA SameAttempts ==
    ASSUME IInv, FileMatches, up, ~broken, NEW m \in Ids \ reclaimed, mem.st[m] # "dead"
    PROVE  mem.att[m] = log.att[m]
    BY DEF FileMatches, Matching, Matches

LEMMA DequeueMatches ==
    ASSUME IInv, FileMatches, NEW w \in Workers, NEW m \in Ids, NEW ok \in BOOLEAN,
           Dequeue(w, m, ok)
    PROVE  FileMatches'
<1>1. /\ up /\ mem.st[m] = "pending" /\ mem' = Leased(mem, m) /\ Journal(Leased(log, m), ok)
      /\ reclaimed' = reclaimed
    BY DEF Dequeue, IsNextDue
<1>2. mem \in QueueImage /\ log \in QueueImage /\ 0 \in Nat
    BY Images
<1>3. Listed(mem') /\ Listed(Leased(log, m))
    BY <1>1, <1>2, EffectsListed DEF FileMatches, ListsSound
<1>4. ASSUME NEW q \in QueueImage
      PROVE  /\ Leased(q, m).st = [q.st EXCEPT ![m] = "processing"]
             /\ Leased(q, m).processing = q.processing \union {m}
             /\ Leased(q, m).att = q.att
    BY <1>4 DEF Leased, QueueImage
<1>5. ~broken /\ m \notin reclaimed => mem.att[m] = log.att[m]
    BY <1>1, SameAttempts
<1>6. "processing" \in Status
    BY DEF Status
<1>. DEFINE L == Leased(log, m)
<1>7. /\ mem'.st = [mem.st EXCEPT ![m] = "processing"] /\ L.st = [log.st EXCEPT ![m] = "processing"]
      /\ mem'.processing = mem.processing \union {m} /\ L.processing = log.processing \union {m}
      /\ mem'.att = mem.att /\ L.att = log.att
    BY <1>1, <1>2, <1>4
<1>8. Journal(L, ok) /\ Listed(L)
    BY <1>1, <1>3
<1>. HIDE DEF L
<1>. QED
    BY <1>1, <1>3, <1>5, <1>6, <1>7, <1>8, OperationMatches

\* ack, nack and recover_stale put a message out of processing.
LEMMA SettledMatches ==
    ASSUME IInv, FileMatches, up, NEW m \in Ids, NEW v \in Status, NEW ok \in BOOLEAN,
           NEW L, Journal(L, ok), Listed(mem'), Listed(L),
           reclaimed \subseteq reclaimed',
           mem'.st = [mem.st EXCEPT ![m] = v], L.st = [log.st EXCEPT ![m] = v],
           mem'.processing = mem.processing \ {m}, L.processing = log.processing \ {m},
           \A x \in Ids \ {m} : mem'.att[x] = mem.att[x] /\ L.att[x] = log.att[x],
           v # "dead" => mem'.att[m] = mem.att[m] /\ L.att[m] = log.att[m],
           mem.st[m] = "processing" \/ m \in reclaimed
    PROVE  FileMatches'
<1>1. v # "dead" /\ ~broken /\ m \notin reclaimed' => mem'.att[m] = L.att[m]
    BY SameAttempts
<1>. QED
    BY <1>1, OperationMatches

LEMMA AckMatches ==
    ASSUME IInv, FileMatches, NEW w \in Workers, NEW ok \in BOOLEAN, Ack(w, ok)
    PROVE  FileMatches'
<1>. DEFINE m == held[w]
            L == Acked(log, m)
<1>1. /\ up /\ m # NoMsg /\ mem' = Acked(mem, m) /\ Journal(L, ok) /\ reclaimed' = reclaimed
    BY DEF Ack
<1>2. m \in Ids /\ mem \in QueueImage /\ log \in QueueImage /\ 0 \in Nat
    BY <1>1, Images
<1>3. mem.st[m] = "processing" \/ m \in reclaimed
    BY <1>1 DEF IInv, HolderBacked
<1>. HIDE DEF m
<1>4. Listed(mem') /\ Listed(L)
    BY <1>1, <1>2, EffectsListed DEF FileMatches, ListsSound
<1>5. ASSUME NEW q \in QueueImage
      PROVE  /\ Acked(q, m).st = [q.st EXCEPT ![m] = "acked"]
             /\ Acked(q, m).processing = q.processing \ {m}
             /\ Acked(q, m).att = q.att
    BY <1>5 DEF Acked, QueueImage
<1>6. /\ mem'.st = [mem.st EXCEPT ![m] = "acked"] /\ L.st = [log.st EXCEPT ![m] = "acked"]
      /\ mem'.processing = mem.processing \ {m} /\ L.processing = log.processing \ {m}
      /\ mem'.att = mem.att /\ L.att = log.att
    BY <1>1, <1>2, <1>5
<1>7. "acked" \in Status
    BY DEF Status
<1>. HIDE DEF L
<1>. QED
    BY <1>1, <1>2, <1>3, <1>4, <1>6, <1>7, SettledMatches

LEMMA RecoverMatches ==
    ASSUME IInv, FileMatches, NEW m \in Ids, NEW ok \in BOOLEAN, RecoverStale(m, ok)
    PROVE  FileMatches'
<1>. DEFINE L == Requeued(log, m)
<1>1. /\ up /\ m \in mem.processing /\ mem' = Requeued(mem, m) /\ Journal(L, ok)
      /\ reclaimed \subseteq reclaimed'
    BY DEF RecoverStale
<1>2. mem \in QueueImage /\ log \in QueueImage /\ 0 \in Nat
    BY Images
<1>3. mem.st[m] = "processing"
    BY <1>1, Images DEF Leases
<1>4. Listed(mem') /\ Listed(L)
    BY <1>1, <1>2, EffectsListed DEF FileMatches, ListsSound
<1>5. ASSUME NEW q \in QueueImage
      PROVE  /\ Requeued(q, m).st = [q.st EXCEPT ![m] = "pending"]
             /\ Requeued(q, m).processing = q.processing \ {m}
             /\ Requeued(q, m).att = q.att
    BY <1>5 DEF Requeued, QueueImage
<1>6. /\ mem'.st = [mem.st EXCEPT ![m] = "pending"] /\ L.st = [log.st EXCEPT ![m] = "pending"]
      /\ mem'.processing = mem.processing \ {m} /\ L.processing = log.processing \ {m}
      /\ mem'.att = mem.att /\ L.att = log.att
    BY <1>1, <1>2, <1>5
<1>7. "pending" \in Status
    BY DEF Status
<1>. HIDE DEF L
<1>. QED
    BY <1>1, <1>2, <1>3, <1>4, <1>6, <1>7, SettledMatches

LEMMA NackMatches ==
    ASSUME IInv, FileMatches, NEW w \in Workers, NEW permanent \in BOOLEAN,
           NEW ok \in BOOLEAN, Nack(w, permanent, ok)
    PROVE  FileMatches'
<1>. DEFINE m == held[w]
            a == mem.att[m] + 1
<1>1. up /\ m # NoMsg /\ reclaimed' = reclaimed
      /\ \/ mem' = Exhausted(mem, m) /\ Journal(Buried(log, m), ok)
         \/ mem' = Retried(mem, m, a) /\ Journal(Retried(log, m, a), ok)
    BY DEF Nack
<1>2. m \in Ids /\ mem \in QueueImage /\ log \in QueueImage
    BY <1>1, Images
<1>3. mem.st[m] = "processing" \/ m \in reclaimed
    BY <1>1 DEF IInv, HolderBacked
<1>4. a \in Nat /\ mem.att \in [Ids -> Nat] /\ log.att \in [Ids -> Nat]
    BY <1>2 DEF QueueImage
<1>5. "pending" \in Status /\ "dead" \in Status
    BY DEF Status
<1>. HIDE DEF m, a
<1>6. Listed(mem) /\ Listed(log)
    BY DEF FileMatches, ListsSound
<1>7. CASE mem' = Exhausted(mem, m) /\ Journal(Buried(log, m), ok)
    <2>. DEFINE L == Buried(log, m)
    <2>1. Listed(mem') /\ Listed(L)
        BY <1>2, <1>4, <1>6, <1>7, EffectsListed
    <2>2. /\ mem'.st = [mem.st EXCEPT ![m] = "dead"]
          /\ mem'.processing = mem.processing \ {m}
          /\ mem'.att = [mem.att EXCEPT ![m] = @ + 1]
        BY <1>2, <1>7 DEF Exhausted, QueueImage
    <2>3. L.st = [log.st EXCEPT ![m] = "dead"] /\ L.processing = log.processing \ {m}
          /\ L.att = log.att
        BY <1>2 DEF Buried, QueueImage
    <2>4. \A x \in Ids \ {m} : mem'.att[x] = mem.att[x]
        BY <1>4, <2>2
    <2>5. Journal(L, ok)
        BY <1>7
    <2>. HIDE DEF L
    <2>. QED
        BY <1>1, <1>2, <1>3, <1>5, <2>1, <2>2, <2>3, <2>4, <2>5, SettledMatches
<1>8. CASE mem' = Retried(mem, m, a) /\ Journal(Retried(log, m, a), ok)
    <2>. DEFINE L == Retried(log, m, a)
    <2>1. Listed(mem') /\ Listed(L)
        BY <1>2, <1>4, <1>6, <1>8, EffectsListed
    <2>2. /\ mem'.st = [mem.st EXCEPT ![m] = "pending"]
          /\ mem'.processing = mem.processing \ {m}
          /\ mem'.att = [mem.att EXCEPT ![m] = a]
        BY <1>2, <1>8 DEF Retried, QueueImage
    <2>3. L.st = [log.st EXCEPT ![m] = "pending"] /\ L.processing = log.processing \ {m}
          /\ L.att = [log.att EXCEPT ![m] = a]
        BY <1>2 DEF Retried, QueueImage
    <2>4. /\ \A x \in Ids \ {m} : mem'.att[x] = mem.att[x] /\ L.att[x] = log.att[x]
          /\ mem'.att[m] = L.att[m]
        BY <1>2, <1>4, <2>2, <2>3
    <2>5. /\ up /\ Journal(L, ok) /\ reclaimed \subseteq reclaimed'
          /\ mem'.st = [mem.st EXCEPT ![m] = "pending"] /\ L.st = [log.st EXCEPT ![m] = "pending"]
          /\ mem'.processing = mem.processing \ {m} /\ L.processing = log.processing \ {m}
        BY <1>1, <1>8, <2>2, <2>3
    <2>. HIDE DEF L
    <2>. QED
        BY <1>2, <1>5, <2>1, <2>4, <2>5, OperationMatches
<1>. QED
    BY <1>1, <1>7, <1>8

LEMMA MatchesKept == ASSUME IInv, FileMatches, [Next]_vars PROVE FileMatches'
<1>1. CASE UNCHANGED vars
    BY <1>1 DEF vars, FileMatches, ListsSound, Listed, Matching, Matches
<1>2. ASSUME NEW w \in Workers, Abandon(w) PROVE FileMatches'
    BY <1>2 DEF Abandon, FileMatches, ListsSound, Listed, Matching, Matches
<1>3. CASE Crash
    <2>1. Listed(EmptyQueue)
        BY DEF EmptyQueue, Listed, Distinct, ToSet
    <2>2. mem' = EmptyQueue /\ log' = disk /\ disk' = disk /\ ~up'
        BY <1>3 DEF Crash
    <2>3. Listed(mem') /\ Listed(log') /\ Listed(disk')
        BY <2>1, <2>2 DEF FileMatches, ListsSound
    <2>. QED
        BY <2>2, <2>3 DEF FileMatches, ListsSound, Matching, Listed
<1>4. CASE Restart
    <2>1. mem' = disk /\ log' = disk /\ disk' = disk
        BY <1>4 DEF Restart, IInv, JournalLags
    <2>2. Listed(mem') /\ Listed(log') /\ Listed(disk')
        BY <2>1 DEF FileMatches, ListsSound
    <2>. QED
        BY <2>1, <2>2 DEF FileMatches, ListsSound, Listed, Matching, Matches
<1>5. CASE Next
    BY <1>2, <1>3, <1>4, <1>5, EnqueueMatches, DequeueMatches, AckMatches, NackMatches,
       RecoverMatches
    DEF Next
<1>. QED
    BY <1>1, <1>5

LEMMA InitMatches == Init => FileMatches
    BY DEF Init, FileMatches, ListsSound, Listed, Matching, Matches, EmptyQueue, Distinct, ToSet

\* The images have their shape, the list of pending ids names each once and none
\* that is leased, and until a line is unreadable, replaying the journal yields what
\* the process has in memory of every message that was never reclaimed, except that
\* it may have a dead one as pending: an enqueue that returned evicts without a
\* record, one whose append raised does not evict.
THEOREM QueueIsSound == Spec => []QueueSound
<1>1. IInv /\ FileMatches => QueueSound
    <2>. SUFFICES ASSUME IInv, FileMatches PROVE QueueSound
        OBVIOUS
    <2>1. PendingListSound
        BY DEF FileMatches, ListsSound, Listed, Distinct, ToSet, PendingListSound
    <2>2. MemoryMatchesJournal
        BY DEF FileMatches, Matching, Matches, MemoryMatchesJournal
    <2>. QED
        BY <2>1, <2>2 DEF QueueSound, IInv
<1>2. IInv /\ FileMatches /\ [Next]_vars => FileMatches'
    BY MatchesKept
<1>. QED
    BY <1>1, <1>2, InitMatches, QueueInvariant, PTL DEF Spec

=============================================================================
