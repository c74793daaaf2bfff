----------------------- MODULE JournalledQueueProofs ------------------------
(***************************************************************************)
(* That the queue with its journal implements DurableQueue, for any        *)
(* messages and workers and any number of lines, faults and torn lines.    *)
(* Replay is an induction over the lines; it is carried out here with sets *)
(* of natural numbers, each of which has a least element.                  *)
(***************************************************************************)
EXTENDS JournalledQueue, FiniteSetTheorems, TLAPS

-----------------------------------------------------------------------------
(* Induction up to n.                                                       *)

\* The intervals that begin the elements of B are finite sets, of which one has
\* no other one as a subset.
LEMMA Least ==
    ASSUME NEW n \in Nat, NEW B \in SUBSET (0..n), B # {}
    PROVE  \E m \in B : \A k \in B : m <= k
<1> DEFINE T == {0..k : k \in B}
           R == StrictSubsetOrdering(0..n)
<1>1. IsFiniteSet(0..n)
  BY FS_Interval
<1>2. IsWellFoundedOn(R, FiniteSubsetsOf(0..n))
  BY FS_StrictSubsetOrderingWellFounded
<1>3. T \subseteq FiniteSubsetsOf(0..n) /\ T # {}
  <2>1. \A k \in B : 0..k \subseteq 0..n
    OBVIOUS
  <2>2. FiniteSubsetsOf(0..n) = SUBSET (0..n)
    BY <1>1, FS_FiniteSubsetsOfFinite
  <2>3. T \subseteq SUBSET (0..n)
    BY <2>1, Zenon
  <2>4. T # {}
    BY Zenon
  <2> HIDE DEF T
  <2> QED BY <2>2, <2>3, <2>4
<1>4. \E x \in T : \A y \in T : ~ (<<y, x>> \in R)
  <2> HIDE DEF T, R
  <2> QED BY <1>2, <1>3, WFMin
<1>5. PICK m \in B : \A k \in B : <<0..k, 0..m>> \notin R
  BY <1>4
<1>6. ASSUME NEW k \in B, ~ (m <= k) PROVE FALSE
  <2>1. 0..k \subseteq 0..m /\ 0..k # 0..m /\ 0..k \in SUBSET (0..n) /\ 0..m \in SUBSET (0..n)
    BY <1>6
  <2>2. <<0..k, 0..m>> \in R
    BY <2>1 DEF StrictSubsetOrdering
  <2> QED BY <1>5, <2>2
<1> QED BY <1>6

LEMMA Induction ==
    ASSUME NEW n \in Nat, NEW S, 0 \in S, \A k \in 0..n : k < n /\ k \in S => k + 1 \in S
    PROVE  0..n \subseteq S
<1> DEFINE B == {k \in 0..n : k \notin S}
<1>1. SUFFICES ASSUME B # {} PROVE FALSE
  OBVIOUS
<1>2. PICK m \in B : \A k \in B : m <= k
  BY <1>1, Least
<1>3. m # 0 /\ m - 1 \in 0..n /\ m - 1 < n /\ m - 1 \notin B
  BY <1>2
<1> QED BY <1>2, <1>3

-----------------------------------------------------------------------------
(* Replay, record after record.                                             *)

\* What record n makes of what the records before it yielded.
Step(f, records, n) == IF n = 0 THEN E!EmptyQueue ELSE Apply(f[n - 1], records[n])

\* f is what replaying the first n records yields, one after the other.
Replays(f, records, n) == f = [k \in 0..n |-> Step(f, records, k)]

LEMMA ReplayExists ==
    ASSUME NEW records, NEW n \in Nat
    PROVE  \E f : Replays(f, records, n)
<1> DEFINE S == {k \in 0..n : \E f : Replays(f, records, k)}
<1>1. 0 \in S
  <2>1. Replays([k \in 0..0 |-> E!EmptyQueue], records, 0)
    BY DEF Replays, Step
  <2> QED BY <2>1
<1>2. ASSUME NEW k \in 0..n, k < n, k \in S PROVE k + 1 \in S
  <2>1. PICK f : Replays(f, records, k)
    BY <1>2
  <2> DEFINE g == [i \in 0..(k + 1) |-> IF i = k + 1 THEN Apply(f[k], records[k + 1]) ELSE f[i]]
  <2>2. ASSUME NEW i \in 0..(k + 1) PROVE g[i] = Step(g, records, i)
    <3>1. CASE i = k + 1
      BY <3>1 DEF Step
    <3>2. CASE i # k + 1
      <4>1. i \in 0..k /\ f[i] = Step(f, records, i)
        BY <2>1, <3>2 DEF Replays
      <4>2. g[i] = f[i] /\ (i # 0 => g[i - 1] = f[i - 1])
        BY <3>2
      <4> QED BY <4>1, <4>2 DEF Step
    <3> QED BY <3>1, <3>2
  <2>3. Replays(g, records, k + 1)
    <3>1. g = [i \in 0..(k + 1) |-> g[i]]
      OBVIOUS
    <3> HIDE DEF g
    <3> QED BY <2>2, <3>1 DEF Replays
  <2> QED BY <1>2, <2>3
<1>3. 0..n \subseteq S
  <2> HIDE DEF S
  <2> QED BY <1>1, <1>2, Induction
<1> QED BY <1>3

\* Records that begin alike are replayed alike.
LEMMA ReplayUnique ==
    ASSUME NEW r, NEW s, NEW f, NEW g, NEW m \in Nat, NEW n \in Nat, NEW l \in Nat,
           Replays(f, r, m), Replays(g, s, n), l <= m, l <= n,
           \A i \in 1..l : r[i] = s[i]
    PROVE  f[l] = g[l]
<1> DEFINE S == {k \in 0..l : f[k] = g[k]}
<1>1. 0 \in S
  BY DEF Replays, Step
<1>2. ASSUME NEW k \in 0..l, k < l, k \in S PROVE k + 1 \in S
  <2>1. k + 1 \in 0..m /\ k + 1 \in 0..n /\ k + 1 \in 1..l /\ k + 1 # 0 /\ (k + 1) - 1 = k
    BY <1>2
  <2>2. f[k + 1] = Apply(f[k], r[k + 1]) /\ g[k + 1] = Apply(g[k], s[k + 1])
    BY <2>1 DEF Replays, Step
  <2> QED BY <1>2, <2>1, <2>2
<1>3. 0..l \subseteq S
  <2> HIDE DEF S
  <2> QED BY <1>1, <1>2, Induction
<1> QED BY <1>3

\* What replaying the records yields.
Replayed(records) == (CHOOSE f : Replays(f, records, Len(records)))[Len(records)]

LEMMA ImageReplays == ASSUME NEW lines PROVE Image(lines) = Replayed(Yielded(lines))
BY DEF Image, Replayed, Replays, Step

\* A replay ends with what any function that replays the records ends with.
LEMMA ReplayedBy ==
    ASSUME NEW records, Len(records) \in Nat, NEW f, Replays(f, records, Len(records))
    PROVE  Replayed(records) = f[Len(records)]
<1> DEFINE n == Len(records)
           g == CHOOSE g : Replays(g, records, n)
<1>1. Replays(g, records, n)
  OBVIOUS
<1> HIDE DEF n, g
<1>2. g[n] = f[n]
  BY <1>1, ReplayUnique DEF n
<1> QED BY <1>2 DEF Replayed, n, g

LEMMA ReplayNothing == Replayed(<<>>) = E!EmptyQueue
<1>1. Len(<<>>) = 0
  OBVIOUS
<1>2. PICK f : Replays(f, <<>>, 0)
  BY ReplayExists
<1>3. f[0] = E!EmptyQueue
  BY <1>2 DEF Replays, Step
<1> QED BY <1>1, <1>2, <1>3, ReplayedBy

\* One more record.
LEMMA ReplayNext ==
    ASSUME NEW S, NEW records \in Seq(S), NEW r \in S
    PROVE  Replayed(Append(records, r)) = Apply(Replayed(records), r)
<1> DEFINE n == Len(records)
           more == Append(records, r)
<1>1. /\ n \in Nat /\ n + 1 \in Nat
      /\ Len(more) = n + 1 /\ more[n + 1] = r /\ \A i \in 1..n : more[i] = records[i]
  OBVIOUS
<1> HIDE DEF n, more
<1>2. PICK f : Replays(f, records, n)
  BY <1>1, ReplayExists
<1>3. PICK g : Replays(g, more, n + 1)
  BY <1>1, ReplayExists
<1>4. g[n] = f[n]
  BY <1>1, <1>2, <1>3, ReplayUnique
<1>5. n + 1 \in 0..(n + 1) /\ n + 1 # 0 /\ (n + 1) - 1 = n
  BY <1>1
<1>6. g[n + 1] = Step(g, more, n + 1)
  BY <1>3, <1>5, Zenon DEF Replays
<1>7. g[n + 1] = Apply(g[n], more[n + 1])
  BY <1>5, <1>6 DEF Step
<1>8. Replayed(records) = f[n]
  BY <1>1, <1>2, ReplayedBy DEF n
<1>9. Replayed(more) = g[n + 1]
  BY <1>1, <1>3, ReplayedBy
<1> QED BY <1>1, <1>4, <1>7, <1>8, <1>9 DEF more

-----------------------------------------------------------------------------
(* The lines that replay yields.                                            *)

\* The first n lines can be read.
Legible(lines, n) == \A i \in 1..n : lines[i] # Torn /\ lines[i].seq = i

\* The longest readable beginning.
Longest(lines, n) == Legible(lines, n) /\ (n = Len(lines) \/ ~Legible(lines, n + 1))

LEMMA LongestExists ==
    ASSUME NEW S, NEW lines \in Seq(S) PROVE \E n \in 0..Len(lines) : Longest(lines, n)
<1> DEFINE good == {k \in 0..Len(lines) : Legible(lines, k)}
<1>1. SUFFICES ASSUME \A n \in 0..Len(lines) : ~Longest(lines, n) PROVE FALSE
  OBVIOUS
<1>2. Len(lines) \in Nat /\ 0 \in good
  BY DEF Legible
<1>3. ASSUME NEW k \in 0..Len(lines), k < Len(lines), k \in good PROVE k + 1 \in good
  BY <1>1, <1>3 DEF Longest
<1>4. 0..Len(lines) \subseteq good
  <2> HIDE DEF good
  <2> QED BY <1>2, <1>3, Induction
<1> QED BY <1>1, <1>2, <1>4 DEF Longest

LEMMA YieldedLongest ==
    ASSUME NEW S, NEW lines \in Seq(S), NEW n \in 0..Len(lines), Longest(lines, n)
    PROVE  Yielded(lines) = SubSeq(lines, 1, n)
<1>1. ASSUME NEW k \in 0..Len(lines), Longest(lines, k) PROVE k = n
  BY <1>1 DEF Longest, Legible
<1>2. n = CHOOSE k \in 0..Len(lines) : Longest(lines, k)
  BY <1>1
<1> QED BY <1>2, Zenon DEF Yielded, Longest, Legible

\* A readable file is replayed whole.
LEMMA YieldedAll ==
    ASSUME NEW S, NEW lines \in Seq(S), Legible(lines, Len(lines))
    PROVE  Yielded(lines) = lines
<1>1. Longest(lines, Len(lines)) /\ Len(lines) \in 0..Len(lines)
  BY DEF Longest
<1>2. SubSeq(lines, 1, Len(lines)) = lines
  OBVIOUS
<1> QED BY <1>1, <1>2, YieldedLongest

\* What follows a line that cannot be read is not replayed.
LEMMA YieldedBefore ==
    ASSUME NEW S, NEW lines \in Seq(S), NEW more \in Seq(S), ~Legible(lines, Len(lines))
    PROVE  Yielded(lines \o more) = Yielded(lines) /\ Yielded(lines) # lines
<1>1. PICK n \in 0..Len(lines) : Longest(lines, n)
  BY LongestExists
<1>2. n < Len(lines)
  BY <1>1 DEF Longest
<1> DEFINE all == lines \o more
<1>3. /\ all \in Seq(S) /\ Len(lines) \in Nat /\ Len(all) \in Nat /\ Len(lines) <= Len(all)
      /\ \A i \in 1..Len(lines) : all[i] = lines[i]
  OBVIOUS
<1> HIDE DEF all
<1>4. n \in 0..Len(all) /\ Longest(all, n)
  <2>1. n \in Nat /\ n + 1 \in Nat /\ n + 1 <= Len(lines) /\ n \in 0..Len(all)
    BY <1>2, <1>3
  <2>2. Legible(lines, n) /\ ~Legible(lines, n + 1)
    BY <1>1, <1>2 DEF Longest
  <2>3. \A i \in 1..(n + 1) : all[i] = lines[i]
    BY <1>3, <2>1
  <2>4. Legible(all, n) /\ ~Legible(all, n + 1)
    BY <2>1, <2>2, <2>3 DEF Legible
  <2> QED BY <2>1, <2>4 DEF Longest
<1>5. Yielded(lines) = SubSeq(lines, 1, n) /\ Yielded(all) = SubSeq(all, 1, n)
  BY <1>1, <1>3, <1>4, YieldedLongest
<1>6. SubSeq(lines, 1, n) = SubSeq(all, 1, n)
  BY <1>2, <1>3
<1>7. Len(SubSeq(lines, 1, n)) = n
  BY <1>2, <1>3
<1> QED BY <1>2, <1>3, <1>5, <1>6, <1>7 DEF all

\* A torn line hides nothing that precedes it.
LEMMA YieldedTorn ==
    ASSUME NEW S, NEW lines \in Seq(S), Torn \in S, Legible(lines, Len(lines))
    PROVE  Yielded(lines \o <<Torn>>) = lines /\ lines \o <<Torn>> # lines
<1> DEFINE all == lines \o <<Torn>>
           n == Len(lines)
<1>1. /\ all \in Seq(S) /\ n \in Nat /\ Len(all) = n + 1 /\ all[n + 1] = Torn
      /\ \A i \in 1..n : all[i] = lines[i]
  OBVIOUS
<1>2. SubSeq(all, 1, n) = lines
  OBVIOUS
<1> HIDE DEF all, n
<1>3. Legible(lines, n)
  BY DEF n
<1>4. n \in 0..Len(all) /\ Legible(all, n) /\ ~Legible(all, n + 1)
  BY <1>1, <1>3 DEF Legible
<1>5. Yielded(all) = SubSeq(all, 1, n)
  BY <1>1, <1>4, YieldedLongest DEF Longest
<1>6. Len(all) # Len(lines)
  BY <1>1 DEF n
<1> QED BY <1>2, <1>5, <1>6 DEF all

-----------------------------------------------------------------------------
(* The queue that the journal implements, with what is proved of it.        *)

P == INSTANCE DurableQueueProofs
       WITH log <- Image(Written(file, buffer)), disk <- Image(file),
            broken <- Unreadable

LEMMA QueueAssumptions == P!BoundsAssumption /\ P!NoMsgAssumption
  BY QueueAssumption DEF P!BoundsAssumption, P!NoMsgAssumption

LEMMA SameEffects ==
    ASSUME NEW x, NEW k, NEW a
    PROVE  /\ D!Enqueued(x, k) = P!Enqueued(x, k) /\ E!Enqueued(x, k) = P!Enqueued(x, k)
           /\ D!Leased(x, k) = P!Leased(x, k) /\ E!Leased(x, k) = P!Leased(x, k)
           /\ D!Acked(x, k) = P!Acked(x, k) /\ E!Acked(x, k) = P!Acked(x, k)
           /\ D!Retried(x, k, a) = P!Retried(x, k, a) /\ E!Retried(x, k, a) = P!Retried(x, k, a)
           /\ D!Buried(x, k) = P!Buried(x, k) /\ E!Buried(x, k) = P!Buried(x, k)
           /\ D!Requeued(x, k) = P!Requeued(x, k) /\ E!Requeued(x, k) = P!Requeued(x, k)
           /\ D!Exhausted(x, k) = P!Exhausted(x, k)
           /\ D!Evicted(x) = P!Evicted(x)
<1>1. D!Enqueued(x, k) = P!Enqueued(x, k) /\ E!Enqueued(x, k) = P!Enqueued(x, k)
  BY DEF D!Enqueued, P!Enqueued, E!Enqueued
<1>2. ASSUME NEW s PROVE D!Without(s, k) = P!Without(s, k) /\ E!Without(s, k) = P!Without(s, k)
  BY DEF D!Without, P!Without, E!Without, D!RemoveAt, P!RemoveAt, E!RemoveAt
<1>3. ASSUME NEW s PROVE D!With(s, k) = P!With(s, k) /\ E!With(s, k) = P!With(s, k)
  BY DEF D!With, P!With, E!With
<1>4. D!Leased(x, k) = P!Leased(x, k) /\ E!Leased(x, k) = P!Leased(x, k)
  BY <1>2 DEF D!Leased, P!Leased, E!Leased
<1>5. D!Acked(x, k) = P!Acked(x, k) /\ E!Acked(x, k) = P!Acked(x, k)
  BY <1>2 DEF D!Acked, P!Acked, E!Acked
<1>6. D!Retried(x, k, a) = P!Retried(x, k, a) /\ E!Retried(x, k, a) = P!Retried(x, k, a)
  BY <1>3 DEF D!Retried, P!Retried, E!Retried
<1>7. D!Buried(x, k) = P!Buried(x, k) /\ E!Buried(x, k) = P!Buried(x, k)
  BY <1>2 DEF D!Buried, P!Buried, E!Buried
<1>8. D!Requeued(x, k) = P!Requeued(x, k) /\ E!Requeued(x, k) = P!Requeued(x, k)
  BY <1>3 DEF D!Requeued, P!Requeued, E!Requeued
<1>9. D!Exhausted(x, k) = P!Exhausted(x, k)
  BY DEF D!Exhausted, P!Exhausted
<1>10. D!Evicted(x) = P!Evicted(x)
  BY DEF D!Evicted, P!Evicted
<1>. QED
  BY <1>1, <1>4, <1>5, <1>6, <1>7, <1>8, <1>9, <1>10

LEMMA SameEmpty == D!EmptyQueue = P!EmptyQueue /\ E!EmptyQueue = P!EmptyQueue
  BY DEF D!EmptyQueue, P!EmptyQueue, E!EmptyQueue

LEMMA SameJournal ==
    ASSUME NEW x, NEW ok, P!Journal(x, ok) PROVE D!Journal(x, ok)
  BY DEF D!Journal, P!Journal

LEMMA SameNext == P!Next => D!Next
<1>1. ASSUME NEW k, NEW ok, P!Enqueue(k, ok) PROVE D!Enqueue(k, ok)
  BY <1>1, SameEffects, SameJournal DEF P!Enqueue, D!Enqueue
<1>2. ASSUME NEW w, NEW k, NEW ok, P!Dequeue(w, k, ok) PROVE D!Dequeue(w, k, ok)
  <2>1. P!IsNextDue(k) => D!IsNextDue(k)
    BY DEF P!IsNextDue, D!IsNextDue
  <2>. QED
    BY <1>2, <2>1, SameEffects, SameJournal DEF P!Dequeue, D!Dequeue
<1>3. ASSUME NEW w, NEW ok, P!Ack(w, ok) PROVE D!Ack(w, ok)
  BY <1>3, SameEffects, SameJournal DEF P!Ack, D!Ack
<1>4. ASSUME NEW w, NEW p, NEW ok, P!Nack(w, p, ok) PROVE D!Nack(w, p, ok)
  BY <1>4, SameEffects, SameJournal DEF P!Nack, D!Nack
<1>5. ASSUME NEW k, NEW ok, P!RecoverStale(k, ok) PROVE D!RecoverStale(k, ok)
  BY <1>5, SameEffects, SameJournal DEF P!RecoverStale, D!RecoverStale
<1>6. ASSUME NEW w, P!Abandon(w) PROVE D!Abandon(w)
  BY <1>6 DEF P!Abandon, D!Abandon
<1>7. (P!Crash => D!Crash) /\ (P!Restart => D!Restart)
  BY SameEmpty DEF P!Crash, D!Crash, P!Restart, D!Restart
<1>. QED
  BY <1>1, <1>2, <1>3, <1>4, <1>5, <1>6, <1>7 DEF P!Next, D!Next

-----------------------------------------------------------------------------
(* The file.                                                                *)

Lines == Records \union {Torn}

LinesSound ==
    /\ file \in Seq(Lines) /\ buffer \in Seq(Records) /\ lastSeq \in Nat
    /\ ~up => buffer = <<>>
    /\ NumbersContinue

\* The images are of the next file and buffer.
LEMMA NextImage ==
    /\ Image(Written(file, buffer))' = Image(Written(file', buffer'))
    /\ Image(file)' = Image(file')
  OBVIOUS

LEMMA RecordsAreLines == ASSUME NEW s \in Seq(Records) PROVE s \in Seq(Lines)
  BY DEF Lines

LEMMA TornIsUnreadable ==
    ASSUME NEW lines \in Seq(Lines), Torn \in ToSet(lines)
    PROVE  ~Legible(lines, Len(lines))
  BY DEF Legible, ToSet

\* Lines are only ever added; all of them, unless the last one is torn.
LEMMA WrittenAdds ==
    ASSUME NEW lines \in Seq(Lines), NEW records \in Seq(Lines)
    PROVE  /\ \E more \in Seq(Lines) : Written(lines, records) = lines \o more
           /\ Torn \notin ToSet(lines) => Written(lines, records) = lines \o records
<1>1. records # <<>> => Tail(records) \in Seq(Lines)
  OBVIOUS
<1>2. lines # <<>> => Last(lines) \in ToSet(lines)
  BY DEF Last, ToSet
<1>. QED
  BY <1>1, <1>2 DEF Written

LEMMA WrittenNothing ==
    ASSUME NEW lines \in Seq(Lines) PROVE Written(lines, <<>>) = lines
  BY DEF Written

\* A readable file is replayed whole, and so will be what is in the buffer.
LEMMA WholeLines ==
    ASSUME NEW f \in Seq(Lines), NEW b \in Seq(Records), Torn \notin ToSet(f),
           \A i \in 1..Len(Written(f, b)) : Written(f, b)[i].seq = i
    PROVE  /\ Written(f, b) = f \o b
           /\ f \o b \in Seq(Records)
           /\ Legible(f \o b, Len(f \o b)) /\ Legible(f, Len(f))
           /\ Image(Written(f, b)) = Replayed(f \o b)
           /\ Yielded(f) = f
<1> DEFINE all == f \o b
<1>1. Written(f, b) = all
  BY WrittenAdds DEF Lines
<1>2. f \in Seq(Records)
  BY DEF Lines, ToSet
<1>3. /\ all \in Seq(Records) /\ Len(all) \in Nat /\ Len(all) = Len(f) + Len(b)
      /\ Len(f) \in Nat /\ Len(b) \in Nat
      /\ \A i \in 1..Len(f) : all[i] = f[i]
  BY <1>2
<1> HIDE DEF all
<1>4. Legible(all, Len(all)) /\ Legible(f, Len(f))
  <2>1. \A i \in 1..Len(all) : all[i] # Torn
    BY <1>3, TornAssumption
  <2>. QED
    BY <1>1, <1>3, <2>1 DEF Legible
<1>5. Yielded(all) = all /\ Yielded(f) = f
  BY <1>2, <1>3, <1>4, YieldedAll
<1>. QED
  BY <1>1, <1>3, <1>4, <1>5, ImageReplays DEF all

LEMMA WholeFile ==
    ASSUME LinesSound, Torn \notin ToSet(file)
    PROVE  /\ Written(file, buffer) = file \o buffer
           /\ file \o buffer \in Seq(Records) /\ Len(file \o buffer) = lastSeq
           /\ Legible(file \o buffer, lastSeq) /\ Legible(file, Len(file))
           /\ Image(Written(file, buffer)) = Replayed(file \o buffer)
           /\ Unreadable = FALSE
  BY WholeLines DEF LinesSound, NumbersContinue, Unreadable

\* A torn line stays, and what is written after it changes nothing.
LEMMA TornFile ==
    ASSUME NEW lines \in Seq(Lines), NEW records \in Seq(Lines), Torn \in ToSet(lines)
    PROVE  /\ Image(Written(lines, records)) = Image(lines)
           /\ Yielded(lines) # lines
           /\ Written(lines, records) \in Seq(Lines)
           /\ Torn \in ToSet(Written(lines, records))
<1>1. PICK more \in Seq(Lines) : Written(lines, records) = lines \o more
  BY WrittenAdds
<1>2. Yielded(lines \o more) = Yielded(lines) /\ Yielded(lines) # lines
  BY TornIsUnreadable, YieldedBefore
<1>3. lines \o more \in Seq(Lines) /\ Torn \in ToSet(lines \o more)
  BY DEF ToSet
<1>. QED
  BY <1>1, <1>2, <1>3, ImageReplays

\* An unreadable file stays what it is for those who read it.
LEMMA StaysTorn ==
    ASSUME LinesSound, Torn \in ToSet(file), NEW records \in Seq(Lines),
           \/ file' = Written(file, records) /\ buffer' = <<>>
           \/ UNCHANGED file /\ buffer' \in Seq(Records),
           lastSeq' \in Nat, ~up' => buffer' = <<>>
    PROVE  /\ LinesSound' /\ Unreadable = TRUE /\ Unreadable' = TRUE
           /\ Image(Written(file, buffer)) = Image(file)
           /\ Image(Written(file, buffer))' = Image(file)
           /\ Image(file)' = Image(file)
<1>1. file \in Seq(Lines) /\ buffer \in Seq(Lines)
  BY DEF LinesSound, Lines
<1>2. Image(Written(file, buffer)) = Image(file) /\ Unreadable = TRUE
  BY <1>1, TornFile DEF Unreadable
<1>3. file' \in Seq(Lines) /\ Torn \in ToSet(file') /\ Image(file') = Image(file)
  BY <1>1, TornFile
<1>4. buffer' \in Seq(Records) /\ buffer' \in Seq(Lines)
  <2>1. buffer' = <<>> \/ buffer' \in Seq(Records)
    OBVIOUS
  <2>2. <<>> \in Seq(Records)
    OBVIOUS
  <2>. QED
    BY <2>1, <2>2, RecordsAreLines
<1>5. Image(Written(file', buffer')) = Image(file') /\ Yielded(file') # file'
  BY <1>3, <1>4, TornFile
<1>6. LinesSound'
  BY <1>3, <1>4 DEF LinesSound, NumbersContinue
<1>7. Unreadable' = TRUE
  BY <1>5 DEF Unreadable
<1>. QED
  BY <1>2, <1>3, <1>5, <1>6, <1>7, NextImage

\* append: the record takes effect when the file is read, at once or with a
\* later write, unless the file cannot be read.
LEMMA AppendLineStep ==
    ASSUME LinesSound, up, NEW ok \in BOOLEAN, NEW m \in Ids, NEW a \in Nat,
           NEW op \in {"enqueue", "dequeue", "ack", "nack", "dead", "recover"},
           AppendLine(op, m, a, ok)
    PROVE  /\ LinesSound'
           /\ P!Journal(Apply(Image(Written(file, buffer)), Record(lastSeq + 1, op, m, a)), ok)
<1> DEFINE r == Record(lastSeq + 1, op, m, a)
           records == Append(buffer, r)
           all == file \o buffer
<1>1. r \in Records /\ r.seq = lastSeq + 1 /\ lastSeq + 1 \in Nat
  BY DEF LinesSound, Record, Records
<1> HIDE DEF r
<1>2. records \in Seq(Records) /\ records \in Seq(Lines)
  BY <1>1 DEF LinesSound, Lines
<1>3. /\ lastSeq' = lastSeq + 1 /\ up' = up
      /\ \/ ok /\ UNCHANGED faults
         \/ ~ok /\ faults < MaxFaults /\ faults' = faults + 1
      /\ \/ file' = Written(file, records) /\ buffer' = <<>>
         \/ ~ok /\ buffer' = records /\ UNCHANGED file
  BY DEF AppendLine, r
<1>4. CASE Torn \in ToSet(file)
  <2>1. /\ LinesSound' /\ Unreadable = TRUE /\ Unreadable' = TRUE
        /\ Image(Written(file, buffer)) = Image(file)
        /\ Image(Written(file, buffer))' = Image(file)
        /\ Image(file)' = Image(file)
    <3> HIDE DEF records
    <3>. QED
      BY <1>1, <1>2, <1>3, <1>4, StaysTorn
  <2>. QED
    BY <1>3, <2>1 DEF P!Journal
<1>5. CASE Torn \notin ToSet(file)
  <2>1. /\ Written(file, buffer) = all /\ all \in Seq(Records) /\ Len(all) = lastSeq
        /\ Legible(all, lastSeq) /\ Legible(file, Len(file)) /\ Unreadable = FALSE
        /\ Image(Written(file, buffer)) = Replayed(all)
    BY <1>5, WholeFile
  <2>2. file \in Seq(Records) /\ file \o records = Append(all, r)
    BY <1>1, <1>5 DEF LinesSound, Lines, ToSet
  <2> DEFINE new == Append(all, r)
  <2>3. /\ new \in Seq(Records) /\ Len(new) = lastSeq + 1 /\ new[lastSeq + 1] = r
        /\ \A i \in 1..lastSeq : new[i] = all[i]
    BY <1>1, <2>1
  <2> HIDE DEF new, all
  <2>4. Written(file, records) = new
    BY <1>2, <1>5, <2>2, WrittenAdds DEF LinesSound, new
  <2>5. file' \in Seq(Records) /\ Torn \notin ToSet(file')
    <3>1. file' \in Seq(Records)
      BY <1>3, <2>2, <2>3, <2>4
    <3>. QED
      BY <3>1, TornAssumption DEF ToSet
  <2>6. buffer' \in Seq(Records) /\ Written(file', buffer') = new
    <3>1. CASE file' = new /\ buffer' = <<>>
      BY <2>3, <3>1, WrittenNothing DEF Lines
    <3>2. CASE file' = file /\ buffer' = records
      BY <1>2, <2>4, <3>2
    <3>. QED
      BY <1>3, <2>4, <3>1, <3>2
  <2>7. \A i \in 1..(lastSeq + 1) : new[i].seq = i
    BY <1>1, <2>1, <2>3 DEF Legible, LinesSound
  <2>8. LinesSound'
    BY <1>1, <1>3, <2>3, <2>5, <2>6, <2>7 DEF LinesSound, NumbersContinue, Lines
  <2>9. Image(Written(file, buffer))' = Replayed(new) /\ Unreadable' = FALSE
    <3>1. file' \in Seq(Lines) /\ \A i \in 1..Len(new) : new[i].seq = i
      BY <2>3, <2>5, <2>7, RecordsAreLines
    <3>2. /\ Image(new) = Replayed(file' \o buffer') /\ file' \o buffer' = new
          /\ Yielded(file') = file'
      BY <2>5, <2>6, <3>1, WholeLines
    <3>. QED
      BY <1>3, <2>3, <2>6, <3>2, NextImage DEF Unreadable
  <2>10. Replayed(new) = Apply(Replayed(all), r)
    BY <1>1, <2>1, ReplayNext DEF new
  <2>11. /\ Image(file)' \in {Image(file), Image(Written(file, buffer))'}
         /\ ok => Image(file)' = Image(Written(file, buffer))'
    BY <1>3, <2>4, <2>6, NextImage
  <2>12. Image(Written(file, buffer))' = Apply(Image(Written(file, buffer)), r)
    BY <2>1, <2>9, <2>10
  <2>13. P!Journal(Apply(Image(Written(file, buffer)), r), ok)
    <3> HIDE DEF records
    <3>. QED
      BY <1>3, <2>1, <2>9, <2>11, <2>12 DEF P!Journal
  <2>. QED
    BY <2>8, <2>13 DEF r
<1>. QED
  BY <1>4, <1>5

-----------------------------------------------------------------------------
(* The steps.                                                               *)

\* What a record does to the queue that is read back.
LEMMA ApplyIs ==
    ASSUME NEW x, NEW k, NEW a, NEW s
    PROVE  /\ Apply(x, Record(s, "enqueue", k, a)) = P!Enqueued(x, k)
           /\ Apply(x, Record(s, "dequeue", k, a)) = P!Leased(x, k)
           /\ Apply(x, Record(s, "ack", k, a)) = P!Acked(x, k)
           /\ Apply(x, Record(s, "nack", k, a)) = P!Retried(x, k, a)
           /\ Apply(x, Record(s, "dead", k, a)) = P!Buried(x, k)
           /\ Apply(x, Record(s, "recover", k, a)) = P!Requeued(x, k)
<1>1. Apply(x, Record(s, "enqueue", k, a)) = P!Enqueued(x, k)
  BY SameEffects DEF Apply, Record
<1>2. Apply(x, Record(s, "dequeue", k, a)) = P!Leased(x, k)
  BY SameEffects DEF Apply, Record
<1>3. Apply(x, Record(s, "ack", k, a)) = P!Acked(x, k)
  BY SameEffects DEF Apply, Record
<1>4. Apply(x, Record(s, "nack", k, a)) = P!Retried(x, k, a)
  BY SameEffects DEF Apply, Record
<1>5. Apply(x, Record(s, "dead", k, a)) = P!Buried(x, k)
  BY SameEffects DEF Apply, Record
<1>6. Apply(x, Record(s, "recover", k, a)) = P!Requeued(x, k)
  BY SameEffects DEF Apply, Record
<1>. QED
  BY <1>1, <1>2, <1>3, <1>4, <1>5, <1>6

\* The lines are sound, and so is the queue they stand for.
JournalInv == LinesSound /\ P!IInv

LEMMA EnqueueStep ==
    ASSUME JournalInv, NEW m \in Ids, NEW ok \in BOOLEAN, Enqueue(m, ok)
    PROVE  LinesSound' /\ P!Enqueue(m, ok)
<1>1. LinesSound' /\ P!Journal(P!Enqueued(Image(Written(file, buffer)), m), ok)
  BY AppendLineStep, ApplyIs DEF JournalInv, Enqueue
<1>. QED
  BY <1>1, SameEffects DEF Enqueue, P!Enqueue

LEMMA DequeueStep ==
    ASSUME JournalInv, NEW w \in Workers, NEW m \in Ids, NEW ok \in BOOLEAN, Dequeue(w, m, ok)
    PROVE  LinesSound' /\ P!Dequeue(w, m, ok)
<1>1. LinesSound' /\ P!Journal(P!Leased(Image(Written(file, buffer)), m), ok)
  BY AppendLineStep, ApplyIs DEF JournalInv, Dequeue
<1>2. P!IsNextDue(m)
  BY DEF Dequeue, D!IsNextDue, P!IsNextDue
<1>. QED
  BY <1>1, <1>2, SameEffects DEF Dequeue, P!Dequeue

LEMMA Holds ==
    ASSUME JournalInv, NEW w \in Workers, held[w] # NoMsg
    PROVE  held[w] \in Ids /\ mem.att[held[w]] + 1 \in Nat
  BY DEF JournalInv, P!IInv, P!TypeOK, P!QueueImage

LEMMA AckStep ==
    ASSUME JournalInv, NEW w \in Workers, NEW ok \in BOOLEAN, Ack(w, ok)
    PROVE  LinesSound' /\ P!Ack(w, ok)
<1>1. held[w] \in Ids
  BY Holds DEF Ack
<1>2. LinesSound' /\ P!Journal(P!Acked(Image(Written(file, buffer)), held[w]), ok)
  BY <1>1, AppendLineStep, ApplyIs DEF JournalInv, Ack
<1>. QED
  BY <1>2, SameEffects DEF Ack, P!Ack

LEMMA NackStep ==
    ASSUME JournalInv, NEW w \in Workers, NEW permanent \in BOOLEAN, NEW ok \in BOOLEAN,
           Nack(w, permanent, ok)
    PROVE  LinesSound' /\ P!Nack(w, permanent, ok)
<1> DEFINE m == held[w]
           attempts == mem.att[m] + 1
<1>1. m \in Ids /\ attempts \in Nat /\ up
  BY Holds DEF Nack
<1>2. CASE /\ permanent \/ attempts >= MaxAttempts
           /\ mem' = D!Exhausted(mem, m)
           /\ AppendLine("dead", m, attempts, ok)
  <2>1. LinesSound' /\ P!Journal(P!Buried(Image(Written(file, buffer)), m), ok)
    <3> HIDE DEF m, attempts
    <3>. QED
      BY <1>1, <1>2, AppendLineStep, ApplyIs DEF JournalInv
  <2>. QED
    BY <1>2, <2>1, SameEffects DEF Nack, P!Nack
<1>3. CASE /\ ~permanent /\ attempts < MaxAttempts
           /\ mem' = D!Retried(mem, m, attempts)
           /\ AppendLine("nack", m, attempts, ok)
  <2>1. LinesSound' /\ P!Journal(P!Retried(Image(Written(file, buffer)), m, attempts), ok)
    <3> HIDE DEF m, attempts
    <3>. QED
      BY <1>1, <1>3, AppendLineStep, ApplyIs DEF JournalInv
  <2>. QED
    BY <1>3, <2>1, SameEffects DEF Nack, P!Nack
<1>. QED
  BY <1>2, <1>3 DEF Nack

LEMMA RecoverStaleStep ==
    ASSUME JournalInv, NEW m \in Ids, NEW ok \in BOOLEAN, RecoverStale(m, ok)
    PROVE  LinesSound' /\ P!RecoverStale(m, ok)
<1>1. LinesSound' /\ P!Journal(P!Requeued(Image(Written(file, buffer)), m), ok)
  BY AppendLineStep, ApplyIs DEF JournalInv, RecoverStale
<1>. QED
  BY <1>1, SameEffects DEF RecoverStale, P!RecoverStale

\* As long as lines, buffer and number stay, the queue they stand for does.
LEMMA SameLines ==
    ASSUME LinesSound, UNCHANGED <<file, buffer, lastSeq>>, ~up' => ~up
    PROVE  /\ LinesSound'
           /\ Image(Written(file, buffer))' = Image(Written(file, buffer))
           /\ Image(file)' = Image(file) /\ Unreadable' = Unreadable
  BY NextImage DEF LinesSound, NumbersContinue, Unreadable

LEMMA AbandonStep ==
    ASSUME JournalInv, NEW w \in Workers, Abandon(w)
    PROVE  LinesSound' /\ P!Abandon(w)
<1>1. UNCHANGED <<file, buffer, lastSeq, up>>
  BY DEF Abandon
<1>. QED
  BY <1>1, SameLines DEF JournalInv, Abandon, P!Abandon

LEMMA RestartStep ==
    ASSUME JournalInv, Restart
    PROVE  LinesSound' /\ P!Restart
<1>1. UNCHANGED <<file, buffer, lastSeq>> /\ up'
  BY DEF Restart
<1>. QED
  BY <1>1, SameLines DEF JournalInv, Restart, P!Restart

\* A crash loses what was buffered, whether or not it tears a line.
LEMMA CrashStep ==
    ASSUME JournalInv, Crash
    PROVE  LinesSound' /\ P!Crash
<1>1. /\ LinesSound /\ file \in Seq(Lines) /\ <<Torn>> \in Seq(Lines) /\ <<>> \in Seq(Records)
      /\ buffer' = <<>> /\ lastSeq' = SeqAfterReplay(file')
      /\ UNCHANGED file \/ (Tearing /\ file' = Written(file, <<Torn>>))
  BY DEF JournalInv, LinesSound, Crash, Lines
<1>2. CASE Torn \in ToSet(file)
  <2>1. file' \in Seq(Lines)
    BY <1>1, <1>2, TornFile
  <2>2. lastSeq' \in Nat
    BY <1>1, <2>1 DEF SeqAfterReplay
  <2>3. /\ LinesSound' /\ Unreadable = TRUE /\ Unreadable' = TRUE
        /\ Image(Written(file, buffer))' = Image(file) /\ Image(file)' = Image(file)
    BY <1>1, <1>2, <2>2, StaysTorn
  <2>. QED
    BY <2>3, SameEmpty DEF Crash, P!Crash
<1>3. CASE Torn \notin ToSet(file)
  <2>1. /\ Legible(file, Len(file)) /\ Unreadable = FALSE /\ Len(file) \in Nat
        /\ Yielded(file) = file
    BY <1>1, <1>3, WholeFile, YieldedAll
  <2>2. CASE UNCHANGED file
    <3>1. Written(file', buffer') = file /\ lastSeq' = Len(file)
      BY <1>1, <2>1, <2>2, WrittenNothing DEF SeqAfterReplay
    <3>2. LinesSound' /\ Unreadable' = FALSE
      BY <1>1, <2>1, <2>2, <3>1 DEF LinesSound, NumbersContinue, Unreadable, Legible
    <3>3. Image(Written(file, buffer))' = Image(file) /\ Image(file)' = Image(file)
      BY <2>2, <3>1, NextImage
    <3>. QED
      BY <2>1, <3>2, <3>3, SameEmpty DEF Crash, P!Crash
  <2>3. CASE Tearing /\ file' = Written(file, <<Torn>>)
    <3>1. file' = file \o <<Torn>>
      BY <1>1, <1>3, <2>3, WrittenAdds
    <3>2. Yielded(file') = file /\ file' # file
      BY <1>1, <2>1, <3>1, YieldedTorn DEF Lines
    <3>3. file' \in Seq(Lines) /\ Torn \in ToSet(file') /\ Written(file', buffer') = file'
      <4>1. file \o <<Torn>> \in Seq(Lines) /\ (file \o <<Torn>>)[Len(file) + 1] = Torn
        BY <1>1, <2>1
      <4>2. Len(file) + 1 \in DOMAIN (file \o <<Torn>>)
        BY <1>1, <2>1
      <4>. QED
        BY <1>1, <3>1, <4>1, <4>2, WrittenNothing DEF ToSet
    <3>4. lastSeq' = 0
      BY <1>1, <3>2 DEF SeqAfterReplay
    <3>5. LinesSound' /\ Unreadable' = TRUE
      BY <1>1, <3>2, <3>3, <3>4 DEF LinesSound, NumbersContinue, Unreadable
    <3>6. Image(file') = Image(file)
      BY <2>1, <3>2, ImageReplays
    <3>7. Image(Written(file, buffer))' = Image(file) /\ Image(file)' = Image(file)
      BY <3>3, <3>6, NextImage
    <3>. QED
      BY <2>1, <2>3, <3>5, <3>7, SameEmpty DEF Crash, P!Crash
  <2>. QED
    BY <1>1, <2>2, <2>3
<1>. QED
  BY <1>2, <1>3

LEMMA NextStep ==
    ASSUME JournalInv, [Next]_vars
    PROVE  JournalInv' /\ [P!Next]_(P!vars)
<1>1. CASE Next
  <2>1. LinesSound' /\ P!Next
    BY <1>1, EnqueueStep, DequeueStep, AckStep, NackStep, RecoverStaleStep,
       AbandonStep, CrashStep, RestartStep DEF Next, P!Next
  <2>2. P!IInv'
    BY <2>1, QueueAssumptions, P!NextStep DEF JournalInv
  <2>. QED
    BY <2>1, <2>2 DEF JournalInv
<1>2. CASE UNCHANGED vars
  <2>1. LinesSound' /\ UNCHANGED P!vars
    BY <1>2, SameLines DEF vars, P!vars, JournalInv
  <2>2. P!IInv'
    BY <2>1, QueueAssumptions, P!NextStep DEF JournalInv
  <2>. QED
    BY <2>1, <2>2 DEF JournalInv
<1>. QED
  BY <1>1, <1>2

LEMMA InitHolds == Init => JournalInv /\ P!Init /\ D!Init
<1> SUFFICES ASSUME Init PROVE JournalInv /\ P!Init /\ D!Init
  OBVIOUS
<1>1. /\ file = <<>> /\ buffer = <<>> /\ lastSeq = 0 /\ up = TRUE
      /\ file \in Seq(Lines) /\ buffer \in Seq(Records) /\ Torn \notin ToSet(file)
  BY DEF Init, ToSet
<1>2. Written(file, buffer) = <<>>
  BY <1>1, WrittenNothing
<1>3. LinesSound
  BY <1>1, <1>2 DEF LinesSound, NumbersContinue
<1>4. Unreadable = FALSE /\ Image(<<>>) = P!EmptyQueue
  <2>1. Yielded(<<>>) = <<>>
    <3>1. <<>> \in Seq(Lines) /\ Legible(<<>>, Len(<<>>))
      BY DEF Legible
    <3>. QED
      BY <3>1, YieldedAll
  <2>. QED
    BY <1>1, <1>3, <2>1, WholeFile, ImageReplays, ReplayNothing, SameEmpty
<1>5. P!Init /\ D!Init
  BY <1>1, <1>2, <1>4, SameEmpty DEF Init, P!Init, D!Init
<1>. QED
  BY <1>3, <1>5, QueueAssumptions, P!InitHolds DEF JournalInv

\* The lines, the buffer and the numbers are sound, and so is the queue they
\* stand for, in every reachable state.
THEOREM JournalInvariant == Spec => []JournalInv
  BY InitHolds, NextStep, PTL DEF Spec

\* The queue with its journal, whatever is torn, lost or left in the buffer,
\* does what the queue of DurableQueue does; and replay never stops at a line
\* this process wrote unless it began after a torn one.
THEOREM JournalImplementsQueue == Spec => ImplementsDurableQueue
<1>1. JournalInv /\ [Next]_vars => [D!Next]_(D!vars)
  <2>1. SUFFICES ASSUME JournalInv, [Next]_vars PROVE D!Next \/ UNCHANGED D!vars
    OBVIOUS
  <2>2. P!Next \/ UNCHANGED P!vars
    BY <2>1, NextStep
  <2>3. UNCHANGED P!vars => UNCHANGED D!vars
    BY DEF P!vars, D!vars
  <2>. QED
    BY <2>2, <2>3, SameNext
<1>2. JournalInv => NumbersContinue
  BY DEF JournalInv, LinesSound
<1>. QED
  BY <1>1, <1>2, InitHolds, JournalInvariant, PTL DEF Spec, D!Spec, ImplementsDurableQueue
=============================================================================
