-------------------------- MODULE JournalledQueue ---------------------------
(***************************************************************************)
(* The queue of reliability.py with the journal file it writes             *)
(* (class _AppendOnlyJournal): numbered lines, a writer that numbers and   *)
(* buffers them, and replay, which stops at the first line it cannot read  *)
(* or whose number is not the next one.  It implements DurableQueue.       *)
(*                                                                         *)
(* A crash that tears a line leaves a fragment that is no complete record; *)
(* the next line written is glued to it.                                   *)
(***************************************************************************)
EXTENDS Naturals, SequencesExt

CONSTANTS Ids, Workers, NoMsg, MaxAttempts, MaxPending, MaxFaults, Tearing,
          Torn,     \* a line that is not a complete record
          MaxLines  \* bound: records handed to the file in a behaviour

\* The complete records.
Records ==
    [seq : Nat, op : {"enqueue", "dequeue", "ack", "nack", "dead", "recover"},
     id : Ids, att : Nat]

ASSUME QueueAssumption ==
    /\ MaxAttempts \in Nat \ {0} /\ MaxPending \in Nat \ {0}
    /\ MaxFaults \in Nat /\ MaxLines \in Nat /\ Tearing \in BOOLEAN
    /\ NoMsg \notin Ids
ASSUME TornAssumption == Torn \notin Records

VARIABLES
    file,     \* the lines of journal.jsonl
    buffer,   \* records handed to the file object and not written yet
    lastSeq,  \* _AppendOnlyJournal.last_seq
    mem, up, held, accepted, reclaimed, faults

vars == <<file, buffer, lastSeq, mem, up, held, accepted, reclaimed, faults>>

-----------------------------------------------------------------------------
(* Reading the file. *)

Record(seq, op, m, attempts) == [seq |-> seq, op |-> op, id |-> m, att |-> attempts]

\* replay yields a line if it and all lines before it are readable and numbered
\* 1, 2, 3, ...
Yielded(lines) ==
    LET Good(n) == \A i \in 1..n : lines[i] # Torn /\ lines[i].seq = i
        n == CHOOSE k \in 0..Len(lines) :
               Good(k) /\ (k = Len(lines) \/ ~Good(k + 1))
    IN  SubSeq(lines, 1, n)

\* What replay leaves in last_seq: the assignment follows the loop, and an
\* unreadable line returns from within it.
SeqAfterReplay(lines) == IF Yielded(lines) = lines THEN Len(lines) ELSE 0

\* One record: _apply, as DurableQueue has it for any images.
E == INSTANCE DurableQueue WITH log <- mem, disk <- mem, broken <- FALSE

Apply(q, r) ==
    CASE r.op = "enqueue" -> E!Enqueued(q, r.id)
      [] r.op = "dequeue" -> E!Leased(q, r.id)
      [] r.op = "ack"     -> E!Acked(q, r.id)
      [] r.op = "nack"    -> E!Retried(q, r.id, r.att)
      [] r.op = "dead"    -> E!Buried(q, r.id)
      [] r.op = "recover" -> E!Requeued(q, r.id)

\* What the queue's recover rebuilds from the lines.
Image(lines) ==
    LET records == Yielded(lines)
        after[n \in 0..Len(records)] ==
            IF n = 0 THEN E!EmptyQueue ELSE Apply(after[n - 1], records[n])
    IN  after[Len(records)]

\* Lines written to the file: the first is glued to a fragment left at its end.
Written(lines, records) ==
    IF lines # <<>> /\ records # <<>> /\ Last(lines) = Torn
    THEN lines \o Tail(records)
    ELSE lines \o records

\* What is written now, or is in the buffer, will not all be replayed.
Unreadable == Yielded(file) # file \/ lastSeq # Len(Written(file, buffer))

\* The queue this module implements.
D == INSTANCE DurableQueue
       WITH log <- Image(Written(file, buffer)), disk <- Image(file),
            broken <- Unreadable

-----------------------------------------------------------------------------
(* Writing the file. *)

\* Mutated form of AppendLine: no flush, a record is written with a later one.
AppendLineUnflushed(op, m, attempts, ok) ==
    /\ Len(file) + Len(buffer) < MaxLines
    /\ lastSeq' = lastSeq + 1
    /\ buffer' = Append(buffer, Record(lastSeq + 1, op, m, attempts))
    /\ ok
    /\ UNCHANGED <<file, faults, up>>

\* append: the sequence number is taken first; if the write raises, the records
\* stay in the buffer or reached the file.
AppendLine(op, m, attempts, ok) ==
    LET records == Append(buffer, Record(lastSeq + 1, op, m, attempts))
    IN  /\ Len(file) + Len(buffer) < MaxLines
        /\ lastSeq' = lastSeq + 1
        /\ \/ ok /\ UNCHANGED faults
           \/ ~ok /\ faults < MaxFaults /\ faults' = faults + 1
        /\ \/ file' = Written(file, records) /\ buffer' = <<>>
           \/ ~ok /\ buffer' = records /\ UNCHANGED file
        /\ UNCHANGED up

-----------------------------------------------------------------------------
Init ==
    /\ file = <<>> /\ buffer = <<>> /\ lastSeq = 0
    /\ mem = D!EmptyQueue
    /\ up = TRUE
    /\ held = [w \in Workers |-> NoMsg]
    /\ accepted = {} /\ reclaimed = {} /\ faults = 0

Enqueue(m, ok) ==
    /\ up /\ m \notin accepted /\ mem.st[m] = "absent"
    /\ mem' = IF ok THEN D!Evicted(D!Enqueued(mem, m)) ELSE D!Enqueued(mem, m)
    /\ AppendLine("enqueue", m, 0, ok)
    /\ accepted' = IF ok THEN accepted \union {m} ELSE accepted
    /\ UNCHANGED <<held, reclaimed>>

Dequeue(w, m, ok) ==
    /\ up /\ held[w] = NoMsg /\ D!IsNextDue(m)
    /\ mem' = D!Leased(mem, m)
    /\ AppendLine("dequeue", m, 0, ok)
    /\ held' = IF ok THEN [held EXCEPT ![w] = m] ELSE held
    /\ UNCHANGED <<accepted, reclaimed>>

Ack(w, ok) ==
    /\ up /\ held[w] # NoMsg
    /\ mem' = D!Acked(mem, held[w])
    /\ AppendLine("ack", held[w], 0, ok)
    /\ held' = [held EXCEPT ![w] = NoMsg]
    /\ UNCHANGED <<accepted, reclaimed>>

Nack(w, permanent, ok) ==
    LET m == held[w]
        attempts == mem.att[m] + 1
    IN  /\ up /\ m # NoMsg
        /\ \/ /\ permanent \/ attempts >= MaxAttempts
              /\ mem' = D!Exhausted(mem, m)
              /\ AppendLine("dead", m, attempts, ok)
           \/ /\ ~permanent /\ attempts < MaxAttempts
              /\ mem' = D!Retried(mem, m, attempts)
              /\ AppendLine("nack", m, attempts, ok)
        /\ held' = [held EXCEPT ![w] = NoMsg]
        /\ UNCHANGED <<accepted, reclaimed>>

Abandon(w) ==
    /\ up /\ held[w] # NoMsg /\ faults < MaxFaults
    /\ faults' = faults + 1
    /\ held' = [held EXCEPT ![w] = NoMsg]
    /\ UNCHANGED <<file, buffer, lastSeq, mem, up, accepted, reclaimed>>

RecoverStale(m, ok) ==
    /\ up /\ m \in mem.processing
    /\ mem' = D!Requeued(mem, m)
    /\ AppendLine("recover", m, 0, ok)
    /\ reclaimed' = IF \E w \in Workers : held[w] = m
                    THEN reclaimed \union {m} ELSE reclaimed
    /\ UNCHANGED <<held, accepted>>

\* What was buffered is lost; a line may be half written.
Crash ==
    /\ up /\ faults < MaxFaults
    /\ up' = FALSE
    /\ faults' = faults + 1
    /\ mem' = D!EmptyQueue
    /\ held' = [w \in Workers |-> NoMsg]
    /\ buffer' = <<>>
    /\ \/ UNCHANGED file
       \/ Tearing /\ file' = Written(file, <<Torn>>)
    /\ lastSeq' = SeqAfterReplay(file')
    /\ UNCHANGED <<accepted, reclaimed>>

Restart ==
    /\ ~up
    /\ up' = TRUE
    /\ mem' = Image(file)
    /\ UNCHANGED <<file, buffer, lastSeq, held, accepted, reclaimed, faults>>

Next ==
    \/ \E ok \in BOOLEAN :
          \/ \E m \in Ids : Enqueue(m, ok) \/ RecoverStale(m, ok)
          \/ \E w \in Workers, m \in Ids : Dequeue(w, m, ok)
          \/ \E w \in Workers : Ack(w, ok)
          \/ \E w \in Workers, permanent \in BOOLEAN : Nack(w, permanent, ok)
    \/ \E w \in Workers : Abandon(w)
    \/ Crash
    \/ Restart

Spec == Init /\ [][Next]_vars

-----------------------------------------------------------------------------
\* The numbers of the lines in the buffer and of the next one continue those in
\* the file, as long as the file can be read to its end: replay never stops at
\* a line this process wrote unless it began after a torn one.
NumbersContinue ==
    LET lines == Written(file, buffer)
    IN  Torn \notin ToSet(file) =>
            /\ \A i \in 1..Len(lines) : lines[i].seq = i
            /\ lastSeq = Len(lines)

\* The queue with its journal implements DurableQueue: the file's lines, the
\* buffer and the numbering give the images and the flag that DurableQueue
\* keeps instead, and replay never stops at a line of this process.
ImplementsDurableQueue == D!Spec /\ []NumbersContinue

=============================================================================
