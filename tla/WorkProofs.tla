----------------------------- MODULE WorkProofs ------------------------------
(***************************************************************************)
(* Proofs about the components that MCWork brings together, one section    *)
(* each, for every value of the constants that satisfies the assumptions.  *)
(* The components have variables in common, of which a behaviour gives one *)
(* component the use: a component's invariant is proved of its own steps,  *)
(* and the last section draws from it what the run of MCWork checks.       *)
(***************************************************************************)
EXTENDS MCWork, TLAPS

-----------------------------------------------------------------------------
(* MessageBroker.  The invariant is stated of an image, and holds of the    *)
(* one in memory and of the one in the file: a restart turns the second     *)
(* into the first.  Most operations only develop messages that are there    *)
(* (Develops), which keeps an image sound whatever it was; send, deliver    *)
(* and complete also add to what was reported.                              *)

\* What would be loaded.
File == IF disk = NoMsg THEN M!Empty ELSE disk

\* What was reported of message m, against the message stored.
Fits(m, msg) ==
    /\ msg = NoMsg => m \notin first /\ m \notin done /\ deliveries[m] = 0
    /\ msg # NoMsg =>
          /\ m \in done => msg.st = "completed"
          /\ deliveries[m] <= msg.tries + 1
          /\ msg.st \in {"queued", "sent"} => deliveries[m] <= msg.tries

Sound(image) ==
    /\ image \in M!Images
    /\ \A m \in Ids : Fits(m, image.msgs[m])
    /\ \A m \in first : image.msgs[m].seq <= image.seq[To[m]]

\* The numbers that were reported are the same in memory and in the file.
SameNumbers == \A m \in first : mem.msgs[m].seq = File.msgs[m].seq

BrokerInv ==
    /\ M!TypeOK
    /\ Sound(mem)
    /\ Sound(File)
    /\ SameNumbers
    /\ M!NumbersDistinct

\* A completed message stays so, and one is queued again as a new attempt only.
Follows(msg, new) ==
    /\ new \in M!Messages
    /\ new.seq = msg.seq
    /\ msg.st = "completed" => new.st = "completed"
    /\ msg.tries <= new.tries
    /\ new.st \in {"queued", "sent"} =>
          msg.st \in {"queued", "sent"} \/ msg.tries < new.tries

Develops(image, new) ==
    /\ new \in M!Images
    /\ new.seq = image.seq
    /\ \A m \in Ids :
          /\ image.msgs[m] = NoMsg => new.msgs[m] = NoMsg
          /\ image.msgs[m] # NoMsg => Follows(image.msgs[m], new.msgs[m])

-----------------------------------------------------------------------------
(* Images *)

LEMMA MessagesAreStored ==
    ASSUME M!BrokerAssumption, NEW image \in M!Images, NEW m \in Ids, image.msgs[m] # NoMsg
    PROVE  /\ image.msgs[m] \in M!Messages
           /\ image.msgs[m].st \in M!Status
           /\ image.msgs[m].seq \in Nat
           /\ image.msgs[m].tries \in Nat /\ image.msgs[m].tries <= MaxRetries
<1>1. image.msgs[m] \in M!Messages
  BY DEF M!Images
<1>. QED
  BY <1>1 DEF M!Messages, M!BrokerAssumption

LEMMA DevelopedIsSound ==
    ASSUME M!BrokerAssumption, M!TypeOK, NEW image, Sound(image), NEW new, Develops(image, new)
    PROVE  /\ Sound(new)
           /\ \A m \in first : new.msgs[m].seq = image.msgs[m].seq
<1>1. ASSUME NEW m \in Ids PROVE Fits(m, new.msgs[m])
  <2>1. Fits(m, image.msgs[m])
    BY DEF Sound
  <2>2. CASE image.msgs[m] = NoMsg
    BY <2>1, <2>2 DEF Develops, Fits
  <2>3. CASE image.msgs[m] # NoMsg
    <3>1. Follows(image.msgs[m], new.msgs[m]) /\ new.msgs[m] # NoMsg
      BY <2>3 DEF Develops, Follows, M!BrokerAssumption
    <3>2. image.msgs[m].tries \in Nat /\ new.msgs[m].tries \in Nat
      BY <2>3, <3>1, MessagesAreStored DEF Develops, Sound
    <3>3. deliveries[m] \in Nat
      BY DEF M!TypeOK
    <3>. QED
      BY <2>1, <2>3, <3>1, <3>2, <3>3 DEF Fits, Follows
  <2>. QED
    BY <2>2, <2>3
<1>2. \A m \in first : image.msgs[m] # NoMsg /\ m \in Ids
  BY DEF Sound, Fits, M!TypeOK
<1>3. \A m \in first : new.msgs[m].seq = image.msgs[m].seq
  BY <1>2 DEF Develops, Follows
<1>. QED
  BY <1>1, <1>3 DEF Sound, Develops

LEMMA EmptyIsImage == M!Empty \in M!Images /\ \A m \in Ids : M!Empty.msgs[m] = NoMsg
BY DEF M!Empty, M!Images

LEMMA LoadedIsSound ==
    ASSUME M!BrokerAssumption, BrokerInv, NEW image, Sound(image),
           \A m \in first : image.msgs[m].seq = File.msgs[m].seq
    PROVE  /\ Sound(M!Loaded(image))
           /\ \A m \in first : M!Loaded(image).msgs[m].seq = File.msgs[m].seq
<1>1. CASE disk = NoMsg
  BY <1>1 DEF M!Loaded
<1>2. CASE disk # NoMsg
  <2>1. File = disk /\ Sound(disk) /\ disk \in M!Images
    BY <1>2 DEF File, BrokerInv, M!TypeOK
  <2> DEFINE msgs == [m \in Ids |-> IF disk.msgs[m] # NoMsg THEN disk.msgs[m]
                                                           ELSE image.msgs[m]]
  <2>2. M!Loaded(image) = [disk EXCEPT !.msgs = msgs]
    BY <1>2, Zenon DEF M!Loaded
  <2>3. msgs \in [Ids -> M!Messages \union {NoMsg}]
    BY <2>1 DEF M!Images, Sound
  <2>a. \A m \in Ids : msgs[m] = IF disk.msgs[m] # NoMsg THEN disk.msgs[m] ELSE image.msgs[m]
    OBVIOUS
  <2>. HIDE DEF msgs
  <2>b. M!Loaded(image) \in M!Images /\ M!Loaded(image).seq = disk.seq
    BY <2>1, <2>2, <2>3 DEF M!Images
  <2>4. \A m \in Ids : M!Loaded(image).msgs[m] =
             IF disk.msgs[m] # NoMsg THEN disk.msgs[m] ELSE image.msgs[m]
    BY <2>1, <2>2, <2>a DEF M!Images
  <2>5. \A m \in Ids : Fits(m, M!Loaded(image).msgs[m])
    BY <2>1, <2>4 DEF Sound
  <2>6. \A m \in first : m \in Ids /\ disk.msgs[m] # NoMsg
    BY <2>1 DEF Sound, Fits, BrokerInv, M!TypeOK
  <2>. QED
    BY <2>1, <2>b, <2>4, <2>5, <2>6 DEF Sound
<1>. QED
  BY <1>1, <1>2

-----------------------------------------------------------------------------
(* Steps that report nothing *)

\* IInv is kept when both images develop and nothing else is reported.
LEMMA QuietStep ==
    ASSUME M!BrokerAssumption, BrokerInv, UNCHANGED M!history,
           Sound(mem)', Sound(File)',
           \A m \in first : mem'.msgs[m].seq = mem.msgs[m].seq,
           \A m \in first : File'.msgs[m].seq = File.msgs[m].seq,
           disk' \in M!Images \union {NoMsg}, old' \subseteq Ids, faults' \in 0..MaxFaults
    PROVE  BrokerInv'
<1>1. first' = first /\ deliveries' = deliveries /\ done' = done
  BY DEF M!history
<1>2. M!TypeOK'
  BY <1>1 DEF M!TypeOK, BrokerInv, Sound
<1>3. SameNumbers'
  BY <1>1 DEF SameNumbers, BrokerInv
<1>4. M!NumbersDistinct'
  BY <1>1 DEF M!NumbersDistinct, BrokerInv
<1>. QED
  BY <1>2, <1>3, <1>4 DEF BrokerInv

\* A sound image may be saved, or only kept in memory.
LEMMA QuietSave ==
    ASSUME M!BrokerAssumption, BrokerInv, UNCHANGED M!history, NEW ok \in BOOLEAN,
           NEW image, Sound(image),
           \A m \in first : image.msgs[m].seq = mem.msgs[m].seq,
           M!Save(image, ok)
    PROVE  BrokerInv'
<1>1. first' = first /\ deliveries' = deliveries /\ done' = done
  BY DEF M!history
<1>2. Sound(mem)' /\ mem' = image
  BY <1>1 DEF M!Save, Sound, Fits
<1>3. old' \subseteq Ids /\ faults' \in 0..MaxFaults
  <2>1. old \subseteq Ids /\ faults \in 0..MaxFaults /\ MaxFaults \in Nat
    BY DEF BrokerInv, M!TypeOK, M!BrokerAssumption
  <2>2. old' = old /\ (faults' = faults \/ (faults < MaxFaults /\ faults' = faults + 1))
    BY Zenon DEF M!Save
  <2>. QED
    BY <2>1, <2>2
<1>4. CASE ok
  <2>1. disk' = image /\ image \in M!Images
    BY <1>4 DEF M!Save, Sound
  <2>2. File' = image
    BY <2>1 DEF File, M!BrokerAssumption
  <2>3. Sound(File)'
    BY <1>1, <2>2 DEF Sound, Fits
  <2>4. \A m \in first : File'.msgs[m].seq = File.msgs[m].seq
    BY <2>2 DEF BrokerInv, SameNumbers
  <2>. QED
    BY <1>2, <1>3, <2>1, <2>3, <2>4, QuietStep
<1>5. CASE ~ok
  <2>1. disk' = disk /\ File' = File
    BY <1>5 DEF M!Save, File
  <2>2. Sound(File)'
    BY <1>1, <2>1 DEF Sound, Fits, BrokerInv
  <2>3. disk' \in M!Images \union {NoMsg}
    BY <2>1 DEF BrokerInv, M!TypeOK
  <2>. QED
    BY <1>2, <1>3, <2>1, <2>2, <2>3, QuietStep
<1>. QED
  BY <1>4, <1>5

LEMMA DevelopingSave ==
    ASSUME M!BrokerAssumption, BrokerInv, UNCHANGED M!history, NEW ok \in BOOLEAN,
           NEW image, Develops(mem, image), M!Save(image, ok)
    PROVE  BrokerInv'
<1>1. Sound(image) /\ \A m \in first : image.msgs[m].seq = mem.msgs[m].seq
  BY DevelopedIsSound DEF BrokerInv
<1>. QED
  BY <1>1, QuietSave

\* One message changes its status, and is not queued by that.
LEMMA WithDevelops ==
    ASSUME M!BrokerAssumption, BrokerInv, NEW m \in M!Sent, mem.msgs[m].st # "completed",
           NEW st \in M!Status \ {"queued", "sent"}
    PROVE  Develops(mem, M!With(m, st))
<1>1. mem \in M!Images /\ m \in Ids /\ mem.msgs[m] # NoMsg
  BY DEF BrokerInv, M!TypeOK, M!Sent
<1>2. mem.msgs[m] \in M!Messages
  BY <1>1 DEF M!Images
<1> DEFINE new == [mem.msgs[m] EXCEPT !.st = st]
<1>3. new \in M!Messages /\ Follows(mem.msgs[m], new)
  BY <1>2 DEF M!Messages, Follows, M!BrokerAssumption
<1>4. M!With(m, st) = [mem EXCEPT !.msgs = [mem.msgs EXCEPT ![m] = new]]
  BY <1>1 DEF M!With, M!Images
<1>. HIDE DEF new
<1>5. M!With(m, st) \in M!Images /\ M!With(m, st).seq = mem.seq
  BY <1>1, <1>3, <1>4 DEF M!Images
<1>6. M!With(m, st).msgs = [mem.msgs EXCEPT ![m] = new]
  BY <1>1, <1>4 DEF M!Images
<1>7. \A k \in Ids : mem.msgs[k] # NoMsg => Follows(mem.msgs[k], mem.msgs[k])
  BY <1>1, MessagesAreStored DEF Follows
<1>. QED
  BY <1>1, <1>3, <1>5, <1>6, <1>7 DEF Develops, M!Images

\* An operation on some messages, each of which it develops.
LEMMA EachDevelops ==
    ASSUME M!BrokerAssumption, NEW image \in M!Images, NEW new \in M!Images,
           new.seq = image.seq,
           \A k \in Ids :
              \/ new.msgs[k] = image.msgs[k]
              \/ image.msgs[k] # NoMsg /\ Follows(image.msgs[k], new.msgs[k])
    PROVE  Develops(image, new)
<1>1. \A k \in Ids : image.msgs[k] # NoMsg => Follows(image.msgs[k], image.msgs[k])
  BY MessagesAreStored DEF Follows
<1>. QED
  BY <1>1 DEF Develops

LEMMA ExpiredDevelops ==
    ASSUME M!BrokerAssumption, NEW image \in M!Images
    PROVE  Develops(image, M!Expired(image))
<1> DEFINE msgs == [m \in Ids |-> IF m \in M!StaleOf(image)
                                  THEN [image.msgs[m] EXCEPT !.st = "expired"]
                                  ELSE image.msgs[m]]
<1>1. M!Expired(image) = [image EXCEPT !.msgs = msgs]
  BY Zenon DEF M!Expired
<1>2. ASSUME NEW k \in Ids
      PROVE  /\ msgs[k] \in M!Messages \union {NoMsg}
             /\ \/ msgs[k] = image.msgs[k]
                \/ image.msgs[k] # NoMsg /\ Follows(image.msgs[k], msgs[k])
  <2>1. CASE k \in M!StaleOf(image)
    <3>1. image.msgs[k] # NoMsg /\ image.msgs[k].st # "completed"
      BY <2>1 DEF M!StaleOf, M!Unfinished
    <3>2. image.msgs[k] \in M!Messages /\ msgs[k] = [image.msgs[k] EXCEPT !.st = "expired"]
      BY <2>1, <3>1 DEF M!Images
    <3>. QED
      BY <3>1, <3>2 DEF M!Messages, Follows, M!Status, M!Allowed, M!BrokerAssumption
  <2>2. CASE k \notin M!StaleOf(image)
    BY <2>2 DEF M!Images
  <2>. QED
    BY <2>1, <2>2
<1>3. msgs \in [Ids -> M!Messages \union {NoMsg}]
  BY <1>2
<1>. HIDE DEF msgs
<1>4. /\ M!Expired(image) \in M!Images
      /\ M!Expired(image).seq = image.seq /\ M!Expired(image).msgs = msgs
  BY <1>1, <1>3 DEF M!Images
<1>5. \A k \in Ids :
          \/ M!Expired(image).msgs[k] = image.msgs[k]
          \/ image.msgs[k] # NoMsg /\ Follows(image.msgs[k], M!Expired(image).msgs[k])
  BY <1>2, <1>4
<1>. QED
  BY <1>4, <1>5, EachDevelops, Zenon

LEMMA RequeuedDevelops ==
    ASSUME M!BrokerAssumption, BrokerInv, NEW S, S \subseteq M!Sent,
           \A m \in S : mem.msgs[m].tries < MaxRetries /\ mem.msgs[m].st # "completed"
    PROVE  Develops(mem, M!RequeuedAll(S))
<1> DEFINE msgs == [m \in Ids |-> IF m \in S THEN M!Requeued(mem.msgs[m]) ELSE mem.msgs[m]]
<1>0. mem \in M!Images
  BY DEF BrokerInv, M!TypeOK
<1>1. M!RequeuedAll(S) = [mem EXCEPT !.msgs = msgs]
  BY Zenon DEF M!RequeuedAll
<1>2. ASSUME NEW k \in Ids
      PROVE  /\ msgs[k] \in M!Messages \union {NoMsg}
             /\ \/ msgs[k] = mem.msgs[k]
                \/ mem.msgs[k] # NoMsg /\ Follows(mem.msgs[k], msgs[k])
  <2>1. CASE k \in S
    <3>1. mem.msgs[k] # NoMsg /\ mem.msgs[k] \in M!Messages
      BY <1>0, <2>1 DEF M!Sent, M!Images
    <3>2. msgs[k] = [mem.msgs[k] EXCEPT !.st = "queued", !.tries = mem.msgs[k].tries + 1]
      BY <2>1 DEF M!Requeued
    <3>3. mem.msgs[k].tries \in 0..MaxRetries - 1 /\ MaxRetries \in Nat
      BY <2>1, <3>1 DEF M!Messages, M!BrokerAssumption
    <3>4. msgs[k] \in M!Messages
      <4>1. "queued" \in M!Status
        BY DEF M!Status, M!Allowed
      <4>2. mem.msgs[k].tries + 1 \in 0..MaxRetries
        BY <3>3
      <4>. HIDE DEF msgs
      <4>. QED
        BY <3>1, <3>2, <4>1, <4>2 DEF M!Messages
    <3>5. msgs[k].seq = mem.msgs[k].seq /\ msgs[k].tries = mem.msgs[k].tries + 1
      BY <3>1, <3>2 DEF M!Messages
    <3>. QED
      BY <2>1, <3>1, <3>3, <3>4, <3>5 DEF Follows
  <2>2. CASE k \notin S
    BY <1>0, <2>2 DEF M!Images
  <2>. QED
    BY <2>1, <2>2
<1>3. msgs \in [Ids -> M!Messages \union {NoMsg}]
  BY <1>2
<1>. HIDE DEF msgs
<1>4. /\ M!RequeuedAll(S) \in M!Images
      /\ M!RequeuedAll(S).seq = mem.seq /\ M!RequeuedAll(S).msgs = msgs
  BY <1>0, <1>1, <1>3 DEF M!Images
<1>5. \A k \in Ids :
          \/ M!RequeuedAll(S).msgs[k] = mem.msgs[k]
          \/ mem.msgs[k] # NoMsg /\ Follows(mem.msgs[k], M!RequeuedAll(S).msgs[k])
  BY <1>2, <1>4
<1>. QED
  BY <1>0, <1>4, <1>5, EachDevelops, Zenon

LEMMA AgentsDevelop ==
    ASSUME M!BrokerAssumption, BrokerInv, NEW agents \in SUBSET Parties
    PROVE  Develops(mem, [mem EXCEPT !.known = agents])
<1>1. mem \in M!Images
  BY DEF BrokerInv, M!TypeOK
<1> DEFINE new == [mem EXCEPT !.known = agents]
<1>2. new \in M!Images /\ new.seq = mem.seq /\ new.msgs = mem.msgs
  BY <1>1 DEF M!Images
<1>. HIDE DEF new
<1>3. Develops(mem, new)
  BY <1>1, <1>2, EachDevelops
<1>. QED
  BY <1>3 DEF new

LEMMA CancelledDevelops ==
    ASSUME M!BrokerAssumption, BrokerInv, NEW S, S \subseteq M!Sent,
           \A m \in S : mem.msgs[m].st # "completed"
    PROVE  Develops(mem, [mem EXCEPT !.msgs =
               [m \in Ids |-> IF m \in S THEN [mem.msgs[m] EXCEPT !.st = "cancelled"]
                                         ELSE mem.msgs[m]]])
<1> DEFINE msgs == [m \in Ids |-> IF m \in S THEN [mem.msgs[m] EXCEPT !.st = "cancelled"]
                                             ELSE mem.msgs[m]]
<1> DEFINE new == [mem EXCEPT !.msgs = msgs]
<1>0. mem \in M!Images
  BY DEF BrokerInv, M!TypeOK
<1>1. ASSUME NEW k \in Ids
      PROVE  /\ msgs[k] \in M!Messages \union {NoMsg}
             /\ \/ msgs[k] = mem.msgs[k]
                \/ mem.msgs[k] # NoMsg /\ Follows(mem.msgs[k], msgs[k])
  <2>1. CASE k \in S
    <3>1. mem.msgs[k] # NoMsg /\ mem.msgs[k] \in M!Messages
      BY <1>0, <2>1 DEF M!Sent, M!Images
    <3>2. msgs[k] = [mem.msgs[k] EXCEPT !.st = "cancelled"]
      BY <2>1
    <3>. QED
      BY <2>1, <3>1, <3>2 DEF M!Messages, Follows, M!Status, M!Allowed, M!BrokerAssumption
  <2>2. CASE k \notin S
    BY <1>0, <2>2 DEF M!Images
  <2>. QED
    BY <2>1, <2>2
<1>2. msgs \in [Ids -> M!Messages \union {NoMsg}]
  BY <1>1
<1>. HIDE DEF msgs
<1>3. new \in M!Images /\ new.seq = mem.seq /\ new.msgs = msgs
  BY <1>0, <1>2 DEF M!Images
<1>4. \A k \in Ids :
          \/ new.msgs[k] = mem.msgs[k]
          \/ mem.msgs[k] # NoMsg /\ Follows(mem.msgs[k], new.msgs[k])
  BY <1>1, <1>3
<1>. HIDE DEF new
<1>5. Develops(mem, new)
  BY <1>0, <1>3, <1>4, EachDevelops
<1>. QED
  BY <1>5 DEF new, msgs

-----------------------------------------------------------------------------
(* Steps that report something *)

\* A message that an operation may move is stored and not completed, and if it may
\* be delivered, it has an attempt left.
LEMMA MovableMessages ==
    ASSUME M!BrokerAssumption, BrokerInv, NEW m
    PROVE  /\ \A st \in M!Status :
                 M!May(m, st) \/ M!MaySent(m, st) => m \in M!Sent /\ mem.msgs[m].st # "completed"
           /\ M!MaySent(m, "delivered") => mem.msgs[m].st \in {"queued", "sent"}
<1>1. \A k \in M!Sent : mem.msgs[k].st \in M!Status
  BY MessagesAreStored DEF BrokerInv, M!TypeOK, M!Sent
<1>. QED
  BY <1>1 DEF M!May, M!MaySent, M!Allowed, M!Status

\* After a save that returned, memory and file are one image.
LEMMA ReportedSave ==
    ASSUME M!BrokerAssumption, BrokerInv, NEW image \in M!Images, M!Save(image, TRUE),
           Sound(mem)', M!NumbersDistinct',
           first' \subseteq Ids, done' \subseteq Ids, deliveries' \in [Ids -> Nat]
    PROVE  BrokerInv'
<1>1. mem' = image /\ disk' = image /\ mem' \in M!Images
  BY DEF M!Save
<1>2. File' = mem'
  BY <1>1 DEF File, M!BrokerAssumption
<1>3. Sound(File)'
  BY <1>2 DEF Sound, Fits
<1>4. SameNumbers'
  BY <1>2 DEF SameNumbers
<1>5. old' \subseteq Ids /\ faults' \in 0..MaxFaults
  BY DEF BrokerInv, M!TypeOK, M!Save
<1>6. M!TypeOK'
  BY <1>1, <1>5 DEF M!TypeOK
<1>. QED
  BY <1>3, <1>4, <1>6 DEF BrokerInv

\* Nobody was told about a message that is not stored, so its send may store it
\* under the next number of its receiver.
LEMMA SendKeeps ==
    ASSUME M!BrokerAssumption, BrokerInv, NEW m \in Ids, NEW ok \in BOOLEAN, M!Send(m, ok)
    PROVE  BrokerInv'
<1> DEFINE fresh == M!CreateMessage(M!NextSequence(m)[To[m]])
           new == IF m \in old THEN [fresh EXCEPT !.st = "expired"] ELSE fresh
           image == [mem EXCEPT !.seq = M!NextSequence(m), !.msgs = [mem.msgs EXCEPT ![m] = new]]
<1>1. mem \in M!Images /\ mem.msgs[m] = NoMsg /\ To[m] \in Parties \union {Nobody}
  BY DEF BrokerInv, M!TypeOK, M!Send, M!Sent, M!BrokerAssumption
<1>2. /\ M!NextSequence(m) \in [Parties \union {Nobody} -> Nat]
      /\ M!NextSequence(m)[To[m]] = mem.seq[To[m]] + 1
      /\ \A a \in Parties \union {Nobody} : mem.seq[a] <= M!NextSequence(m)[a]
  BY <1>1 DEF M!NextSequence, M!Images
<1>3. mem.seq[To[m]] \in Nat
  BY <1>1 DEF M!Images
<1>4. /\ new \in M!Messages /\ new # NoMsg
      /\ new.seq = mem.seq[To[m]] + 1 /\ new.tries = 0 /\ new.st # "completed"
  <2>1. "queued" \in M!Status /\ "expired" \in M!Status /\ 0 \in 0..MaxRetries
    BY DEF M!Status, M!Allowed, M!BrokerAssumption
  <2>2. M!NextSequence(m)[To[m]] \in Nat \ {0}
    BY <1>2, <1>3
  <2>3. /\ fresh \in M!Messages /\ fresh.st = "queued"
        /\ fresh.seq = mem.seq[To[m]] + 1 /\ fresh.tries = 0
    BY <2>1, <2>2, <1>2 DEF M!CreateMessage, M!Messages
  <2>. HIDE DEF fresh
  <2>. QED
    BY <2>1, <2>3 DEF M!Messages, M!BrokerAssumption
<1>5. M!Save(image, ok)
  <2>. HIDE DEF fresh
  <2>1. image = [mem EXCEPT !.seq = M!NextSequence(m), !.msgs[m] = new]
    BY <1>1, Zenon DEF M!Images
  <2>2. M!Save([mem EXCEPT !.seq = M!NextSequence(m), !.msgs[m] = new], ok)
    BY Zenon DEF M!Send, fresh
  <2>. QED
    BY <2>1, <2>2, Zenon
<1>. HIDE DEF new
<1>6. /\ image \in M!Images /\ image.seq = M!NextSequence(m)
      /\ image.msgs = [mem.msgs EXCEPT ![m] = new]
  BY <1>1, <1>2, <1>4 DEF M!Images
<1>. HIDE DEF image
<1>7. m \notin first /\ m \notin done /\ deliveries[m] = 0
  BY <1>1 DEF BrokerInv, Sound, Fits
<1>8. \A k \in first : /\ k \in Ids /\ k # m
                      /\ mem.msgs[k].seq \in Nat
                      /\ mem.msgs[k].seq <= mem.seq[To[k]]
                      /\ mem.seq[To[k]] \in Nat
                      /\ To[k] \in Parties \union {Nobody}
  BY <1>1, <1>7, MessagesAreStored DEF BrokerInv, Sound, Fits, M!TypeOK, M!BrokerAssumption, M!Images
<1>9. \A k \in first : image.msgs[k] = mem.msgs[k] /\ image.msgs[k].seq <= image.seq[To[k]]
  BY <1>1, <1>2, <1>6, <1>8 DEF M!Images
<1>10. \A k \in Ids : Fits(k, image.msgs[k])
  BY <1>1, <1>4, <1>6, <1>7 DEF BrokerInv, Sound, Fits, M!Images
<1>11. CASE ok
  <2>1. mem' = image /\ first' = first \union {m} /\ done' = done /\ deliveries' = deliveries
    BY <1>5, <1>11 DEF M!Save, M!Send
  <2>2. image.msgs[m].seq = image.seq[To[m]]
    BY <1>1, <1>2, <1>4, <1>6 DEF M!Images
  <2>3. \A k \in Ids : Fits(k, mem.msgs[k])'
    BY <1>10, <2>1, <1>4, <1>1, <1>6 DEF Fits, M!Images
  <2>4. \A k \in first' : mem'.msgs[k].seq <= mem'.seq[To[k]]
    BY <1>9, <2>1, <2>2, <1>3, <1>2, <1>6
  <2>5. Sound(mem)'
    BY <1>6, <2>1, <2>3, <2>4 DEF Sound
  <2>6. \A k \in first : To[k] = To[m] => image.msgs[k].seq # image.msgs[m].seq
    BY <1>8, <1>9, <1>2, <1>3, <2>2, <1>6
  <2>7. M!NumbersDistinct'
    BY <2>1, <2>6, <1>9 DEF M!NumbersDistinct, BrokerInv
  <2>8. first' \subseteq Ids /\ done' \subseteq Ids /\ deliveries' \in [Ids -> Nat]
    BY <2>1 DEF BrokerInv, M!TypeOK
  <2>. QED
    BY <1>5, <1>6, <1>11, <2>5, <2>7, <2>8, ReportedSave
<1>12. CASE ~ok
  <2>1. Sound(image)
    BY <1>6, <1>9, <1>10 DEF Sound
  <2>2. UNCHANGED M!history
    BY <1>12 DEF M!Send, M!history
  <2>. QED
    BY <1>5, <1>9, <2>1, <2>2, QuietSave
<1>. QED
  BY <1>11, <1>12

\* What changes when one message changes its status, and who was told so.
LEMMA ReportedStatus ==
    ASSUME M!BrokerAssumption, BrokerInv, NEW m \in M!Sent,
           NEW new \in M!Messages, new.seq = mem.msgs[m].seq,
           M!Save([mem EXCEPT !.msgs = [mem.msgs EXCEPT ![m] = new]], TRUE),
           first' = first, done' \subseteq done \union {m}, done \subseteq done',
           deliveries' \in [Ids -> Nat],
           \A k \in Ids : k # m => deliveries'[k] = deliveries[k],
           Fits(m, new)'
    PROVE  BrokerInv'
<1>1. mem \in M!Images /\ m \in Ids
  BY DEF BrokerInv, M!TypeOK, M!Sent
<1> DEFINE image == [mem EXCEPT !.msgs = [mem.msgs EXCEPT ![m] = new]]
<1>2. /\ image \in M!Images /\ image.seq = mem.seq
      /\ image.msgs = [mem.msgs EXCEPT ![m] = new]
  BY <1>1 DEF M!Images
<1>3. mem' = image
  BY DEF M!Save
<1>. HIDE DEF image
<1>4. \A k \in Ids : Fits(k, mem.msgs[k])'
  <2>1. ASSUME NEW k \in Ids, k # m PROVE Fits(k, mem.msgs[k])'
    BY <1>1, <1>2, <1>3, <2>1 DEF BrokerInv, Sound, Fits, M!Images
  <2>2. Fits(m, mem.msgs[m])'
    BY <1>1, <1>2, <1>3 DEF M!Images
  <2>. QED
    BY <2>1, <2>2
<1>5. \A k \in first : k \in Ids /\ mem'.msgs[k].seq = mem.msgs[k].seq
  BY <1>1, <1>2, <1>3 DEF BrokerInv, M!TypeOK, M!Images
<1>6. Sound(mem)'
  BY <1>2, <1>3, <1>4, <1>5 DEF Sound, BrokerInv
<1>7. M!NumbersDistinct'
  BY <1>5 DEF M!NumbersDistinct, BrokerInv
<1>8. first' \subseteq Ids /\ done' \subseteq Ids
  BY <1>1 DEF BrokerInv, M!TypeOK
<1>. QED
  BY <1>2, <1>6, <1>7, <1>8, ReportedSave DEF image

\* A message is queued again as a new attempt, so it may be delivered once more.
LEMMA DeliverKeeps ==
    ASSUME M!BrokerAssumption, BrokerInv, NEW m \in Ids, NEW ok \in BOOLEAN, M!Deliver(m, ok)
    PROVE  BrokerInv'
<1> DEFINE new == [mem.msgs[m] EXCEPT !.st = "delivered", !.arrived = TRUE]
           image == [mem EXCEPT !.msgs = [mem.msgs EXCEPT ![m] = new]]
<1>1. mem \in M!Images /\ m \in M!Sent /\ mem.msgs[m] # NoMsg /\ mem.msgs[m] \in M!Messages
  BY DEF M!Deliver, M!MaySent, BrokerInv, M!TypeOK, M!Sent, M!Images
<1>2. mem.msgs[m].st \in {"queued", "sent"}
  BY MovableMessages DEF M!Deliver
<1>3. deliveries[m] <= mem.msgs[m].tries /\ m \notin done
  BY <1>1, <1>2 DEF BrokerInv, Sound, Fits
<1>4. new \in M!Messages /\ new # NoMsg
  <2>1. "delivered" \in M!Status
    BY DEF M!Status, M!Allowed
  <2>. QED
    BY <1>1, <2>1 DEF M!Messages, M!BrokerAssumption
<1>5. new.tries = mem.msgs[m].tries /\ new.st = "delivered" /\ new.seq = mem.msgs[m].seq
  BY <1>1 DEF M!Messages
<1>a. Follows(mem.msgs[m], new)
  <2>1. mem.msgs[m].tries \in Nat
    BY <1>1, MessagesAreStored
  <2>. HIDE DEF new
  <2>. QED
    BY <1>2, <1>4, <1>5, <2>1 DEF Follows
<1>6. M!Save(image, ok)
  <2>1. image = [mem EXCEPT !.msgs[m].st = "delivered", !.msgs[m].arrived = TRUE]
    BY <1>1 DEF M!Images
  <2>2. M!Save([mem EXCEPT !.msgs[m].st = "delivered", !.msgs[m].arrived = TRUE], ok)
    BY Zenon DEF M!Deliver
  <2>. QED
    BY <2>1, <2>2, Zenon
<1>7. PICK msg \in M!Messages : msg = new
  BY <1>4
<1>8. CASE ok
  <2>1. /\ first' = first /\ done' = done /\ deliveries \in [Ids -> Nat]
        /\ deliveries' = [deliveries EXCEPT ![m] = @ + 1]
    BY <1>8 DEF M!Deliver, BrokerInv, M!TypeOK
  <2>2. deliveries' \in [Ids -> Nat] /\ deliveries'[m] = deliveries[m] + 1
    BY <2>1
  <2>3. \A k \in Ids : k # m => deliveries'[k] = deliveries[k]
    BY <2>1
  <2>4. mem.msgs[m].tries \in Nat /\ deliveries[m] \in Nat
    BY <1>1, <2>1, MessagesAreStored
  <2>5. Fits(m, msg)'
    BY <1>3, <1>5, <1>7, <2>1, <2>2, <2>4 DEF Fits, M!BrokerAssumption
  <2>6. M!Save([mem EXCEPT !.msgs = [mem.msgs EXCEPT ![m] = msg]], TRUE)
    BY <1>6, <1>7, <1>8
  <2>. QED
    BY <1>1, <1>5, <1>7, <2>1, <2>2, <2>3, <2>5, <2>6, ReportedStatus
<1>9. CASE ~ok
  <2>1. UNCHANGED M!history
    BY <1>9 DEF M!Deliver, M!history, BrokerInv, M!TypeOK
  <2>2. /\ image \in M!Images /\ image.seq = mem.seq
        /\ \A k \in Ids : image.msgs[k] = IF k = m THEN new ELSE mem.msgs[k]
    BY <1>1, <1>4 DEF M!Images
  <2>. HIDE DEF image
  <2>3. Develops(mem, image)
    BY <1>1, <1>a, <2>2, EachDevelops
  <2>. QED
    BY <1>6, <2>1, <2>3, DevelopingSave
<1>. QED
  BY <1>8, <1>9

LEMMA CompleteKeeps ==
    ASSUME M!BrokerAssumption, BrokerInv, NEW m \in Ids, NEW ok \in BOOLEAN, M!Complete(m, ok)
    PROVE  BrokerInv'
<1> DEFINE new == [mem.msgs[m] EXCEPT !.st = "completed"]
<1>0. "completed" \in M!Status \ {"queued", "sent"}
  BY DEF M!Status, M!Allowed
<1>1. mem \in M!Images /\ m \in M!Sent /\ mem.msgs[m] # NoMsg /\ mem.msgs[m] \in M!Messages
  BY DEF M!Complete, M!May, BrokerInv, M!TypeOK, M!Sent, M!Images
<1>2. M!Save(M!With(m, "completed"), ok)
  BY DEF M!Complete
<1>3. CASE ok
  <2>1. PICK msg \in M!Messages : msg = new
    BY <1>0, <1>1 DEF M!Messages
  <2>2. M!With(m, "completed") = [mem EXCEPT !.msgs = [mem.msgs EXCEPT ![m] = msg]]
    BY <1>1, <2>1 DEF M!With, M!Images
  <2>3. /\ msg.tries = mem.msgs[m].tries /\ msg.st = "completed"
        /\ msg.seq = mem.msgs[m].seq
    BY <1>1, <2>1 DEF M!Messages
  <2>4. /\ first' = first /\ done' = done \union {m} /\ deliveries' = deliveries
        /\ deliveries \in [Ids -> Nat]
    BY <1>3 DEF M!Complete, BrokerInv, M!TypeOK
  <2>5. Fits(m, msg)'
    BY <1>1, <2>3, <2>4 DEF Fits, BrokerInv, Sound, M!BrokerAssumption
  <2>6. M!Save([mem EXCEPT !.msgs = [mem.msgs EXCEPT ![m] = msg]], TRUE)
    BY <1>2, <1>3, <2>2
  <2>. QED
    BY <1>1, <2>1, <2>3, <2>4, <2>5, <2>6, ReportedStatus
<1>4. CASE ~ok
  <2>1. UNCHANGED M!history
    BY <1>4 DEF M!Complete, M!history
  <2>2. mem.msgs[m].st # "completed"
    BY <1>0, MovableMessages DEF M!Complete
  <2>. QED
    BY <1>0, <1>1, <1>2, <2>1, <2>2, WithDevelops, DevelopingSave
<1>. QED
  BY <1>3, <1>4

-----------------------------------------------------------------------------
(* Steps of the broker itself *)

LEMMA StatusKeeps ==
    ASSUME M!BrokerAssumption, BrokerInv, NEW m \in Ids, NEW ok \in BOOLEAN,
           \/ M!Acknowledge(m, ok) \/ M!Process(m, ok) \/ M!Fail(m, ok) \/ M!Cancel(m, ok)
    PROVE  BrokerInv'
<1>1. {"acknowledged", "processing", "failed", "cancelled"} \subseteq M!Status \ {"queued", "sent"}
  BY DEF M!Status, M!Allowed
<1>2. PICK st \in M!Status \ {"queued", "sent"} :
          (M!May(m, st) \/ M!MaySent(m, st)) /\ M!Save(M!With(m, st), ok) /\ UNCHANGED M!history
  BY <1>1 DEF M!Acknowledge, M!Process, M!Fail, M!Cancel
<1>3. m \in M!Sent /\ mem.msgs[m].st # "completed"
  BY <1>2, MovableMessages
<1>. QED
  BY <1>2, <1>3, WithDevelops, DevelopingSave

LEMMA RetriesKeep ==
    ASSUME M!BrokerAssumption, BrokerInv,
           \/ \E m \in Ids, ok \in BOOLEAN : M!Retry(m, ok)
           \/ M!RetryStuckMessages
           \/ \E m \in Ids, S \in SUBSET Ids : M!RetryStuckMessagesRaises(S, m)
    PROVE  BrokerInv'
<1>0. mem \in M!Images
  BY DEF BrokerInv, M!TypeOK
<1>1. ASSUME NEW S, S \subseteq M!Retriable PROVE Develops(mem, M!RequeuedAll(S))
  <2>1. S \subseteq M!Sent /\ \A m \in S : mem.msgs[m].tries < MaxRetries /\ mem.msgs[m].st # "completed"
    BY <1>1 DEF M!Retriable, M!Stuck
  <2>. QED
    BY <2>1, RequeuedDevelops
<1>2. CASE \E m \in Ids, ok \in BOOLEAN : M!Retry(m, ok)
  <2>1. PICK m \in Ids, ok \in BOOLEAN : M!Retry(m, ok)
    BY <1>2
  <2>2. m \in M!Sent /\ mem.msgs[m].st # "completed" /\ mem.msgs[m].tries < MaxRetries
    <3>1. "queued" \in M!Status
      BY DEF M!Status, M!Allowed
    <3>. QED
      BY <2>1, <3>1, MovableMessages DEF M!Retry
  <2>3. Develops(mem, M!RequeuedAll({m}))
    BY <2>2, RequeuedDevelops
  <2>4. M!RequeuedAll({m}) = [mem EXCEPT !.msgs[m] = M!Requeued(@)]
    <3>1. [k \in Ids |-> IF k \in {m} THEN M!Requeued(mem.msgs[k]) ELSE mem.msgs[k]] =
              [mem.msgs EXCEPT ![m] = M!Requeued(mem.msgs[m])]
      BY <1>0 DEF M!Images
    <3>. QED
      BY <3>1, Zenon DEF M!RequeuedAll
  <2>5. M!Save(M!RequeuedAll({m}), ok) /\ UNCHANGED M!history
    BY <2>1, <2>4, Zenon DEF M!Retry
  <2>. QED
    BY <2>3, <2>5, DevelopingSave
<1>3. CASE M!RetryStuckMessages
  BY <1>1, <1>3, DevelopingSave DEF M!RetryStuckMessages
<1>4. CASE \E m \in Ids, S \in SUBSET Ids : M!RetryStuckMessagesRaises(S, m)
  <2>1. PICK m \in Ids, S \in SUBSET Ids : M!RetryStuckMessagesRaises(S, m)
    BY <1>4
  <2>2. S \subseteq M!Retriable /\ S \union {m} \subseteq M!Retriable
    BY <2>1 DEF M!RetryStuckMessagesRaises
  <2>3. first' = first /\ deliveries' = deliveries /\ done' = done /\ old' = old
    BY <2>1 DEF M!RetryStuckMessagesRaises, M!history
  <2>4. /\ Sound(M!RequeuedAll(S)) /\ Sound(M!RequeuedAll(S \union {m}))
        /\ \A k \in first : M!RequeuedAll(S).msgs[k].seq = mem.msgs[k].seq
        /\ \A k \in first : M!RequeuedAll(S \union {m}).msgs[k].seq = mem.msgs[k].seq
    BY <1>1, <2>2, DevelopedIsSound DEF BrokerInv
  <2>5. mem' = M!RequeuedAll(S \union {m}) /\ disk' = IF S = {} THEN disk ELSE M!RequeuedAll(S)
    BY <2>1 DEF M!RetryStuckMessagesRaises
  <2>6. Sound(mem)'
    BY <2>3, <2>4, <2>5 DEF Sound, Fits
  <2>7. old' \subseteq Ids /\ faults' \in 0..MaxFaults
    BY <2>1, <2>3 DEF M!RetryStuckMessagesRaises, BrokerInv, M!TypeOK, M!BrokerAssumption
  <2>8. CASE S = {}
    <3>1. disk' = disk /\ File' = File
      BY <2>5, <2>8 DEF File
    <3>2. Sound(File)' /\ disk' \in M!Images \union {NoMsg}
      BY <2>3, <3>1 DEF Sound, Fits, BrokerInv, M!TypeOK
    <3>. QED
      BY <2>3, <2>4, <2>5, <2>6, <2>7, <3>1, <3>2, QuietStep DEF M!history
  <2>9. CASE S # {}
    <3>1. disk' = M!RequeuedAll(S) /\ disk' \in M!Images
      BY <2>4, <2>5, <2>9 DEF Sound
    <3>2. File' = M!RequeuedAll(S)
      BY <3>1 DEF File, M!BrokerAssumption
    <3>3. Sound(File)'
      BY <2>3, <2>4, <3>2 DEF Sound, Fits
    <3>4. \A k \in first : File'.msgs[k].seq = File.msgs[k].seq
      BY <2>4, <3>2 DEF BrokerInv, SameNumbers
    <3>. QED
      BY <2>3, <2>4, <2>5, <2>6, <2>7, <3>1, <3>3, <3>4, QuietStep DEF M!history
  <2>. QED
    BY <2>8, <2>9
<1>. QED
  BY <1>2, <1>3, <1>4

LEMMA AgentsKeep ==
    ASSUME M!BrokerAssumption, BrokerInv, NEW a \in Parties, NEW ok \in BOOLEAN,
           \/ M!RegisterKnownAgent(a, ok) \/ M!UnregisterKnownAgent(a, ok)
           \/ M!HandleUnavailableAgent(a, ok)
    PROVE  BrokerInv'
<1>1. CASE M!RegisterKnownAgent(a, ok) \/ M!UnregisterKnownAgent(a, ok)
  <2>1. mem.known \in SUBSET Parties
    BY DEF BrokerInv, M!TypeOK, M!Images
  <2>2. PICK agents \in SUBSET Parties : M!Save([mem EXCEPT !.known = agents], ok)
    BY <1>1, <2>1 DEF M!RegisterKnownAgent, M!UnregisterKnownAgent
  <2>3. UNCHANGED M!history
    BY <1>1 DEF M!RegisterKnownAgent, M!UnregisterKnownAgent
  <2>. QED
    BY <2>2, <2>3, AgentsDevelop, DevelopingSave
<1>2. CASE M!HandleUnavailableAgent(a, ok)
  <2>1. M!Pending(a) \subseteq M!Sent /\ \A m \in M!Pending(a) : mem.msgs[m].st # "completed"
    BY DEF M!Pending
  <2>. QED
    BY <1>2, <2>1, CancelledDevelops, DevelopingSave DEF M!HandleUnavailableAgent
<1>. QED
  BY <1>1, <1>2

LEMMA FileKeeps ==
    ASSUME M!BrokerAssumption, BrokerInv,
           \/ \E ok \in BOOLEAN : M!DetectStale(ok) \/ M!Recover(ok)
           \/ M!Crash
           \/ \E m \in Ids : M!Lapse(m)
    PROVE  BrokerInv'
<1>1. CASE \E ok \in BOOLEAN : M!DetectStale(ok)
  BY <1>1, ExpiredDevelops, DevelopingSave DEF M!DetectStale, BrokerInv, M!TypeOK
<1>2. /\ Sound(M!Loaded(mem))
      /\ \A m \in first : M!Loaded(mem).msgs[m].seq = mem.msgs[m].seq
  BY LoadedIsSound DEF BrokerInv, SameNumbers
<1>3. ASSUME NEW ok \in BOOLEAN, M!Recover(ok) PROVE BrokerInv'
  <2>1. CASE M!StaleOf(M!Loaded(mem)) = {}
    <3>1. mem' = M!Loaded(mem) /\ UNCHANGED <<disk, old, faults, M!history>>
      BY <1>3, <2>1 DEF M!Recover
    <3>2. File' = File
      BY <3>1 DEF File
    <3>3. Sound(mem)' /\ Sound(File)'
      BY <1>2, <3>1, <3>2 DEF Sound, Fits, M!history, BrokerInv
    <3>4. disk' \in M!Images \union {NoMsg} /\ old' \subseteq Ids /\ faults' \in 0..MaxFaults
      BY <3>1 DEF BrokerInv, M!TypeOK
    <3>. QED
      BY <1>2, <3>1, <3>2, <3>3, <3>4, QuietStep
  <2>2. CASE M!StaleOf(M!Loaded(mem)) # {}
    <3>1. M!Save(M!Expired(M!Loaded(mem)), ok) /\ UNCHANGED M!history
      BY <1>3, <2>2 DEF M!Recover
    <3>2. Develops(M!Loaded(mem), M!Expired(M!Loaded(mem)))
      BY <1>2, ExpiredDevelops DEF Sound
    <3>3. /\ Sound(M!Expired(M!Loaded(mem)))
          /\ \A m \in first : M!Expired(M!Loaded(mem)).msgs[m].seq = mem.msgs[m].seq
      BY <1>2, <3>2, DevelopedIsSound DEF BrokerInv
    <3>. QED
      BY <3>1, <3>3, QuietSave
  <2>. QED
    BY <2>1, <2>2
<1>4. CASE M!Crash
  <2>1. mem' = M!Loaded(M!Empty) /\ UNCHANGED <<disk, old, M!history>>
    BY <1>4 DEF M!Crash
  <2>2. M!Loaded(M!Empty) = File
    <3>1. CASE disk = NoMsg
      BY <3>1 DEF M!Loaded, File
    <3>2. CASE disk # NoMsg
      <4>1. disk \in M!Images
        BY <3>2 DEF BrokerInv, M!TypeOK
      <4> DEFINE msgs == [m \in Ids |-> IF disk.msgs[m] # NoMsg THEN disk.msgs[m]
                                                                ELSE M!Empty.msgs[m]]
      <4>2. msgs = disk.msgs
        BY <4>1, EmptyIsImage DEF M!Images
      <4>3. M!Loaded(M!Empty) = [disk EXCEPT !.msgs = msgs]
        BY <3>2, Zenon DEF M!Loaded
      <4>. HIDE DEF msgs
      <4>. QED
        BY <3>2, <4>1, <4>2, <4>3 DEF File, M!Images
    <3>. QED
      BY <3>1, <3>2
  <2>3. mem' = File /\ File' = File
    BY <2>1, <2>2 DEF File
  <2>4. Sound(mem)' /\ Sound(File)'
    BY <2>1, <2>3 DEF Sound, Fits, M!history, BrokerInv
  <2>5. disk' \in M!Images \union {NoMsg} /\ old' \subseteq Ids /\ faults' \in 0..MaxFaults
    BY <1>4, <2>1 DEF M!Crash, BrokerInv, M!TypeOK, M!BrokerAssumption
  <2>6. \A m \in first : mem'.msgs[m].seq = mem.msgs[m].seq
    BY <2>3 DEF BrokerInv, SameNumbers
  <2>. QED
    BY <2>1, <2>3, <2>4, <2>5, <2>6, QuietStep
<1>5. CASE \E m \in Ids : M!Lapse(m)
  <2>1. UNCHANGED <<mem, disk, faults, M!history>> /\ old' \subseteq Ids
    BY <1>5 DEF M!Lapse, BrokerInv, M!TypeOK
  <2>2. File' = File
    BY <2>1 DEF File
  <2>3. Sound(mem)' /\ Sound(File)'
    BY <2>1, <2>2 DEF Sound, Fits, M!history, BrokerInv
  <2>4. disk' \in M!Images \union {NoMsg} /\ faults' \in 0..MaxFaults
    BY <2>1 DEF BrokerInv, M!TypeOK
  <2>. QED
    BY <2>1, <2>2, <2>3, <2>4, QuietStep
<1>. QED
  BY <1>1, <1>3, <1>4, <1>5

-----------------------------------------------------------------------------
(* The invariant holds. *)

LEMMA InitHolds == ASSUME M!BrokerAssumption, M!Init PROVE BrokerInv
<1>1. File = M!Empty /\ mem = M!Empty
  BY DEF M!Init, File
<1>2. Sound(M!Empty)
  BY EmptyIsImage DEF M!Init, Sound, Fits
<1>3. M!TypeOK
  BY EmptyIsImage DEF M!Init, M!TypeOK, M!BrokerAssumption
<1>. QED
  BY <1>1, <1>2, <1>3 DEF BrokerInv, SameNumbers, M!NumbersDistinct, M!Init

LEMMA NextKeeps == ASSUME M!BrokerAssumption, BrokerInv, [M!Next]_(M!vars) PROVE BrokerInv'
<1>1. CASE UNCHANGED M!vars
  BY <1>1 DEF M!vars, BrokerInv, M!TypeOK, Sound, Fits, File, SameNumbers, M!NumbersDistinct
<1>2. CASE M!Next
  BY <1>2, FileKeeps, AgentsKeep, RetriesKeep, StatusKeeps, SendKeeps, DeliverKeeps,
     CompleteKeeps
  DEF M!Next
<1>. QED
  BY <1>1, <1>2

\* What was reported complete is complete in the file, too.
LEMMA CompletedStay == ASSUME BrokerInv PROVE M!ReportedIsFinal
<1>1. ASSUME NEW m \in done
      PROVE  /\ mem.msgs[m] # NoMsg /\ mem.msgs[m].st = "completed"
             /\ disk # NoMsg /\ disk.msgs[m] # NoMsg /\ disk.msgs[m].st = "completed"
  <2>1. m \in Ids
    BY <1>1 DEF BrokerInv, M!TypeOK
  <2>2. /\ mem.msgs[m] # NoMsg /\ mem.msgs[m].st = "completed"
        /\ File.msgs[m] # NoMsg /\ File.msgs[m].st = "completed"
    BY <1>1, <2>1 DEF BrokerInv, Sound, Fits
  <2>3. disk # NoMsg
    BY <2>1, <2>2, EmptyIsImage DEF File
  <2>. QED
    BY <2>2, <2>3 DEF File
<1>. QED
  BY <1>1 DEF M!ReportedIsFinal

-----------------------------------------------------------------------------
(* Delegation.  What the invariants say is inductive: an operation that     *)
(* makes a task successful stores its whole result, and what it does to     *)
(* other tasks, one write each, leaves none of them successful that was not *)
(* and takes no result away (Calmer).  A write that raises leaves another   *)
(* image in the file than in memory, but one that an earlier or the same    *)
(* operation built.                                                         *)

SuccessIn(image) ==
    \A t \in D!Tasks :
        image.st[t] = "success" =>
            \E a \in Agents :
                /\ image.agent[t] \in {a, None}
                /\ image.res[t] = {<<a, image.exec[t]>>}

DelegationInv == D!TypeOK /\ D!SuccessIsCurrent /\ D!AcceptedResultIsKept

\* new is image with tasks moved to a status other than success.
Calmer(new, image) ==
    /\ new \in D!Images
    /\ new.agent = image.agent /\ new.exec = image.exec /\ new.res = image.res
    /\ \A t \in D!Tasks : new.st[t] = "success" => image.st[t] = "success"

LEMMA CalmerSuccess ==
    ASSUME NEW image, NEW new, Calmer(new, image), SuccessIn(image)
    PROVE  SuccessIn(new)
  BY DEF Calmer, SuccessIn

LEMMA MovedIsCalmer ==
    ASSUME NEW image \in D!Images, NEW st \in [D!Tasks -> D!TaskLifecycle],
           \A t \in D!Tasks : st[t] = "success" => image.st[t] = "success"
    PROVE  Calmer([image EXCEPT !.st = st], image)
  BY DEF Calmer, D!Images

LEMMA ReadiedIsCalmer ==
    ASSUME NEW image \in D!Images, NEW S PROVE Calmer(D!Readied(image, S), image)
<1> DEFINE st == [c \in D!Tasks |-> IF c \in S THEN D!Ready(image, c) ELSE image.st[c]]
<1>1. \A c \in D!Tasks : D!Ready(image, c) \in {"waiting_approval", "pending"}
  BY DEF D!Ready
<1>2. st \in [D!Tasks -> D!TaskLifecycle]
  BY <1>1 DEF D!Images, D!TaskLifecycle
<1>3. \A t \in D!Tasks : st[t] = "success" => image.st[t] = "success"
  BY <1>1
<1>. HIDE DEF st
<1>4. Calmer([image EXCEPT !.st = st], image)
  BY <1>2, <1>3, MovedIsCalmer
<1>. QED
  BY <1>4 DEF D!Readied, st

LEMMA FailedIsCalmer ==
    ASSUME NEW image \in D!Images, NEW S PROVE Calmer(D!Failed(image, S), image)
<1> DEFINE st == [c \in D!Tasks |-> IF c \in S THEN "failed" ELSE image.st[c]]
<1>2. st \in [D!Tasks -> D!TaskLifecycle]
  BY DEF D!Images, D!TaskLifecycle, D!Terminal
<1>3. \A t \in D!Tasks : st[t] = "success" => image.st[t] = "success"
  OBVIOUS
<1>. HIDE DEF st
<1>4. Calmer([image EXCEPT !.st = st], image)
  BY <1>2, <1>3, MovedIsCalmer
<1>. QED
  BY <1>4 DEF D!Failed, st

LEMMA PropagatedIsCalmer ==
    ASSUME NEW image \in D!Images, NEW t, NEW succeeded \in BOOLEAN, NEW c \in 0..NTasks
    PROVE  Calmer(D!Propagated(image, t, succeeded)[c], image)
  BY ReadiedIsCalmer, FailedIsCalmer DEF D!Propagated

\* What the writes of an operation leave, once the first of them is decided.
Written(image, out) ==
    /\ Calmer(mem', image)
    /\ disk' = disk \/ Calmer(disk', image)
    /\ out = "ok" => Calmer(disk', image)
    /\ operations' \in 0..MaxOperations /\ faults' \in 0..MaxFaults

LEMMA CalmAlready == ASSUME NEW image \in D!Images PROVE Calmer(image, image)
  BY DEF Calmer

LEMMA BudgetsKept ==
    ASSUME D!DelegationAssumption, D!TypeOK, NEW out, D!Operation, D!Fault(out)
    PROVE  operations' \in 0..MaxOperations /\ faults' \in 0..MaxFaults
  BY DEF D!DelegationAssumption, D!TypeOK, D!Operation, D!Fault

LEMMA SaveWrites ==
    ASSUME D!DelegationAssumption, D!TypeOK, NEW image \in D!Images, NEW out \in D!Outcomes,
           D!Save(image, out)
    PROVE  Written(image, out)
  BY CalmAlready, BudgetsKept DEF D!Save, Written

LEMMA SaveAllWrites ==
    ASSUME D!DelegationAssumption, D!TypeOK, NEW image \in D!Images, NEW out \in D!Outcomes,
           NEW t, NEW succeeded \in BOOLEAN, D!SaveAll(image, t, succeeded, out)
    PROVE  Written(image, out)
<1> DEFINE after == D!Propagated(image, t, succeeded)
<1>1. \A c \in 0..NTasks : Calmer(after[c], image)
  BY PropagatedIsCalmer
<1>2. operations' \in 0..MaxOperations /\ faults' \in 0..MaxFaults
  BY BudgetsKept DEF D!SaveAll
<1>3. \/ out # "unwritten" /\ mem' = after[NTasks] /\ disk' = after[NTasks]
      \/ out = "unwritten" /\ mem' = image /\ UNCHANGED disk
      \/ \E c \in D!Dependents(image, t) :
            out = "written" /\ mem' = after[c] /\ disk' = after[c - 1]
  BY DEF D!SaveAll
<1>4. NTasks \in 0..NTasks
  BY DEF D!DelegationAssumption
<1>5. \A c \in D!Dependents(image, t) : c \in 0..NTasks /\ c - 1 \in 0..NTasks
  BY DEF D!Dependents, D!Tasks, D!DelegationAssumption
<1>. HIDE DEF after
<1>6. CASE out # "unwritten" /\ mem' = after[NTasks] /\ disk' = after[NTasks]
  BY <1>1, <1>2, <1>4, <1>6 DEF Written
<1>7. CASE out = "unwritten" /\ mem' = image /\ UNCHANGED disk
  BY <1>2, <1>7, CalmAlready DEF Written
<1>8. ASSUME NEW c \in D!Dependents(image, t),
             out = "written" /\ mem' = after[c] /\ disk' = after[c - 1]
      PROVE  Written(image, out)
  BY <1>1, <1>2, <1>5, <1>8 DEF Written
<1>. QED
  BY <1>3, <1>6, <1>7, <1>8

\* What an operation on t promises: nothing new about the other tasks, and about t
\* at most what it stored.
Promised(t, image, out) ==
    /\ accepted' \in [D!Tasks -> (SUBSET D!Reports) \union {None}]
    /\ approved' \subseteq D!Tasks
    /\ \A u \in D!Tasks \ {t} : accepted'[u] = accepted[u]
    /\ accepted'[t] # None => out = "ok" /\ accepted'[t] = image.res[t]

LEMMA VoidedPromises ==
    ASSUME D!TypeOK, NEW t \in D!Tasks, NEW image, NEW out,
           accepted' = [accepted EXCEPT ![t] = None], approved' \subseteq D!Tasks
    PROVE  Promised(t, image, out)
  BY DEF Promised, D!TypeOK

\* An operation on t leaves the results of the other tasks.
LEMMA OperationKeeps ==
    ASSUME D!DelegationAssumption, DelegationInv, NEW t \in D!Tasks, NEW out \in D!Outcomes,
           NEW image \in D!Images, Written(image, out), SuccessIn(image),
           \A u \in D!Tasks \ {t} : image.res[u] = mem.res[u],
           Promised(t, image, out)
    PROVE  DelegationInv'
<1>1. mem' \in D!Images /\ disk' \in D!Images
  BY DEF Written, Calmer, DelegationInv, D!TypeOK
<1>2. D!TypeOK'
  BY <1>1 DEF D!TypeOK, DelegationInv, Written, Promised
<1>3. SuccessIn(mem) /\ SuccessIn(disk)
  BY DEF DelegationInv, D!SuccessIsCurrent, SuccessIn
<1>4. SuccessIn(mem') /\ SuccessIn(disk')
  BY <1>3, CalmerSuccess DEF Written
<1>5. D!SuccessIsCurrent'
  BY <1>4 DEF D!SuccessIsCurrent, SuccessIn
<1>6. ASSUME NEW u \in D!Tasks, accepted'[u] # None
      PROVE  mem'.res[u] = accepted'[u] /\ disk'.res[u] = accepted'[u]
  <2>1. mem'.res = image.res /\ (disk'.res = disk.res \/ disk'.res = image.res)
    BY DEF Written, Calmer
  <2>2. CASE u = t
    <3>1. out = "ok" /\ accepted'[u] = image.res[u]
      BY <1>6, <2>2 DEF Promised
    <3>2. disk'.res = image.res
      BY <3>1 DEF Written, Calmer
    <3>. QED
      BY <2>1, <3>1, <3>2
  <2>3. CASE u # t
    <3>1. accepted'[u] = accepted[u]
      BY <2>3 DEF Promised
    <3>2. mem.res[u] = accepted[u] /\ disk.res[u] = accepted[u]
      BY <1>6, <3>1 DEF DelegationInv, D!AcceptedResultIsKept
    <3>. QED
      BY <2>1, <2>3, <3>1, <3>2
  <2>. QED
    BY <2>2, <2>3
<1>7. D!AcceptedResultIsKept'
  BY <1>6 DEF D!AcceptedResultIsKept
<1>. QED
  BY <1>2, <1>5, <1>7 DEF DelegationInv


\* Save and SaveAll of an operation that voids what was promised about t.
LEMMA VoidingKeeps ==
    ASSUME D!DelegationAssumption, DelegationInv, NEW t \in D!Tasks, NEW out \in D!Outcomes,
           NEW image \in D!Images, Written(image, out), SuccessIn(image),
           \A u \in D!Tasks \ {t} : image.res[u] = mem.res[u], D!Voids(t)
    PROVE  DelegationInv'
<1>1. Promised(t, image, out)
  BY VoidedPromises DEF D!Voids, DelegationInv, D!TypeOK
<1>. QED
  BY <1>1, OperationKeeps

\* What an operation that makes task t st stores: it may change the agent, the
\* execution and the result of t, and its gate.
Restated(image, t, st) ==
    /\ image \in D!Images
    /\ image.st = [mem.st EXCEPT ![t] = st]
    /\ \A u \in D!Tasks \ {t} :
          image.agent[u] = mem.agent[u] /\ image.exec[u] = mem.exec[u] /\ image.res[u] = mem.res[u]

LEMMA RestatedSuccess ==
    ASSUME DelegationInv, NEW t \in D!Tasks, NEW st, NEW image, Restated(image, t, st),
           st # "success"
    PROVE  SuccessIn(image)
<1>1. SuccessIn(mem)
  BY DEF DelegationInv, D!SuccessIsCurrent, SuccessIn
<1>2. mem.st \in [D!Tasks -> D!TaskLifecycle]
  BY DEF DelegationInv, D!TypeOK, D!Images
<1>3. ASSUME NEW u \in D!Tasks, image.st[u] = "success"
      PROVE  \E a \in Agents :
                 /\ image.agent[u] \in {a, None}
                 /\ image.res[u] = {<<a, image.exec[u]>>}
  <2>1. u # t /\ mem.st[u] = "success"
    BY <1>2, <1>3 DEF Restated
  <2>2. /\ image.agent[u] = mem.agent[u] /\ image.exec[u] = mem.exec[u]
        /\ image.res[u] = mem.res[u]
    BY <2>1 DEF Restated
  <2>. QED
    BY <1>1, <2>1, <2>2 DEF SuccessIn
<1>. QED
  BY <1>3 DEF SuccessIn

LEMMA SavedKeeps ==
    ASSUME D!DelegationAssumption, DelegationInv, NEW t \in D!Tasks, NEW out \in D!Outcomes,
           NEW st \in D!TaskLifecycle \ {"success"}, NEW image, Restated(image, t, st),
           D!Save(image, out), D!Voids(t)
    PROVE  DelegationInv'
<1>1. image \in D!Images /\ \A u \in D!Tasks \ {t} : image.res[u] = mem.res[u]
  BY DEF Restated
<1>2. Written(image, out)
  BY <1>1, SaveWrites DEF DelegationInv
<1>3. SuccessIn(image)
  BY RestatedSuccess
<1>. QED
  BY <1>1, <1>2, <1>3, VoidingKeeps

LEMMA FailedKeeps ==
    ASSUME D!DelegationAssumption, DelegationInv, NEW t \in D!Tasks, NEW out \in D!Outcomes,
           NEW image, Restated(image, t, "failed"),
           D!SaveAll(image, t, FALSE, out), D!Voids(t)
    PROVE  DelegationInv'
<1>1. image \in D!Images /\ \A u \in D!Tasks \ {t} : image.res[u] = mem.res[u]
  BY DEF Restated
<1>2. Written(image, out)
  BY <1>1, SaveAllWrites DEF DelegationInv
<1>3. SuccessIn(image)
  BY RestatedSuccess
<1>. QED
  BY <1>1, <1>2, <1>3, VoidingKeeps

LEMMA WithRestates ==
    ASSUME D!TypeOK, NEW t \in D!Tasks, NEW st \in D!TaskLifecycle
    PROVE  Restated(D!With(t, st), t, st)
<1>1. mem = [st |-> mem.st, deps |-> mem.deps, gated |-> mem.gated, agent |-> mem.agent,
             exec |-> mem.exec, res |-> mem.res]
  BY DEF D!TypeOK, D!Images
<1>. QED
  BY DEF Restated, D!With, D!TypeOK, D!Images

LEMMA AgentRestates ==
    ASSUME D!TypeOK, NEW t \in D!Tasks, NEW st \in D!TaskLifecycle,
           NEW a \in Agents \union {None}
    PROVE  Restated([D!With(t, st) EXCEPT !.agent[t] = a], t, st)
  BY WithRestates DEF Restated, D!With, D!TypeOK, D!Images

LEMMA ExecutionRestates ==
    ASSUME D!TypeOK, NEW t \in D!Tasks, NEW st \in D!TaskLifecycle,
           NEW e \in Executions \union {None}
    PROVE  Restated([D!With(t, st) EXCEPT !.exec[t] = e], t, st)
  BY WithRestates DEF Restated, D!With, D!TypeOK, D!Images

LEMMA ResultRestates ==
    ASSUME D!TypeOK, NEW t \in D!Tasks, NEW st \in D!TaskLifecycle
    PROVE  Restated([D!With(t, st) EXCEPT !.res[t] = {}], t, st)
  BY WithRestates DEF Restated, D!With, D!TypeOK, D!Images

LEMMA RetryRestates ==
    ASSUME D!TypeOK, NEW t \in D!Tasks, NEW st \in D!TaskLifecycle
    PROVE  Restated([D!With(t, st) EXCEPT !.exec[t] = None, !.res[t] = {}], t, st)
  BY WithRestates DEF Restated, D!With, D!TypeOK, D!Images

LEMMA ReassignRestates ==
    ASSUME D!TypeOK, NEW t \in D!Tasks, NEW st \in D!TaskLifecycle, NEW a \in Agents
    PROVE  Restated([D!With(t, st) EXCEPT !.agent[t] = a, !.exec[t] = None, !.res[t] = {}],
                    t, st)
  BY WithRestates DEF Restated, D!With, D!TypeOK, D!Images

LEMMA GateRestates ==
    ASSUME D!TypeOK, NEW t \in D!Tasks, NEW st \in D!TaskLifecycle
    PROVE  Restated([D!With(t, st) EXCEPT !.gated = @ \union {t}], t, st)
  BY WithRestates DEF Restated, D!With, D!TypeOK, D!Images

LEMMA CreateKeeps ==
    ASSUME D!DelegationAssumption, DelegationInv, NEW t \in D!Tasks, NEW out \in D!Outcomes,
           NEW deps \in SUBSET D!Tasks, NEW gate \in BOOLEAN, D!Create(t, deps, gate, out)
    PROVE  DelegationInv'
<1> DEFINE image == [mem EXCEPT !.st[t] = "created", !.deps[t] = deps,
                                !.gated = IF gate THEN @ \union {t} ELSE @]
<1>1. D!Save(image, out) /\ UNCHANGED <<accepted, approved>>
  BY DEF D!Create
<1>2. Restated(image, t, "created")
  BY DEF Restated, DelegationInv, D!TypeOK, D!Images, D!TaskLifecycle
<1>3. image.res = mem.res
  BY DEF DelegationInv, D!TypeOK, D!Images
<1>. HIDE DEF image
<1>4. image \in D!Images
  BY <1>2 DEF Restated
<1>5. Written(image, out)
  BY <1>1, <1>4, SaveWrites DEF DelegationInv
<1>6. SuccessIn(image)
  BY <1>2, RestatedSuccess
<1>7. SuccessIn(mem) /\ SuccessIn(disk)
  BY DEF DelegationInv, D!SuccessIsCurrent, SuccessIn
<1>8. SuccessIn(mem') /\ SuccessIn(disk')
  BY <1>5, <1>6, <1>7, CalmerSuccess DEF Written
<1>9. D!TypeOK'
  BY <1>1, <1>5 DEF D!TypeOK, DelegationInv, Written, Calmer
<1>10. mem'.res = mem.res /\ (disk'.res = disk.res \/ disk'.res = mem.res)
  BY <1>3, <1>5 DEF Written, Calmer
<1>11. D!AcceptedResultIsKept'
  BY <1>1, <1>10 DEF D!AcceptedResultIsKept, DelegationInv
<1>. QED
  BY <1>8, <1>9, <1>11 DEF DelegationInv, D!SuccessIsCurrent, SuccessIn

LEMMA SubmitPartialKeeps ==
    ASSUME D!DelegationAssumption, DelegationInv, NEW t \in D!Tasks, NEW out \in D!Outcomes,
           NEW a \in Agents, NEW e \in Executions, D!SubmitPartial(t, a, e, out)
    PROVE  DelegationInv'
<1> DEFINE image == [mem EXCEPT !.res[t] = @ \union {<<a, e>>}]
<1>1. /\ mem.st[t] = "running" /\ D!Save(image, out)
      /\ accepted' = [accepted EXCEPT ![t] = IF out = "ok" THEN mem'.res[t] ELSE None]
      /\ approved' \subseteq D!Tasks
  BY DEF D!SubmitPartial, D!In, DelegationInv, D!TypeOK
<1>2. mem' = image
  BY <1>1 DEF D!Save
<1>3. /\ image \in D!Images
      /\ image.st = mem.st /\ image.agent = mem.agent /\ image.exec = mem.exec
      /\ \A u \in D!Tasks \ {t} : image.res[u] = mem.res[u]
  <2>1. mem \in D!Images /\ mem.res[t] \union {<<a, e>>} \in SUBSET D!Reports
    BY DEF DelegationInv, D!TypeOK, D!Images, D!Reports
  <2>. QED
    BY <2>1 DEF D!Images
<1>. HIDE DEF image
<1>4. SuccessIn(image)
  BY <1>1, <1>3 DEF SuccessIn, DelegationInv, D!SuccessIsCurrent
<1>5. Written(image, out)
  BY <1>1, <1>3, SaveWrites DEF DelegationInv
<1>6. Promised(t, image, out)
  <2>1. CASE out = "ok"
    <3>1. accepted' = [accepted EXCEPT ![t] = image.res[t]]
      BY <1>1, <1>2, <2>1
    <3>2. image.res[t] \in SUBSET D!Reports
      BY <1>3 DEF D!Images
    <3>. QED
      BY <1>1, <2>1, <3>1, <3>2 DEF Promised, DelegationInv, D!TypeOK
  <2>2. CASE out # "ok"
    BY <1>1, <2>2, VoidedPromises DEF DelegationInv
  <2>. QED
    BY <2>1, <2>2
<1>. QED
  BY <1>3, <1>4, <1>5, <1>6, OperationKeeps

LEMMA SubmitResultKeeps ==
    ASSUME D!DelegationAssumption, DelegationInv, NEW t \in D!Tasks, NEW out \in D!Outcomes,
           NEW a \in Agents, NEW e \in Executions, D!SubmitResult(t, a, e, out)
    PROVE  DelegationInv'
<1> DEFINE image == [D!With(t, "success") EXCEPT !.res[t] = {<<a, e>>}]
<1>1. /\ mem.agent[t] \in {a, None} /\ mem.exec[t] = e
      /\ D!SaveAll(image, t, TRUE, out)
      /\ accepted' = [accepted EXCEPT ![t] = IF out = "ok" THEN {<<a, e>>} ELSE None]
      /\ approved' \subseteq D!Tasks
  BY DEF D!SubmitResult, D!MayAct, D!IsCurrent, DelegationInv, D!TypeOK
<1>2. /\ image \in D!Images
      /\ image.agent = mem.agent /\ image.exec = mem.exec /\ image.res[t] = {<<a, e>>}
      /\ \A u \in D!Tasks \ {t} : image.res[u] = mem.res[u] /\ image.st[u] = mem.st[u]
  <2>1. /\ {<<a, e>>} \in SUBSET D!Reports
        /\ Restated(D!With(t, "success"), t, "success")
    BY WithRestates DEF D!Reports, D!TaskLifecycle, D!Terminal, DelegationInv
  <2>2. D!With(t, "success") \in D!Images /\ mem \in D!Images
    BY <2>1 DEF Restated, DelegationInv, D!TypeOK
  <2>. QED
    BY <2>1, <2>2 DEF D!With, D!Images
<1>. HIDE DEF image
<1>3. SuccessIn(image)
  <2>1. ASSUME NEW u \in D!Tasks, image.st[u] = "success"
        PROVE  \E b \in Agents :
                   image.agent[u] \in {b, None} /\ image.res[u] = {<<b, image.exec[u]>>}
    <3>1. CASE u = t
      BY <1>1, <1>2, <3>1
    <3>2. CASE u # t
      BY <1>2, <2>1, <3>2 DEF DelegationInv, D!SuccessIsCurrent
    <3>. QED
      BY <3>1, <3>2
  <2>. QED
    BY <2>1 DEF SuccessIn
<1>4. Written(image, out)
  BY <1>1, <1>2, SaveAllWrites DEF DelegationInv
<1>5. Promised(t, image, out)
  <2>1. CASE out = "ok"
    <3>1. accepted' = [accepted EXCEPT ![t] = image.res[t]]
      BY <1>1, <1>2, <2>1
    <3>2. image.res[t] \in SUBSET D!Reports
      BY <1>2 DEF D!Images
    <3>. QED
      BY <1>1, <2>1, <3>1, <3>2 DEF Promised, DelegationInv, D!TypeOK
  <2>2. CASE out # "ok"
    BY <1>1, <2>2, VoidedPromises DEF DelegationInv
  <2>. QED
    BY <2>1, <2>2
<1>6. \A u \in D!Tasks \ {t} : image.res[u] = mem.res[u]
  BY <1>2
<1>. QED
  BY <1>2, <1>3, <1>4, <1>5, <1>6, OperationKeeps

\* Everything else somebody does to a task makes it another status than success
\* and promises nothing.
LEMMA AssignmentKeeps ==
    ASSUME D!DelegationAssumption, DelegationInv, NEW t \in D!Tasks, NEW out \in D!Outcomes,
           \/ D!Route(t, out) \/ D!ConfirmAssignment(t, out)
           \/ \E a \in Agents :
                 \/ \E confirm \in BOOLEAN : D!Assign(t, a, confirm, out)
                 \/ D!RejectAssignment(t, a, out) \/ D!RefuseTask(t, a, out)
                 \/ D!Reassign(t, a, out)
                 \/ \E e \in Executions : D!AcceptTask(t, a, e, out)
    PROVE  DelegationInv'
<1>0. D!TypeOK /\ {"waiting_approval", "routed", "assigned", "confirmed", "pending", "running",
       "refused"} \subseteq D!TaskLifecycle \ {"success"}
  BY DEF D!TaskLifecycle, D!Terminal, DelegationInv
<1>1. CASE D!Route(t, out)
  BY <1>0, <1>1, SavedKeeps, WithRestates DEF D!Route
<1>2. CASE D!ConfirmAssignment(t, out)
  BY <1>0, <1>2, SavedKeeps, WithRestates DEF D!ConfirmAssignment
<1>3. ASSUME NEW a \in Agents, NEW confirm \in BOOLEAN, D!Assign(t, a, confirm, out)
      PROVE  DelegationInv'
  BY <1>0, <1>3, SavedKeeps, AgentRestates DEF D!Assign
<1>4. ASSUME NEW a \in Agents, D!RejectAssignment(t, a, out) PROVE DelegationInv'
  BY <1>0, <1>4, SavedKeeps, AgentRestates DEF D!RejectAssignment
<1>5. ASSUME NEW a \in Agents, D!RefuseTask(t, a, out) PROVE DelegationInv'
  BY <1>0, <1>5, SavedKeeps, WithRestates DEF D!RefuseTask
<1>6. ASSUME NEW a \in Agents, D!Reassign(t, a, out) PROVE DelegationInv'
  BY <1>0, <1>6, SavedKeeps, ReassignRestates DEF D!Reassign
<1>7. ASSUME NEW a \in Agents, NEW e \in Executions, D!AcceptTask(t, a, e, out)
      PROVE  DelegationInv'
  BY <1>0, <1>7, SavedKeeps, ExecutionRestates DEF D!AcceptTask
<1>. QED
  BY <1>1, <1>2, <1>3, <1>4, <1>5, <1>6, <1>7

LEMMA ApprovalKeeps ==
    ASSUME D!DelegationAssumption, DelegationInv, NEW t \in D!Tasks, NEW out \in D!Outcomes,
           \/ D!RequireApproval(t, out) \/ D!RejectApproval(t, out)
           \/ D!Block(t, out) \/ D!Unblock(t, out)
    PROVE  DelegationInv'
<1>0. /\ D!TypeOK
      /\ {"waiting_approval", "cancelled", "blocked", "pending"}
            \subseteq D!TaskLifecycle \ {"success"}
  BY DEF D!TaskLifecycle, D!Terminal, DelegationInv
<1>1. CASE D!RequireApproval(t, out)
  BY <1>0, <1>1, SavedKeeps, GateRestates DEF D!RequireApproval
<1>2. CASE D!RejectApproval(t, out)
  BY <1>0, <1>2, SavedKeeps, WithRestates DEF D!RejectApproval
<1>3. CASE D!Block(t, out)
  BY <1>0, <1>3, SavedKeeps, WithRestates DEF D!Block
<1>4. CASE D!Unblock(t, out)
  BY <1>0, <1>4, SavedKeeps, WithRestates DEF D!Unblock, D!Ready
<1>. QED
  BY <1>1, <1>2, <1>3, <1>4

LEMMA ApproveKeeps ==
    ASSUME D!DelegationAssumption, DelegationInv, NEW t \in D!Tasks, NEW out \in D!Outcomes,
           D!Approve(t, out)
    PROVE  DelegationInv'
<1> DEFINE st == IF mem.agent[t] = None THEN "pending" ELSE "confirmed"
<1>1. /\ D!Save(D!With(t, st), out) /\ accepted' = [accepted EXCEPT ![t] = None]
      /\ approved' \subseteq D!Tasks
  BY DEF D!Approve, DelegationInv, D!TypeOK
<1>2. st \in D!TaskLifecycle \ {"success"}
  BY DEF D!TaskLifecycle, D!Terminal
<1>. HIDE DEF st
<1>3. Restated(D!With(t, st), t, st)
  BY <1>2, WithRestates DEF DelegationInv
<1>4. /\ D!With(t, st) \in D!Images
      /\ \A u \in D!Tasks \ {t} : D!With(t, st).res[u] = mem.res[u]
  BY <1>3 DEF Restated
<1>5. SuccessIn(D!With(t, st)) /\ Written(D!With(t, st), out)
  BY <1>1, <1>2, <1>3, <1>4, RestatedSuccess, SaveWrites DEF DelegationInv
<1>6. Promised(t, D!With(t, st), out)
  BY <1>1, VoidedPromises DEF DelegationInv
<1>. QED
  BY <1>4, <1>5, <1>6, OperationKeeps

LEMMA FailureKeeps ==
    ASSUME D!DelegationAssumption, DelegationInv, NEW t \in D!Tasks, NEW out \in D!Outcomes,
           \/ D!RejectResult(t, out) \/ D!FailTask(t, out) \/ D!Timeout(t, out)
           \/ D!Retry(t, out) \/ D!Escalate(t, out) \/ D!Cancel(t, out)
    PROVE  DelegationInv'
<1>0. /\ D!TypeOK
      /\ {"waiting_approval", "cancelled", "escalated", "pending", "failed"}
            \subseteq D!TaskLifecycle \ {"success"}
  BY DEF D!TaskLifecycle, D!Terminal, DelegationInv
<1>1. CASE D!RejectResult(t, out)
  BY <1>0, <1>1, SavedKeeps, ResultRestates DEF D!RejectResult
<1>2. CASE D!FailTask(t, out)
  BY <1>0, <1>2, FailedKeeps, ResultRestates DEF D!FailTask
<1>3. CASE D!Timeout(t, out)
  BY <1>0, <1>3, FailedKeeps, WithRestates DEF D!Timeout
<1>4. CASE D!Retry(t, out)
  BY <1>0, <1>4, SavedKeeps, RetryRestates DEF D!Retry
<1>5. CASE D!Escalate(t, out)
  BY <1>0, <1>5, SavedKeeps, WithRestates DEF D!Escalate
<1>6. CASE D!Cancel(t, out)
  BY <1>0, <1>6, SavedKeeps, WithRestates DEF D!Cancel
<1>. QED
  BY <1>1, <1>2, <1>3, <1>4, <1>5, <1>6

LEMMA DelegationCrashKeeps ==
    ASSUME D!DelegationAssumption, DelegationInv, D!Crash PROVE DelegationInv'
<1>1. mem' = disk /\ disk' = disk /\ UNCHANGED <<operations, accepted, approved>>
  BY DEF D!Crash
<1>2. faults' \in 0..MaxFaults
  BY DEF D!Crash, D!DelegationAssumption, DelegationInv, D!TypeOK
<1>3. D!TypeOK'
  BY <1>1, <1>2 DEF D!TypeOK, DelegationInv
<1>4. D!SuccessIsCurrent'
  BY <1>1 DEF D!SuccessIsCurrent, DelegationInv
<1>5. D!AcceptedResultIsKept'
  BY <1>1 DEF D!AcceptedResultIsKept, DelegationInv
<1>. QED
  BY <1>3, <1>4, <1>5 DEF DelegationInv

LEMMA DelegationInit == ASSUME D!DelegationAssumption, D!Init PROVE DelegationInv
<1>1. D!Empty \in D!Images /\ \A t \in D!Tasks : D!Empty.st[t] # "success"
  BY DEF D!Empty, D!Images, D!TaskLifecycle, D!Terminal
<1>2. mem = D!Empty /\ disk = D!Empty /\ operations = 0 /\ faults = 0 /\ approved = {}
  BY DEF D!Init
<1>3. accepted \in [D!Tasks -> (SUBSET D!Reports) \union {None}]
      /\ \A t \in D!Tasks : accepted[t] = None
  BY DEF D!Init
<1>4. D!TypeOK
  BY <1>1, <1>2, <1>3 DEF D!TypeOK, D!DelegationAssumption
<1>. QED
  BY <1>1, <1>2, <1>3, <1>4 DEF DelegationInv, D!SuccessIsCurrent, D!AcceptedResultIsKept

LEMMA DelegationStep ==
    ASSUME D!DelegationAssumption, DelegationInv, [D!Next]_(D!vars) PROVE DelegationInv'
<1>1. CASE UNCHANGED D!vars
  BY <1>1
  DEF D!vars, DelegationInv, D!TypeOK, D!SuccessIsCurrent, D!AcceptedResultIsKept
<1>2. CASE D!Crash
  BY <1>2, DelegationCrashKeeps
<1>3. ASSUME NEW t \in D!Tasks, NEW out \in D!Outcomes,
             \/ \E deps \in SUBSET D!Tasks, gate \in BOOLEAN : D!Create(t, deps, gate, out)
             \/ D!Route(t, out) \/ D!ConfirmAssignment(t, out)
             \/ D!RequireApproval(t, out) \/ D!Approve(t, out) \/ D!RejectApproval(t, out)
             \/ D!Block(t, out) \/ D!Unblock(t, out)
             \/ D!RejectResult(t, out) \/ D!FailTask(t, out) \/ D!Timeout(t, out)
             \/ D!Retry(t, out) \/ D!Escalate(t, out) \/ D!Cancel(t, out)
             \/ \E a \in Agents :
                   \/ \E confirm \in BOOLEAN : D!Assign(t, a, confirm, out)
                   \/ D!RejectAssignment(t, a, out) \/ D!RefuseTask(t, a, out)
                   \/ D!Reassign(t, a, out)
                   \/ \E e \in Executions :
                         \/ D!AcceptTask(t, a, e, out)
                         \/ D!SubmitPartial(t, a, e, out) \/ D!SubmitResult(t, a, e, out)
      PROVE  DelegationInv'
  BY <1>3, CreateKeeps, AssignmentKeeps, ApprovalKeeps, ApproveKeeps, FailureKeeps,
     SubmitPartialKeeps, SubmitResultKeeps
<1>. QED
  BY <1>1, <1>2, <1>3 DEF D!Next

-----------------------------------------------------------------------------
(* HandoffWorkflow.  What the run checks is inductive: only a request leads *)
(* to a pending handoff, and whatever stores another checkpoint has left it *)
(* before.                                                                  *)

HandoffInv == H!TypeOK /\ H!HandedOverAsRequested

\* Steps after which no handoff is pending or accepted.
LEMMA RecordKeeps ==
    ASSUME HandoffInv, rec' \in H!WorkflowRecord,
           rec'.st \notin {"handoff_requested", "handoff_accepted"},
           UNCHANGED <<adapter, minted, asked, used>>,
           file' \in Contents \union {Nothing}
    PROVE  HandoffInv'
  BY DEF HandoffInv, H!TypeOK, H!HandedOverAsRequested

LEMMA RestatedRecord ==
    ASSUME NEW r \in H!WorkflowRecord, NEW st \in H!WorkflowState
    PROVE  /\ [r EXCEPT !.st = st] \in H!WorkflowRecord
           /\ [r EXCEPT !.st = st].st = st
           /\ [r EXCEPT !.st = st].cur = r.cur /\ [r EXCEPT !.st = st].token = r.token
  BY DEF H!WorkflowRecord

LEMMA WorkflowStates ==
    H!WorkflowState = {"idle", "working", "checkpointed", "handoff_requested",
                       "handoff_accepted", "completed", "abandoned", "failed"}
  BY DEF H!WorkflowState, H!Machine

\* A checkpoint, before it is stored.
LEMMA ResumedIsWorking ==
    ASSUME H!TypeOK
    PROVE  /\ H!Resumed \in H!WorkflowRecord
           /\ H!Resumed.st \notin {"handoff_requested", "handoff_accepted"}
<1>1. rec \in H!WorkflowRecord /\ "working" \in H!WorkflowState
  BY WorkflowStates DEF H!TypeOK
<1>. QED
  BY <1>1, RestatedRecord DEF H!Resumed

LEMMA CheckpointKeeps ==
    ASSUME HandoffInv, NEW actor, NEW c \in Contents,
           H!Checkpoint(actor, c) \/ H!CheckpointDuplicate(actor, c)
    PROVE  HandoffInv'
<1>1. /\ H!Resumed \in H!WorkflowRecord
      /\ H!Resumed.st \notin {"handoff_requested", "handoff_accepted"}
  BY ResumedIsWorking DEF HandoffInv
<1>2. file \in Contents \union {Nothing}
  BY DEF HandoffInv, H!TypeOK
<1>3. CASE rec' = H!Resumed /\ UNCHANGED <<adapter, file, minted, asked, used>>
  BY <1>1, <1>2, <1>3, RecordKeeps
<1>4. CASE H!Checkpoint(actor, c)
  <2>1. /\ rec' = H!Stored(H!Resumed, c) /\ UNCHANGED <<adapter, minted, asked, used>>
        /\ file' \in Contents \union {Nothing}
    BY <1>2, <1>4 DEF H!Checkpoint
  <2>2. "checkpointed" \in H!WorkflowState
    BY WorkflowStates
  <2>3. ASSUME NEW r \in H!WorkflowRecord,
               r.st \notin {"handoff_requested", "handoff_accepted"}
        PROVE  /\ H!Stored(r, c) \in H!WorkflowRecord
               /\ H!Stored(r, c).st \notin {"handoff_requested", "handoff_accepted"}
    BY <2>2, <2>3 DEF H!Stored, H!WorkflowRecord
  <2>. QED
    BY <1>1, <2>1, <2>3, RecordKeeps
<1>. QED
  BY <1>3, <1>4 DEF H!CheckpointDuplicate

\* _transition, from and to a state in which no handoff is pending.
LEMMA MoveKeeps ==
    ASSUME HandoffInv,
           H!Begin \/ H!Complete \/ H!Abandon \/ H!Fail \/ H!Recover
    PROVE  HandoffInv'
<1>1. /\ UNCHANGED <<adapter, file, minted, asked, used>>
      /\ H!Moves("working") \/ H!Moves("completed") \/ H!Moves("abandoned") \/ H!Moves("failed")
  BY DEF H!Begin, H!Complete, H!Abandon, H!Fail, H!Recover
<1>2. \E target \in H!WorkflowState \ {"handoff_requested", "handoff_accepted"} :
         rec' = [rec EXCEPT !.st = target]
  BY <1>1, WorkflowStates DEF H!Moves
<1>3. rec \in H!WorkflowRecord /\ file \in Contents \union {Nothing}
  BY DEF HandoffInv, H!TypeOK
<1>. QED
  BY <1>1, <1>2, <1>3, RestatedRecord, RecordKeeps

LEMMA RequestKeeps ==
    ASSUME H!TokensAssumption, HandoffInv, NEW to \in H!Roles, H!RequestHandoff(to)
    PROVE  HandoffInv'
<1>1. /\ minted < MaxTokens /\ minted' = minted + 1
      /\ rec' = [rec EXCEPT !.st = "handoff_requested", !.token = minted + 1, !.to = to]
      /\ asked' = [asked EXCEPT ![minted + 1] = rec.cur]
      /\ UNCHANGED <<adapter, file, used>>
  BY DEF H!RequestHandoff
<1>2. minted + 1 \in 1..MaxTokens
  BY <1>1 DEF H!TokensAssumption, HandoffInv, H!TypeOK
<1>3. rec \in H!WorkflowRecord /\ "handoff_requested" \in H!WorkflowState
  BY WorkflowStates DEF HandoffInv, H!TypeOK
<1>4. /\ rec' \in H!WorkflowRecord /\ rec'.st = "handoff_requested"
      /\ rec'.token = minted + 1 /\ rec'.cur = rec.cur
  <2>1. minted + 1 \in 0..MaxTokens
    BY <1>2 DEF H!TokensAssumption
  <2> DEFINE number == minted + 1
  <2>2. rec' = [rec EXCEPT !.st = "handoff_requested", !.token = number, !.to = to]
    BY <1>1
  <2>. HIDE DEF number
  <2>3. number \in 0..MaxTokens
    BY <2>1 DEF number
  <2>4. /\ rec' \in H!WorkflowRecord /\ rec'.st = "handoff_requested"
        /\ rec'.token = number /\ rec'.cur = rec.cur
    BY <1>3, <2>2, <2>3 DEF H!WorkflowRecord
  <2>. QED
    BY <2>4 DEF number
<1>5. /\ asked \in [1..MaxTokens -> Contents \union {Nothing}]
      /\ rec.cur \in Contents \union {Nothing}
  BY <1>3 DEF HandoffInv, H!TypeOK, H!WorkflowRecord
<1>6. /\ asked' \in [1..MaxTokens -> Contents \union {Nothing}]
      /\ asked'[minted + 1] = rec.cur
  BY <1>1, <1>2, <1>5
<1>7. H!TypeOK'
  BY <1>1, <1>2, <1>4, <1>6 DEF HandoffInv, H!TypeOK
<1>. QED
  BY <1>2, <1>4, <1>6, <1>7 DEF HandoffInv, H!HandedOverAsRequested

LEMMA AcceptKeeps ==
    ASSUME HandoffInv, NEW token, H!AcceptHandoff(token) PROVE HandoffInv'
<1>1. rec \in H!WorkflowRecord /\ "handoff_accepted" \in H!WorkflowState
  BY WorkflowStates DEF HandoffInv, H!TypeOK
<1>2. /\ rec.st = "handoff_requested" /\ rec.token = token /\ used' = token
      /\ UNCHANGED <<adapter, file, minted, asked>>
      /\ rec' = [rec EXCEPT !.st = "handoff_accepted", !.approved = TRUE]
  BY DEF H!AcceptHandoff
<1>3. /\ rec' \in H!WorkflowRecord /\ rec'.cur = rec.cur /\ rec'.st = "handoff_accepted"
  BY <1>1, <1>2 DEF H!WorkflowRecord
<1>4. token \in 0..MaxTokens /\ token > 0 /\ rec.cur = asked[token]
  BY <1>1, <1>2 DEF HandoffInv, H!HandedOverAsRequested, H!WorkflowRecord
<1>. QED
  BY <1>2, <1>3, <1>4 DEF HandoffInv, H!TypeOK, H!HandedOverAsRequested

LEMMA HandoffInit == ASSUME H!TokensAssumption, H!Init PROVE HandoffInv
<1>1. "idle" \in H!WorkflowState /\ "stranger" \in H!Roles
  BY WorkflowStates DEF H!Roles
<1>. QED
  BY <1>1
  DEF H!Init, HandoffInv, H!TypeOK, H!WorkflowRecord, H!HandedOverAsRequested,
      H!TokensAssumption

LEMMA HandoffStep ==
    ASSUME H!TokensAssumption, HandoffInv, [H!Next]_(H!vars) PROVE HandoffInv'
<1>1. CASE UNCHANGED H!vars
  BY <1>1 DEF H!vars, HandoffInv, H!TypeOK, H!HandedOverAsRequested
<1>2. CASE H!Begin \/ H!Complete \/ H!Abandon \/ H!Fail \/ H!Recover
  BY <1>2, MoveKeeps
<1>3. ASSUME NEW actor \in H!Roles, H!RequestHandoff(actor) PROVE HandoffInv'
  BY <1>3, RequestKeeps
<1>4. ASSUME NEW actor \in H!Roles, H!CheckpointRefused(actor) PROVE HandoffInv'
  <2>1. rec' = H!Resumed /\ UNCHANGED <<adapter, file, minted, asked, used>>
    BY <1>4 DEF H!CheckpointRefused
  <2>. QED
    BY <2>1, ResumedIsWorking, RecordKeeps DEF HandoffInv, H!TypeOK
<1>5. ASSUME NEW actor \in H!Roles, NEW c \in Contents,
             H!Checkpoint(actor, c) \/ H!CheckpointDuplicate(actor, c)
      PROVE  HandoffInv'
  BY <1>5, CheckpointKeeps
<1>6. ASSUME NEW n \in 1..MaxTokens, H!AcceptHandoff(n) PROVE HandoffInv'
  BY <1>6, AcceptKeeps
<1>7. ASSUME NEW c \in Contents, H!Overwrite(c) PROVE HandoffInv'
  BY <1>7 DEF H!Overwrite, HandoffInv, H!TypeOK, H!HandedOverAsRequested
<1>. QED
  BY <1>1, <1>2, <1>3, <1>4, <1>5, <1>6, <1>7 DEF H!Next

-----------------------------------------------------------------------------
(* WorkflowEngine.  A node that waits to be started holds one of its        *)
(* grants: in memory and in the file, the starts of a node and one more if  *)
(* it waits there are no more than its grants.  The file may be older than  *)
(* the memory, but grants are only added, and an execution that is not      *)
(* written has its start not counted.                                       *)

Waiting(st) == IF st \in E!Startable THEN 1 ELSE 0

Within(ex, s, g) ==
    \A x \in Execs, n \in Nodes : s[x][n] + Waiting(ex[x].node[n]) <= g[x][n]

EngineInv == E!TypeOK /\ Within(mem.ex, starts, grants) /\ Within(disk.ex, starts, grants)

Executed == [Execs -> E!WorkflowExecution]
Counts == [Execs -> [Nodes -> Nat]]
Snapshots == [id : Execs, exec : E!WorkflowExecution] \union {Nobody}

LEMMA EngineTypes ==
    ASSUME E!TypeOK
    PROVE  /\ mem.ex \in Executed /\ disk.ex \in Executed
           /\ mem.def \in SUBSET Nodes /\ disk.def \in SUBSET Nodes
           /\ starts \in Counts /\ grants \in Counts /\ snap \in Snapshots
           /\ \A ex, def : [mem EXCEPT !.ex = ex].ex = ex /\ [disk EXCEPT !.ex = ex].ex = ex
  BY DEF E!TypeOK, E!Images, Executed, Counts, Snapshots

LEMMA EngineBudgets ==
    ASSUME E!EngineAssumption, E!TypeOK, NEW ok \in BOOLEAN, E!Operation, E!Fault(ok)
    PROVE  operations' \in 0..EngineOperations /\ faults' \in 0..MaxFaults
  BY DEF E!EngineAssumption, E!TypeOK, E!Operation, E!Fault

\* _save_executions, when what is stored stays within the grants.
LEMMA EngineSave ==
    ASSUME E!EngineAssumption, EngineInv, NEW ex \in Executed, NEW ok \in BOOLEAN,
           E!Save(ex, ok),
           snap' \in Snapshots, starts' \in Counts, grants' \in Counts,
           Within(ex, starts', grants'),
           ok \/ Within(disk.ex, starts', grants')
    PROVE  EngineInv'
<1>1. operations' \in 0..EngineOperations /\ faults' \in 0..MaxFaults
  BY EngineBudgets DEF EngineInv, E!Save
<1>2. mem' = [mem EXCEPT !.ex = ex] /\ disk' = IF ok THEN [disk EXCEPT !.ex = ex] ELSE disk
  BY DEF E!Save
<1>3. mem' \in E!Images /\ mem'.ex = ex
  BY <1>2 DEF EngineInv, E!TypeOK, E!Images, Executed
<1>4. disk' \in E!Images /\ disk'.ex = IF ok THEN ex ELSE disk.ex
  BY <1>2 DEF EngineInv, E!TypeOK, E!Images, Executed
<1>5. E!TypeOK'
  BY <1>1, <1>3, <1>4 DEF E!TypeOK, Counts, Snapshots
<1>. QED
  BY <1>3, <1>4, <1>5 DEF EngineInv

\* Only nodes that waited before wait in ex.
NoMoreWaiting(ex) ==
    \A x \in Execs, n \in Nodes :
        ex[x].node[n] \in E!Startable => mem.ex[x].node[n] \in E!Startable

LEMMA QuietEngineSave ==
    ASSUME E!EngineAssumption, EngineInv, NEW ex \in Executed, NEW ok \in BOOLEAN,
           E!Save(ex, ok), UNCHANGED <<snap, E!history>>, NoMoreWaiting(ex)
    PROVE  EngineInv'
<1>1. starts' = starts /\ grants' = grants /\ snap' = snap
  BY DEF E!history
<1>2. starts \in Counts /\ grants \in Counts /\ snap \in Snapshots
  BY EngineTypes DEF EngineInv
<1>3. Within(ex, starts, grants)
  <2>1. ASSUME NEW x \in Execs, NEW n \in Nodes
        PROVE  starts[x][n] + Waiting(ex[x].node[n]) <= grants[x][n]
    <3>1. starts[x][n] \in Nat /\ grants[x][n] \in Nat
      BY <1>2 DEF Counts
    <3>2. starts[x][n] + Waiting(mem.ex[x].node[n]) <= grants[x][n]
      BY DEF EngineInv, Within
    <3>3. Waiting(ex[x].node[n]) <= Waiting(mem.ex[x].node[n])
      BY DEF NoMoreWaiting, Waiting
    <3>4. Waiting(ex[x].node[n]) \in Nat /\ Waiting(mem.ex[x].node[n]) \in Nat
      BY DEF Waiting
    <3>. QED
      BY <3>1, <3>2, <3>3, <3>4
  <2>. QED
    BY <2>1 DEF Within
<1>. QED
  BY <1>1, <1>2, <1>3, EngineSave DEF EngineInv

LEMMA GrantAdds ==
    ASSUME E!TypeOK, NEW x \in Execs, NEW S, E!Grant(x, S)
    PROVE  /\ starts' = starts /\ grants' \in Counts
           /\ \A y \in Execs, n \in Nodes :
                 /\ grants[y][n] <= grants'[y][n]
                 /\ y = x /\ n \in S => grants'[y][n] = grants[y][n] + 1
<1>1. grants \in [Execs -> [Nodes -> Nat]]
  BY DEF E!TypeOK
<1> DEFINE row == [n \in Nodes |-> IF n \in S THEN grants[x][n] + 1 ELSE grants[x][n]]
<1>2. grants' = [grants EXCEPT ![x] = row] /\ starts' = starts
  BY DEF E!Grant
<1>3. row \in [Nodes -> Nat] /\ \A n \in Nodes : row[n] = IF n \in S THEN grants[x][n] + 1
                                                                    ELSE grants[x][n]
  BY <1>1
<1>. HIDE DEF row
<1>4. grants' \in [Execs -> [Nodes -> Nat]] /\ \A y \in Execs : grants'[y] = IF y = x THEN row ELSE grants[y]
  BY <1>1, <1>2, <1>3
<1>5. ASSUME NEW y \in Execs, NEW n \in Nodes
      PROVE  /\ grants[y][n] <= grants'[y][n]
             /\ y = x /\ n \in S => grants'[y][n] = grants[y][n] + 1
  <2>1. grants[y][n] \in Nat
    BY <1>1
  <2>. QED
    BY <1>3, <1>4, <2>1
<1>. QED
  BY <1>2, <1>4, <1>5 DEF Counts

\* What waits in ex waited before, or has a new grant.
GrantedWaiting(ex, x, S) ==
    \A y \in Execs, n \in Nodes :
        ex[y].node[n] \in E!Startable =>
            mem.ex[y].node[n] \in E!Startable \/ (y = x /\ n \in S)

LEMMA GrantedWithin ==
    ASSUME EngineInv, NEW ex, NEW x \in Execs, NEW S, E!Grant(x, S),
           GrantedWaiting(ex, x, S)
    PROVE  Within(ex, starts', grants') /\ Within(disk.ex, starts', grants')
<1>1. /\ starts' = starts /\ grants' \in Counts
      /\ \A y \in Execs, n \in Nodes :
            /\ grants[y][n] <= grants'[y][n]
            /\ y = x /\ n \in S => grants'[y][n] = grants[y][n] + 1
  BY GrantAdds DEF EngineInv
<1>2. starts \in Counts /\ grants \in Counts
  BY EngineTypes DEF EngineInv
<1>3. ASSUME NEW y \in Execs, NEW n \in Nodes
      PROVE  /\ starts'[y][n] + Waiting(ex[y].node[n]) <= grants'[y][n]
             /\ starts'[y][n] + Waiting(disk.ex[y].node[n]) <= grants'[y][n]
  <2>1. starts[y][n] \in Nat /\ grants[y][n] \in Nat /\ grants'[y][n] \in Nat
    BY <1>1, <1>2 DEF Counts
  <2>2. /\ starts[y][n] + Waiting(mem.ex[y].node[n]) <= grants[y][n]
        /\ starts[y][n] + Waiting(disk.ex[y].node[n]) <= grants[y][n]
    BY DEF EngineInv, Within
  <2>3. \A st : Waiting(st) \in 0..1
    BY DEF Waiting
  <2>4. /\ grants[y][n] <= grants'[y][n]
        /\ \/ Waiting(ex[y].node[n]) <= Waiting(mem.ex[y].node[n])
           \/ grants'[y][n] = grants[y][n] + 1
    BY <1>1 DEF GrantedWaiting, Waiting
  <2>5. /\ Waiting(ex[y].node[n]) \in 0..1 /\ Waiting(mem.ex[y].node[n]) \in 0..1
        /\ Waiting(disk.ex[y].node[n]) \in 0..1
    BY <2>3
  <2>. QED
    BY <1>1, <2>1, <2>2, <2>4, <2>5
<1>. QED
  BY <1>3 DEF Within

LEMMA GrantedEngineSave ==
    ASSUME E!EngineAssumption, EngineInv, NEW ex \in Executed, NEW ok \in BOOLEAN,
           E!Save(ex, ok), NEW x \in Execs, NEW S, E!Grant(x, S), UNCHANGED snap,
           GrantedWaiting(ex, x, S)
    PROVE  EngineInv'
<1>1. starts' \in Counts /\ grants' \in Counts /\ snap' \in Snapshots
  BY EngineTypes, GrantAdds DEF EngineInv
<1>. QED
  BY <1>1, GrantedWithin, EngineSave

-----------------------------------------------------------------------------
(* What the operations of the engine store.                                 *)

LEMMA StatusSet ==
    ASSUME NEW ex \in Executed, NEW x \in Execs, NEW st \in E!WorkflowStatus
    PROVE  /\ [ex EXCEPT ![x].st = st] \in Executed
           /\ \A y \in Execs : [ex EXCEPT ![x].st = st][y].node = ex[y].node
  BY DEF Executed, E!WorkflowExecution

LEMMA NodesSet ==
    ASSUME NEW ex \in Executed, NEW x \in Execs,
           NEW nodes \in [Nodes -> E!NodeStatus \union {"none"}]
    PROVE  /\ [ex EXCEPT ![x].node = nodes] \in Executed
           /\ \A y \in Execs :
                 [ex EXCEPT ![x].node = nodes][y].node = IF y = x THEN nodes ELSE ex[y].node
  BY DEF Executed, E!WorkflowExecution

LEMMA NodeSet ==
    ASSUME E!TypeOK, NEW x \in Execs, NEW n \in Nodes, NEW st \in E!NodeStatus
    PROVE  /\ E!WithNode(x, n, st) \in Executed
           /\ \A y \in Execs, k \in Nodes :
                 E!WithNode(x, n, st)[y].node[k] =
                     IF y = x /\ k = n THEN st ELSE mem.ex[y].node[k]
<1> DEFINE nodes == [mem.ex[x].node EXCEPT ![n] = st]
<1>1. mem.ex \in Executed
  BY EngineTypes
<1>2. mem.ex[x].node \in [Nodes -> E!NodeStatus \union {"none"}]
  BY <1>1 DEF Executed, E!WorkflowExecution
<1>3. /\ nodes \in [Nodes -> E!NodeStatus \union {"none"}]
      /\ \A k \in Nodes : nodes[k] = IF k = n THEN st ELSE mem.ex[x].node[k]
  BY <1>2
<1>4. E!WithNode(x, n, st) = [mem.ex EXCEPT ![x].node = nodes]
  BY <1>1 DEF E!WithNode, Executed, E!WorkflowExecution
<1>. HIDE DEF nodes
<1>5. /\ [mem.ex EXCEPT ![x].node = nodes] \in Executed
      /\ \A y \in Execs : [mem.ex EXCEPT ![x].node = nodes][y].node
                             = IF y = x THEN nodes ELSE mem.ex[y].node
  BY <1>1, <1>3, NodesSet
<1>. QED
  BY <1>3, <1>4, <1>5

LEMMA StatusKeeping ==
    ASSUME E!EngineAssumption, EngineInv, NEW x \in Execs, NEW st \in E!WorkflowStatus,
           NEW ok \in BOOLEAN, E!Save(E!With(x, st), ok), UNCHANGED <<snap, E!history>>
    PROVE  EngineInv'
<1>1. mem.ex \in Executed
  BY EngineTypes DEF EngineInv
<1>2. E!With(x, st) \in Executed /\ NoMoreWaiting(E!With(x, st))
  BY <1>1, StatusSet DEF E!With, NoMoreWaiting
<1>. QED
  BY <1>2, QuietEngineSave

LEMMA MovesKeep ==
    ASSUME E!EngineAssumption, EngineInv, NEW x \in Execs, NEW ok \in BOOLEAN,
           \/ \E approval \in BOOLEAN :
                 E!Trigger(x, approval, ok) \/ \E y \in Execs : E!Retry(x, y, approval, ok)
           \/ E!Pause(x, ok) \/ E!Resume(x, ok) \/ E!Cancel(x, ok) \/ E!Recover(x, ok)
           \/ E!Timeout(x, ok) \/ E!RejectApproval(x, ok)
           \/ \E st \in E!WorkflowStatus : E!AtomicStateTransition(x, st, ok)
    PROVE  EngineInv'
<1>1. \E st \in E!WorkflowStatus : E!Save(E!With(x, st), ok) /\ UNCHANGED <<snap, E!history>>
  BY DEF E!Trigger, E!Retry, E!Pause, E!Resume, E!Cancel, E!Recover, E!Timeout,
         E!RejectApproval, E!AtomicStateTransition, E!Move, E!WorkflowStatus
<1>. QED
  BY <1>1, StatusKeeping

LEMMA StartKeeps ==
    ASSUME E!EngineAssumption, EngineInv, NEW x \in Execs, NEW ok \in BOOLEAN, E!Start(x, ok)
    PROVE  EngineInv'
<1> DEFINE exec == [st |-> "running",
                    node |-> [n \in Nodes |-> IF n \in mem.def THEN "pending" ELSE "none"]]
           ex == [mem.ex EXCEPT ![x] = exec]
<1>1. E!Save(ex, ok) /\ E!Grant(x, mem.def) /\ UNCHANGED snap
  BY DEF E!Start
<1>2. mem.ex \in Executed
  BY EngineTypes DEF EngineInv
<1>3. /\ exec \in E!WorkflowExecution
      /\ \A n \in Nodes : exec.node[n] \in E!Startable => n \in mem.def
  BY DEF E!WorkflowExecution, E!WorkflowStatus, E!NodeStatus, E!Startable
<1>. HIDE DEF exec
<1>4. ex \in Executed /\ \A y \in Execs : ex[y] = IF y = x THEN exec ELSE mem.ex[y]
  BY <1>2, <1>3 DEF Executed
<1>. HIDE DEF ex
<1>5. GrantedWaiting(ex, x, mem.def)
  BY <1>3, <1>4 DEF GrantedWaiting
<1>. QED
  BY <1>1, <1>4, <1>5, GrantedEngineSave

LEMMA ExecuteKeeps ==
    ASSUME E!EngineAssumption, EngineInv, NEW x \in Execs, NEW n \in Nodes,
           NEW ok \in BOOLEAN, E!ExecuteNode(x, n, ok)
    PROVE  EngineInv'
<1> DEFINE ex == E!WithNode(x, n, "running")
<1>1. /\ mem.ex[x].node[n] \in E!Startable /\ E!Save(ex, ok)
      /\ starts' = [starts EXCEPT ![x][n] = IF ok THEN @ + 1 ELSE @]
      /\ grants' = grants /\ snap' = snap
  BY DEF E!ExecuteNode, E!NodeIn
<1>2. "running" \in E!NodeStatus /\ "running" \notin E!Startable
  BY DEF E!NodeStatus, E!Startable
<1>3. /\ ex \in Executed
      /\ \A y \in Execs, k \in Nodes :
            ex[y].node[k] = IF y = x /\ k = n THEN "running" ELSE mem.ex[y].node[k]
  BY <1>2, NodeSet DEF EngineInv
<1>. HIDE DEF ex
<1>4. starts \in Counts /\ grants \in Counts /\ snap \in Snapshots
  BY EngineTypes DEF EngineInv
<1>5. /\ starts' \in Counts
      /\ \A y \in Execs, k \in Nodes :
            starts'[y][k] = IF ok /\ y = x /\ k = n THEN starts[y][k] + 1 ELSE starts[y][k]
  BY <1>1, <1>4 DEF Counts
<1>6. Within(ex, starts', grants')
  <2>1. ASSUME NEW y \in Execs, NEW k \in Nodes
        PROVE  starts'[y][k] + Waiting(ex[y].node[k]) <= grants[y][k]
    <3>1. starts[y][k] \in Nat /\ grants[y][k] \in Nat
      BY <1>4 DEF Counts
    <3>2. starts[y][k] + Waiting(mem.ex[y].node[k]) <= grants[y][k]
      BY DEF EngineInv, Within
    <3>3. CASE y = x /\ k = n
      <4>1. Waiting(mem.ex[y].node[k]) = 1 /\ Waiting(ex[y].node[k]) = 0
        BY <1>1, <1>2, <1>3, <3>3 DEF Waiting
      <4>2. starts'[y][k] \in {starts[y][k], starts[y][k] + 1}
        BY <1>5
      <4>. QED
        BY <3>1, <3>2, <4>1, <4>2
    <3>4. CASE ~(y = x /\ k = n)
      <4>1. ex[y].node[k] = mem.ex[y].node[k] /\ starts'[y][k] = starts[y][k]
        BY <1>3, <1>5, <3>4
      <4>. QED
        BY <3>2, <4>1
    <3>. QED
      BY <3>3, <3>4
  <2>. QED
    BY <1>1, <2>1 DEF Within
<1>7. ok \/ Within(disk.ex, starts', grants')
  BY <1>1, <1>5 DEF Within, EngineInv
<1>. QED
  BY <1>1, <1>3, <1>4, <1>5, <1>6, <1>7, EngineSave

LEMMA CompleteNodeKeeps ==
    ASSUME E!EngineAssumption, EngineInv, NEW x \in Execs, NEW n \in Nodes,
           NEW ok \in BOOLEAN, E!CompleteNode(x, n, ok)
    PROVE  EngineInv'
<1> DEFINE finished == [mem.ex[x] EXCEPT !.node[n] = "completed"]
           exec == IF E!IsComplete(finished) THEN [finished EXCEPT !.st = "completed"]
                                             ELSE finished
           ex == [mem.ex EXCEPT ![x] = exec]
<1>1. E!Save(ex, ok) /\ UNCHANGED <<snap, E!history>>
  BY DEF E!CompleteNode
<1>2. mem.ex \in Executed
  BY EngineTypes DEF EngineInv
<1>3. "completed" \in E!NodeStatus /\ "completed" \notin E!Startable
      /\ "completed" \in E!WorkflowStatus
  BY DEF E!NodeStatus, E!Startable, E!WorkflowStatus
<1>4. /\ finished \in E!WorkflowExecution
      /\ \A k \in Nodes : finished.node[k] = IF k = n THEN "completed" ELSE mem.ex[x].node[k]
  <2>1. mem.ex[x] \in E!WorkflowExecution
    BY <1>2 DEF Executed
  <2>. QED
    BY <1>3, <2>1 DEF E!WorkflowExecution
<1>. HIDE DEF finished
<1>5. exec \in E!WorkflowExecution /\ exec.node = finished.node
  BY <1>3, <1>4 DEF E!WorkflowExecution
<1>. HIDE DEF exec
<1>6. ex \in Executed /\ \A y \in Execs : ex[y] = IF y = x THEN exec ELSE mem.ex[y]
  BY <1>2, <1>5 DEF Executed
<1>. HIDE DEF ex
<1>7. NoMoreWaiting(ex)
  BY <1>3, <1>4, <1>5, <1>6 DEF NoMoreWaiting
<1>. QED
  BY <1>1, <1>6, <1>7, QuietEngineSave

LEMMA FailNodeKeeps ==
    ASSUME E!EngineAssumption, EngineInv, NEW x \in Execs, NEW n \in Nodes,
           NEW ok \in BOOLEAN,
           E!FailNode(x, n, ok) \/ E!ProviderFailureRecovery(x, n, ok)
    PROVE  EngineInv'
<1>1. "failed" \in E!NodeStatus /\ "failed" \notin E!Startable
      /\ "blocked" \in E!NodeStatus /\ "blocked" \notin E!Startable
  BY DEF E!NodeStatus, E!Startable
<1>2. mem.ex \in Executed
  BY EngineTypes DEF EngineInv
<1>3. CASE E!FailNode(x, n, ok)
  <2> DEFINE nodes == [E!PropagateFailure(x, n) EXCEPT ![n] = "failed"]
             ex == [mem.ex EXCEPT ![x].node = nodes]
  <2>1. E!Save(ex, ok) /\ UNCHANGED <<snap, E!history>>
    BY <1>3 DEF E!FailNode
  <2>2. /\ E!PropagateFailure(x, n) \in [Nodes -> E!NodeStatus \union {"none"}]
        /\ \A k \in Nodes : E!PropagateFailure(x, n)[k] \in {"blocked", mem.ex[x].node[k]}
    BY <1>1, <1>2 DEF E!PropagateFailure, Executed, E!WorkflowExecution
  <2>3. /\ nodes \in [Nodes -> E!NodeStatus \union {"none"}]
        /\ \A k \in Nodes : nodes[k] \in {"failed", "blocked", mem.ex[x].node[k]}
    BY <1>1, <2>2
  <2>. HIDE DEF nodes
  <2>4. /\ ex \in Executed
        /\ \A y \in Execs : ex[y].node = IF y = x THEN nodes ELSE mem.ex[y].node
    BY <1>2, <2>3, NodesSet
  <2>. HIDE DEF ex
  <2>5. NoMoreWaiting(ex)
    BY <1>1, <2>3, <2>4 DEF NoMoreWaiting
  <2>. QED
    BY <2>1, <2>4, <2>5, QuietEngineSave
<1>4. CASE E!ProviderFailureRecovery(x, n, ok)
  <2> DEFINE ex == E!WithNode(x, n, "failed")
  <2>1. E!Save(ex, ok) /\ UNCHANGED <<snap, E!history>>
    BY <1>4 DEF E!ProviderFailureRecovery
  <2>2. /\ ex \in Executed
        /\ \A y \in Execs, k \in Nodes :
              ex[y].node[k] = IF y = x /\ k = n THEN "failed" ELSE mem.ex[y].node[k]
    BY <1>1, NodeSet DEF EngineInv
  <2>. HIDE DEF ex
  <2>3. NoMoreWaiting(ex)
    BY <1>1, <2>2 DEF NoMoreWaiting
  <2>. QED
    BY <2>1, <2>2, <2>3, QuietEngineSave
<1>. QED
  BY <1>3, <1>4

\* The executions after node n, if there is one, was given status st.
LEMMA NodeChosen ==
    ASSUME E!TypeOK, NEW x \in Execs, NEW n \in Nodes \union {Nobody}, E!EngineAssumption,
           NEW st \in E!NodeStatus
    PROVE  LET ex == IF n # Nobody /\ E!HasNode(x, n) THEN E!WithNode(x, n, st) ELSE mem.ex
           IN  /\ ex \in Executed
               /\ \A y \in Execs, k \in Nodes :
                     \/ ex[y].node[k] = mem.ex[y].node[k]
                     \/ y = x /\ k = n /\ ex[y].node[k] = st
<1>1. CASE n # Nobody /\ E!HasNode(x, n)
  <2>1. n \in Nodes
    BY <1>1
  <2>. QED
    BY <1>1, <2>1, NodeSet
<1>2. CASE ~(n # Nobody /\ E!HasNode(x, n))
  <2>1. mem.ex \in Executed
    BY EngineTypes
  <2>. QED
    BY <1>2, <2>1
<1>. QED
  BY <1>1, <1>2

LEMMA NodeApprovalKeeps ==
    ASSUME E!EngineAssumption, EngineInv, NEW x \in Execs, NEW n \in Nodes \union {Nobody},
           NEW ok \in BOOLEAN, E!RequireApproval(x, n, ok) \/ E!Approve(x, n, ok)
    PROVE  EngineInv'
<1>1. /\ "waiting_approval" \in E!NodeStatus /\ "waiting_approval" \notin E!Startable
      /\ "waiting_approval" \in E!WorkflowStatus
      /\ "ready" \in E!NodeStatus /\ "running" \in E!WorkflowStatus
  BY DEF E!NodeStatus, E!Startable, E!WorkflowStatus
<1>2. CASE E!RequireApproval(x, n, ok)
  <2> DEFINE ex == IF n # Nobody /\ E!HasNode(x, n)
                   THEN E!WithNode(x, n, "waiting_approval") ELSE mem.ex
             stored == [ex EXCEPT ![x].st = "waiting_approval"]
  <2>1. E!Save(stored, ok) /\ UNCHANGED <<snap, E!history>>
    BY <1>2 DEF E!RequireApproval
  <2>2. /\ ex \in Executed
        /\ \A y \in Execs, k \in Nodes :
              \/ ex[y].node[k] = mem.ex[y].node[k]
              \/ y = x /\ k = n /\ ex[y].node[k] = "waiting_approval"
    BY <1>1, NodeChosen DEF EngineInv
  <2>. HIDE DEF ex
  <2>3. stored \in Executed /\ \A y \in Execs : stored[y].node = ex[y].node
    BY <1>1, <2>2, StatusSet
  <2>. HIDE DEF stored
  <2>4. NoMoreWaiting(stored)
    BY <1>1, <2>2, <2>3 DEF NoMoreWaiting
  <2>. QED
    BY <2>1, <2>3, <2>4, QuietEngineSave
<1>3. CASE E!Approve(x, n, ok)
  <2> DEFINE ex == IF n # Nobody /\ E!HasNode(x, n)
                   THEN E!WithNode(x, n, "ready") ELSE mem.ex
             stored == [ex EXCEPT ![x].st = "running"]
  <2>1. E!Save(stored, ok) /\ E!Grant(x, {n}) /\ UNCHANGED snap
    BY <1>3 DEF E!Approve
  <2>2. /\ ex \in Executed
        /\ \A y \in Execs, k \in Nodes :
              \/ ex[y].node[k] = mem.ex[y].node[k]
              \/ y = x /\ k = n /\ ex[y].node[k] = "ready"
    BY <1>1, NodeChosen DEF EngineInv
  <2>. HIDE DEF ex
  <2>3. stored \in Executed /\ \A y \in Execs : stored[y].node = ex[y].node
    BY <1>1, <2>2, StatusSet
  <2>. HIDE DEF stored
  <2>4. GrantedWaiting(stored, x, {n})
    BY <2>2, <2>3 DEF GrantedWaiting
  <2>. QED
    BY <2>1, <2>3, <2>4, GrantedEngineSave
<1>. QED
  BY <1>2, <1>3

LEMMA DynamicTaskKeeps ==
    ASSUME E!EngineAssumption, EngineInv, NEW x \in Execs, NEW n \in Nodes,
           NEW out \in {"ok", "unwritten", "written"}, E!DynamicTask(x, n, out)
    PROVE  EngineInv'
<1> DEFINE def == mem.def \union {n}
           ex == IF n \in mem.def \/ E!HasNode(x, n) THEN mem.ex
                 ELSE E!WithNode(x, n, "pending")
           S == IF ex = mem.ex THEN {} ELSE {n}
<1>1. /\ E!Operation /\ E!Fault(out = "ok")
      /\ mem' = [def |-> def, ex |-> ex]
      /\ disk' = [def |-> IF out = "unwritten" THEN disk.def ELSE def,
                  ex |-> IF out = "ok" THEN ex ELSE disk.ex]
      /\ E!Grant(x, S) /\ UNCHANGED snap
  BY DEF E!DynamicTask
<1>2. /\ mem.ex \in Executed /\ disk.ex \in Executed
      /\ mem.def \in SUBSET Nodes /\ disk.def \in SUBSET Nodes
      /\ snap \in Snapshots
  BY EngineTypes DEF EngineInv
<1>3. "pending" \in E!NodeStatus
  BY DEF E!NodeStatus
<1>4. ex \in Executed /\ GrantedWaiting(ex, x, S)
  <2>1. CASE ex = mem.ex
    BY <1>2, <2>1 DEF GrantedWaiting
  <2>2. CASE ex # mem.ex
    <3>1. S = {n} /\ ex = E!WithNode(x, n, "pending")
      BY <2>2
    <3>2. /\ ex \in Executed
          /\ \A y \in Execs, k \in Nodes :
                ex[y].node[k] = IF y = x /\ k = n THEN "pending" ELSE mem.ex[y].node[k]
      BY <1>3, <3>1, NodeSet DEF EngineInv
    <3>. QED
      BY <3>1, <3>2 DEF GrantedWaiting
  <2>. QED
    BY <2>1, <2>2
<1>5. def \in SUBSET Nodes
  BY <1>2
<1>. HIDE DEF def, ex, S
<1>6. Within(ex, starts', grants') /\ Within(disk.ex, starts', grants')
  BY <1>1, <1>4, GrantedWithin
<1>7. /\ mem' \in E!Images /\ disk' \in E!Images
      /\ mem'.ex = ex /\ disk'.ex \in {ex, disk.ex}
  BY <1>1, <1>2, <1>4, <1>5 DEF E!Images, Executed
<1>8. starts' \in Counts /\ grants' \in Counts
  BY <1>1, EngineTypes, GrantAdds DEF EngineInv
<1>9. operations' \in 0..EngineOperations /\ faults' \in 0..MaxFaults
  BY <1>1, EngineBudgets DEF EngineInv
<1>10. E!TypeOK'
  BY <1>1, <1>2, <1>7, <1>8, <1>9 DEF E!TypeOK, Counts, Snapshots
<1>. QED
  BY <1>6, <1>7, <1>10 DEF EngineInv

LEMMA AgentAssignmentKeeps ==
    ASSUME E!EngineAssumption, EngineInv, NEW x \in Execs, NEW n \in Nodes,
           NEW ok \in BOOLEAN, E!DynamicAgentAssignment(x, n, ok)
    PROVE  EngineInv'
<1>1. mem.ex \in Executed /\ NoMoreWaiting(mem.ex)
  BY EngineTypes DEF EngineInv, NoMoreWaiting
<1>. QED
  BY <1>1, QuietEngineSave DEF E!DynamicAgentAssignment

LEMMA UpdateKeeps ==
    ASSUME E!EngineAssumption, EngineInv, NEW S \in SUBSET Nodes, NEW ok \in BOOLEAN,
           E!UpdateWorkflow(S, ok)
    PROVE  EngineInv'
<1>1. /\ E!Operation /\ E!Fault(ok)
      /\ mem' = [mem EXCEPT !.def = S]
      /\ disk' = IF ok THEN [disk EXCEPT !.def = S] ELSE disk
      /\ snap' = snap /\ starts' = starts /\ grants' = grants
  BY DEF E!UpdateWorkflow, E!history
<1>2. operations' \in 0..EngineOperations /\ faults' \in 0..MaxFaults
  BY <1>1, EngineBudgets DEF EngineInv
<1>3. /\ mem' \in E!Images /\ mem'.ex = mem.ex
      /\ disk' \in E!Images /\ disk'.ex = disk.ex
  BY <1>1 DEF EngineInv, E!TypeOK, E!Images
<1>4. E!TypeOK'
  BY <1>1, <1>2, <1>3 DEF E!TypeOK, EngineInv
<1>. QED
  BY <1>1, <1>3, <1>4 DEF EngineInv

LEMMA CreateCheckpointKeeps ==
    ASSUME EngineInv, NEW x \in Execs, E!CreateCheckpoint(x) PROVE EngineInv'
<1>1. snap' = [id |-> x, exec |-> mem.ex[x]] /\ mem.ex[x] \in E!WorkflowExecution
  BY EngineTypes DEF E!CreateCheckpoint, Executed, EngineInv
<1>2. snap' \in [id : Execs, exec : E!WorkflowExecution] \union {Nobody}
  BY <1>1
<1>3. /\ mem' = mem /\ disk' = disk /\ operations' = operations /\ faults' = faults
      /\ starts' = starts /\ grants' = grants
  BY DEF E!CreateCheckpoint, E!history
<1>. QED
  BY <1>2, <1>3 DEF EngineInv, E!TypeOK

LEMMA RestoreKeeps ==
    ASSUME E!EngineAssumption, EngineInv, NEW ok \in BOOLEAN, E!RestoreCheckpoint(ok)
    PROVE  EngineInv'
<1> DEFINE ex == [mem.ex EXCEPT ![snap.id] = snap.exec]
<1>1. snap # Nobody /\ E!Save(ex, ok) /\ E!Grant(snap.id, Nodes) /\ UNCHANGED snap
  BY DEF E!RestoreCheckpoint
<1>2. snap.id \in Execs /\ snap.exec \in E!WorkflowExecution /\ mem.ex \in Executed
  BY <1>1, EngineTypes DEF EngineInv, Snapshots
<1>3. /\ ex \in Executed
      /\ \A y \in Execs : ex[y] = IF y = snap.id THEN snap.exec ELSE mem.ex[y]
  BY <1>2 DEF Executed
<1>. HIDE DEF ex
<1>4. GrantedWaiting(ex, snap.id, Nodes)
  BY <1>3 DEF GrantedWaiting
<1>. QED
  BY <1>1, <1>2, <1>3, <1>4, GrantedEngineSave

LEMMA CrashRecoveryKeeps ==
    ASSUME E!EngineAssumption, EngineInv, NEW ok \in BOOLEAN, E!CrashRecovery(ok)
    PROVE  EngineInv'
<1> DEFINE ex == [x \in Execs |-> IF x \in E!Interrupted THEN E!Broken(mem.ex[x])
                                                         ELSE mem.ex[x]]
<1>1. E!Save(ex, ok) /\ UNCHANGED <<snap, E!history>>
  BY DEF E!CrashRecovery
<1>2. mem.ex \in Executed
  BY EngineTypes DEF EngineInv
<1>3. ASSUME NEW exec \in E!WorkflowExecution
      PROVE  /\ E!Broken(exec) \in E!WorkflowExecution
             /\ \A n \in Nodes : E!Broken(exec).node[n] \in {"failed", exec.node[n]}
  BY DEF E!Broken, E!WorkflowExecution, E!WorkflowStatus, E!NodeStatus
<1>4. ex \in Executed
  BY <1>2, <1>3 DEF Executed
<1>5. \A x \in Execs, n \in Nodes : ex[x].node[n] \in {"failed", mem.ex[x].node[n]}
  BY <1>2, <1>3 DEF Executed
<1>. HIDE DEF ex
<1>6. NoMoreWaiting(ex)
  BY <1>5 DEF NoMoreWaiting, E!Startable
<1>. QED
  BY <1>1, <1>4, <1>6, QuietEngineSave

LEMMA EngineCrashKeeps ==
    ASSUME E!EngineAssumption, EngineInv, E!Crash PROVE EngineInv'
<1>1. /\ mem' = disk /\ disk' = disk /\ snap' = snap /\ operations' = operations
      /\ starts' = starts /\ grants' = grants
  BY DEF E!Crash, E!history
<1>2. faults' \in 0..MaxFaults
  BY DEF E!Crash, E!EngineAssumption, EngineInv, E!TypeOK
<1>. QED
  BY <1>1, <1>2 DEF EngineInv, E!TypeOK

LEMMA EngineInit == ASSUME E!EngineAssumption, E!Init PROVE EngineInv
<1>1. E!Absent \in E!WorkflowExecution /\ \A n \in Nodes : E!Absent.node[n] = "none"
  BY DEF E!Absent, E!WorkflowExecution
<1>2. /\ mem.def = Nodes \ Dynamic /\ mem.ex = [x \in Execs |-> E!Absent]
      /\ mem \in E!Images /\ disk = mem
  BY <1>1 DEF E!Init, E!Images
<1>3. /\ starts \in Counts /\ grants = starts
      /\ \A x \in Execs, n \in Nodes : starts[x][n] = 0
  BY DEF E!Init, Counts
<1>4. E!TypeOK
  BY <1>2, <1>3 DEF E!Init, E!TypeOK, Counts, E!EngineAssumption
<1>5. Within(mem.ex, starts, grants)
  BY <1>1, <1>2, <1>3 DEF Within, Waiting, E!Startable
<1>. QED
  BY <1>2, <1>4, <1>5 DEF EngineInv

LEMMA EngineStep ==
    ASSUME E!EngineAssumption, EngineInv, [E!Next]_(E!vars) PROVE EngineInv'
<1>1. CASE UNCHANGED E!vars
  BY <1>1 DEF E!vars, EngineInv, E!TypeOK
<1>2. CASE E!Crash
  BY <1>2, EngineCrashKeeps
<1>3. CASE \E x \in Execs : E!CreateCheckpoint(x)
  BY <1>3, CreateCheckpointKeeps
<1>4. CASE \E x \in Execs, n \in Nodes, out \in {"ok", "unwritten", "written"} :
              E!DynamicTask(x, n, out)
  BY <1>4, DynamicTaskKeeps
<1>5. ASSUME NEW ok \in BOOLEAN,
             \/ E!RestoreCheckpoint(ok) \/ E!CrashRecovery(ok)
             \/ \E S \in SUBSET Nodes : E!UpdateWorkflow(S, ok)
      PROVE  EngineInv'
  BY <1>5, RestoreKeeps, CrashRecoveryKeeps, UpdateKeeps
<1>6. ASSUME NEW ok \in BOOLEAN, NEW x \in Execs,
             \/ \E approval \in BOOLEAN :
                   E!Trigger(x, approval, ok) \/ \E y \in Execs : E!Retry(x, y, approval, ok)
             \/ E!Start(x, ok) \/ E!Pause(x, ok) \/ E!Resume(x, ok) \/ E!Cancel(x, ok)
             \/ E!Recover(x, ok) \/ E!Timeout(x, ok) \/ E!RejectApproval(x, ok)
             \/ \E st \in E!WorkflowStatus : E!AtomicStateTransition(x, st, ok)
             \/ \E n \in Nodes \union {Nobody} :
                   E!RequireApproval(x, n, ok) \/ E!Approve(x, n, ok)
      PROVE  EngineInv'
  BY <1>6, MovesKeep, StartKeeps, NodeApprovalKeeps
<1>7. ASSUME NEW ok \in BOOLEAN, NEW x \in Execs, NEW n \in Nodes,
             \/ E!ExecuteNode(x, n, ok) \/ E!CompleteNode(x, n, ok)
             \/ E!FailNode(x, n, ok) \/ E!ProviderFailureRecovery(x, n, ok)
             \/ E!DynamicAgentAssignment(x, n, ok)
      PROVE  EngineInv'
  BY <1>7, ExecuteKeeps, CompleteNodeKeeps, FailNodeKeeps, AgentAssignmentKeeps
<1>. QED
  BY <1>1, <1>2, <1>3, <1>4, <1>5, <1>6, <1>7 DEF E!Next

LEMMA WithinBudget == ASSUME EngineInv PROVE E!AtMostOneStart
<1>1. ASSUME NEW x \in Execs, NEW n \in Nodes PROVE starts[x][n] <= grants[x][n]
  <2>1. starts[x][n] \in Nat /\ grants[x][n] \in Nat
    BY EngineTypes DEF EngineInv, Counts
  <2>2. starts[x][n] + Waiting(mem.ex[x].node[n]) <= grants[x][n]
    BY DEF EngineInv, Within
  <2>3. Waiting(mem.ex[x].node[n]) \in 0..1
    BY DEF Waiting
  <2>. QED
    BY <2>1, <2>2, <2>3
<1>. QED
  BY <1>1 DEF E!AtMostOneStart

-----------------------------------------------------------------------------
(* ToolGateway.  A ticket keeps its request from when it is issued, and a   *)
(* grant is never taken back: with the fact that only issued tickets are    *)
(* granted, what ran stays approved.                                        *)

GatewayInv ==
    /\ G!TypeOK
    /\ \A t \in grants : tickets[t] # NoTicket
    /\ G!EffectIsApproved

\* Administration that issues no ticket and grants none.
LEMMA ProfilesKeep ==
    ASSUME G!ToolAssumption, G!PolicyTypeOK,
           \/ \E s \in Subjects, b \in BOOLEAN : G!RegisterSubject(s, b) \/ G!SetCapability(s, b)
           \/ \E s \in Subjects : G!RevokeSubject(s)
    PROVE  G!PolicyTypeOK' /\ UNCHANGED <<tickets, grants>>
<1>1. changes' \in 0..MaxChanges
  BY DEF G!PolicyTypeOK, G!ToolAssumption, G!RegisterSubject, G!SetCapability,
         G!RevokeSubject, G!Change
<1>2. subjects \in [Subjects -> G!SubjectProfile]
  BY DEF G!PolicyTypeOK
<1>3. UNCHANGED <<rules, allowed, protected, destructive, tickets, grants>>
  BY DEF G!RegisterSubject, G!SetCapability, G!RevokeSubject
<1>4. subjects' \in [Subjects -> G!SubjectProfile]
  <2>1. ASSUME NEW s \in Subjects, NEW profile \in G!SubjectProfile,
               subjects' = [subjects EXCEPT ![s] = profile]
        PROVE  subjects' \in [Subjects -> G!SubjectProfile]
    BY <1>2, <2>1
  <2>2. ASSUME NEW s \in Subjects, NEW b \in BOOLEAN, G!RegisterSubject(s, b)
        PROVE  subjects' \in [Subjects -> G!SubjectProfile]
    <3>1. [known |-> TRUE, revoked |-> FALSE, capable |-> b] \in G!SubjectProfile
      BY DEF G!SubjectProfile
    <3>. QED
      BY <2>1, <2>2, <3>1 DEF G!RegisterSubject
  <2>3. ASSUME NEW s \in Subjects, NEW b \in BOOLEAN, G!SetCapability(s, b)
        PROVE  subjects' \in [Subjects -> G!SubjectProfile]
    <3>1. subjects' = [subjects EXCEPT ![s] = [subjects[s] EXCEPT !.capable = b]]
      BY <1>2, <2>3 DEF G!SetCapability
    <3>2. [subjects[s] EXCEPT !.capable = b] \in G!SubjectProfile
      BY <1>2 DEF G!SubjectProfile
    <3>. QED
      BY <2>1, <3>1, <3>2
  <2>4. ASSUME NEW s \in Subjects, G!RevokeSubject(s)
        PROVE  subjects' \in [Subjects -> G!SubjectProfile]
    <3>1. subjects' = [subjects EXCEPT ![s] = [subjects[s] EXCEPT !.revoked = TRUE]]
      BY <1>2, <2>4 DEF G!RevokeSubject
    <3>2. [subjects[s] EXCEPT !.revoked = TRUE] \in G!SubjectProfile
      BY <1>2 DEF G!SubjectProfile
    <3>. QED
      BY <2>1, <3>1, <3>2
  <2>. QED
    BY <2>2, <2>3, <2>4
<1>. QED
  BY <1>1, <1>3, <1>4 DEF G!PolicyTypeOK

LEMMA AllowKeeps ==
    ASSUME G!PolicyTypeOK, NEW s \in Subjects, NEW p \in Resources, G!Allow(s, p)
    PROVE  allowed' \in G!AllowLists
<1>1. allowed \in G!AllowLists
  BY DEF G!PolicyTypeOK
<1>2. CASE allowed' = [allowed EXCEPT !.paths = @ \union {<<s, p>>}]
  <2>1. allowed.paths \union {<<s, p>>} \in SUBSET (Subjects \X Resources)
    BY <1>1 DEF G!AllowLists
  <2>. QED
    BY <1>1, <1>2, <2>1 DEF G!AllowLists
<1>3. CASE allowed' = [allowed EXCEPT !.secrets = @ \union {s}]
  <2>1. allowed.secrets \union {s} \in SUBSET Subjects
    BY <1>1 DEF G!AllowLists
  <2>. QED
    BY <1>1, <1>3, <2>1 DEF G!AllowLists
<1>4. CASE allowed' = [allowed EXCEPT !.git = @ \union {p}]
  <2>1. allowed.git \union {p} \in SUBSET Resources
    BY <1>1 DEF G!AllowLists
  <2>. QED
    BY <1>1, <1>4, <2>1 DEF G!AllowLists
<1>5. CASE allowed' = [allowed EXCEPT !.hosts = @ \union {p}]
  <2>1. allowed.hosts \union {p} \in SUBSET Resources
    BY <1>1 DEF G!AllowLists
  <2>. QED
    BY <1>1, <1>5, <2>1 DEF G!AllowLists
<1>. QED
  BY <1>2, <1>3, <1>4, <1>5 DEF G!Allow

LEMMA RulesKeep ==
    ASSUME G!ToolAssumption, G!PolicyTypeOK,
           \/ \E x \in G!PolicyRule : G!AddRule(x) \/ G!RemoveRule(x)
           \/ \E p \in Resources : G!ProtectPath(p) \/ \E s \in Subjects : G!Allow(s, p)
           \/ \E a \in Patterns : G!RequireApprovalFor(a)
    PROVE  G!PolicyTypeOK' /\ UNCHANGED <<tickets, grants>>
<1>1. changes' \in 0..MaxChanges /\ UNCHANGED <<subjects, tickets, grants>>
  BY DEF G!PolicyTypeOK, G!ToolAssumption, G!Change, G!AddRule, G!RemoveRule,
         G!ProtectPath, G!Allow, G!RequireApprovalFor
<1>2. CASE \E x \in G!PolicyRule : G!AddRule(x) \/ G!RemoveRule(x)
  BY <1>1, <1>2 DEF G!PolicyTypeOK, G!AddRule, G!RemoveRule
<1>3. CASE \E p \in Resources : G!ProtectPath(p)
  BY <1>1, <1>3 DEF G!PolicyTypeOK, G!ProtectPath
<1>4. ASSUME NEW p \in Resources, NEW s \in Subjects, G!Allow(s, p)
      PROVE  G!PolicyTypeOK'
  <2>1. allowed' \in G!AllowLists /\ UNCHANGED <<rules, protected, destructive>>
    BY <1>4, AllowKeeps DEF G!Allow
  <2>. QED
    BY <1>1, <2>1 DEF G!PolicyTypeOK
<1>5. CASE \E a \in Patterns : G!RequireApprovalFor(a)
  BY <1>1, <1>5 DEF G!PolicyTypeOK, G!RequireApprovalFor, G!ToolAssumption
<1>. QED
  BY <1>1, <1>2, <1>3, <1>4, <1>5

\* What was approved stays approved.
LEMMA ApprovalsStand ==
    ASSUME GatewayInv, grants \subseteq grants',
           \A t \in Tickets : tickets[t] # NoTicket => tickets'[t] = tickets[t],
           UNCHANGED effects
    PROVE  G!EffectIsApproved'
<1>1. \A t \in grants : t \in grants' /\ tickets'[t] = tickets[t]
  BY DEF GatewayInv, G!TypeOK, G!PolicyTypeOK
<1>. QED
  BY <1>1 DEF GatewayInv, G!EffectIsApproved

LEMMA AdministerKeeps ==
    ASSUME G!ToolAssumption, GatewayInv, G!Administer,
           UNCHANGED <<registered, hosts, calls, effects>>
    PROVE  GatewayInv'
<1>1. SUFFICES /\ G!PolicyTypeOK'
               /\ grants \subseteq grants' /\ \A t \in grants' : tickets'[t] # NoTicket
               /\ \A t \in Tickets : tickets[t] # NoTicket => tickets'[t] = tickets[t]
  BY ApprovalsStand DEF GatewayInv, G!TypeOK
<1>2. CASE G!PolicyTypeOK' /\ UNCHANGED <<tickets, grants>>
  BY <1>2 DEF GatewayInv
<1>3. ASSUME NEW t \in Tickets, G!GrantApproval(t)
      PROVE  /\ G!PolicyTypeOK'
             /\ grants \subseteq grants' /\ \A u \in grants' : tickets'[u] # NoTicket
             /\ \A u \in Tickets : tickets[u] # NoTicket => tickets'[u] = tickets[u]
  BY <1>3 DEF G!GrantApproval, G!Change, G!ToolAssumption, GatewayInv, G!TypeOK, G!PolicyTypeOK
<1>4. ASSUME NEW t \in Tickets, NEW r \in G!ActionRequest, G!RequestApproval(t, r)
      PROVE  /\ G!PolicyTypeOK'
             /\ grants \subseteq grants' /\ \A u \in grants' : tickets'[u] # NoTicket
             /\ \A u \in Tickets : tickets[u] # NoTicket => tickets'[u] = tickets[u]
  BY <1>4 DEF G!RequestApproval, G!Change, G!ToolAssumption, GatewayInv, G!TypeOK, G!PolicyTypeOK
<1>. QED
  BY <1>2, <1>3, <1>4, ProfilesKeep, RulesKeep DEF G!Administer, GatewayInv, G!TypeOK

LEMMA TargetsNamed ==
    ASSUME G!ToolAssumption, NEW tool \in Tools, NEW args \in Arguments
    PROVE  /\ args.command \in G!Targets
           /\ G!Checked(args) \in G!Targets /\ G!Touched(tool, args) \in G!Targets
<1>1. /\ args.path \in G!Targets /\ args.resource \in G!Targets /\ args.host \in G!Targets
      /\ args.command \in G!Targets /\ args.target \in G!Targets
  BY DEF G!ToolAssumption
<1>2. G!Checked(args) \in G!Targets
  BY <1>1 DEF G!Checked, G!??
<1>. QED
  BY <1>1, <1>2 DEF G!Touched, G!??

LEMMA RequestsTyped ==
    ASSUME NEW tool \in Tools, NEW s \in Subjects, NEW p \in G!Targets,
           NEW args, args.command \in G!Targets
    PROVE  G!Requests(tool, s, p, args) \subseteq G!ActionRequest
<1>1. {tool, "git", "capability"} \union G!Secondary(tool) \subseteq G!Actions
  BY DEF G!Secondary, G!Actions
<1>2. \A a \in {tool} \union G!Secondary(tool) :
         [subject |-> s, action |-> a, resource |-> p] \in G!ActionRequest
  BY <1>1 DEF G!ActionRequest, G!Targets
<1>3. /\ [subject |-> s, action |-> "git", resource |-> args.command] \in G!ActionRequest
      /\ [subject |-> s, action |-> "capability", resource |-> NoResource]
            \in G!ActionRequest
  BY <1>1 DEF G!ActionRequest, G!Targets
<1>. QED
  BY <1>2, <1>3 DEF G!Requests

\* What requires an approval does so because of its action: no resource makes the
\* policy allow it without one.
LEMMA ApprovalIsForTheAction ==
    ASSUME NEW r \in G!ActionRequest, NEW q \in G!ActionRequest,
           q.subject = r.subject, q.action = r.action,
           G!EffectOf(r) = "require_approval"
    PROVE  G!EffectOf(q) # "allow"
<1>1. subjects[q.subject].known /\ ~subjects[q.subject].revoked
  BY DEF G!EffectOf
<1>2. G!Gated(q) = G!Gated(r) /\ G!Matched(q) = G!Matched(r)
  BY DEF G!Gated, G!Matched
<1>3. CASE q.action \in destructive
  BY <1>1, <1>3 DEF G!EffectOf
<1>4. CASE q.action \notin destructive
  <2>1. "require_approval" \in G!Matched(r)
    BY <1>1, <1>4 DEF G!EffectOf, G!Strictest
  <2>. QED
    BY <1>1, <1>2, <1>4, <2>1 DEF G!EffectOf, G!Strictest
<1>. QED
  BY <1>3, <1>4

LEMMA InvokeKeeps ==
    ASSUME G!ToolAssumption, GatewayInv, NEW tool \in Tools, NEW s \in Subjects,
           NEW args \in Arguments, NEW ticket, G!Invoke(tool, s, args, ticket)
    PROVE  GatewayInv'
<1> DEFINE checked == G!Checked(args)
           touched == G!Touched(tool, args)
           checks == G!Checks(tool, s, args)
           needed == {r \in G!Requests(tool, s, touched, args) :
                         G!EffectOf(r) = "require_approval"}
           ran(times) == [tool |-> tool, checked |-> checked, touched |-> touched,
                          times |-> times, needed |-> needed]
<1>1. /\ calls < MaxCalls /\ calls' = calls + 1 /\ G!Permitted(checks, ticket)
      /\ UNCHANGED <<G!policyVars, registered, hosts>>
  BY DEF G!Invoke
<1>2. PICK times : times \in 1..4 /\ effects' = effects \union {ran(times)}
  <2>1. PICK gate \in BOOLEAN, valid \in BOOLEAN, failures \in 0..3 :
           LET passes == IF Category[tool] = "network" THEN touched \in hosts
                         ELSE gate \/ Category[tool] \in {"git", "secret", "destructive"}
               accesses == IF Category[tool] = "filesystem" /\ gate THEN 1 ELSE 0
               times == accesses
                   + (IF passes /\ valid THEN G!Attempts(tool, failures) ELSE 0)
           IN  times > 0 /\ effects' = effects \union {ran(times)}
    BY DEF G!Invoke
  <2>2. G!Attempts(tool, failures) \in 1..3
    BY DEF G!Attempts
  <2> DEFINE accesses == IF Category[tool] = "filesystem" /\ gate THEN 1 ELSE 0
             passes == IF Category[tool] = "network" THEN touched \in hosts
                       ELSE gate \/ Category[tool] \in {"git", "secret", "destructive"}
             runs == IF passes /\ valid THEN G!Attempts(tool, failures) ELSE 0
  <2>3. accesses \in 0..1 /\ runs \in 0..3
    BY <2>2
  <2>4. accesses + runs > 0 /\ effects' = effects \union {ran(accesses + runs)}
    BY <2>1
  <2>. HIDE DEF accesses, runs
  <2>5. accesses + runs \in 1..4
    BY <2>3, <2>4
  <2>. QED
    BY <2>4, <2>5
<1>3. checked \in G!Targets /\ touched \in G!Targets /\ args.command \in G!Targets
  BY TargetsNamed
<1>4. ran(times) \in G!Ran
  <2>1. needed \subseteq G!ActionRequest
    BY <1>3, RequestsTyped
  <2>. HIDE DEF checked, touched, needed
  <2>. QED
    BY <1>2, <1>3, <2>1 DEF G!Ran
<1>5. ASSUME NEW r \in needed
      PROVE  \E t \in grants : /\ tickets[t].subject = r.subject
                               /\ tickets[t].action = r.action
                               /\ touched = checked => tickets[t].resource = r.resource
  <2>1. PICK q \in checks : /\ q.subject = r.subject /\ q.action = r.action
                            /\ touched = checked => q.resource = r.resource
    <3>. HIDE DEF checked, touched
    <3>1. r \in G!Requests(tool, s, touched, args)
      OBVIOUS
    <3>2. checks = G!Requests(tool, s, checked, args)
      BY DEF G!Checks, checked
    <3>3. CASE r \in {[subject |-> s, action |-> a, resource |-> touched] :
                         a \in {tool} \union G!Secondary(tool)}
      <4>1. PICK a \in {tool} \union G!Secondary(tool) :
               r = [subject |-> s, action |-> a, resource |-> touched]
        BY <3>3
      <4>2. [subject |-> s, action |-> a, resource |-> checked] \in checks
        BY <3>2 DEF G!Requests
      <4>. QED
        BY <4>1, <4>2
    <3>4. CASE r \notin {[subject |-> s, action |-> a, resource |-> touched] :
                            a \in {tool} \union G!Secondary(tool)}
      <4>1. r \in checks
        BY <3>1, <3>2, <3>4 DEF G!Requests
      <4>. QED
        BY <4>1
    <3>. QED
      BY <3>3, <3>4
  <2>2. q \in G!ActionRequest /\ r \in G!ActionRequest
    BY <1>3, RequestsTyped DEF G!Checks
  <2>3. G!EffectOf(q) # "allow"
    BY <2>1, <2>2, ApprovalIsForTheAction
  <2>4. ticket \in grants /\ tickets[ticket] = q
    BY <1>1, <2>3 DEF G!Permitted, G!Allows, G!Approved
  <2>. QED
    BY <2>1, <2>4
<1>6. G!TypeOK'
  <2>1. G!PolicyTypeOK'
    BY <1>1 DEF GatewayInv, G!TypeOK, G!PolicyTypeOK, G!policyVars
  <2>2. effects' \subseteq G!Ran
    BY <1>2, <1>4 DEF GatewayInv, G!TypeOK
  <2>3. calls' \in 0..MaxCalls
    BY <1>1 DEF GatewayInv, G!TypeOK, G!ToolAssumption
  <2>. QED
    BY <1>1, <2>1, <2>2, <2>3 DEF GatewayInv, G!TypeOK
<1>7. grants' = grants /\ tickets' = tickets
  BY <1>1 DEF G!policyVars
<1>8. /\ ran(times).needed = needed
      /\ ran(times).checked = checked /\ ran(times).touched = touched
  OBVIOUS
<1>. HIDE DEF ran, needed, checked, touched, checks
<1>9. G!EffectIsApproved'
  BY <1>2, <1>5, <1>7, <1>8 DEF GatewayInv, G!EffectIsApproved
<1>. QED
  BY <1>6, <1>7, <1>9 DEF GatewayInv

LEMMA RegistryKeeps ==
    ASSUME G!ToolAssumption, GatewayInv,
           \/ \E tool \in Tools : G!Register(tool) \/ G!Remove(tool)
           \/ \E p \in Resources : G!AllowHost(p)
    PROVE  GatewayInv'
  BY DEF G!Register, G!Remove, G!AllowHost, G!Change, G!policy, G!ToolAssumption,
         GatewayInv, G!TypeOK, G!PolicyTypeOK, G!EffectIsApproved

LEMMA GatewayInit == ASSUME G!ToolAssumption, G!Init PROVE GatewayInv
  BY DEF G!Init, G!PolicyInit, G!ToolAssumption, GatewayInv, G!TypeOK, G!PolicyTypeOK,
         G!EffectIsApproved, G!SubjectProfile, G!AllowLists

LEMMA GatewayStep ==
    ASSUME G!ToolAssumption, GatewayInv, [G!Next]_(G!vars) PROVE GatewayInv'
<1>1. CASE UNCHANGED G!vars
  BY <1>1
  DEF G!vars, G!policyVars, GatewayInv, G!TypeOK, G!PolicyTypeOK, G!EffectIsApproved
<1>2. CASE G!Next
  BY <1>2, AdministerKeeps, RegistryKeeps, InvokeKeeps DEF G!Next
<1>. QED
  BY <1>1, <1>2

-----------------------------------------------------------------------------
(* The components together.  A behaviour stays one of its part; while it is *)
(* one, the invariant of that component holds.  No assumption is needed     *)
(* beyond those that MCWork states.                                         *)

PartsInv ==
    /\ part = "delegation" => DelegationInv
    /\ part = "messages" => BrokerInv
    /\ part = "handoff" => HandoffInv
    /\ part = "engine" => EngineInv
    /\ part = "gateway" => GatewayInv

LEMMA PartsInit == Init => PartsInv
<1>1. /\ part = "delegation" /\ Init => D!Init
      /\ part = "messages" /\ Init => M!Init
      /\ part = "handoff" /\ Init => H!Init
      /\ part = "engine" /\ Init => E!Init
      /\ part = "gateway" /\ Init => G!Init
  BY DEF Init
<1>. QED
  BY <1>1, DelegationInit, InitHolds, HandoffInit, EngineInit, GatewayInit,
     TasksAssumption, MessagesAssumption, HandoffAssumption, WorkflowAssumption,
     GatewayAssumption
  DEF PartsInv

LEMMA PartStep ==
    ASSUME [Next]_allVars
    PROVE  /\ part' = part
           /\ part = "delegation" => [D!Next]_(D!vars)
           /\ part = "messages" => [M!Next]_(M!vars)
           /\ part = "handoff" => [H!Next]_(H!vars)
           /\ part = "engine" => [E!Next]_(E!vars)
           /\ part = "gateway" => [G!Next]_(G!vars)
<1>1. CASE UNCHANGED allVars
  BY <1>1
  DEF allVars, delegationVars, messageVars, handoffVars, engineVars, gatewayVars,
      D!vars, M!vars, M!history, H!vars, E!vars, G!vars, G!policyVars
<1>2. CASE Next
  BY <1>2 DEF Next
<1>. QED
  BY <1>1, <1>2

LEMMA PartsStep == ASSUME PartsInv, [Next]_allVars PROVE PartsInv'
<1>1. CASE part = "delegation"
  BY <1>1, PartStep, DelegationStep, TasksAssumption DEF PartsInv
<1>2. CASE part = "messages"
  BY <1>2, PartStep, NextKeeps, MessagesAssumption DEF PartsInv
<1>3. CASE part = "handoff"
  BY <1>3, PartStep, HandoffStep, HandoffAssumption DEF PartsInv
<1>4. CASE part = "engine"
  BY <1>4, PartStep, EngineStep, WorkflowAssumption DEF PartsInv
<1>5. CASE part = "gateway"
  BY <1>5, PartStep, GatewayStep, GatewayAssumption DEF PartsInv
<1>6. CASE part \notin {"delegation", "messages", "handoff", "engine", "gateway"}
  BY <1>6, PartStep DEF PartsInv
<1>. QED
  BY <1>1, <1>2, <1>3, <1>4, <1>5, <1>6

\* The inductive invariant of each component, for whichever the behaviour is one of.
THEOREM WorkInvariant == Spec => []PartsInv
<1>1. PartsInv /\ [Next]_allVars => PartsInv'
  BY PartsStep
<1>. QED
  BY <1>1, PartsInit, PTL DEF Spec

\* Delegation: a task has succeeded by the whole result of its current execution,
\* in memory and in delegations.json, whatever writes raise and processes die.
THEOREM WorkSucceedsByCurrent == Spec => []SuccessIsCurrent
<1>1. PartsInv => SuccessIsCurrent
  BY DEF PartsInv, DelegationInv, SuccessIsCurrent
<1>. QED
  BY <1>1, WorkInvariant, PTL

\* A result that submit_result reported accepted is kept in memory and in the file
\* until somebody acts on the task.
THEOREM WorkKeepsResults == Spec => []AcceptedResultIsKept
<1>1. PartsInv => AcceptedResultIsKept
  BY DEF PartsInv, DelegationInv, AcceptedResultIsKept
<1>. QED
  BY <1>1, WorkInvariant, PTL

\* MessageBroker: what was reported complete stays complete, in memory and in
\* messaging.json, for any number of messages, faults and recoveries.
THEOREM WorkCompletes == Spec => []ReportedIsFinal
<1>1. PartsInv => ReportedIsFinal
  BY CompletedStay DEF PartsInv, BrokerInv, ReportedIsFinal
<1>. QED
  BY <1>1, WorkInvariant, PTL

\* No message is handed over more often than it was attempted, and two messages
\* whose sends returned never share a number of one receiver.
THEOREM WorkDeliversOnce == Spec => []OneDeliveryPerAttempt
<1>1. PartsInv => OneDeliveryPerAttempt
  BY DEF PartsInv, BrokerInv, Sound, Fits, OneDeliveryPerAttempt, M!OneDeliveryPerAttempt
<1>. QED
  BY <1>1, WorkInvariant, PTL

\* HandoffWorkflow: a handoff is pending, and accepted, for the checkpoint it was
\* requested for.
THEOREM WorkHandsOver == Spec => []HandedOverAsRequested
<1>1. PartsInv => HandedOverAsRequested
  BY DEF PartsInv, HandoffInv, HandedOverAsRequested
<1>. QED
  BY <1>1, WorkInvariant, PTL

\* WorkflowEngine: a node starts as often as there was a reason to, for any graph,
\* any number of executions, and whatever is written, lost and restored.
THEOREM WorkStartsOnce == Spec => []AtMostOneStart
<1>1. PartsInv => AtMostOneStart
  BY WithinBudget DEF PartsInv, EngineInv, AtMostOneStart
<1>. QED
  BY <1>1, WorkInvariant, PTL

\* ToolGateway: what was done and needed an approval had one, for that subject and
\* action, and for that resource if the call named one thing.
THEOREM WorkIsApproved == Spec => []EffectIsApproved
<1>1. PartsInv => EffectIsApproved
  BY DEF PartsInv, GatewayInv, EffectIsApproved
<1>. QED
  BY <1>1, WorkInvariant, PTL

=============================================================================
