--------------------------- MODULE HandoffDocument ---------------------------
(***************************************************************************)
(* CheckpointManager and ChangelogWriter (persistence.py): the checkpoint  *)
(* in docs/HANDOFF.md, and docs/CHANGELOG.md, where the one it replaces is *)
(* archived first.  A call reads the document, reads the changelog, writes *)
(* it with one more entry, and writes the document; each write is atomic   *)
(* (a temporary file and a rename), the four steps are not.  A write may   *)
(* raise, the process may die between two steps, and people edit the       *)
(* document meanwhile.                                                     *)
(*                                                                         *)
(* The CLI, the MCP server and the filesystem adapter are writers.  Paths, *)
(* metadata and the layout of an entry are left out, and HandoffWriter,    *)
(* which writes documents of other names.                                  *)
(***************************************************************************)
EXTENDS Naturals, Sequences

CONSTANTS
    Writers,     \* processes that write the checkpoint
    Texts,       \* contents: text,
    Secret,      \* ... something that looks like it holds a secret,
    Blank,       \* ... white space,
    Unreadable,  \* ... bytes that are not UTF-8,
    Absent,      \* ... and no file, or no call
    MaxWrites    \* bound: calls, and edits by others

\* The bound is a natural number.
WritesAssumption == MaxWrites \in Nat

Contents == Texts \union {Secret, Blank, Unreadable, Absent}

VARIABLES
    document,   \* docs/HANDOFF.md
    changelog,  \* the entries of docs/CHANGELOG.md
    writing,    \* the call of each writer, or Absent
    writes,     \* how many so far
    replaced    \* history: the checkpoints that a call read and replaced

vars == <<document, changelog, writing, writes, replaced>>

\* at: the next step; old: the document it read; base: the changelog it read.
Writings ==
    [at : {"read", "append", "replace"}, new : Texts \union {Blank}, old : Contents,
     base : Seq(Texts)]

Init ==
    /\ document = Absent
    /\ changelog = <<>>
    /\ writing = [w \in Writers |-> Absent]
    /\ writes = 0
    /\ replaced = <<>>

Count == writes < MaxWrites /\ writes' = writes + 1

At(w, step) == writing[w] # Absent /\ writing[w].at = step

\* What is archived: text that was read, unless it looks like it holds a secret.
Archived(old) == old \in Texts

\* write_checkpoint, up to the comparison with what is there: a secret is
\* refused, and the same content changes nothing.
WriteCheckpoint(w, content) ==
    /\ Count
    /\ writing[w] = Absent
    /\ content # document
    /\ writing' = [writing EXCEPT ![w] =
           [at |-> IF Archived(document) THEN "read" ELSE "replace",
            new |-> content, old |-> document, base |-> <<>>]]
    /\ UNCHANGED <<document, changelog, replaced>>

\* ChangelogWriter.append reads the entries ...
ReadChangelog(w) ==
    /\ At(w, "read")
    /\ writing' = [writing EXCEPT ![w].at = "append", ![w].base = changelog]
    /\ UNCHANGED <<document, changelog, writes, replaced>>

\* ... and writes them all again, with the new one.
AppendEntry(w) ==
    /\ At(w, "append")
    /\ changelog' = Append(writing[w].base, writing[w].old)
    /\ writing' = [writing EXCEPT ![w].at = "replace"]
    /\ UNCHANGED <<document, writes, replaced>>

Replace(w) ==
    /\ At(w, "replace")
    /\ document' = writing[w].new
    /\ replaced' = IF Archived(writing[w].old) THEN Append(replaced, writing[w].old)
                   ELSE replaced
    /\ writing' = [writing EXCEPT ![w] = Absent]
    /\ UNCHANGED <<changelog, writes>>

\* Mutated form of BreakOff: a changelog that cannot be read or written is no
\* reason to keep the document.
BreakOffArchiving(w) ==
    /\ writing[w] # Absent
    /\ writing' = [writing EXCEPT ![w] =
           IF @.at = "replace" THEN Absent ELSE [@ EXCEPT !.at = "replace"]]
    /\ UNCHANGED <<document, changelog, writes, replaced>>

\* The next read or write raises, or the process dies before it.
BreakOff(w) ==
    /\ writing[w] # Absent
    /\ writing' = [writing EXCEPT ![w] = Absent]
    /\ UNCHANGED <<document, changelog, writes, replaced>>

\* Somebody edits, or removes, the document.
Edit(content) ==
    /\ Count
    /\ document' = content
    /\ UNCHANGED <<changelog, writing, replaced>>

Next ==
    \/ \E content \in Contents : Edit(content)
    \/ \E w \in Writers :
          \/ ReadChangelog(w) \/ AppendEntry(w) \/ Replace(w) \/ BreakOff(w)
          \/ \E content \in Texts \union {Blank} : WriteCheckpoint(w, content)

Spec == Init /\ [][Next]_vars

-----------------------------------------------------------------------------
\* Documents, changelog and calls keep their shape.
TypeOK ==
    /\ document \in Contents
    /\ changelog \in Seq(Texts)
    /\ writing \in [Writers -> Writings \union {Absent}]
    /\ writes \in 0..MaxWrites
    /\ replaced \in Seq(Texts)

\* Every checkpoint that a call found and replaced is in the changelog, and they
\* are there in the order they were replaced, whatever raised and wherever the
\* process died; an entry for a checkpoint that was not replaced after all may
\* come in between.  With one writer: two that interleave lose entries.
ReplacedIsArchived ==
    \E place \in [DOMAIN replaced -> DOMAIN changelog] :
        /\ \A i, j \in DOMAIN replaced : i < j => place[i] < place[j]
        /\ \A i \in DOMAIN replaced : changelog[place[i]] = replaced[i]

=============================================================================
