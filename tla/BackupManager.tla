---------------------------- MODULE BackupManager ----------------------------
(***************************************************************************)
(* BackupManager (reliability.py): snapshots of a set of files, each in a  *)
(* directory of its own, and their restoration into another directory.     *)
(* Files are copied one by one, while others change them; the manifest,    *)
(* with the digest of what was copied, is written last.  Nothing is atomic *)
(* but the manifest: a call may raise, or the process die, at any file.    *)
(*                                                                         *)
(* A file is the number of its revision.  The copies are stored under the  *)
(* names of the files, which differ here (two sources of the same name in  *)
(* different directories would overwrite each other's copy).               *)
(***************************************************************************)
EXTENDS Naturals

CONSTANTS
    Files, Snapshots,
    Nothing,        \* no file, no manifest, no call
    Partial,        \* a file cut off in the middle, or damaged
    MaxRevision,    \* bound: revisions of the files
    MaxBreaks       \* bound: calls cut off, and damage

\* The bounds, and that no snapshot is mistaken for none.
SnapshotAssumption ==
    MaxRevision \in Nat \ {0} /\ MaxBreaks \in Nat /\ Nothing \notin Snapshots

Contents == 1..MaxRevision \union {Nothing, Partial}
NoFiles == [f \in Files |-> Nothing]

VARIABLES
    source,     \* the files
    revision,   \* the last revision of any of them
    copies,     \* the copies in the directory of each snapshot
    manifest,   \* its manifest.json: the revision of each copy
    call,       \* the call under way: snapshot or restore, and the files done
    into,       \* the directory that snapshots are restored to
    breaks,     \* how many so far
    seen,       \* history: what each snapshot found in the files
    damaged,    \* history: snapshots whose copies were damaged
    restored    \* history: the snapshot restored last, if that returned

vars == <<source, revision, copies, manifest, call, into, breaks, seen, damaged, restored>>
history == <<seen, damaged, restored>>

Init ==
    /\ source = [f \in Files |-> 1]
    /\ revision = 1
    /\ copies = [i \in Snapshots |-> NoFiles]
    /\ manifest = [i \in Snapshots |-> Nothing]
    /\ call = Nothing
    /\ into = NoFiles
    /\ breaks = 0
    /\ seen = copies
    /\ damaged = {}
    /\ restored = Nothing

At(op) == call # Nothing /\ call.op = op

\* Mutated form of Unused: the id of a snapshot may come again.
UnusedAny(i) == TRUE

\* snapshot_id is new.
Unused(i) == copies[i] = NoFiles /\ manifest[i] = Nothing

\* snapshot ...
BeginSnapshot(i) ==
    /\ call = Nothing
    /\ Unused(i)
    /\ call' = [op |-> "snapshot", id |-> i, done |-> {}]
    /\ UNCHANGED <<source, revision, copies, manifest, into, breaks, history>>

\* ... reads and copies each file ...
CopyFile(f) ==
    /\ At("snapshot")
    /\ f \notin call.done
    /\ source[f] # Nothing
    /\ copies' = [copies EXCEPT ![call.id][f] = source[f]]
    /\ seen' = [seen EXCEPT ![call.id][f] = source[f]]
    /\ call' = [call EXCEPT !.done = @ \union {f}]
    /\ UNCHANGED <<source, revision, manifest, into, breaks, damaged, restored>>

\* ... and writes the manifest, from what it read.
WriteManifest ==
    /\ At("snapshot")
    /\ call.done = Files
    /\ manifest' = [manifest EXCEPT ![call.id] = seen[call.id]]
    /\ call' = Nothing
    /\ UNCHANGED <<source, revision, copies, into, breaks, history>>

\* restore: it asks for the manifest, and not whether the copies verify ...
BeginRestore(i) ==
    /\ call = Nothing
    /\ manifest[i] # Nothing
    /\ call' = [op |-> "restore", id |-> i, done |-> {}]
    /\ restored' = Nothing
    /\ UNCHANGED <<source, revision, copies, manifest, into, breaks, seen, damaged>>

\* ... and copies each file back.
RestoreFile(f) ==
    /\ At("restore")
    /\ f \notin call.done
    /\ copies[call.id][f] # Nothing
    /\ into' = [into EXCEPT ![f] = copies[call.id][f]]
    /\ IF call.done \union {f} = Files
         THEN call' = Nothing /\ restored' = call.id
         ELSE call' = [call EXCEPT !.done = @ \union {f}] /\ UNCHANGED restored
    /\ UNCHANGED <<source, revision, copies, manifest, breaks, seen, damaged>>

\* A source or a copy is missing: BackupError, or the exception of the read.
FileMissing(f) ==
    /\ call # Nothing
    /\ f \notin call.done
    /\ (IF call.op = "snapshot" THEN source[f] ELSE copies[call.id][f]) = Nothing
    /\ call' = Nothing
    /\ UNCHANGED <<source, revision, copies, manifest, into, breaks, history>>

\* A write raises, or the process dies, in the middle of the file f.
BreakOff(f) ==
    /\ call # Nothing
    /\ f \notin call.done
    /\ breaks < MaxBreaks
    /\ breaks' = breaks + 1
    /\ IF call.op = "snapshot"
         THEN copies' = [copies EXCEPT ![call.id][f] = Partial] /\ UNCHANGED into
         ELSE into' = [into EXCEPT ![f] = Partial] /\ UNCHANGED copies
    /\ call' = Nothing
    /\ UNCHANGED <<source, revision, manifest, history>>

\* Other processes: a file is written or removed ...
Change(f) ==
    /\ \/ revision < MaxRevision /\ revision' = revision + 1
          /\ source' = [source EXCEPT ![f] = revision']
       \/ source[f] # Nothing /\ source' = [source EXCEPT ![f] = Nothing]
          /\ UNCHANGED revision
    /\ UNCHANGED <<copies, manifest, call, into, breaks, history>>

\* ... and a copy is damaged or lost.
Damage(i, f) ==
    /\ breaks < MaxBreaks
    /\ breaks' = breaks + 1
    /\ copies[i][f] # Nothing
    /\ \E c \in {Nothing, Partial} : copies' = [copies EXCEPT ![i][f] = c]
    /\ damaged' = damaged \union {i}
    /\ UNCHANGED <<source, revision, manifest, call, into, seen, restored>>

Next ==
    \/ WriteManifest
    \/ \E i \in Snapshots : BeginSnapshot(i) \/ BeginRestore(i)
    \/ \E f \in Files :
          \/ CopyFile(f) \/ RestoreFile(f) \/ FileMissing(f) \/ BreakOff(f) \/ Change(f)
          \/ \E i \in Snapshots : Damage(i, f)

Spec == Init /\ [][Next]_vars

\* verify
Valid(i) == manifest[i] # Nothing /\ \A f \in Files : copies[i][f] = manifest[i][f]

-----------------------------------------------------------------------------
\* Files, snapshots and calls keep their shape.
TypeOK ==
    /\ source \in [Files -> Contents] /\ into \in [Files -> Contents]
    /\ copies \in [Snapshots -> [Files -> Contents]]
    /\ manifest \in [Snapshots -> [Files -> Contents] \union {Nothing}]
    /\ call \in [op : {"snapshot", "restore"}, id : Snapshots, done : SUBSET Files]
                   \union {Nothing}
    /\ revision \in 1..MaxRevision /\ breaks \in 0..MaxBreaks
    /\ seen \in [Snapshots -> [Files -> Contents]]
    /\ damaged \subseteq Snapshots /\ restored \in Snapshots \union {Nothing}

\* A snapshot that is listed verifies unless somebody damaged it, however many
\* calls were cut off; and as long as it was not damaged, a restore that returned
\* gave back every file as the snapshot found it, whatever became of the sources.
SnapshotsRestore ==
    \A i \in Snapshots \ damaged :
        /\ manifest[i] # Nothing => Valid(i)
        /\ restored = i => into = seen[i]

=============================================================================
