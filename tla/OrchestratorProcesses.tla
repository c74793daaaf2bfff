----------------------- MODULE OrchestratorProcesses ------------------------
(***************************************************************************)
(* PersistentOrchestrator with several processes on one state directory.   *)
(* An operation is three steps: load the record and compare its hash with  *)
(* expected_base, change the copy, replace the file.  Nothing is compared  *)
(* again when the file is replaced.  A load whose expected_base is         *)
(* superseded raises: the loads below are the ones that pass.  A record's  *)
(* hash is the number of its revision (every commit appends an event).  A  *)
(* process may die before it commits; the file is replaced atomically.     *)
(***************************************************************************)
EXTENDS OrchestratorRecord

CONSTANTS
    Processes,
    MaxCommits  \* bound: commits

MaxCommitsAssumption == MaxCommits \in Nat

VARIABLES
    rec, rev,   \* the file, and its revision
    copy        \* the record each process has loaded, with its revision

vars == <<rec, rev, copy>>

Idle == [rec |-> NewRecord, rev |-> 0]

Init ==
    /\ rec = NewRecord
    /\ rev = 1
    /\ copy = [p \in Processes |-> Idle]

\* _load.
Load(p) ==
    /\ copy[p] = Idle
    /\ copy' = [copy EXCEPT ![p] = [rec |-> rec, rev |-> rev]]
    /\ UNCHANGED <<rec, rev>>

\* The operation on the copy, and _commit.  Execution ids are uuids: the number
\* of the commit is as fresh.
Commit(p) ==
    LET r == copy[p].rec
    IN  /\ copy[p] # Idle
        /\ rev <= MaxCommits
        /\ \/ Managed(r, rec')
           \/ \E started \in SUBSET Tasks, parallel \in BOOLEAN :
                 Dispatch(r, rec', started, parallel, rev)
           \/ \E t \in Tasks, a \in Agents \union {NoAgent}, e \in 0..(rev - 1) :
                 CompleteTask(r, rec', t, a, e) \/ FailTask(r, rec', t, e)
        /\ rev' = rev + 1
        /\ copy' = [copy EXCEPT ![p] = Idle]

Die(p) ==
    /\ copy[p] # Idle
    /\ copy' = [copy EXCEPT ![p] = Idle]
    /\ UNCHANGED <<rec, rev>>

Next == \E p \in Processes : Load(p) \/ Commit(p) \/ Die(p)

Spec == Init /\ [][Next]_vars

-----------------------------------------------------------------------------
\* The file, and every copy of it, is a record a load accepts.
TypeOK ==
    /\ rec \in Records
    /\ rev \in Nat
    /\ copy \in [Processes -> [rec : Records, rev : Nat]]

=============================================================================
