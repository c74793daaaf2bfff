---------------------------- MODULE LeaseManager ----------------------------
(***************************************************************************)
(* The durable leases of reliability.py (class LeaseManager).  A process   *)
(* loads leases.json once, answers from memory, and rewrites the whole     *)
(* file after each change; the write may raise after the memory changed.   *)
(* Holders are callers of a process; they outlive its crashes and rely on  *)
(* the last Lease an operation returned to them, until it expires.         *)
(*                                                                         *)
(* Every lease has the manager's ttl_ms; renewal counts are left out.      *)
(***************************************************************************)
EXTENDS Integers

CONSTANTS
    Keys, Holders,
    Procs,     \* processes that opened the same data directory
    NoLease,   \* the value of a key without a lease
    TTL,       \* ttl_ms
    MaxTime    \* bound of the clock

ASSUME TTLAssumption == TTL \in Nat \ {0} /\ MaxTime \in Nat
ASSUME NoLeaseAssumption == NoLease \notin [holder : Holders, expires : Nat]

VARIABLES
    now,
    disk,   \* leases.json: [Keys -> lease or NoLease]
    mem,    \* _leases of each process
    alive,  \* the running processes
    trust   \* trust[h][k]: until when holder h relies on its lease of k

vars == <<now, disk, mem, alive, trust>>

Lease == [holder : Holders, expires : Nat]
Leases == [Keys -> Lease \union {NoLease}]

Init ==
    /\ now = 0
    /\ disk = [k \in Keys |-> NoLease]
    /\ mem = [p \in Procs |-> disk]
    /\ alive = Procs
    /\ trust = [h \in Holders |-> [k \in Keys |-> 0]]

Expired(lease) == now >= lease.expires

\* Mutated form of Save: the file is not written.
SaveNothing(p, leases, ok) ==
    /\ mem' = [mem EXCEPT ![p] = leases]
    /\ UNCHANGED <<disk, now, alive>>

\* The memory changes, then _save rewrites the file or raises.
Save(p, leases, ok) ==
    /\ mem' = [mem EXCEPT ![p] = leases]
    /\ disk' = IF ok THEN leases ELSE disk
    /\ UNCHANGED <<now, alive>>

Granted(h) == [holder |-> h, expires |-> now + TTL]

\* Mutated form of Free: an expired lease and a standing one look alike.
FreeForAll(p, h, k) == TRUE

Free(p, h, k) ==
    mem[p][k] # NoLease => Expired(mem[p][k]) \/ mem[p][k].holder = h

\* acquire, when it does not raise LeaseError.  The Lease is returned only if
\* the file was written.
Acquire(p, h, k, ok) ==
    /\ p \in alive
    /\ Free(p, h, k)
    /\ Save(p, [mem[p] EXCEPT ![k] = Granted(h)], ok)
    /\ trust' = IF ok THEN [trust EXCEPT ![h][k] = now + TTL] ELSE trust

\* renew of one's own lease before it expires.
Renew(p, h, k, ok) ==
    /\ p \in alive
    /\ mem[p][k] # NoLease
    /\ mem[p][k].holder = h
    /\ ~Expired(mem[p][k])
    /\ Save(p, [mem[p] EXCEPT ![k] = Granted(h)], ok)
    /\ trust' = IF ok THEN [trust EXCEPT ![h][k] = now + TTL] ELSE trust

\* release: the caller gives the lease up even if the write raises.
Release(p, h, k, ok) ==
    /\ p \in alive
    /\ mem[p][k] # NoLease
    /\ mem[p][k].holder = h
    /\ Save(p, [mem[p] EXCEPT ![k] = NoLease], ok)
    /\ trust' = [trust EXCEPT ![h][k] = 0]

Stale(p) == {k \in Keys : mem[p][k] # NoLease /\ Expired(mem[p][k])}

\* recover_stale drops every expired lease.
RecoverStale(p, ok) ==
    /\ p \in alive
    /\ Stale(p) # {}
    /\ Save(p, [k \in Keys |-> IF k \in Stale(p) THEN NoLease ELSE mem[p][k]], ok)
    /\ UNCHANGED trust

Crash(p) ==
    /\ p \in alive
    /\ alive' = alive \ {p}
    /\ UNCHANGED <<now, disk, mem, trust>>

\* A new process loads the file.
Start(p) ==
    /\ p \notin alive
    /\ alive' = alive \union {p}
    /\ mem' = [mem EXCEPT ![p] = disk]
    /\ UNCHANGED <<now, disk, trust>>

Tick ==
    /\ now < MaxTime
    /\ now' = now + 1
    /\ UNCHANGED <<disk, mem, alive, trust>>

Next ==
    \/ Tick
    \/ \E p \in Procs :
          \/ Crash(p) \/ Start(p)
          \/ \E ok \in BOOLEAN :
                \/ RecoverStale(p, ok)
                \/ \E h \in Holders, k \in Keys :
                      Acquire(p, h, k, ok) \/ Renew(p, h, k, ok) \/ Release(p, h, k, ok)

Spec == Init /\ [][Next]_vars

-----------------------------------------------------------------------------
\* Memory and file hold leases of known holders, none expired before the clock
\* started.
TypeOK ==
    /\ now \in Nat
    /\ disk \in Leases
    /\ mem \in [Procs -> Leases]
    /\ alive \subseteq Procs
    /\ trust \in [Holders -> [Keys -> Nat]]

\* No key has two holders that both rely on their lease now, whatever writes
\* raise and whenever the process crashes and loads the file again.
OneHolder ==
    \A k \in Keys, h1, h2 \in Holders :
        trust[h1][k] > now /\ trust[h2][k] > now => h1 = h2

Backs(lease, h, until) == lease # NoLease /\ lease.holder = h /\ lease.expires >= until

\* A lease its holder relies on is in the file, at least as long as the holder
\* relies on it: no crash takes it away ("Lease/lock durable").
DurableLease ==
    \A k \in Keys, h \in Holders : trust[h][k] > now => Backs(disk[k], h, trust[h][k])

\* ... and in the memory of the process that answers the next request.
RememberedLease ==
    \A p \in alive, k \in Keys, h \in Holders :
        trust[h][k] > now => Backs(mem[p][k], h, trust[h][k])

=============================================================================
