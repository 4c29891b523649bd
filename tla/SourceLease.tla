----------------------------- MODULE SourceLease -----------------------------
(***************************************************************************)
(* The per-source write lease of sync/locks.py (a row of source_leases) as *)
(* SyncEngine._source_write_lock uses it on PostgreSQL: lease, then the    *)
(* on-disk source_lock, then the sync, and both released in reverse order. *)
(*                                                                         *)
(* The model is about one source, hence one row.  A lease is one           *)
(* SourceLease object, taken by one thread; ownerOf gives its "host:pid",  *)
(* so the leases of two threads of one process have the same owner.  One   *)
(* tick of the clock is one heartbeat interval, and the row is stale when  *)
(* its heartbeat is more than StaleAfter ticks old.  The on-disk lock is   *)
(* taken as the mutex it is meant to be, one per host; module SourceLock   *)
(* looks inside it.                                                        *)
(***************************************************************************)
EXTENDS Naturals

CONSTANTS Lease,        \* SourceLease objects, one per contending thread
          Owner,        \* processes, as host:pid
          Host,         \* machines, each with its own lock directory
          ownerOf,      \* the owner string of a lease
          hostOf,       \* the host of an owner
          NoOwner, NoLease,
          StaleAfter,   \* stale_after_s, in heartbeat intervals
          MaxFailures,  \* failed heartbeats before the lease is given up
          Faulty        \* leases whose heartbeats may fail or be suspended

ASSUME LeaseAssumption ==
    /\ ownerOf \in [Lease -> Owner]
    /\ hostOf \in [Owner -> Host]
    /\ NoOwner \notin Owner /\ NoLease \notin Lease
    /\ StaleAfter \in Nat /\ MaxFailures \in Nat \ {0}
    /\ MaxFailures <= StaleAfter
    /\ Faulty \subseteq Lease

VARIABLES
    rowOwner, rowAge,  \* the row: NoOwner when absent, age of heartbeat_at
    fileHolder,        \* per host, the lease whose thread has the file lock
    pc,                \* where the thread is in _source_write_lock
    held,              \* _held: TRUE while the heartbeat thread runs
    failures,          \* consecutive failed heartbeats
    due,               \* the heartbeat of this tick has not been tried yet
    suspended          \* heartbeat threads that were off schedule in this hold

vars == <<rowOwner, rowAge, fileHolder, pc, held, failures, due, suspended>>

Stale == rowAge > StaleAfter

Init ==
    /\ rowOwner = NoOwner /\ rowAge = 0
    /\ fileHolder = [h \in Host |-> NoLease]
    /\ pc = [l \in Lease |-> "idle"]
    /\ held = [l \in Lease |-> FALSE]
    /\ failures = [l \in Lease |-> 0]
    /\ due = [l \in Lease |-> FALSE]
    /\ suspended = {}

-----------------------------------------------------------------------------
YieldsIfFree(o) == rowOwner \in {NoOwner, o}
\* The WHERE of try_acquire: unheld, already ours, or provably stale.
Yields(o) == rowOwner \in {NoOwner, o} \/ Stale

(* try_acquire(): one INSERT ... ON CONFLICT ... RETURNING.  A statement   *)
(* that loses changes nothing: acquire() polls, then gives up.             *)
TryAcquire(l) ==
    /\ pc[l] = "idle"
    /\ Yields(ownerOf[l])
    /\ rowOwner' = ownerOf[l]
    /\ rowAge' = 0
    /\ pc' = [pc EXCEPT ![l] = "leased"]
    /\ held' = [held EXCEPT ![l] = TRUE]
    /\ failures' = [failures EXCEPT ![l] = 0]
    /\ due' = [due EXCEPT ![l] = FALSE]
    /\ suspended' = suspended \ {l}
    /\ UNCHANGED fileHolder

\* The on-disk lock is free on this host: the sync starts.
Lock(l) ==
    LET h == hostOf[ownerOf[l]] IN
    /\ pc[l] = "leased"
    /\ fileHolder[h] = NoLease
    /\ fileHolder' = [fileHolder EXCEPT ![h] = l]
    /\ pc' = [pc EXCEPT ![l] = "writing"]
    /\ UNCHANGED <<rowOwner, rowAge, held, failures, due, suspended>>

\* source_lock raises after lock_timeout_seconds; the finally releases.
LockTimeout(l) ==
    /\ pc[l] = "leased"
    /\ fileHolder[hostOf[ownerOf[l]]] # NoLease
    /\ pc' = [pc EXCEPT ![l] = "releasing"]
    /\ UNCHANGED <<rowOwner, rowAge, fileHolder, held, failures, due, suspended>>

\* The sync ends, well or badly, and source_lock's finally unlinks the file.
Unlock(l) ==
    LET h == hostOf[ownerOf[l]] IN
    /\ pc[l] = "writing"
    /\ fileHolder' = [fileHolder EXCEPT ![h] = NoLease]
    /\ pc' = [pc EXCEPT ![l] = "releasing"]
    /\ UNCHANGED <<rowOwner, rowAge, held, failures, due, suspended>>

DeletesAnyRow(l) == held[l]
\* DELETE ... WHERE owner=?, only while the lease believes it is held.
DeletesRow(l) == held[l] /\ rowOwner = ownerOf[l]

\* release(): the heartbeat thread is stopped, then the row is deleted.
Release(l) ==
    /\ pc[l] = "releasing"
    /\ rowOwner' = IF DeletesRow(l) THEN NoOwner ELSE rowOwner
    /\ pc' = [pc EXCEPT ![l] = "idle"]
    /\ held' = [held EXCEPT ![l] = FALSE]
    /\ due' = [due EXCEPT ![l] = FALSE]
    /\ UNCHANGED <<rowAge, fileHolder, failures, suspended>>

\* release() whose DELETE fails: logged, the row stays until it is stale.
ReleaseFails(l) ==
    /\ pc[l] = "releasing" /\ l \in Faulty /\ held[l]
    /\ pc' = [pc EXCEPT ![l] = "idle"]
    /\ held' = [held EXCEPT ![l] = FALSE]
    /\ due' = [due EXCEPT ![l] = FALSE]
    /\ UNCHANGED <<rowOwner, rowAge, fileHolder, failures, suspended>>

-----------------------------------------------------------------------------
(* _heartbeat_loop, a beat that reaches the database: it refreshes the row *)
(* if the row is still this owner's; otherwise the lease knows it is lost. *)
Beat(l) ==
    /\ held[l] /\ due[l]
    /\ due' = [due EXCEPT ![l] = FALSE]
    /\ failures' = [failures EXCEPT ![l] = 0]
    /\ IF rowOwner = ownerOf[l]
       THEN rowAge' = 0 /\ UNCHANGED held
       ELSE held' = [held EXCEPT ![l] = FALSE] /\ UNCHANGED rowAge
    /\ UNCHANGED <<rowOwner, fileHolder, pc, suspended>>

GivesUpLate(n) == n > MaxFailures + StaleAfter
\* failures >= 3: the lease is relinquished before the row can be stale.
GivesUp(n) == n >= MaxFailures

\* A beat that raises.
BeatFails(l) ==
    LET n == failures[l] + 1 IN
    /\ held[l] /\ due[l] /\ l \in Faulty
    /\ due' = [due EXCEPT ![l] = FALSE]
    /\ failures' = [failures EXCEPT ![l] = n]
    /\ held' = [held EXCEPT ![l] = ~GivesUp(n)]
    /\ UNCHANGED <<rowOwner, rowAge, fileHolder, pc, suspended>>

\* The process of l is not scheduled when its beat is due.
Suspend(l) ==
    /\ held[l] /\ l \in Faulty /\ l \notin suspended
    /\ suspended' = suspended \cup {l}
    /\ UNCHANGED <<rowOwner, rowAge, fileHolder, pc, held, failures, due>>

\* One heartbeat interval: every thread on schedule has tried its beat.
Tick ==
    /\ \A l \in Lease : held[l] /\ due[l] => l \in suspended
    /\ rowAge' = IF Stale THEN rowAge ELSE rowAge + 1
    /\ due' = [l \in Lease |-> held[l]]
    /\ UNCHANGED <<rowOwner, fileHolder, pc, held, failures, suspended>>

\* release_stale_lease(): DELETE ... WHERE heartbeat_at < stale_before.
ReleaseStaleLease ==
    /\ rowOwner # NoOwner /\ Stale
    /\ rowOwner' = NoOwner
    /\ UNCHANGED <<rowAge, fileHolder, pc, held, failures, due, suspended>>

(* The process o is killed.  The row stays; the lock file names a pid that *)
(* is not running, so the next contender on the host clears it.            *)
Crash(o) ==
    LET mine == {l \in Lease : ownerOf[l] = o} IN
    /\ mine \cap Faulty # {}
    /\ \E l \in mine : pc[l] # "idle"
    /\ pc' = [l \in Lease |-> IF l \in mine THEN "idle" ELSE pc[l]]
    /\ held' = [l \in Lease |-> held[l] /\ l \notin mine]
    /\ due' = [l \in Lease |-> due[l] /\ l \notin mine]
    /\ fileHolder' = [h \in Host |-> IF fileHolder[h] \in mine THEN NoLease
                                     ELSE fileHolder[h]]
    /\ UNCHANGED <<rowOwner, rowAge, failures, suspended>>

-----------------------------------------------------------------------------
Next ==
    \/ \E l \in Lease :
         \/ TryAcquire(l) \/ Lock(l) \/ LockTimeout(l) \/ Unlock(l)
         \/ Release(l) \/ ReleaseFails(l)
         \/ Beat(l) \/ BeatFails(l) \/ Suspend(l)
    \/ \E o \in Owner : Crash(o)
    \/ ReleaseStaleLease
    \/ Tick

Spec == Init /\ [][Next]_vars

(* Contenders poll, syncs end, and the clock runs.  A process that may be  *)
(* killed need not come back.                                              *)
FairSpec ==
    /\ Spec
    /\ WF_vars(Tick)
    /\ \A l \in Lease \ Faulty : WF_vars(TryAcquire(l))
    /\ \A l \in Lease :
         /\ WF_vars(Lock(l) \/ LockTimeout(l))
         /\ WF_vars(Unlock(l))
         /\ WF_vars(Release(l) \/ ReleaseFails(l))
         /\ WF_vars(Beat(l) \/ BeatFails(l))

-----------------------------------------------------------------------------
\* Types of the row, of the threads and of the heartbeats; a thread that is
\* done with the lease no longer heartbeats it.
TypeOK ==
    /\ rowOwner \in Owner \cup {NoOwner}
    /\ rowAge \in 0..(StaleAfter + 1)
    /\ fileHolder \in [Host -> Lease \cup {NoLease}]
    /\ pc \in [Lease -> {"idle", "leased", "writing", "releasing"}]
    /\ held \in [Lease -> BOOLEAN]
    /\ \A l \in Lease : held[l] => pc[l] # "idle"
    /\ failures \in [Lease -> Nat]
    /\ due \in [Lease -> BOOLEAN]
    /\ suspended \subseteq Lease

(* Where every lease is its own process (the leader, evaluation and tuning *)
(* leases): two leases that both believe to be held, and whose heartbeat   *)
(* threads ran on schedule, never coexist, although beats fail, releases   *)
(* fail and processes die.  A holder whose beats fail gives up before its  *)
(* row can be taken ("risks overlapping a successor", _heartbeat_loop).    *)
LeaseExclusion ==
    \A k, l \in Lease : held[k] /\ held[l] /\ k # l =>
        k \in suspended \/ l \in suspended

(* No step takes a row from an owner that is not stale, except a release   *)
(* by that owner: release() and release_stale_lease() never delete the row *)
(* of a successor.                                                         *)
LiveRowIsSafe ==
    [][rowOwner # NoOwner /\ rowOwner' # rowOwner =>
         \/ Stale
         \/ \E l \in Lease : ownerOf[l] = rowOwner /\ Release(l)]_vars

(* A row whose owner has died, or has lost its heartbeat, does not keep    *)
(* the source for ever.                                                    *)
AbandonedRowYields ==
    \A o \in Owner :
        rowOwner = o /\ (\A l \in Lease : ownerOf[l] = o => ~held[l])
          ~> (rowOwner # o \/ \E l \in Lease : ownerOf[l] = o /\ held[l])

(* "two indexers can never both commit ``docs``" (SourceLease's docstring) *)
NeverBothCommit ==
    \A k, l \in Lease :
        pc[k] = "writing" /\ pc[l] = "writing" => ownerOf[k] = ownerOf[l]
=============================================================================
