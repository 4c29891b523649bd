---------------------------- MODULE FleetProofs ----------------------------
(***************************************************************************)
(* Proofs about how processes share the work on a source: the write lease  *)
(* (SourceLease), for every set of leases and every heartbeat and          *)
(* staleness setting with MaxFailures <= StaleAfter; and the gate of the   *)
(* elected indexer (Orchestrator), for any number of straggling threads    *)
(* and promotions.                                                         *)
(***************************************************************************)
EXTENDS SourceLease, Orchestrator, TLAPS

-----------------------------------------------------------------------------
(* The write lease.                                                        *)

\* Every lease has an owner string of its own.
Injective == \A k, l \in Lease : ownerOf[k] = ownerOf[l] => k = l

(* A held lease on schedule is in the row, and the row is no older than    *)
(* the failed beats account for.                                           *)
OnSchedule ==
    \A l \in Lease : held[l] /\ l \notin suspended =>
        /\ rowOwner = ownerOf[l]
        /\ failures[l] < MaxFailures
        /\ due[l] => rowAge <= failures[l] + 1
        /\ ~due[l] => rowAge <= failures[l]

-----------------------------------------------------------------------------
LEMMA NextType == TypeOK /\ [Next]_vars => TypeOK'
<1> SUFFICES ASSUME TypeOK, [Next]_vars PROVE TypeOK'
  OBVIOUS
<1> USE LeaseAssumption DEF TypeOK
<1>1. ASSUME NEW l \in Lease, TryAcquire(l) PROVE TypeOK'
  BY <1>1 DEF TryAcquire
<1>2. ASSUME NEW l \in Lease, Lock(l) \/ LockTimeout(l) \/ Unlock(l) PROVE TypeOK'
  BY <1>2 DEF Lock, LockTimeout, Unlock
<1>3. ASSUME NEW l \in Lease, Release(l) \/ ReleaseFails(l) PROVE TypeOK'
  BY <1>3 DEF Release, ReleaseFails
<1>4. ASSUME NEW l \in Lease, Beat(l) PROVE TypeOK'
  <2>1. CASE rowOwner = ownerOf[l]
    BY <1>4, <2>1 DEF Beat
  <2>2. CASE rowOwner # ownerOf[l]
    BY <1>4, <2>2 DEF Beat
  <2>3. QED
    BY <2>1, <2>2
<1>5. ASSUME NEW l \in Lease, BeatFails(l) PROVE TypeOK'
  <2>1. held' \in [Lease -> BOOLEAN]
    BY <1>5, Zenon DEF BeatFails
  <2>2. failures' \in [Lease -> Nat] /\ due' \in [Lease -> BOOLEAN]
    BY <1>5 DEF BeatFails
  <2>3. QED
    BY <1>5, <2>1, <2>2 DEF BeatFails
<1>6. ASSUME NEW l \in Lease, Suspend(l) PROVE TypeOK'
  BY <1>6 DEF Suspend
<1>7. ASSUME NEW o \in Owner, Crash(o) PROVE TypeOK'
  <2>1. /\ held' \in [Lease -> BOOLEAN]
        /\ due' \in [Lease -> BOOLEAN]
    BY <1>7, Zenon DEF Crash
  <2>2. /\ pc' \in [Lease -> {"idle", "leased", "writing", "releasing"}]
        /\ fileHolder' \in [Host -> Lease \cup {NoLease}]
    BY <1>7 DEF Crash
  <2>3. QED
    BY <1>7, <2>1, <2>2 DEF Crash
<1>8. ASSUME ReleaseStaleLease PROVE TypeOK'
  BY <1>8 DEF ReleaseStaleLease
<1>9. ASSUME Tick PROVE TypeOK'
  BY <1>9 DEF Tick, Stale
<1>10. ASSUME UNCHANGED vars PROVE TypeOK'
  BY <1>10 DEF vars
<1>11. QED
  BY <1>1, <1>2, <1>3, <1>4, <1>5, <1>6, <1>7, <1>8, <1>9, <1>10 DEF Next

(* The row, the threads and the heartbeats always have their types.        *)
THEOREM TypeCorrect == Spec => []TypeOK
<1>1. Init => TypeOK
  BY LeaseAssumption DEF Init, TypeOK
<1>2. QED
  BY <1>1, NextType, PTL DEF Spec

-----------------------------------------------------------------------------
(* A beat that fails is counted, a tick is followed by a beat, and a row   *)
(* that young yields to nobody else.                                       *)
LEMMA NextOnSchedule ==
    ASSUME Injective PROVE TypeOK /\ OnSchedule /\ [Next]_vars => OnSchedule'
<1> SUFFICES ASSUME TypeOK, OnSchedule, [Next]_vars,
                    NEW k \in Lease, held'[k], k \notin suspended'
             PROVE  (/\ rowOwner = ownerOf[k]
                     /\ failures[k] < MaxFailures
                     /\ due[k] => rowAge <= failures[k] + 1
                     /\ ~due[k] => rowAge <= failures[k])'
  BY DEF OnSchedule
<1> DEFINE Goal == (/\ rowOwner = ownerOf[k]
                    /\ failures[k] < MaxFailures
                    /\ due[k] => rowAge <= failures[k] + 1
                    /\ ~due[k] => rowAge <= failures[k])'
<1> USE LeaseAssumption DEF TypeOK, OnSchedule
<1>1. ASSUME NEW l \in Lease, TryAcquire(l) PROVE Goal
  <2>1. CASE l = k
    BY <1>1, <2>1 DEF TryAcquire
  <2>2. CASE l # k
    <3>1. held[k] /\ k \notin suspended
      BY <1>1, <2>2 DEF TryAcquire
    <3>2. ~Yields(ownerOf[l])
      BY <2>2, <3>1, Injective DEF Yields, Stale, Injective
    <3>3. QED
      BY <1>1, <3>2 DEF TryAcquire
  <2>3. QED
    BY <2>1, <2>2
<1>2. ASSUME NEW l \in Lease, Lock(l) \/ LockTimeout(l) \/ Unlock(l) PROVE Goal
  BY <1>2 DEF Lock, LockTimeout, Unlock
<1>3. ASSUME NEW l \in Lease, Release(l) PROVE Goal
  BY <1>3, Injective DEF Release, DeletesRow, Injective
<1>4. ASSUME NEW l \in Lease, ReleaseFails(l) PROVE Goal
  BY <1>4 DEF ReleaseFails
<1>5. ASSUME NEW l \in Lease, Beat(l) PROVE Goal
  <2>1. CASE rowOwner = ownerOf[l]
    BY <1>5, <2>1 DEF Beat
  <2>2. CASE rowOwner # ownerOf[l]
    BY <1>5, <2>2 DEF Beat
  <2>3. QED
    BY <2>1, <2>2
<1>6. ASSUME NEW l \in Lease, BeatFails(l) PROVE Goal
  <2>1. CASE l # k
    <3>1. held'[k] = held[k] /\ failures'[k] = failures[k] /\ due'[k] = due[k]
      BY <1>6, <2>1, Zenon DEF BeatFails
    <3>2. QED
      BY <1>6, <3>1 DEF BeatFails
  <2>2. CASE l = k
    <3>1. ~GivesUp(failures[k] + 1)
      BY <1>6, <2>2, Zenon DEF BeatFails
    <3>2. held[k] /\ due[k] /\ ~due'[k] /\ k \notin suspended
      BY <1>6, <2>2, Zenon DEF BeatFails
    <3>3. failures'[k] = failures[k] + 1 /\ UNCHANGED <<rowOwner, rowAge>>
      BY <1>6, <2>2 DEF BeatFails
    <3>4. QED
      BY <3>1, <3>2, <3>3 DEF GivesUp
  <2>3. QED
    BY <2>1, <2>2
<1>7. ASSUME NEW l \in Lease, Suspend(l) PROVE Goal
  BY <1>7 DEF Suspend
<1>8. ASSUME NEW o \in Owner, Crash(o) PROVE Goal
  BY <1>8 DEF Crash
<1>9. ASSUME ReleaseStaleLease PROVE Goal
  BY <1>9 DEF ReleaseStaleLease, Stale
<1>10. ASSUME Tick PROVE Goal
  BY <1>10 DEF Tick, Stale
<1>11. ASSUME UNCHANGED vars PROVE Goal
  BY <1>11 DEF vars
<1>12. QED
  BY <1>1, <1>2, <1>3, <1>4, <1>5, <1>6, <1>7, <1>8, <1>9, <1>10, <1>11 DEF Next

(* With one owner string per lease, however many processes contend and     *)
(* whatever beats and releases fail, two holders on schedule never         *)
(* coexist.                                                                *)
THEOREM LeasesExclude == ASSUME Injective PROVE Spec => []LeaseExclusion
<1>1. Init => OnSchedule
  BY LeaseAssumption DEF Init, OnSchedule
<1>2. TypeOK /\ OnSchedule => LeaseExclusion
  BY Injective DEF TypeOK, OnSchedule, LeaseExclusion, Injective
<1>3. TypeOK /\ OnSchedule /\ [Next]_vars => OnSchedule'
  BY NextOnSchedule
<1>4. QED
  BY <1>1, <1>2, <1>3, TypeCorrect, PTL DEF Spec

(* A row that is not stale is deleted or replaced by nobody but its owner, *)
(* also when owners share leases.                                          *)
THEOREM LiveRowsAreSafe == Spec => LiveRowIsSafe
<1>1. TypeOK /\ [Next]_vars =>
        [rowOwner # NoOwner /\ rowOwner' # rowOwner =>
           \/ Stale
           \/ \E l \in Lease : ownerOf[l] = rowOwner /\ Release(l)]_vars
  <2> SUFFICES ASSUME TypeOK, Next, rowOwner # NoOwner, rowOwner' # rowOwner,
                      ~Stale
               PROVE  \E l \in Lease : ownerOf[l] = rowOwner /\ Release(l)
    OBVIOUS
  <2>1. PICK l \in Lease : Release(l)
    BY DEF Next, TryAcquire, Yields, Lock, LockTimeout, Unlock, ReleaseFails,
           Beat, BeatFails, Suspend, Crash, ReleaseStaleLease, Tick
  <2>2. QED
    BY <2>1 DEF Release, DeletesRow
<1>2. QED
  BY <1>1, TypeCorrect, PTL DEF Spec, LiveRowIsSafe

-----------------------------------------------------------------------------
(* The gate of the indexer.                                                *)

(* Who holds the gate: the thread that works behind it, or the reconcile. *)
GateHeld ==
    /\ \A w \in Worker : Works(w) => gate = w
    /\ startup = "running" => gate = Startup

(* A service has no thread of a promotion that has not come to it yet.     *)
Ahead == CASE election \in {"reserve", "watcher"} -> Service
           [] election = "scheduler"             -> {"scheduler", "drainer"}
           [] election = "drainer"               -> {"drainer"}
           [] OTHER                              -> {}

Unborn ==
    \A w \in Worker :
        w[2] > promotions \/ (w[2] = promotions /\ w[1] \in Ahead) => thread[w] = "off"

(* Whoever holds the gate is at work behind it: no thread ends, fails or   *)
(* is stopped with the gate in its hands, which would stop this process    *)
(* from syncing ever again.                                                *)
HolderWorks ==
    /\ gate = Startup => startup = "running"
    /\ \A w \in Worker : gate = w => Works(w)

-----------------------------------------------------------------------------
(* Every step of the election, the reconcile and the services keeps the    *)
(* types: the gate has one holder.                                         *)
LEMMA FleetTypeStep ==
    ASSUME FleetTypeOK, [FleetNext]_fleetVars PROVE FleetTypeOK'
<1> USE DEF FleetTypeOK, Labels, Service, services, watch, Goto, Unless
<1>1. CASE Elect
  BY <1>1, OrchestratorAssumption DEF Elect
<1>2. CASE Demote
  BY <1>2 DEF Demote
<1>3. CASE Reserve
  BY <1>3 DEF Reserve
<1>4. ASSUME NEW s \in Service, StartService(s) PROVE FleetTypeOK'
  <2>1. watching' \in BOOLEAN /\ wake' \in BOOLEAN
    BY <1>4, Zenon DEF StartService
  <2>2. election' \in Service \cup {"poll"}
    BY <1>4 DEF StartService, After
  <2>3. QED
    BY <1>4, <2>1, <2>2 DEF StartService
<1>5. CASE StopScheduler
  BY <1>5 DEF StopScheduler
<1>6. CASE StopWatcher
  BY <1>6 DEF StopWatcher
<1>7. CASE Unwatch
  BY <1>7 DEF Unwatch
<1>8. CASE StartupEnds
  BY <1>8 DEF StartupEnds
<1>9. CASE StartupExits
  BY <1>9 DEF StartupExits
<1>10. ASSUME NEW w \in Worker, Enter(w) PROVE FleetTypeOK'
  BY <1>10 DEF Enter
<1>11. ASSUME NEW w \in Worker, DrainLoop(w) PROVE FleetTypeOK'
  <2>1. thread' \in [Worker -> Labels]
    BY <1>11 DEF DrainLoop
  <2>2. QED
    BY <1>11, <2>1 DEF DrainLoop
<1>12. ASSUME NEW w \in Worker, IdleOut(w) PROVE FleetTypeOK'
  BY <1>12 DEF IdleOut, Leave
<1>13. ASSUME NEW w \in Worker, BeatDue(w) PROVE FleetTypeOK'
  BY <1>13 DEF BeatDue
<1>14. ASSUME NEW w \in Worker, BeatEnds(w) PROVE FleetTypeOK'
  BY <1>14 DEF BeatEnds, Leave
<1>15. ASSUME NEW w \in Worker, Arm(w) PROVE FleetTypeOK'
  <2>1. thread' \in [Worker -> Labels] /\ timed' \in SUBSET Worker
    BY <1>15 DEF Arm
  <2>2. QED
    BY <1>15, <2>1 DEF Arm
<1>16. ASSUME NEW w \in Worker, Wakes(w) PROVE FleetTypeOK'
  BY <1>16 DEF Wakes
<1>17. ASSUME NEW w \in Worker, TakeDue(w) PROVE FleetTypeOK'
  BY <1>17 DEF TakeDue
<1>18. ASSUME NEW w \in Worker, SyncEnds(w) PROVE FleetTypeOK'
  BY <1>18 DEF SyncEnds, Leave
<1>19. ASSUME NEW w \in Worker, DrainerDies(w) PROVE FleetTypeOK'
  BY <1>19 DEF DrainerDies, Leave
<1>20. CASE RecordEvent
  BY <1>20 DEF RecordEvent
<1>21. CASE Quieten
  BY <1>21 DEF Quieten
<1>22. CASE Age
  BY <1>22 DEF Age
<1>23. CASE UNCHANGED fleetVars
  <2>1. UNCHANGED <<leader, election, startup, gate, stopped, thread, watching, wake, pending,
                    timed, promotions>>
    BY <1>23 DEF fleetVars
  <2>2. QED
    BY <2>1
<1>24. QED
  BY <1>1, <1>2, <1>3, <1>4, <1>5, <1>6, <1>7, <1>8, <1>9, <1>10, <1>11, <1>12,
     <1>13, <1>14, <1>15, <1>16, <1>17, <1>18, <1>19, <1>20, <1>21, <1>22, <1>23
     DEF FleetNext, Proceed, Reconcile, Run

(* Nobody takes the gate from its holder, and only the holder frees it.    *)
LEMMA GateStep ==
    ASSUME FleetTypeOK, GateHeld, [FleetNext]_fleetVars PROVE GateHeld'
<1>0. thread \in [Worker -> Labels]
  BY DEF FleetTypeOK
<1> USE <1>0, OrchestratorAssumption DEF GateHeld, Works, services, watch, Goto,
                 Unless
<1>1. CASE Elect
  BY <1>1 DEF Elect
<1>2. CASE Demote
  BY <1>2 DEF Demote
<1>3. CASE Reserve
  BY <1>3 DEF Reserve
<1>4. ASSUME NEW s \in Service, StartService(s) PROVE GateHeld'
  BY <1>4 DEF StartService
<1>5. CASE StopScheduler
  BY <1>5 DEF StopScheduler
<1>6. CASE StopWatcher
  BY <1>6 DEF StopWatcher
<1>7. CASE Unwatch
  BY <1>7 DEF Unwatch
<1>8. CASE StartupEnds
  BY <1>8 DEF StartupEnds
<1>9. CASE StartupExits
  BY <1>9 DEF StartupExits
<1>10. ASSUME NEW w \in Worker, Enter(w) PROVE GateHeld'
  BY <1>10 DEF Enter
<1>11. ASSUME NEW w \in Worker, DrainLoop(w) PROVE GateHeld'
  BY <1>11 DEF DrainLoop
<1>12. ASSUME NEW w \in Worker, IdleOut(w) PROVE GateHeld'
  BY <1>12 DEF IdleOut, Leave
<1>13. ASSUME NEW w \in Worker, BeatDue(w) PROVE GateHeld'
  BY <1>13 DEF BeatDue
<1>14. ASSUME NEW w \in Worker, BeatEnds(w) PROVE GateHeld'
  BY <1>14 DEF BeatEnds, Leave
<1>15. ASSUME NEW w \in Worker, Arm(w) PROVE GateHeld'
  BY <1>15 DEF Arm
<1>16. ASSUME NEW w \in Worker, Wakes(w) PROVE GateHeld'
  BY <1>16 DEF Wakes
<1>17. ASSUME NEW w \in Worker, TakeDue(w) PROVE GateHeld'
  BY <1>17 DEF TakeDue
<1>18. ASSUME NEW w \in Worker, SyncEnds(w) PROVE GateHeld'
  BY <1>18 DEF SyncEnds, Leave
<1>19. ASSUME NEW w \in Worker, DrainerDies(w) PROVE GateHeld'
  BY <1>19 DEF DrainerDies, Leave
<1>20. CASE RecordEvent
  BY <1>20 DEF RecordEvent
<1>21. CASE Quieten
  BY <1>21 DEF Quieten
<1>22. CASE Age
  BY <1>22 DEF Age
<1>23. CASE UNCHANGED fleetVars
  BY <1>23 DEF fleetVars
<1>24. QED
  BY <1>1, <1>2, <1>3, <1>4, <1>5, <1>6, <1>7, <1>8, <1>9, <1>10, <1>11, <1>12,
     <1>13, <1>14, <1>15, <1>16, <1>17, <1>18, <1>19, <1>20, <1>21, <1>22, <1>23
     DEF FleetNext, Proceed, Reconcile, Run

(* A thread begins only where its service is started, once per promotion.  *)
LEMMA UnbornStep ==
    ASSUME FleetTypeOK, Unborn, [FleetNext]_fleetVars PROVE Unborn'
<1>0. /\ thread \in [Worker -> Labels] /\ promotions \in Nat
      /\ \A w \in Worker : w[1] \in Service /\ w[2] \in Nat
  <2>1. promotions \in 0..MaxPromotions /\ MaxPromotions \in Nat /\ thread \in [Worker -> Labels]
    BY OrchestratorAssumption DEF FleetTypeOK
  <2>2. \A w \in Service \X Thread : w[1] \in Service /\ w[2] \in Nat
    BY DEF Thread
  <2>3. QED
    BY <2>1, <2>2 DEF Worker
<1> USE <1>0 DEF Unborn, Ahead, Service, services, watch, Goto, Unless
<1>1. CASE Elect
  BY <1>1 DEF Elect
<1>2. CASE Demote
  BY <1>2 DEF Demote
<1>3. CASE Reserve
  BY <1>3 DEF Reserve
<1>4. ASSUME NEW s \in Service, StartService(s) PROVE Unborn'
  BY <1>4 DEF StartService, After
<1>5. CASE StopScheduler
  BY <1>5 DEF StopScheduler
<1>6. CASE StopWatcher
  BY <1>6 DEF StopWatcher
<1>7. CASE Unwatch
  BY <1>7 DEF Unwatch
<1>8. CASE StartupEnds
  BY <1>8 DEF StartupEnds
<1>9. CASE StartupExits
  BY <1>9 DEF StartupExits
<1>10. ASSUME NEW w \in Worker, Enter(w) PROVE Unborn'
  BY <1>10 DEF Enter
<1>11. ASSUME NEW w \in Worker, DrainLoop(w) PROVE Unborn'
  BY <1>11 DEF DrainLoop
<1>12. ASSUME NEW w \in Worker, IdleOut(w) PROVE Unborn'
  BY <1>12 DEF IdleOut, Leave
<1>13. ASSUME NEW w \in Worker, BeatDue(w) PROVE Unborn'
  BY <1>13 DEF BeatDue
<1>14. ASSUME NEW w \in Worker, BeatEnds(w) PROVE Unborn'
  BY <1>14 DEF BeatEnds, Leave
<1>15. ASSUME NEW w \in Worker, Arm(w) PROVE Unborn'
  BY <1>15 DEF Arm
<1>16. ASSUME NEW w \in Worker, Wakes(w) PROVE Unborn'
  BY <1>16 DEF Wakes
<1>17. ASSUME NEW w \in Worker, TakeDue(w) PROVE Unborn'
  BY <1>17 DEF TakeDue
<1>18. ASSUME NEW w \in Worker, SyncEnds(w) PROVE Unborn'
  BY <1>18 DEF SyncEnds, Leave
<1>19. ASSUME NEW w \in Worker, DrainerDies(w) PROVE Unborn'
  BY <1>19 DEF DrainerDies, Leave
<1>20. CASE RecordEvent
  BY <1>20 DEF RecordEvent
<1>21. CASE Quieten
  BY <1>21 DEF Quieten
<1>22. CASE Age
  BY <1>22 DEF Age
<1>23. CASE UNCHANGED fleetVars
  BY <1>23 DEF fleetVars
<1>24. QED
  BY <1>1, <1>2, <1>3, <1>4, <1>5, <1>6, <1>7, <1>8, <1>9, <1>10, <1>11, <1>12,
     <1>13, <1>14, <1>15, <1>16, <1>17, <1>18, <1>19, <1>20, <1>21, <1>22, <1>23
     DEF FleetNext, Proceed, Reconcile, Run

(* The gate is taken with a step to the work behind it, and each way out   *)
(* of that work frees it.                                                  *)
LEMMA HolderStep ==
    ASSUME FleetTypeOK, GateHeld, Unborn, HolderWorks, [FleetNext]_fleetVars
    PROVE  HolderWorks'
<1>0. /\ thread \in [Worker -> Labels]
      /\ gate = Startup <=> startup = "running"
      /\ \A w \in Worker : Works(w) <=> gate = w
      /\ Free # Startup /\ \A w \in Worker : w # Free /\ w # Startup
  BY OrchestratorAssumption DEF FleetTypeOK, GateHeld, HolderWorks
<1> USE <1>0 DEF HolderWorks, Works, services, watch, Goto, Unless
<1>1. CASE Elect
  BY <1>1 DEF Elect
<1>2. CASE Demote
  BY <1>2 DEF Demote
<1>3. CASE Reserve
  BY <1>3 DEF Reserve
<1>4. ASSUME NEW s \in Service, StartService(s) PROVE HolderWorks'
  <2>1. /\ election = s /\ thread' = [thread EXCEPT ![<<s, promotions>>] = "loop"]
        /\ UNCHANGED <<gate, startup>>
    BY <1>4 DEF StartService
  <2>2. \A w \in Worker : w = <<s, promotions>> => thread[w] = "off"
    BY <2>1 DEF Unborn, Ahead, Service
  <2>3. \A w \in Worker : Works(w) => thread'[w] = thread[w]
    BY <2>1, <2>2
  <2>4. QED
    BY <2>1, <2>3
<1>5. CASE StopScheduler
  BY <1>5 DEF StopScheduler
<1>6. CASE StopWatcher
  BY <1>6 DEF StopWatcher
<1>7. CASE Unwatch
  BY <1>7 DEF Unwatch
<1>8. CASE StartupEnds
  BY <1>8 DEF StartupEnds
<1>9. CASE StartupExits
  BY <1>9 DEF StartupExits
<1>10. ASSUME NEW w \in Worker, Enter(w) PROVE HolderWorks'
  BY <1>10 DEF Enter
<1>11. ASSUME NEW w \in Worker, DrainLoop(w) PROVE HolderWorks'
  BY <1>11 DEF DrainLoop
<1>12. ASSUME NEW w \in Worker, IdleOut(w) PROVE HolderWorks'
  BY <1>12 DEF IdleOut, Leave
<1>13. ASSUME NEW w \in Worker, BeatDue(w) PROVE HolderWorks'
  BY <1>13 DEF BeatDue
<1>14. ASSUME NEW w \in Worker, BeatEnds(w) PROVE HolderWorks'
  BY <1>14 DEF BeatEnds, Leave
<1>15. ASSUME NEW w \in Worker, Arm(w) PROVE HolderWorks'
  BY <1>15 DEF Arm
<1>16. ASSUME NEW w \in Worker, Wakes(w) PROVE HolderWorks'
  BY <1>16 DEF Wakes
<1>17. ASSUME NEW w \in Worker, TakeDue(w) PROVE HolderWorks'
  BY <1>17 DEF TakeDue
<1>18. ASSUME NEW w \in Worker, SyncEnds(w) PROVE HolderWorks'
  BY <1>18 DEF SyncEnds, Leave
<1>19. ASSUME NEW w \in Worker, DrainerDies(w) PROVE HolderWorks'
  BY <1>19 DEF DrainerDies, Leave
<1>20. CASE RecordEvent
  BY <1>20 DEF RecordEvent
<1>21. CASE Quieten
  BY <1>21 DEF Quieten
<1>22. CASE Age
  BY <1>22 DEF Age
<1>23. CASE UNCHANGED fleetVars
  BY <1>23 DEF fleetVars
<1>24. QED
  BY <1>1, <1>2, <1>3, <1>4, <1>5, <1>6, <1>7, <1>8, <1>9, <1>10, <1>11, <1>12,
     <1>13, <1>14, <1>15, <1>16, <1>17, <1>18, <1>19, <1>20, <1>21, <1>22, <1>23
     DEF FleetNext, Proceed, Reconcile, Run

(* The gate, the threads and the services always have their types.         *)
THEOREM FleetTypeCorrect == FleetSpec => []FleetTypeOK
<1>1. FleetInit => FleetTypeOK
  <2> SUFFICES ASSUME FleetInit PROVE FleetTypeOK
    OBVIOUS
  <2>1. leader \in BOOLEAN /\ watching \in BOOLEAN /\ wake \in BOOLEAN
    BY Zenon DEF FleetInit
  <2>2. promotions \in 0..MaxPromotions
    BY OrchestratorAssumption DEF FleetInit
  <2>3. QED
    BY <2>1, <2>2 DEF FleetInit, FleetTypeOK, Labels
<1>2. FleetTypeOK /\ [FleetNext]_fleetVars => FleetTypeOK'
  BY FleetTypeStep
<1>3. QED
  BY <1>1, <1>2, PTL DEF FleetSpec

(* Who drains the queue or syncs does so alone, also where a thread of an  *)
(* earlier leadership is still at work and where the startup reconcile is  *)
(* (_OrchestrationSupervisor.sync_lock).                                   *)
THEOREM GateIsShared == FleetSpec => []GateShared
<1>1. FleetInit => GateHeld
  BY DEF FleetInit, GateHeld, Works
<1>2. GateHeld => GateShared
  BY OrchestratorAssumption DEF GateHeld, GateShared
<1>3. FleetTypeOK /\ GateHeld /\ [FleetNext]_fleetVars => GateHeld'
  BY GateStep
<1>4. QED
  BY <1>1, <1>2, <1>3, FleetTypeCorrect, PTL DEF FleetSpec
(* Whoever holds the gate is at work behind it, or is the startup reconcile*)
(* that runs: no failure, stop or loss of the lease leaks the gate. With   *)
(* the end of what runs, which DemotedRests assumes of it, the gate is free*)
(* (sync_lock and its "with" and "finally" blocks).                        *)
THEOREM GateIsNotLeaked == FleetSpec => []HolderWorks
<1>1. FleetInit => Unborn /\ HolderWorks /\ GateHeld
  BY OrchestratorAssumption DEF FleetInit, Unborn, HolderWorks, GateHeld, Works
<1>2. FleetTypeOK /\ GateHeld /\ [FleetNext]_fleetVars => GateHeld'
  BY GateStep
<1>3. FleetTypeOK /\ Unborn /\ [FleetNext]_fleetVars => Unborn'
  BY UnbornStep
<1>4. FleetTypeOK /\ GateHeld /\ Unborn /\ HolderWorks /\ [FleetNext]_fleetVars => HolderWorks'
  BY HolderStep
<1>5. QED
  BY <1>1, <1>2, <1>3, <1>4, FleetTypeCorrect, PTL DEF FleetSpec
=============================================================================
