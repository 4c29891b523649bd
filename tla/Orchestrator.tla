---------------------------- MODULE Orchestrator ----------------------------
(***************************************************************************)
(* One indexer process of a fleet on PostgreSQL: the election thread that  *)
(* promotes and demotes it (_OrchestrationSupervisor, cli.py), and what a  *)
(* leader runs: the startup reconcile, the queue drainer, the scheduler    *)
(* (sync/scheduler.py) and the watcher (sync/watcher.py).  All of them do  *)
(* their syncs behind one lock of the process, the gate.                   *)
(*                                                                         *)
(* The election lease is a SourceLease (module SourceLease): here it is    *)
(* won when the election thread asks, or not, and lost at any time.  stop()*)
(* of a service joins its thread for ten seconds at most, so that a demoted*)
(* and promoted process may have the threads of two leaderships; a service *)
(* has one stop flag for all of them, since each thread reads it anew.     *)
(* There is one watched source.  The tasks of the queue are left out: a    *)
(* claim finds one, or none.                                               *)
(***************************************************************************)
EXTENDS Naturals, FiniteSets

CONSTANTS Free, Startup,
          MaxStragglers, \* bound: threads that may outlive their stop()
          MaxPromotions \* bound: how often the lease is won

Service == {"drainer", "scheduler", "watcher"}
\* A service gets a new thread at each promotion.
Thread  == 1..MaxPromotions
Worker  == Service \X Thread

ASSUME OrchestratorAssumption ==
    /\ Free # Startup /\ {Free, Startup} \cap Worker = {}
    /\ MaxStragglers \in Nat /\ MaxPromotions \in Nat

VARIABLES
    leader,    \* _leader
    election,  \* where the election thread is
    startup,   \* the promotion thread: "off", "running", or "released" the gate
    gate,      \* sync_lock: its holder, or Free
    stopped,   \* the services whose stop event is set
    thread,    \* where each thread of a service is
    watching,  \* WatcherService._started: observers deliver events
    wake,      \* _wake
    pending,   \* _pending: "none", or how its first and last event are: "fresh", "quiet", "old"
    timed,     \* dispatch threads that wait with a timeout
    promotions

services == <<stopped, thread>>
watch    == <<watching, wake, pending, timed>>
fleetVars == <<leader, election, startup, gate, services, watch, promotions>>

FleetInit ==
    /\ leader = FALSE /\ election = "poll"
    /\ startup = "off"
    /\ gate = Free
    /\ stopped = {}
    /\ thread = [w \in Worker |-> "off"]
    /\ watching = FALSE /\ wake = FALSE
    /\ pending = "none"
    /\ timed = {}
    /\ promotions = 0

Goto(w, label) == thread' = [thread EXCEPT ![w] = label]

-----------------------------------------------------------------------------
(* The election thread.                                                    *)

\* try_acquire() is won.  A promotion thread that is still alive is not
\* started again.
Elect ==
    /\ election = "poll" /\ ~leader
    /\ promotions < MaxPromotions
    /\ promotions' = promotions + 1
    /\ leader' = TRUE
    /\ election' = IF startup = "off" THEN "reserve" ELSE "watcher"
    /\ UNCHANGED <<startup, gate, services, watch>>

ReserveNothing ==
    /\ election = "reserve"
    /\ startup' = "running"
    /\ election' = "watcher"
    /\ UNCHANGED <<leader, gate, services, watch, promotions>>
\* "Reserve the global sync gate before any producer starts."
Reserve ==
    /\ election = "reserve"
    /\ gate = Free
    /\ gate' = Startup
    /\ startup' = "running"
    /\ election' = "watcher"
    /\ UNCHANGED <<leader, services, watch, promotions>>

\* The services a promotion starts, in its order.
After(s) == CASE s = "watcher"   -> "scheduler"
              [] s = "scheduler" -> "drainer"
              [] s = "drainer"   -> "poll"

\* start() of a service: its stop event is cleared and it gets a new thread.
StartService(s) ==
    /\ election = s
    /\ Goto(<<s, promotions>>, "loop")
    /\ stopped' = stopped \ {s}
    /\ IF s = "watcher" THEN watching' = TRUE /\ wake' = FALSE
       ELSE UNCHANGED <<watching, wake>>
    /\ election' = After(s)
    /\ UNCHANGED <<leader, startup, gate, pending, timed, promotions>>

\* The join of a stop() returns: the thread has ended, or it gives up.
Joined == Cardinality({w \in Worker : w[1] \in stopped /\ thread[w] # "off"}) <= MaxStragglers

\* The next poll finds the lease lost, and _demote() begins: stop() of the
\* drainer, then of the scheduler.
Demote ==
    /\ election = "poll" /\ leader
    /\ stopped' = stopped \cup {"drainer"}
    /\ election' = "stop scheduler"
    /\ UNCHANGED <<leader, startup, gate, thread, watch, promotions>>

StopScheduler ==
    /\ election = "stop scheduler" /\ Joined
    /\ stopped' = stopped \cup {"scheduler"}
    /\ election' = "stop watcher"
    /\ UNCHANGED <<leader, startup, gate, thread, watch, promotions>>

StopWatcher ==
    /\ election = "stop watcher" /\ Joined
    /\ stopped' = stopped \cup {"watcher"}
    /\ wake' = TRUE
    /\ election' = "unwatch"
    /\ UNCHANGED <<leader, startup, gate, thread, watching, pending, timed, promotions>>

\* The rest of its stop(): what was recorded is left to the successor.
Unwatch ==
    /\ election = "unwatch" /\ Joined
    /\ watching' = FALSE
    /\ pending' = "none"
    /\ leader' = FALSE
    /\ election' = "poll"
    /\ UNCHANGED <<startup, gate, services, wake, timed, promotions>>

-----------------------------------------------------------------------------
(* The startup reconcile.                                                  *)

\* The reconcile ends, well or badly: finally, the gate is released ...
StartupEnds ==
    /\ startup = "running"
    /\ startup' = "released"
    /\ gate' = Free
    /\ UNCHANGED <<leader, election, services, watch, promotions>>

\* ... and its thread is not alive any more.
StartupExits ==
    /\ startup = "released"
    /\ startup' = "off"
    /\ UNCHANGED <<leader, election, gate, services, watch, promotions>>

-----------------------------------------------------------------------------
(* What the threads of the services share.                                 *)

Unless(s, label) == IF s \in stopped THEN "off" ELSE label

\* The gate is free for a thread that waits for it.
Enter(w) ==
    /\ thread[w] = "gate"
    /\ gate = Free
    /\ gate' = w
    /\ Goto(w, IF w[1] = "drainer" THEN "drain" ELSE "sync")
    /\ UNCHANGED <<leader, election, startup, stopped, watching, wake, pending, timed,
                   promotions>>

Leave(w, label) ==
    /\ gate' = Free
    /\ Goto(w, label)

-----------------------------------------------------------------------------
(* The drainer: it claims only behind the gate, and drain() goes on until  *)
(* the queue has been empty for a while.                                   *)

DrainLoopForever(w) ==
    /\ w[1] = "drainer" /\ thread[w] = "loop"
    /\ Goto(w, "gate")
    /\ UNCHANGED <<leader, election, startup, gate, stopped, watch, promotions>>
DrainLoop(w) ==
    /\ w[1] = "drainer" /\ thread[w] = "loop"
    /\ Goto(w, Unless("drainer", "gate"))
    /\ UNCHANGED <<leader, election, startup, gate, stopped, watch, promotions>>

\* drain() ends: the queue has been empty for a while.
IdleOut(w) ==
    /\ thread[w] = "drain"
    /\ Leave(w, "loop")
    /\ UNCHANGED <<leader, election, startup, stopped, watch, promotions>>

\* claim, ack or nack raises: the thread ends, and the gate is freed.
DrainerDies(w) ==
    /\ thread[w] = "drain"
    /\ Leave(w, "off")
    /\ UNCHANGED <<leader, election, startup, stopped, watch, promotions>>

-----------------------------------------------------------------------------
(* The scheduler.                                                          *)

\* _stop.wait(interval) returns: stopped, or a beat is due.
BeatDue(w) ==
    /\ w[1] = "scheduler" /\ thread[w] = "loop"
    /\ Goto(w, Unless("scheduler", "gate"))
    /\ UNCHANGED <<leader, election, startup, gate, stopped, watch, promotions>>

\* sync_all ends, or raises.
BeatEnds(w) ==
    /\ w[1] = "scheduler" /\ thread[w] = "sync"
    /\ Leave(w, "loop")
    /\ UNCHANGED <<leader, election, startup, stopped, watch, promotions>>

-----------------------------------------------------------------------------
(* The watcher.                                                            *)

RecordRestarts ==
    /\ watching
    /\ pending' = "fresh"
    /\ wake' = TRUE
    /\ UNCHANGED <<leader, election, startup, gate, services, watching, timed, promotions>>
\* record_event(), from an observer's thread: the time of the first event
\* stays.
RecordEvent ==
    /\ watching
    /\ pending' = IF pending = "old" THEN "old" ELSE "fresh"
    /\ wake' = TRUE
    /\ UNCHANGED <<leader, election, startup, gate, services, watching, timed, promotions>>

\* debounce_ms without an event ...
Quieten ==
    /\ pending = "fresh"
    /\ pending' = "quiet"
    /\ UNCHANGED <<leader, election, startup, gate, services, watching, wake, timed,
                   promotions>>

\* ... and batch_window_ms since the first one.
Age ==
    /\ pending \in {"fresh", "quiet"}
    /\ pending' = "old"
    /\ UNCHANGED <<leader, election, startup, gate, services, watching, wake, timed,
                   promotions>>

\* The head of _dispatch_loop: _next_timeout is None if nothing is recorded.
Arm(w) ==
    /\ w[1] = "watcher" /\ thread[w] = "loop"
    /\ Goto(w, Unless("watcher", "asleep"))
    /\ timed' = IF pending # "none" /\ "watcher" \notin stopped THEN timed \cup {w} ELSE timed
    /\ UNCHANGED <<leader, election, startup, gate, stopped, watching, wake, pending,
                   promotions>>

\* The event is cleared before the changes are looked at, not after.
Wakes(w) ==
    /\ thread[w] = "asleep"
    /\ wake \/ w \in timed
    /\ wake' = FALSE
    /\ timed' = timed \ {w}
    /\ Goto(w, Unless("watcher", "take"))
    /\ UNCHANGED <<leader, election, startup, gate, stopped, watching, pending, promotions>>

\* Quiet for long enough, or waiting for long enough.
Due == pending \in {"quiet", "old"}

TakeDue(w) ==
    /\ thread[w] = "take"
    /\ pending' = IF Due THEN "none" ELSE pending
    /\ Goto(w, IF Due THEN "gate" ELSE "loop")
    /\ UNCHANGED <<leader, election, startup, gate, stopped, watching, wake, timed,
                   promotions>>

\* _sync_one() ends, or logs that it failed.
SyncEnds(w) ==
    /\ w[1] = "watcher" /\ thread[w] = "sync"
    /\ Leave(w, "loop")
    /\ UNCHANGED <<leader, election, startup, stopped, watch, promotions>>

-----------------------------------------------------------------------------
Proceed ==
    \/ Reserve
    \/ \E s \in Service : StartService(s)
    \/ StopScheduler \/ StopWatcher \/ Unwatch

Reconcile == StartupEnds \/ StartupExits

Run(w) ==
    \/ Enter(w)
    \/ DrainLoop(w) \/ IdleOut(w)
    \/ BeatDue(w) \/ BeatEnds(w)
    \/ Arm(w) \/ Wakes(w) \/ TakeDue(w) \/ SyncEnds(w)

FleetNext ==
    \/ Elect \/ Demote \/ Proceed \/ Reconcile
    \/ \E w \in Worker : Run(w) \/ DrainerDies(w)
    \/ RecordEvent \/ Quieten \/ Age

FleetSpec == FleetInit /\ [][FleetNext]_fleetVars

(* Threads run, syncs end, a drainer that goes on claiming finds the queue *)
(* empty at last, and time passes; the lease need not be won, or lost.     *)
(* The gate is a threading.Lock, whose waiters are woken at each release   *)
(* but not in turn: one that waits while it is freed again and again gets  *)
(* it.  An Event that is set wakes its waiters even if it is cleared again.*)
FairFleetSpec ==
    /\ FleetSpec
    /\ SF_fleetVars(Proceed) /\ WF_fleetVars(Reconcile)
    /\ \A w \in Worker : SF_fleetVars(Run(w))
    /\ WF_fleetVars(Age)

-----------------------------------------------------------------------------
Labels == {"off", "loop", "gate", "drain", "sync", "asleep", "take"}

\* Types; the gate is held by the thread that works behind it.
FleetTypeOK ==
    /\ leader \in BOOLEAN
    /\ election \in Service \cup {"poll", "reserve", "stop scheduler", "stop watcher",
                                  "unwatch"}
    /\ startup \in {"off", "running", "released"}
    /\ gate \in Worker \cup {Free, Startup}
    /\ stopped \subseteq Service
    /\ thread \in [Worker -> Labels]
    /\ watching \in BOOLEAN /\ wake \in BOOLEAN
    /\ pending \in {"none", "fresh", "quiet", "old"}
    /\ timed \subseteq Worker
    /\ promotions \in 0..MaxPromotions

Works(w) == thread[w] \in {"drain", "sync"}

(* "Inside the leader, all three work producers share one child-sync lock" *)
(* (configuration.md), and a startup reconcile goes before them: who claims*)
(* tasks or syncs does so alone, also where a thread of an earlier         *)
(* leadership is still at work, and where a startup reconcile is when the  *)
(* process is elected again.                                               *)
GateShared ==
    /\ \A v, w \in Worker : Works(v) /\ Works(w) => v = w
    /\ startup = "running" => \A w \in Worker : ~Works(w)

(* Recorded changes are taken to be synced, however the events follow each *)
(* other ("batched up to sync.watcher.batch_window_ms"), whoever else works*)
(* behind the gate, and whenever the threads of an earlier leadership end. *)
(* Or the watcher is stopped.                                              *)
ChangeIsServed == pending # "none" ~> pending = "none"

(* A process that is demoted for good comes to rest: stop() does not wait  *)
(* for its threads, but each finds its stop event set, although the start  *)
(* of a later leadership has cleared it in between.                        *)
DemotedRests == <>[]~leader => <>[](gate = Free)

-----------------------------------------------------------------------------
(* What the repository says and the code does not do.                      *)

(* "Stop claims first, then producers. This prevents a demoted leader from *)
(* beginning another queued source" (_demote): who is not the leader does  *)
(* not begin to drain.                                                     *)
DemotedClaimsNothing ==
    [][\A w \in Worker : thread'[w] = "drain" /\ thread[w] # "drain" => leader]_fleetVars

(* "Claim and run index tasks for as long as this process serves"          *)
(* (_QueueDrainer): a leader that has started its services has a drainer.  *)
DrainerServes ==
    election = "poll" /\ leader => \E t \in Thread : thread[<<"drainer", t>>] # "off"
=============================================================================
