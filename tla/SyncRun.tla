------------------------------- MODULE SyncRun -------------------------------
(***************************************************************************)
(* Stopping a running sync (sync/cancellation.py): the sync_runs row that  *)
(* SyncRun keeps for one source while its thread holds the on-disk lock of *)
(* module SourceLock, and request_cancel(), which any process may call.    *)
(*                                                                         *)
(* A contender of the lock runs one sync per hold.  The row names the      *)
(* contender whose run wrote it, and is current while that run goes on:    *)
(* together they stand for the random run id.  A row is fresh until its    *)
(* heartbeat is older than SOURCE_STALE_SECONDS.                           *)
(***************************************************************************)
EXTENDS SourceLock

CONSTANTS Caller,  \* who may ask for a cancel
          NoOne, NoRow

VARIABLES
    row,        \* NoRow, or the sync_runs row of the source
    run,        \* where each contender is in its SyncRun
    stoppedBy,  \* the author in the SyncCancelled a run has raised
    asked,      \* history: the caller whose request a run accepted first
    overlapped, \* history: holds during which another one was in the lock
    lost        \* history: the row of a killed run that no run has noticed

runVars == <<row, run, stoppedBy, asked, overlapped, lost>>
all     == <<vars, runVars>>

Row == [by: Contender, current: BOOLEAN, fresh: BOOLEAN, request: Caller \cup {NoOne}]

ASSUME CallerAssumption == NoOne \notin Caller /\ NoRow \notin Row

\* "unregistered" is a run whose row could not be written.
Runs == {"none", "registering", "registered", "unregistered", "ended"}

OwnsRow(c)  == row # NoRow /\ row.by = c /\ row.current
NewRow(c)   == [by |-> c, current |-> TRUE, fresh |-> TRUE, request |-> NoOne]
NotCurrent  == IF row = NoRow THEN NoRow ELSE [row EXCEPT !.current = FALSE]
GotoRun(c, where) == run' = [run EXCEPT ![c] = where]

RunInit ==
    /\ Init
    /\ row = NoRow
    /\ run = [c \in Contender |-> "none"]
    /\ stoppedBy = [c \in Contender |-> NoOne]
    /\ asked = [c \in Contender |-> NoOne]
    /\ overlapped = {}
    /\ lost = FALSE

-----------------------------------------------------------------------------
\* Holds that coincide with another one after this step.
NotedOverlap ==
    LET in == {c \in Contender : pc'[c] \in InLock} IN
    overlapped' = IF \E c, d \in in : c # d THEN overlapped \cup in ELSE overlapped \cap in

\* source_lock() before it yields; the sync follows.
LockStep(c) ==
    /\ Exists(c) \/ Read(c) \/ Unlink(c) \/ Create(c) \/ CreateFails(c) \/ WritePayload(c)
    /\ NotedOverlap
    /\ UNCHANGED <<row, run, stoppedBy, asked, lost>>

LooksBackAtStale == row # NoRow /\ ~row.fresh
\* "a row here belongs to a run that ended without clearing it"
LooksBack == row # NoRow

\* __enter__, the SELECT: predecessor_died has the node index repaired.
LookBack(c) ==
    /\ pc[c] = "locked" /\ run[c] = "none"
    /\ GotoRun(c, "registering")
    /\ lost' = (lost /\ ~LooksBack)
    /\ UNCHANGED <<vars, row, stoppedBy, asked, overlapped>>

RegisterKeepingRequest(c) ==
    /\ run[c] = "registering"
    /\ row' = IF row = NoRow THEN NewRow(c)
              ELSE [NewRow(c) EXCEPT !.request = row.request]
    /\ GotoRun(c, "registered")
    /\ UNCHANGED <<vars, stoppedBy, asked, overlapped, lost>>
\* ... and the upsert: a request left behind was for a sync that has ended.
Register(c) ==
    /\ run[c] = "registering"
    /\ row' = NewRow(c)
    /\ GotoRun(c, "registered")
    /\ UNCHANGED <<vars, stoppedBy, asked, overlapped, lost>>

\* Either statement fails: the sync goes on without a row.
RegisterFails(c) ==
    /\ \/ pc[c] = "locked" /\ run[c] = "none"
       \/ run[c] = "registering"
    /\ GotoRun(c, "unregistered")
    /\ UNCHANGED <<vars, row, stoppedBy, asked, overlapped, lost>>

\* _heartbeat_loop(): only the row of this run.
Beat(c) ==
    /\ run[c] \in {"registered", "ended"} /\ OwnsRow(c)
    /\ row' = [row EXCEPT !.fresh = TRUE]
    /\ UNCHANGED <<vars, run, stoppedBy, asked, overlapped, lost>>

\* SOURCE_STALE_SECONDS without a beat that reached the database.
GoStale ==
    /\ row # NoRow
    /\ row' = [row EXCEPT !.fresh = FALSE]
    /\ UNCHANGED <<vars, run, stoppedBy, asked, overlapped, lost>>

ReadsFreshRequest(c) == OwnsRow(c) /\ row.request # NoOne /\ row.fresh
\* The row of this run carries a request.
ReadsRequest(c) == OwnsRow(c) /\ row.request # NoOne

(* checkpoint(), between two items: the request is raised and the commit   *)
(* loop ends (cancellable).  A check that fails or finds nothing is a      *)
(* stutter.                                                                *)
Checkpoint(c) ==
    /\ run[c] = "registered" /\ ReadsRequest(c)
    /\ stoppedBy' = [stoppedBy EXCEPT ![c] = row.request]
    /\ GotoRun(c, "ended")
    /\ UNCHANGED <<vars, row, asked, overlapped, lost>>

\* The sync ends by itself, well or badly.
Finish(c) ==
    /\ run[c] \in {"registered", "unregistered"}
    /\ GotoRun(c, "ended")
    /\ UNCHANGED <<vars, row, stoppedBy, asked, overlapped, lost>>

\* What is left when c lets go of the lock: an old row is not a current one.
Left(c) ==
    /\ GotoRun(c, "none")
    /\ stoppedBy' = [stoppedBy EXCEPT ![c] = NoOne]
    /\ asked' = [asked EXCEPT ![c] = NoOne]
    /\ NotedOverlap

DeletesAnyRow(c) == row # NoRow
\* DELETE ... WHERE source_id=? AND run_id=?
DeletesRow(c) == OwnsRow(c)

(* __exit__ deletes the row, or fails to (both best-effort), and the lock  *)
(* is released.  A run without a row deletes nothing.                      *)
Exit(c) ==
    /\ run[c] = "ended"
    /\ \/ row' = IF DeletesRow(c) THEN NoRow ELSE row
       \/ row' = IF OwnsRow(c) THEN NotCurrent ELSE row
    /\ Release(c)
    /\ Left(c)
    /\ UNCHANGED lost

\* The process is killed; the row stays.
KillRun(c) ==
    /\ Crash(c)
    /\ row' = IF OwnsRow(c) THEN NotCurrent ELSE row
    /\ lost' = (lost \/ (OwnsRow(c) /\ c \notin overlapped))
    /\ Left(c)

\* WHERE source_id=? AND heartbeat_at >= ?: a live run accepts the request.
Accepts == row # NoRow /\ row.fresh

\* request_cancel(): "the first request's time and author are kept"
RequestCancel(u) ==
    /\ Accepts
    /\ row' = [row EXCEPT !.request = IF row.request = NoOne THEN u ELSE row.request]
    /\ asked' = IF row.current /\ asked[row.by] = NoOne
                THEN [asked EXCEPT ![row.by] = u] ELSE asked
    /\ UNCHANGED <<vars, run, stoppedBy, overlapped, lost>>

-----------------------------------------------------------------------------
RunNext ==
    \/ \E c \in Contender :
         \/ LockStep(c) \/ LookBack(c) \/ Register(c) \/ RegisterFails(c)
         \/ Beat(c) \/ Checkpoint(c) \/ Finish(c) \/ Exit(c) \/ KillRun(c)
    \/ GoStale
    \/ \E u \in Caller : RequestCancel(u)

RunSpec == RunInit /\ [][RunNext]_all

(* Contenders poll for the lock, a sync looks at its row between items, an *)
(* ended one lets go and a silent row ages.  No sync need end by itself.   *)
FairRunSpec ==
    /\ RunSpec
    /\ WF_all(row # NoRow /\ ~row.current /\ GoStale)
    /\ \A c \in Contender :
         WF_all(LockStep(c)) /\ WF_all(Checkpoint(c)) /\ WF_all(Exit(c))

-----------------------------------------------------------------------------
(* Types of the lock, the row and the runs; a row is current only while    *)
(* the run that wrote it holds the lock.                                   *)
RunTypeOK ==
    /\ TypeOK
    /\ row \in Row \cup {NoRow}
    /\ row # NoRow /\ row.current => run[row.by] \in {"registered", "ended"}
    /\ run \in [Contender -> Runs]
    /\ \A c \in Contender : run[c] # "none" => pc[c] = "locked"
    /\ {stoppedBy, asked} \subseteq [Contender -> Caller \cup {NoOne}]
    /\ overlapped \subseteq Contender
    /\ lost \in BOOLEAN

(* "a request left over from an earlier run can never reach a later one",  *)
(* and "the first request's time and author are kept": a run is stopped    *)
(* only by the caller whose request this very run accepted first.          *)
FirstAskerStops ==
    \A c \in Contender : stoppedBy[c] # NoOne => stoppedBy[c] = asked[c]

(* A run that accepted a request stops, unless another one took its row    *)
(* over: however its heartbeats fare, and although the sync would never    *)
(* have ended by itself.                                                   *)
AskedRunStops ==
    \A c \in Contender :
        asked[c] # NoOne /\ run[c] = "registered"
            ~> (run[c] # "registered" \/ ~OwnsRow(c))

(* "Only our own run: a row with another run id belongs to a sync that     *)
(* started after this one" (__exit__), also where two syncs overlap since  *)
(* one of them had its lock file removed.                                  *)
OnlyItsRunClearsTheRow ==
    [][row # NoRow /\ row' = NoRow => OwnsRow(row.by) /\ Exit(row.by)]_all

(* The row of a run that was killed alone in the lock stays until a later  *)
(* run has seen it, and had the index repaired (predecessor_died).         *)
KilledRunIsNoticed == lost => row # NoRow /\ ~row.current
=============================================================================
