----------------------------- MODULE JobRegistry -----------------------------
(***************************************************************************)
(* Background jobs as other processes see them: JobRegistry (jobs.py), one *)
(* per process, and the snapshot files it shares (job_snapshots.py), which *)
(* tell a running job from an orphaned one by the age of its file.         *)
(*                                                                         *)
(* A job is its id: a drained task uses the task's id for each of its      *)
(* attempts, in whichever process claims it.  Per process one thread works *)
(* on one job at a time (drain(); jobs that requests start beside it are   *)
(* left out), one thread heartbeats, and requests clear finished jobs.  A  *)
(* snapshot is rendered under the registry's lock and written after the    *)
(* lock is released, hence in a step of its own.  Two sequences of file    *)
(* operations are one step: the replacement of a snapshot with the         *)
(* eviction that follows it, and clear()'s removal in memory with its read *)
(* of the file.  Progress figures, logs and subscribers are left out.      *)
(***************************************************************************)
EXTENDS Naturals, FiniteSets, Sequences

CONSTANTS Process, Job, NoJob, NoSnapshot,
          Faulty,       \* processes that are killed, stall, or fail to write
          StaleAfter,   \* SNAPSHOT_STALE_SECONDS, in heartbeats
          MaxRecords,   \* max_records
          MaxCreates,   \* bound: jobs started
          ids           \* bound: the ids each process may start

Terminal == {"succeeded", "failed"}
Snapshot == [as: {"none", "running"} \cup Terminal, age: Nat]

ASSUME JobAssumption ==
    /\ NoJob \notin Job /\ NoSnapshot \notin Snapshot
    /\ Faulty \subseteq Process
    /\ StaleAfter \in Nat \ {0} /\ MaxRecords \in Nat /\ MaxCreates \in Nat
    /\ ids \in [Process -> SUBSET Job]

VARIABLES
    status,   \* per process and job, the status of its latest Job object
    order,    \* per process, _order: ids, the oldest first
    listed,   \* per process, the keys of _jobs
    snapshot, \* per job, its file: NoSnapshot, or its status and its age
    work,     \* the job the worker thread is at
    out,      \* the payload the worker thread has rendered and not written
    heart,    \* the heartbeat thread
    former,   \* the status of a Job that it still holds and that was replaced
    clearing, \* the snapshot a request is about to unlink
    beaten,   \* processes on schedule that have beaten in this interval
    creates   \* history: how often each job was started

local   == <<status, order, listed>>
jobVars == <<local, snapshot, work, out, heart, former, clearing, beaten, creates>>

Asleep   == [awake |-> FALSE, left |-> {}, keep |-> {}, job |-> NoJob, as |-> "none"]
NoOut    == [job |-> NoJob, as |-> "none"]

JobInit ==
    /\ status = [p \in Process |-> [j \in Job |-> "none"]]
    /\ order = [p \in Process |-> <<>>]
    /\ listed = [p \in Process |-> {}]
    /\ snapshot = [j \in Job |-> NoSnapshot]
    /\ work = [p \in Process |-> NoJob]
    /\ out = [p \in Process |-> NoOut]
    /\ heart = [p \in Process |-> Asleep]
    /\ former = [p \in Process |-> [j \in Job |-> "none"]]
    /\ clearing = [p \in Process |-> NoJob]
    /\ beaten = {}
    /\ creates = [j \in Job |-> 0]

RunsHere(p, j) == j \in listed[p] /\ status[p][j] = "running"
RunningAt(p)   == {j \in Job : RunsHere(p, j)}

-----------------------------------------------------------------------------
(* Reading a snapshot (_read).                                             *)
StaleEarly(f) == f.age >= StaleAfter
\* silent > SNAPSHOT_STALE_SECONDS
Stale(f) == f.age > StaleAfter

\* A running snapshot that went silent reads as failed (_interrupted).
ReadsActive(f) == f # NoSnapshot /\ f.as = "running" /\ ~Stale(f)
ReadsDone(f)   == f # NoSnapshot /\ ~ReadsActive(f)

(* write(): the file is replaced, then _evict() drops finished snapshots   *)
(* past the cap; which of them is a matter of their timestamps.            *)
Write(j, as) ==
    LET now   == [snapshot EXCEPT ![j] = [as |-> as, age |-> 0]]
        kept  == {k \in Job : now[k] # NoSnapshot}
        done  == {k \in kept : ReadsDone(now[k])}
        extra == IF Cardinality(kept) > MaxRecords
                 THEN Cardinality(kept) - MaxRecords ELSE 0
        drop  == IF extra < Cardinality(done) THEN extra ELSE Cardinality(done)
    IN  \E D \in SUBSET done :
          /\ Cardinality(D) = drop
          /\ snapshot' = [k \in Job |-> IF k \in D THEN NoSnapshot ELSE now[k]]

\* _publish(): an OSError is swallowed.
WriteOrFail(p, j, as) == Write(j, as) \/ (p \in Faulty /\ UNCHANGED snapshot)

-----------------------------------------------------------------------------
\* The entries of a queue at the positions I, in their order.
Entries(queue, I) ==
    [n \in 1..Cardinality(I) |->
        queue[CHOOSE i \in I : Cardinality({k \in I : k <= i}) = n]]

RemovableRunning(queue, jobs, st) ==
    {i \in DOMAIN queue : queue[i] \in jobs /\ \A k \in 1..(i - 1) : queue[k] # queue[i]}
\* The positions _evict() may drop, "Running jobs are never evicted": the first
\* of an id that is there twice, for _jobs has it once.
Removable(queue, jobs, st) ==
    {i \in DOMAIN queue : /\ queue[i] \in jobs /\ st[queue[i]] \in Terminal
                          /\ \A k \in 1..(i - 1) : queue[k] # queue[i]}

\* It drops the oldest of them while the queue is past the cap.
Evicted(queue, jobs, st) ==
    LET may == Removable(queue, jobs, st)
    IN  {i \in may : Cardinality({k \in may : k < i}) + MaxRecords < Len(queue)}

Started == Cardinality(UNION {{j} \X (1..creates[j]) : j \in Job})

\* create(): the id is appended to _order even if it is there already; a
\* heartbeat under way goes on with the Job that it has listed.
CreateJob(p, j) ==
    LET st    == [status[p] EXCEPT ![j] = "running"]
        queue == Append(order[p], j)
        jobs  == listed[p] \cup {j}
        gone  == Evicted(queue, jobs, st)
    IN  /\ j \in ids[p] /\ work[p] = NoJob /\ Started < MaxCreates
        /\ creates' = [creates EXCEPT ![j] = @ + 1]
        /\ status' = [status EXCEPT ![p] = st]
        /\ order' = [order EXCEPT ![p] = Entries(queue, DOMAIN queue \ gone)]
        /\ listed' = [listed EXCEPT ![p] = jobs \ {queue[i] : i \in gone}]
        /\ work' = [work EXCEPT ![p] = j]
        /\ out' = [out EXCEPT ![p] = [job |-> j, as |-> "running"]]
        /\ former' = [former EXCEPT ![p][j] =
                         IF j \in heart[p].left /\ @ = "none" THEN status[p][j] ELSE @]
        /\ UNCHANGED <<snapshot, heart, clearing, beaten>>

\* progress() and finish_source(): a running job is published again.
Progress(p) ==
    LET j == work[p] IN
    /\ j # NoJob /\ out[p] = NoOut /\ RunsHere(p, j)
    /\ out' = [out EXCEPT ![p] = [job |-> j, as |-> "running"]]
    /\ UNCHANGED <<local, snapshot, work, heart, former, clearing, beaten, creates>>

\* finish(): the status changes under the lock, and is rendered.
FinishJob(p, s) ==
    LET j == work[p] IN
    /\ j # NoJob /\ out[p] = NoOut /\ RunsHere(p, j)
    /\ status' = [status EXCEPT ![p][j] = s]
    /\ out' = [out EXCEPT ![p] = [job |-> j, as |-> s]]
    /\ UNCHANGED <<order, listed, snapshot, work, heart, former, clearing, beaten, creates>>

\* The worker thread writes what it has rendered; with a finished job the
\* handler returns.
WriteOut(p) ==
    /\ out[p] # NoOut
    /\ WriteOrFail(p, out[p].job, out[p].as)
    /\ work' = [work EXCEPT ![p] = IF out[p].as \in Terminal THEN NoJob ELSE @]
    /\ out' = [out EXCEPT ![p] = NoOut]
    /\ UNCHANGED <<local, heart, former, clearing, beaten, creates>>

-----------------------------------------------------------------------------
(* _heartbeat(): the running jobs are listed under the lock, then each is  *)
(* rendered and written; then the stale snapshots of others are failed.    *)
BeatStart(p) ==
    /\ ~heart[p].awake /\ p \notin beaten
    /\ heart' = [heart EXCEPT ![p] = [Asleep EXCEPT !.awake = TRUE,
                     !.left = RunningAt(p), !.keep = RunningAt(p)]]
    /\ UNCHANGED <<local, snapshot, work, out, former, clearing, beaten, creates>>

\* The status that the Job which the heartbeat has listed has by now.
HeldStatus(p, j) == IF former[p][j] = "none" THEN status[p][j] ELSE former[p][j]

\* _publish() of one of them.
BeatRender(p, j) ==
    /\ heart[p].job = NoJob /\ j \in heart[p].left
    /\ heart' = [heart EXCEPT ![p].left = @ \ {j},
                     ![p].job = j, ![p].as = HeldStatus(p, j)]
    /\ former' = [former EXCEPT ![p][j] = "none"]
    /\ UNCHANGED <<local, snapshot, work, out, clearing, beaten, creates>>

\* ... and, when the reaping has found one, the snapshot that fails.
BeatWrite(p) ==
    /\ heart[p].job # NoJob
    /\ WriteOrFail(p, heart[p].job, heart[p].as)
    /\ heart' = [heart EXCEPT ![p].job = NoJob, ![p].as = "none"]
    /\ UNCHANGED <<local, work, out, former, clearing, beaten, creates>>

\* reap_stale(): a running snapshot that reads as failed is found, ...
Reapable(f) == f # NoSnapshot /\ f.as = "running" /\ Stale(f)

ToReapForeign(p) == {j \in Job \ listed[p] : Reapable(snapshot[j])}
\* ... among all but the jobs of the process itself that were running, ...
ToReap(p) == {j \in Job \ heart[p].keep : Reapable(snapshot[j])}

Reap(p, j) ==
    /\ heart[p].awake /\ heart[p].job = NoJob /\ heart[p].left = {}
    /\ j \in ToReap(p)
    /\ heart' = [heart EXCEPT ![p].job = j, ![p].as = "failed"]
    /\ UNCHANGED <<local, snapshot, work, out, former, clearing, beaten, creates>>

\* ... and the thread sleeps when there is none.
BeatEnd(p) ==
    /\ heart[p].awake /\ heart[p].job = NoJob /\ heart[p].left = {}
    /\ ToReap(p) = {}
    /\ heart' = [heart EXCEPT ![p] = Asleep]
    /\ beaten' = beaten \cup ({p} \ Faulty)
    /\ UNCHANGED <<local, snapshot, work, out, former, clearing, creates>>

-----------------------------------------------------------------------------
(* clear(job_id): the finished job leaves the registry; then its snapshot  *)
(* is read, and unlinked in a step of its own if it reads as finished.     *)
Clear(p, j) ==
    LET gone == {k \in {j} \cap listed[p] : status[p][k] \in Terminal}
        left == listed[p] \ gone
    IN  /\ clearing[p] = NoJob
        /\ gone # {} \/ ReadsDone(snapshot[j])
        /\ listed' = [listed EXCEPT ![p] = left]
        /\ order' = [order EXCEPT ![p] = IF gone = {} THEN @
                         ELSE Entries(@, {i \in DOMAIN @ : @[i] \in left})]
        /\ clearing' = [clearing EXCEPT ![p] = IF ReadsDone(snapshot[j]) THEN j ELSE NoJob]
        /\ UNCHANGED <<status, snapshot, work, out, heart, former, beaten, creates>>

UnlinkSnapshot(p) ==
    /\ clearing[p] # NoJob
    /\ snapshot' = [snapshot EXCEPT ![clearing[p]] = NoSnapshot]
    /\ clearing' = [clearing EXCEPT ![p] = NoJob]
    /\ UNCHANGED <<local, work, out, heart, former, beaten, creates>>

-----------------------------------------------------------------------------
(* The process is killed, and starts again with an empty registry; while   *)
(* it is down it merely takes no step.                                     *)
Kill(p) ==
    /\ p \in Faulty
    /\ status' = [status EXCEPT ![p] = [j \in Job |-> "none"]]
    /\ order' = [order EXCEPT ![p] = <<>>]
    /\ listed' = [listed EXCEPT ![p] = {}]
    /\ work' = [work EXCEPT ![p] = NoJob]
    /\ out' = [out EXCEPT ![p] = NoOut]
    /\ heart' = [heart EXCEPT ![p] = Asleep]
    /\ former' = [former EXCEPT ![p] = [j \in Job |-> "none"]]
    /\ clearing' = [clearing EXCEPT ![p] = NoJob]
    /\ UNCHANGED <<snapshot, beaten, creates>>

(* One SNAPSHOT_HEARTBEAT_SECONDS: the heartbeat thread of a process that  *)
(* is not stalled has done its round.                                      *)
Tick ==
    /\ Process \ Faulty \subseteq beaten
    /\ snapshot' = [j \in Job |->
                        IF snapshot[j] = NoSnapshot \/ Stale(snapshot[j]) THEN snapshot[j]
                        ELSE [snapshot[j] EXCEPT !.age = @ + 1]]
    /\ beaten' = {}
    /\ UNCHANGED <<local, work, out, heart, former, clearing, creates>>

BeatStep(p) ==
    \/ BeatStart(p) \/ BeatWrite(p) \/ BeatEnd(p)
    \/ \E j \in Job : BeatRender(p, j) \/ Reap(p, j)

JobNext ==
    \/ \E p \in Process :
         \/ \E j \in Job : CreateJob(p, j) \/ Clear(p, j)
         \/ \E s \in Terminal : FinishJob(p, s)
         \/ Progress(p) \/ WriteOut(p) \/ BeatStep(p) \/ UnlinkSnapshot(p)
         \/ Kill(p)
    \/ Tick

JobSpec == JobInit /\ [][JobNext]_jobVars

\* Heartbeats go round, payloads are written, and the clock runs.
FairJobSpec ==
    /\ JobSpec /\ WF_jobVars(Tick)
    /\ \A p \in Process \ Faulty :
         WF_jobVars(BeatStep(p)) /\ WF_jobVars(WriteOut(p)) /\ WF_jobVars(UnlinkSnapshot(p))

-----------------------------------------------------------------------------
(* Types of the registries, snapshots and threads.                         *)
JobTypeOK ==
    /\ status \in [Process -> [Job -> {"none", "running"} \cup Terminal]]
    /\ \A p \in Process : order[p] \in Seq(Job) /\ listed[p] \subseteq Job
    /\ \A j \in Job : snapshot[j] # NoSnapshot =>
         /\ snapshot[j].as \in {"running"} \cup Terminal
         /\ snapshot[j].age \in 0..(StaleAfter + 1)
    /\ former \in [Process -> [Job -> {"none", "running"} \cup Terminal]]
    /\ {work, clearing} \subseteq [Process -> Job \cup {NoJob}]
    /\ \A p \in Process :
         /\ out[p].job # NoJob => out[p].job = work[p] /\ out[p].as # "none"
         /\ heart[p].job # NoJob => heart[p].as \in {"running"} \cup Terminal
    /\ beaten \subseteq Process \ Faulty

(* list() shows a job that runs here, whatever has been evicted, cleared   *)
(* or started again under the same id.                                     *)
RunningIsListed ==
    \A p \in Process : work[p] # NoJob /\ status[p][work[p]] = "running" =>
        work[p] \in listed[p] /\ \E i \in 1..Len(order[p]) : order[p][i] = work[p]

(* While a process runs a job on schedule, every other process reads it as *)
(* running: no reaper, eviction or clear takes its snapshot away, whatever *)
(* stalls and dies elsewhere.                                              *)
RunningJobShows ==
    \A p \in Process \ Faulty, j \in Job :
        RunsHere(p, j) /\ out[p] = NoOut /\ creates[j] = 1 => ReadsActive(snapshot[j])

(* "a process that can write the directory rewrites it so": a snapshot     *)
(* that no process works on does not say running for ever.                 *)
OrphanEnds ==
    \A j \in Job :
        snapshot[j] # NoSnapshot /\ snapshot[j].as = "running" /\ (\A p \in Process : work[p] # j)
            ~> \/ snapshot[j] = NoSnapshot \/ snapshot[j].as # "running"
               \/ \E p \in Process : work[p] = j

(* "Terminal states. A job in any of these will never change again."       *)
TerminalIsFinal ==
    [][\A j \in Job :
         snapshot[j] # NoSnapshot /\ snapshot[j].as \in Terminal /\ creates[j] = 1
            => snapshot'[j] = NoSnapshot \/ snapshot'[j].as = snapshot[j].as]_jobVars
=============================================================================
