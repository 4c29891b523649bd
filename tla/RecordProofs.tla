---------------------------- MODULE RecordProofs ----------------------------
(***************************************************************************)
(* Proofs about what processes record for each other of their work: the    *)
(* row of a running sync (SyncRun, with the SourceLock it extends) and the *)
(* snapshots of jobs (JobRegistry), for any number of contenders, callers, *)
(* processes, jobs and crashes.                                            *)
(***************************************************************************)
EXTENDS SyncRun, JobRegistry, FiniteSetTheorems, TLAPS

-----------------------------------------------------------------------------
(* The run of a sync.                                                      *)

(* Who is inside and has not lost the file finds it at the path.           *)
HoldsFile ==
    \A c \in Contender : pc[c] \in InLock /\ c \notin evicted =>
        file # NoFile /\ file.by = c /\ file.running

(* What a run that is current has been asked is what its row says, and it  *)
(* has been asked nothing before it is registered.                         *)
Asked ==
    /\ \A c \in Contender : run[c] \in {"none", "registering", "unregistered"} => asked[c] = NoOne
    /\ row # NoRow /\ row.current => asked[row.by] = row.request

(* Two in the lock are both known to overlap; the row of a run killed      *)
(* alone in it meets no run between its look and its write.                *)
Noticed ==
    /\ \A c, d \in Contender : c # d /\ pc[c] \in InLock /\ pc[d] \in InLock => c \in overlapped
    /\ lost => \A c \in Contender : run[c] # "registering"

-----------------------------------------------------------------------------
LEMMA InitType == RunInit => RunTypeOK
<1>1. RunInit => TypeOK
  BY LockAssumption DEF RunInit, Init, TypeOK
<1>2. QED
  BY <1>1 DEF RunInit, RunTypeOK, Runs

(* The file system calls of the lock, and the crash of a contender, keep   *)
(* the types of the lock.                                                  *)
LEMMA LockType ==
  ASSUME TypeOK, NEW c \in Contender,
         \/ Exists(c) \/ Read(c) \/ Unlink(c) \/ Create(c) \/ CreateFails(c)
         \/ WritePayload(c) \/ Release(c) \/ Crash(c)
  PROVE  TypeOK'
<1> USE LockAssumption DEF TypeOK, File, InLock, Goto
<1>1. CASE Exists(c) \/ Read(c) \/ CreateFails(c)
  BY <1>1 DEF Exists, Read, CreateFails
<1>2. CASE Unlink(c) \/ Release(c)
  BY <1>2 DEF Unlink, Release, UnlinkLock
<1>3. CASE Create(c)
  BY <1>3 DEF Create
<1>4. CASE WritePayload(c)
  BY <1>4 DEF WritePayload
<1>5. CASE Crash(c)
  <2>1. file' \in File \cup {NoFile} /\ crashes' \in 0..MaxCrashes
    <3>1. crashes + 1 \in 0..MaxCrashes
      BY <1>5 DEF Crash
    <3>2. file' \in File \cup {NoFile}
      BY <1>5 DEF Crash
    <3>3. QED
      BY <1>5, <3>1, <3>2 DEF Crash
  <2>2. file' # NoFile /\ file'.running => pc'[file'.by] \in {"writing", "locked"}
    BY <1>5 DEF Crash
  <2>3. QED
    BY <1>5, <2>1, <2>2 DEF Crash
<1>6. QED
  BY <1>1, <1>2, <1>3, <1>4, <1>5

LEMMA TypeStep == RunTypeOK /\ [RunNext]_all => RunTypeOK'
<1> SUFFICES ASSUME RunTypeOK, [RunNext]_all PROVE RunTypeOK'
  OBVIOUS
<1> USE CallerAssumption DEF RunTypeOK, Runs, Row, GotoRun
<1>0. TypeOK /\ \A c \in Contender : pc[c] \in {"idle", "read", "unlink", "create", "writing", "locked"}
  BY DEF TypeOK, InLock
<1>1. ASSUME NEW c \in Contender, LockStep(c) PROVE RunTypeOK'
  <2>1. TypeOK'
    BY <1>1, LockType DEF LockStep
  <2>2. \A d \in Contender : pc[d] = "locked" => pc'[d] = "locked"
    BY <1>0, <1>1 DEF LockStep, Exists, Read, Unlink, Create, CreateFails, WritePayload, Goto, TypeOK
  <2>3. QED
    BY <1>1, <2>1, <2>2 DEF LockStep, NotedOverlap
<1>2. ASSUME NEW c \in Contender, LookBack(c) \/ RegisterFails(c) PROVE RunTypeOK'
  <2>1. pc[c] = "locked" /\ UNCHANGED <<vars, row, stoppedBy, asked, overlapped>>
    BY <1>2 DEF LookBack, RegisterFails
  <2>2. lost' \in BOOLEAN
    BY <1>2 DEF LookBack, LooksBack, RegisterFails
  <2>3. run' \in [Contender -> Runs] /\ \A d \in Contender \ {c} : run'[d] = run[d]
    BY <1>2 DEF LookBack, RegisterFails
  <2>4. row # NoRow /\ row.current => row.by # c
    BY <1>2 DEF LookBack, RegisterFails
  <2>5. QED
    BY <2>1, <2>2, <2>3, <2>4 DEF vars, TypeOK
<1>3. ASSUME NEW c \in Contender, Register(c) PROVE RunTypeOK'
  BY <1>3 DEF Register, NewRow, vars, TypeOK
<1>4. ASSUME NEW c \in Contender, Beat(c) PROVE RunTypeOK'
  BY <1>4 DEF Beat, OwnsRow, vars, TypeOK
<1>5. ASSUME NEW c \in Contender, Checkpoint(c) PROVE RunTypeOK'
  BY <1>5 DEF Checkpoint, ReadsRequest, OwnsRow, vars, TypeOK
<1>6. ASSUME NEW c \in Contender, Finish(c) PROVE RunTypeOK'
  BY <1>6 DEF Finish, vars, TypeOK
<1>7. ASSUME NEW c \in Contender, Exit(c) \/ KillRun(c) PROVE RunTypeOK'
  <2>1. TypeOK'
    BY <1>7, LockType DEF Exit, KillRun
  <2>2. /\ row' \in Row \cup {NoRow}
        /\ row' # NoRow /\ row'.current => row = row' /\ row.by # c
    <3>1. row' \in {NoRow, NotCurrent} \/ (row' = row /\ ~OwnsRow(c))
      BY <1>7 DEF Exit, KillRun, DeletesRow
    <3>2. NotCurrent = NoRow \/ (NotCurrent \in Row /\ ~NotCurrent.current)
      BY DEF NotCurrent
    <3>3. QED
      BY <3>1, <3>2 DEF OwnsRow
  <2>3. \A d \in Contender \ {c} : pc'[d] = pc[d] /\ run'[d] = run[d]
    BY <1>0, <1>7 DEF Exit, KillRun, Release, Crash, Goto, Left, TypeOK
  <2>4. run' = [run EXCEPT ![c] = "none"] /\ overlapped' \subseteq Contender
        /\ stoppedBy' = [stoppedBy EXCEPT ![c] = NoOne] /\ asked' = [asked EXCEPT ![c] = NoOne]
    BY <1>7 DEF Exit, KillRun, Left, NotedOverlap
  <2>5. lost' \in BOOLEAN
    BY <1>7 DEF Exit, KillRun
  <2>6. QED
    BY <2>1, <2>2, <2>3, <2>4, <2>5
<1>8. ASSUME GoStale PROVE RunTypeOK'
  BY <1>8 DEF GoStale, vars, TypeOK
<1>9. ASSUME NEW u \in Caller, RequestCancel(u) PROVE RunTypeOK'
  BY <1>9 DEF RequestCancel, Accepts, vars, TypeOK
<1>10. ASSUME UNCHANGED all PROVE RunTypeOK'
  BY <1>10 DEF all, vars, runVars, TypeOK
<1>11. QED
  BY <1>1, <1>2, <1>3, <1>4, <1>5, <1>6, <1>7, <1>8, <1>9, <1>10 DEF RunNext

(* The lock, the row and the runs are well typed, and a row is current     *)
(* only while the run that wrote it goes on inside the lock.               *)
THEOREM TypeCorrect == RunSpec => []RunTypeOK
BY InitType, TypeStep, PTL DEF RunSpec

-----------------------------------------------------------------------------
\* An unlink evicts the one inside, wherever the file it removes is his.
LEMMA LockKeepsFile ==
  ASSUME TypeOK, HoldsFile, NEW c \in Contender,
         \/ Exists(c) \/ Read(c) \/ Unlink(c) \/ Create(c) \/ CreateFails(c)
         \/ WritePayload(c) \/ Release(c) \/ Crash(c)
  PROVE  HoldsFile'
<1> USE LockAssumption DEF TypeOK, HoldsFile, File, InLock, Goto
<1>1. CASE Exists(c) \/ Read(c) \/ CreateFails(c)
  BY <1>1 DEF Exists, Read, CreateFails
<1>2. CASE Unlink(c) \/ Release(c)
  BY <1>2 DEF Unlink, Release, UnlinkLock
<1>3. CASE Create(c)
  <2>1. ASSUME NEW d \in Contender, pc'[d] \in {"writing", "locked"}, d \notin evicted'
        PROVE  file' # NoFile /\ file'.by = d /\ file'.running
    <3>1. file = NoFile /\ file' = [by |-> c, written |-> FALSE, running |-> TRUE]
      BY <1>3 DEF Create
    <3>2. d = c
      BY <1>3, <2>1, <3>1 DEF Create
    <3>3. file' \in File
      BY <3>1
    <3>4. QED
      BY <3>1, <3>2, <3>3
  <2>2. QED
    BY <2>1
<1>4. CASE WritePayload(c)
  BY <1>4 DEF WritePayload
<1>5. CASE Crash(c)
  <2>1. ASSUME NEW d \in Contender, pc'[d] \in {"writing", "locked"}, d \notin evicted'
        PROVE  file' # NoFile /\ file'.by = d /\ file'.running
    <3>1. d # c /\ pc[d] \in {"writing", "locked"} /\ d \notin evicted
      BY <1>5, <2>1 DEF Crash
    <3>2. file # NoFile /\ file.by = d /\ file.running
      BY <3>1
    <3>3. file' = file
      BY <1>5, <3>1, <3>2 DEF Crash
    <3>4. QED
      BY <3>2, <3>3
  <2>2. QED
    BY <2>1
<1>6. QED
  BY <1>1, <1>2, <1>3, <1>4, <1>5

\* What a step of a run does to the lock.
LEMMA RunLocks ==
  ASSUME RunTypeOK, [RunNext]_all
  PROVE  \/ /\ UNCHANGED <<vars, overlapped>>
            /\ \/ \E c \in Contender : LookBack(c) \/ Register(c) \/ RegisterFails(c)
                  \/ Beat(c) \/ Checkpoint(c) \/ Finish(c)
               \/ GoStale \/ (\E u \in Caller : RequestCancel(u)) \/ UNCHANGED all
         \/ \E c \in Contender :
              /\ LockStep(c) \/ Exit(c) \/ KillRun(c)
              /\ \/ Exists(c) \/ Read(c) \/ Unlink(c) \/ Create(c) \/ CreateFails(c)
                 \/ WritePayload(c) \/ Release(c) \/ Crash(c)
              /\ NotedOverlap
<1>1. CASE \E c \in Contender : LockStep(c) \/ Exit(c) \/ KillRun(c)
  BY <1>1 DEF LockStep, Exit, KillRun, Left
<1>2. CASE \/ \E c \in Contender : LookBack(c) \/ Register(c) \/ RegisterFails(c)
                  \/ Beat(c) \/ Checkpoint(c) \/ Finish(c)
           \/ GoStale \/ (\E u \in Caller : RequestCancel(u)) \/ UNCHANGED all
  BY <1>2 DEF LookBack, Register, RegisterFails, Beat, Checkpoint, Finish, GoStale, RequestCancel,
     all, runVars
<1>3. QED
  BY <1>1, <1>2 DEF RunNext

LEMMA FileStep == RunTypeOK /\ HoldsFile /\ [RunNext]_all => HoldsFile'
<1> SUFFICES ASSUME RunTypeOK, HoldsFile, [RunNext]_all PROVE HoldsFile'
  OBVIOUS
<1>1. CASE UNCHANGED vars
  BY <1>1 DEF vars, HoldsFile
<1>2. QED
  BY <1>1, RunLocks, LockKeepsFile DEF RunTypeOK

(* The exclusive create never admits two: of two contenders inside, one    *)
(* has lost its file to another's unlink.                                  *)
THEOREM CreatesExclude == RunSpec => []CreateExcludes
<1>1. RunInit => HoldsFile
  BY DEF RunInit, Init, HoldsFile, InLock
<1>2. HoldsFile => CreateExcludes
  BY DEF HoldsFile, CreateExcludes
<1>3. QED
  BY <1>1, <1>2, FileStep, TypeCorrect, PTL DEF RunSpec

(* Only the run whose row it is clears it: an __exit__ that finds another  *)
(* run's row leaves it, and no other statement deletes.                    *)
THEOREM RowsAreTheirRuns == RunSpec => OnlyItsRunClearsTheRow
<1>1. RunTypeOK /\ [RunNext]_all =>
        [row # NoRow /\ row' = NoRow => OwnsRow(row.by) /\ Exit(row.by)]_all
  <2> SUFFICES ASSUME RunTypeOK, RunNext, row # NoRow, row' = NoRow
               PROVE  OwnsRow(row.by) /\ Exit(row.by)
    BY DEF all
  <2> USE CallerAssumption DEF RunTypeOK, Row
  <2>1. \A r : r \in Row => r # NoRow
    OBVIOUS
  <2>2. row \in Row
    OBVIOUS
  <2>3. [row EXCEPT !.fresh = TRUE] \in Row /\ [row EXCEPT !.fresh = FALSE] \in Row
        /\ [row EXCEPT !.current = FALSE] \in Row
    BY <2>2
  <2>4. ASSUME NEW c \in Contender, Register(c) PROVE FALSE
    BY <2>1, <2>4 DEF Register, NewRow
  <2>5. ASSUME NEW u \in Caller, RequestCancel(u) PROVE FALSE
    <3>1. row' \in Row
      BY <2>2, <2>5 DEF RequestCancel
    <3>2. QED
      BY <2>1, <3>1
  <2>6. ASSUME NEW c \in Contender, Beat(c) \/ KillRun(c) PROVE FALSE
    BY <2>1, <2>3, <2>6 DEF Beat, KillRun, NotCurrent
  <2>7. ASSUME GoStale PROVE FALSE
    BY <2>1, <2>3, <2>7 DEF GoStale
  <2>8. ASSUME NEW c \in Contender, Exit(c) PROVE OwnsRow(c) /\ row.by = c
    BY <2>1, <2>3, <2>8 DEF Exit, DeletesRow, OwnsRow, NotCurrent
  <2>9. QED
    BY <2>4, <2>5, <2>6, <2>7, <2>8
    DEF RunNext, LockStep, LookBack, RegisterFails, Checkpoint, Finish
<1>2. QED
  BY <1>1, TypeCorrect, PTL DEF RunSpec, OnlyItsRunClearsTheRow

-----------------------------------------------------------------------------
(* A request reaches the run whose row accepted it and no other: the row   *)
(* is written anew by each run, and keeps its first request.               *)
LEMMA AskedStep ==
  RunTypeOK /\ Asked /\ FirstAskerStops /\ [RunNext]_all => (Asked /\ FirstAskerStops)'
<1> SUFFICES ASSUME RunTypeOK, Asked, FirstAskerStops, [RunNext]_all
             PROVE  (Asked /\ FirstAskerStops)'
  OBVIOUS
<1> USE CallerAssumption DEF RunTypeOK, Runs, Row, GotoRun, Asked, FirstAskerStops
<1>1. ASSUME NEW c \in Contender, LockStep(c) PROVE (Asked /\ FirstAskerStops)'
  BY <1>1 DEF LockStep
<1>2. ASSUME NEW c \in Contender, LookBack(c) \/ RegisterFails(c) \/ Finish(c)
      PROVE  (Asked /\ FirstAskerStops)'
  <2>1. UNCHANGED <<row, stoppedBy, asked>>
    BY <1>2 DEF LookBack, RegisterFails, Finish
  <2>2. \A d \in Contender : run'[d] \in {"none", "registering", "unregistered"} =>
                              run[d] \in {"none", "registering", "unregistered"}
    BY <1>2 DEF LookBack, RegisterFails, Finish
  <2>3. QED
    BY <2>1, <2>2
<1>3. ASSUME NEW c \in Contender, Register(c) PROVE (Asked /\ FirstAskerStops)'
  <2>1. row' = NewRow(c) /\ asked[c] = NoOne /\ UNCHANGED <<stoppedBy, asked>>
    BY <1>3 DEF Register
  <2>2. row'.by = c /\ row'.request = NoOne
    BY <2>1 DEF NewRow
  <2>3. \A d \in Contender : run'[d] \in {"none", "registering", "unregistered"} => run'[d] = run[d]
    BY <1>3 DEF Register
  <2>4. QED
    BY <2>1, <2>2, <2>3
<1>4. ASSUME NEW c \in Contender, Beat(c) PROVE (Asked /\ FirstAskerStops)'
  BY <1>4 DEF Beat, OwnsRow
<1>5. ASSUME NEW c \in Contender, Checkpoint(c) PROVE (Asked /\ FirstAskerStops)'
  <2>1. row.request = asked[c]
    BY <1>5 DEF Checkpoint, ReadsRequest, OwnsRow
  <2>2. QED
    BY <1>5, <2>1 DEF Checkpoint
<1>6. ASSUME NEW c \in Contender, Exit(c) \/ KillRun(c) PROVE (Asked /\ FirstAskerStops)'
  <2>1. row' # NoRow /\ row'.current => row = row' /\ row.by # c
    BY <1>6 DEF Exit, KillRun, DeletesRow, OwnsRow, NotCurrent
  <2>2. /\ run' = [run EXCEPT ![c] = "none"]
        /\ stoppedBy' = [stoppedBy EXCEPT ![c] = NoOne] /\ asked' = [asked EXCEPT ![c] = NoOne]
    BY <1>6 DEF Exit, KillRun, Left
  <2>3. QED
    BY <2>1, <2>2
<1>7. ASSUME GoStale PROVE (Asked /\ FirstAskerStops)'
  BY <1>7 DEF GoStale
<1>8. ASSUME NEW u \in Caller, RequestCancel(u) PROVE (Asked /\ FirstAskerStops)'
  BY <1>8 DEF RequestCancel, Accepts
<1>9. ASSUME UNCHANGED all PROVE (Asked /\ FirstAskerStops)'
  BY <1>9 DEF all, runVars
<1>10. QED
  BY <1>1, <1>2, <1>3, <1>4, <1>5, <1>6, <1>7, <1>8, <1>9 DEF RunNext

(* A run is stopped only by the caller whose request it accepted first,    *)
(* whatever an earlier run left behind and however late a request comes.   *)
THEOREM FirstAskersStop == RunSpec => []FirstAskerStops
<1>1. RunInit => Asked /\ FirstAskerStops
  BY DEF RunInit, Asked, FirstAskerStops
<1>2. QED
  BY <1>1, AskedStep, TypeCorrect, PTL DEF RunSpec

-----------------------------------------------------------------------------
LEMMA NoticedStep ==
  RunTypeOK /\ Noticed /\ KilledRunIsNoticed /\ [RunNext]_all => (Noticed /\ KilledRunIsNoticed)'
<1> SUFFICES ASSUME RunTypeOK, Noticed, KilledRunIsNoticed, [RunNext]_all
             PROVE  (Noticed /\ KilledRunIsNoticed)'
  OBVIOUS
<1> DEFINE Together == \A c, d \in Contender : c # d /\ pc[c] \in InLock /\ pc[d] \in InLock
                                             => c \in overlapped
           Unseen   == lost => /\ \A c \in Contender : run[c] # "registering"
                               /\ row # NoRow /\ ~row.current
<1>a. Together /\ Unseen
  BY DEF Noticed, KilledRunIsNoticed
<1>b. Together' /\ Unseen' => (Noticed /\ KilledRunIsNoticed)'
  BY DEF Noticed, KilledRunIsNoticed
<1>1. Together'
  <2>1. CASE UNCHANGED <<vars, overlapped>>
    BY <1>a, <2>1 DEF vars
  <2>2. CASE NotedOverlap
    BY <2>2 DEF NotedOverlap
  <2>3. QED
    BY <2>1, <2>2, RunLocks
<1>2. Unseen'
  <2> USE CallerAssumption DEF RunTypeOK, Runs, Row, GotoRun
  <2>1. ASSUME NEW c \in Contender, LockStep(c) PROVE Unseen'
    BY <1>a, <2>1 DEF LockStep
  <2>2. ASSUME NEW c \in Contender, LookBack(c) PROVE Unseen'
    BY <1>a, <2>2 DEF LookBack, LooksBack
  <2>3. ASSUME NEW c \in Contender, Register(c) PROVE Unseen'
    BY <1>a, <2>3 DEF Register
  <2>4. ASSUME NEW c \in Contender, RegisterFails(c) \/ Checkpoint(c) \/ Finish(c) PROVE Unseen'
    BY <1>a, <2>4 DEF RegisterFails, Checkpoint, Finish
  <2>5. ASSUME NEW c \in Contender, Beat(c) PROVE Unseen'
    BY <1>a, <2>5 DEF Beat, OwnsRow
  <2>6. ASSUME NEW c \in Contender, Exit(c) PROVE Unseen'
    BY <1>a, <2>6 DEF Exit, Left, DeletesRow, OwnsRow
  <2>7. ASSUME NEW c \in Contender, KillRun(c) PROVE Unseen'
    <3>1. CASE OwnsRow(c) /\ c \notin overlapped
      <4>1. pc[c] = "locked" /\ \A d \in Contender : d # c => run[d] # "registering"
        BY <1>a, <3>1 DEF OwnsRow, InLock
      <4>2. row' # NoRow /\ ~row'.current
        <5>1. row' = [row EXCEPT !.current = FALSE] /\ row \in Row
          BY <2>7, <3>1 DEF KillRun, NotCurrent, OwnsRow
        <5>2. row' \in Row /\ ~row'.current
          BY <5>1
        <5>3. QED
          BY <5>2
      <4>3. \A d \in Contender : run'[d] # "registering"
        BY <2>7, <4>1 DEF KillRun, Left
      <4>4. QED
        BY <4>2, <4>3
    <3>2. CASE ~(OwnsRow(c) /\ c \notin overlapped)
      <4>1. lost' = lost /\ (lost => row' = row)
        BY <1>a, <2>7, <3>2 DEF KillRun, OwnsRow
      <4>2. \A d \in Contender : run'[d] = run[d] \/ run'[d] = "none"
        BY <2>7 DEF KillRun, Left
      <4>3. QED
        BY <1>a, <4>1, <4>2
    <3>3. QED
      BY <3>1, <3>2
  <2>8. ASSUME GoStale PROVE Unseen'
    <3>1. row' \in Row /\ row'.current = row.current
      BY <2>8 DEF GoStale
    <3>2. QED
      BY <1>a, <2>8, <3>1 DEF GoStale
  <2>9. ASSUME NEW u \in Caller, RequestCancel(u) PROVE Unseen'
    <3>1. row' \in Row /\ row'.current = row.current
      BY <2>9 DEF RequestCancel, Accepts
    <3>2. QED
      BY <1>a, <2>9, <3>1 DEF RequestCancel
  <2>10. ASSUME UNCHANGED all PROVE Unseen'
    BY <1>a, <2>10 DEF all, runVars
  <2>11. QED
    BY <2>1, <2>2, <2>3, <2>4, <2>5, <2>6, <2>7, <2>8, <2>9, <2>10 DEF RunNext
<1>3. QED
  BY <1>b, <1>1, <1>2

(* The row of a run that was killed alone in the lock outlives it until    *)
(* the next run has looked: nothing deletes it, and a run that writes its  *)
(* own over it has looked before.                                          *)
THEOREM KilledRunsAreNoticed == RunSpec => []KilledRunIsNoticed
<1>1. RunInit => Noticed /\ KilledRunIsNoticed
  BY DEF RunInit, Init, Noticed, KilledRunIsNoticed, InLock
<1>2. QED
  BY <1>1, NoticedStep, TypeCorrect, PTL DEF RunSpec

-----------------------------------------------------------------------------
(* The jobs.                                                               *)
(* The types of the registries, with what each field may hold.             *)
RegistryTypes ==
    /\ status \in [Process -> [Job -> {"none", "running"} \cup Terminal]]
    /\ listed \in [Process -> SUBSET Job]
    /\ order \in [Process -> Seq(Job)]
    /\ snapshot \in [Job -> Snapshot \cup {NoSnapshot}]
    /\ work \in [Process -> Job \cup {NoJob}]
    /\ clearing \in [Process -> Job \cup {NoJob}]
    /\ out \in [Process -> [job: Job \cup {NoJob},
                            as: {"none", "running"} \cup Terminal]]
    /\ heart \in [Process -> [awake: BOOLEAN, left: SUBSET Job, keep: SUBSET Job,
                              job: Job \cup {NoJob},
                              as: {"none", "running"} \cup Terminal]]
    /\ former \in [Process -> [Job -> {"none", "running"} \cup Terminal]]
    /\ creates \in [Job -> Nat]

(* A process runs the one job its worker thread is at, and what the thread *)
(* has rendered is of that job.                                            *)
OneAtATime ==
    \A p \in Process :
      /\ \A j \in Job : status[p][j] = "running" => work[p] = j
      /\ out[p] # NoOut => out[p].job = work[p] /\ work[p] \in Job
      /\ out[p].as \in Terminal => \A j \in Job : status[p][j] # "running"
      /\ p \in beaten => ~heart[p].awake

\* A job that process q has nothing to do with.
Stranger(q, j) ==
    /\ status[q][j] = "none" /\ work[q] # j /\ out[q].job # j
    /\ heart[q].job # j /\ j \notin heart[q].left /\ former[q][j] = "none"

(* Nothing speaks of a job before it is started.                           *)
Unborn ==
    \A j \in Job : creates[j] = 0 =>
        snapshot[j] = NoSnapshot /\ \A q \in Process : Stranger(q, j) /\ clearing[q] # j

\* p runs j, which was started once, and beats on schedule.
Live(p, j) == p \notin Faulty /\ RunsHere(p, j) /\ creates[j] = 1

(* No other process has anything of it, and no clear is about to unlink it.*)
Lone(p, j) ==
    /\ \A q \in Process : clearing[q] # j /\ (q # p => Stranger(q, j))
    /\ former[p][j] = "none"
    /\ heart[p].job = j => heart[p].as = "running"
    /\ out[p].job = j => out[p].as = "running"

(* Its snapshot is written again in each round of the heartbeat.           *)
Fresh(p, j) ==
    \/ snapshot[j] = NoSnapshot /\ out[p].job = j
    \/ /\ snapshot[j] # NoSnapshot /\ snapshot[j].as = "running" /\ snapshot[j].age <= 1
       /\ p \in beaten => snapshot[j].age = 0
       /\ heart[p].awake /\ j \notin heart[p].left /\ heart[p].job # j => snapshot[j].age = 0

(* Which is so of every job that is live.                                  *)
KeptAlive == \A p \in Process, j \in Job : Live(p, j) => Lone(p, j) /\ Fresh(p, j)
-----------------------------------------------------------------------------
(* Writing a snapshot drops no other that reads as running, and makes none *)
(* up (write, _evict).                                                     *)
LEMMA WriteKeeps ==
    ASSUME snapshot \in [Job -> Snapshot \cup {NoSnapshot}],
           NEW j \in Job, NEW as \in {"none", "running"} \cup Terminal,
           Write(j, as)
    PROVE  /\ snapshot' \in [Job -> Snapshot \cup {NoSnapshot}]
           /\ as = "running" =>
                snapshot'[j] = [as |-> "running", age |-> 0] /\ snapshot'[j] # NoSnapshot
           /\ \A k \in Job : k # j =>
                /\ snapshot[k] = NoSnapshot => snapshot'[k] = NoSnapshot
                /\ ReadsActive(snapshot[k]) => snapshot'[k] = snapshot[k]
<1> DEFINE now == [snapshot EXCEPT ![j] = [as |-> as, age |-> 0]]
           done == {k \in {k \in Job : now[k] # NoSnapshot} : ReadsDone(now[k])}
<1>1. PICK D \in SUBSET done :
       snapshot' = [k \in Job |-> IF k \in D THEN NoSnapshot ELSE now[k]]
  BY DEF Write
<1>2. [as |-> as, age |-> 0] \in Snapshot
  BY DEF Snapshot
<1>3. now \in [Job -> Snapshot \cup {NoSnapshot}]
  BY <1>2
<1>4. snapshot' \in [Job -> Snapshot \cup {NoSnapshot}]
  BY <1>1, <1>3
<1>5. ASSUME as = "running"
      PROVE  snapshot'[j] = [as |-> "running", age |-> 0] /\ snapshot'[j] # NoSnapshot
  <2>1. now[j] = [as |-> "running", age |-> 0] /\ now[j] # NoSnapshot
    BY <1>2, <1>5, JobAssumption
  <2>a. now[j].as = "running" /\ now[j].age = 0
    BY <2>1
  <2>2. ReadsActive(now[j])
    BY <2>1, <2>a, JobAssumption DEF ReadsActive, Stale
  <2>3. j \notin D
    BY <1>1, <2>2 DEF ReadsDone
  <2>4. QED
    BY <1>1, <2>1, <2>3
<1>6. ASSUME NEW k \in Job, k # j
      PROVE  /\ snapshot[k] = NoSnapshot => snapshot'[k] = NoSnapshot
             /\ ReadsActive(snapshot[k]) => snapshot'[k] = snapshot[k]
  <2>1. now[k] = snapshot[k]
    BY <1>6
  <2>2. ReadsActive(snapshot[k]) => k \notin D
    BY <1>1, <2>1 DEF ReadsDone
  <2>3. QED
    BY <1>1, <2>1, <2>2
<1>7. QED
  BY <1>4, <1>5, <1>6
(* Of a set of positions each has a rank of its own, and no rank is left out. *)
LEMMA Ranks ==
    ASSUME NEW m \in Nat, NEW I \in SUBSET (1..m)
    PROVE  LET rank(i) == Cardinality({k \in I : k <= i})
           IN  /\ Cardinality(I) \in Nat
               /\ \A i \in I : rank(i) \in 1..Cardinality(I)
               /\ \A i, j \in I : rank(i) = rank(j) => i = j
               /\ \A n \in 1..Cardinality(I) : \E i \in I : rank(i) = n
<1> DEFINE rank(i) == Cardinality({k \in I : k <= i})
           C == Cardinality(I)
<1>0. \A i \in I : i \in Nat
  OBVIOUS
<1>1. IsFiniteSet(I) /\ C \in Nat
  <2>1. IsFiniteSet(1..m)
    BY FS_Interval
  <2>2. IsFiniteSet(I)
    BY <2>1, FS_Subset
  <2>3. QED
    BY <2>2, FS_CardinalityType
<1>2. ASSUME NEW i \in I PROVE rank(i) \in 1..C
  <2> DEFINE below == {k \in I : k <= i}
  <2>1. below \in SUBSET I /\ i \in below
    OBVIOUS
  <2>2. IsFiniteSet(below) /\ Cardinality(below) <= C
    BY <1>1, <2>1, FS_Subset
  <2>3. Cardinality(below) \in Nat /\ Cardinality(below) # 0
    BY <2>1, <2>2, FS_CardinalityType, FS_EmptySet
  <2>4. QED
    BY <1>1, <2>2, <2>3
<1>3. ASSUME NEW i \in I, NEW j \in I, i < j PROVE rank(i) # rank(j)
  <2> DEFINE low == {k \in I : k <= i}
             high == {k \in I : k <= j}
  <2>0. i \in Nat /\ j \in Nat
    BY <1>0
  <2>1. j <= j /\ ~(j <= i) /\ \A k \in I : k <= i => k <= j
    BY <1>0, <1>3, <2>0
  <2>2. low \in SUBSET high /\ j \in high /\ j \notin low
    BY <2>1, Zenon
  <2>3. IsFiniteSet(high)
    <3>1. high \in SUBSET I
      OBVIOUS
    <3>2. QED
      BY <1>1, <3>1, FS_Subset
  <2>4. Cardinality(high) # Cardinality(low)
    BY <2>2, <2>3, FS_Subset
  <2>5. QED
    BY <2>4
<1>4. ASSUME NEW i \in I, NEW j \in I, rank(i) = rank(j) PROVE i = j
  <2>1. i \in Nat /\ j \in Nat
    OBVIOUS
  <2>2. ~(i < j) /\ ~(j < i)
    BY <1>3, <1>4
  <2>3. QED
    BY <2>1, <2>2
<1>5. ASSUME NEW n \in 1..C PROVE \E i \in I : rank(i) = n
  <2> DEFINE f == [i \in I |-> rank(i)]
  <2>1. f \in [I -> 1..C]
    BY <1>2
  <2>2. f \in Injection(I, 1..C)
    BY <1>4, <2>1, Zenon DEF Injection, IsInjective
  <2>3. IsFiniteSet(1..C) /\ Cardinality(1..C) = C
    BY <1>1, FS_Interval
  <2>4. f \in Surjection(I, 1..C)
    BY <2>2, <2>3, FS_Injection
  <2>5. \E i \in I : f[i] = n
    BY <2>4 DEF Surjection
  <2>6. QED
    BY <2>5
<1>6. QED
  BY <1>1, <1>2, <1>4, <1>5

(* The entries at a set of positions are a sequence of those entries, and  *)
(* none of them is lost.                                                   *)
LEMMA EntriesKept ==
    ASSUME NEW S, NEW queue \in Seq(S), NEW I \in SUBSET (DOMAIN queue)
    PROVE  /\ Entries(queue, I) \in Seq(S)
           /\ \A i \in I : \E n \in 1..Len(Entries(queue, I)) :
                Entries(queue, I)[n] = queue[i]
<1> DEFINE rank(i) == Cardinality({k \in I : k <= i})
           at(n) == CHOOSE i \in I : rank(i) = n
           C == Cardinality(I)
<1>1. I \in SUBSET (1..Len(queue)) /\ Len(queue) \in Nat
  OBVIOUS
<1>2. /\ C \in Nat
      /\ \A i \in I : rank(i) \in 1..C
      /\ \A i, j \in I : rank(i) = rank(j) => i = j
      /\ \A n \in 1..C : \E i \in I : rank(i) = n
  BY <1>1, Ranks
<1>3. Entries(queue, I) = [n \in 1..C |-> queue[at(n)]]
  BY DEF Entries
<1>4. \A n \in 1..C : at(n) \in I /\ rank(at(n)) = n
  BY <1>2
<1> HIDE DEF at, rank
<1>5. \A n \in 1..C : queue[at(n)] \in S
  <2>1. \A i \in 1..Len(queue) : queue[i] \in S
    OBVIOUS
  <2>2. QED
    BY <1>1, <1>4, <2>1
<1>6. Entries(queue, I) \in Seq(S) /\ Len(Entries(queue, I)) = C
  <2>1. Entries(queue, I) \in [1..C -> S]
    BY <1>3, <1>5
  <2>2. C \in Nat
    BY <1>2
  <2> HIDE DEF C
  <2>3. QED
    BY <2>1, <2>2
<1>7. ASSUME NEW i \in I
      PROVE  \E n \in 1..C : Entries(queue, I)[n] = queue[i]
  <2>1. rank(i) \in 1..C
    BY <1>2
  <2>2. at(rank(i)) = i
    <3>1. at(rank(i)) \in I /\ rank(at(rank(i))) = rank(i)
      BY <1>4, <2>1
    <3>2. QED
      BY <1>2, <3>1
  <2>3. Entries(queue, I)[rank(i)] = queue[i]
    BY <1>3, <2>1, <2>2
  <2>4. QED
    BY <2>1, <2>3
<1>8. QED
  BY <1>6, <1>7

(* create() keeps the entry it has appended, and every job it does not      *)
(* unlist; an evicted job was listed and has finished.                     *)
LEMMA EvictionSpares ==
    ASSUME NEW queue \in Seq(Job), NEW jobs \in SUBSET Job, NEW st
    PROVE  LET gone == Evicted(queue, jobs, st)
           IN  /\ gone \in SUBSET (DOMAIN queue)
               /\ \A i \in gone : queue[i] \in jobs /\ st[queue[i]] \in Terminal
               /\ Entries(queue, DOMAIN queue \ gone) \in Seq(Job)
               /\ \A i \in DOMAIN queue \ gone :
                    \E n \in 1..Len(Entries(queue, DOMAIN queue \ gone)) :
                      Entries(queue, DOMAIN queue \ gone)[n] = queue[i]
<1> DEFINE gone == Evicted(queue, jobs, st)
<1>1. /\ gone \in SUBSET (DOMAIN queue)
      /\ \A i \in gone : queue[i] \in jobs /\ st[queue[i]] \in Terminal
  BY DEF Evicted, Removable
<1>2. DOMAIN queue \ gone \in SUBSET (DOMAIN queue)
  OBVIOUS
<1>3. QED
  BY <1>1, <1>2, EntriesKept

(* A tick adds one to the age of a snapshot.                               *)
LEMMA Aged == \A f \in Snapshot : [f EXCEPT !.age = @ + 1] \in Snapshot
  BY DEF Snapshot

\* What a heartbeat thread has in hand.
HeartRecord == [awake: BOOLEAN, left: SUBSET Job, keep: SUBSET Job, job: Job \cup {NoJob},
                as: {"none", "running"} \cup Terminal]

\* The same heart, with k to be written as that.
With(h, k, as) == [h EXCEPT !.job = k, !.as = as]

(* A heartbeat thread that takes up, or puts down, a job to write.         *)
LEMMA Rebeat ==
    ASSUME NEW h \in HeartRecord, NEW k \in Job \cup {NoJob},
           NEW as \in {"none", "running"} \cup Terminal
    PROVE  With(h, k, as) \in HeartRecord
BY DEF HeartRecord, With

(* Every step keeps these types.                                           *)
LEMMA RegistryTypeStep ==
    ASSUME RegistryTypes, OneAtATime, [JobNext]_jobVars
    PROVE  RegistryTypes'
<1> USE DEF RegistryTypes, Terminal, local, NoOut, Asleep
<1>1. ASSUME NEW p \in Process, NEW j \in Job, CreateJob(p, j) PROVE RegistryTypes'
  <2> DEFINE queue == Append(order[p], j)
             gone  == Evicted(queue, listed[p] \cup {j}, [status[p] EXCEPT ![j] = "running"])
  <2>1. /\ order' = [order EXCEPT ![p] = Entries(queue, DOMAIN queue \ gone)]
        /\ listed' = [listed EXCEPT ![p] = (@ \cup {j}) \ {queue[i] : i \in gone}]
    BY <1>1 DEF CreateJob
  <2>2. listed' \in [Process -> SUBSET Job] /\ order' \in [Process -> Seq(Job)]
    <3>1. queue \in Seq(Job) /\ listed[p] \cup {j} \in SUBSET Job
      OBVIOUS
    <3>2. Entries(queue, DOMAIN queue \ gone) \in Seq(Job)
      <4> HIDE DEF RegistryTypes, queue
      <4>1. QED
        BY <3>1, EvictionSpares
    <3>3. QED
      BY <2>1, <3>2
  <2>3. /\ creates' = [creates EXCEPT ![j] = @ + 1]
        /\ status' = [status EXCEPT ![p] = [status[p] EXCEPT ![j] = "running"]]
        /\ work' = [work EXCEPT ![p] = j]
        /\ out' = [out EXCEPT ![p] = [job |-> j, as |-> "running"]]
        /\ UNCHANGED <<snapshot, heart, clearing>>
    BY <1>1 DEF CreateJob
  <2>4. former' \in [Process -> [Job -> {"none", "running"} \cup Terminal]]
    BY <1>1 DEF CreateJob
  <2>5. /\ status' \in [Process -> [Job -> {"none", "running"} \cup Terminal]]
        /\ work' \in [Process -> Job \cup {NoJob}] /\ creates' \in [Job -> Nat]
    BY <2>3
  <2>6. out' \in [Process -> [job: Job \cup {NoJob}, as: {"none", "running"} \cup Terminal]]
    BY <2>3
  <2>7. QED
    BY <2>2, <2>3, <2>4, <2>5, <2>6
<1>2. ASSUME NEW p \in Process, NEW j \in Job, Clear(p, j) PROVE RegistryTypes'
  <2> DEFINE gone == {k \in {j} \cap listed[p] : status[p][k] \in Terminal}
             kept == {i \in DOMAIN order[p] : order[p][i] \in listed[p] \ gone}
  <2>1. /\ order' = [order EXCEPT ![p] = IF gone = {} THEN @ ELSE Entries(@, kept)]
        /\ listed' = [listed EXCEPT ![p] = @ \ gone]
    BY <1>2 DEF Clear
  <2>2. Entries(order[p], kept) \in Seq(Job)
    <3>1. order[p] \in Seq(Job) /\ kept \in SUBSET (DOMAIN order[p])
      OBVIOUS
    <3>2. QED
      BY <3>1, EntriesKept
  <2>3. listed' \in [Process -> SUBSET Job] /\ order' \in [Process -> Seq(Job)]
    BY <2>1, <2>2
  <2>4. QED
    BY <1>2, <2>3 DEF Clear
<1>3. ASSUME NEW p \in Process, NEW s \in Terminal, FinishJob(p, s)
      PROVE  RegistryTypes'
  BY <1>3 DEF FinishJob
<1>4. ASSUME NEW p \in Process, Progress(p) PROVE RegistryTypes'
  BY <1>4 DEF Progress
<1>5. ASSUME NEW p \in Process, WriteOut(p) PROVE RegistryTypes'
  <2>1. out[p].job \in Job
    BY <1>5 DEF OneAtATime, WriteOut
  <2>2. snapshot' \in [Job -> Snapshot \cup {NoSnapshot}]
    BY <1>5, <2>1, WriteKeeps DEF WriteOut, WriteOrFail
  <2>3. QED
    BY <1>5, <2>2 DEF WriteOut
<1>6. ASSUME NEW p \in Process, BeatStart(p) PROVE RegistryTypes'
  BY <1>6 DEF BeatStart, RunningAt
<1>7. ASSUME NEW p \in Process, BeatWrite(p) PROVE RegistryTypes'
  <2>1. heart[p].job \in Job
    BY <1>7 DEF BeatWrite
  <2>2. snapshot' \in [Job -> Snapshot \cup {NoSnapshot}]
    BY <1>7, <2>1, WriteKeeps DEF BeatWrite, WriteOrFail
  <2>4. heart' = [heart EXCEPT ![p] = [heart[p] EXCEPT !.job = NoJob, !.as = "none"]]
    BY <1>7 DEF BeatWrite
  <2>5. heart'[p] \in HeartRecord
    <3>1. heart'[p] = With(heart[p], NoJob, "none") /\ heart[p] \in HeartRecord
      BY <2>4 DEF HeartRecord, With
    <3> HIDE DEF RegistryTypes
    <3>2. QED
      BY <3>1, Rebeat
  <2>6. \A q \in Process : q # p => heart'[q] = heart[q]
    BY <2>4
  <2>7. heart' = [q \in Process |-> heart'[q]]
    BY <2>4
  <2>8. QED
    BY <1>7, <2>2, <2>5, <2>6, <2>7 DEF BeatWrite, HeartRecord
<1>8. ASSUME NEW p \in Process, BeatEnd(p) PROVE RegistryTypes'
  BY <1>8 DEF BeatEnd
<1>9. ASSUME NEW p \in Process, NEW j \in Job, BeatRender(p, j) PROVE RegistryTypes'
  <2>1. heart' = [heart EXCEPT ![p] = [heart[p] EXCEPT !.left = @ \ {j}, !.job = j,
                                         !.as = HeldStatus(p, j)]]
    BY <1>9 DEF BeatRender
  <2>2. heart'[p] = [heart[p] EXCEPT !.left = @ \ {j}, !.job = j, !.as = HeldStatus(p, j)]
    BY <2>1
  <2>3. /\ HeldStatus(p, j) \in {"none", "running"} \cup Terminal
        /\ heart[p].left \ {j} \in SUBSET Job
    BY DEF HeldStatus
  <2>4. heart'[p] \in [awake: BOOLEAN, left: SUBSET Job, keep: SUBSET Job,
                       job: Job \cup {NoJob}, as: {"none", "running"} \cup Terminal]
    BY <2>2, <2>3
  <2>5. \A q \in Process : q # p => heart'[q] = heart[q]
    BY <2>1
  <2>6. heart' = [q \in Process |-> heart'[q]]
    BY <2>1
  <2>7. QED
    BY <1>9, <2>4, <2>5, <2>6 DEF BeatRender
<1>10. ASSUME NEW p \in Process, NEW j \in Job, Reap(p, j) PROVE RegistryTypes'
  <2>1. heart' = [heart EXCEPT ![p] = [heart[p] EXCEPT !.job = j, !.as = "failed"]]
    BY <1>10 DEF Reap
  <2>2. heart'[p] \in HeartRecord
    <3>1. heart'[p] = With(heart[p], j, "failed") /\ heart[p] \in HeartRecord
      BY <2>1 DEF HeartRecord, With
    <3>2. "failed" \in {"none", "running"} \cup Terminal
      BY DEF Terminal
    <3> HIDE DEF RegistryTypes
    <3>3. QED
      BY <3>1, <3>2, Rebeat
  <2>3. \A q \in Process : q # p => heart'[q] = heart[q]
    BY <2>1
  <2>4. heart' = [q \in Process |-> heart'[q]]
    BY <2>1
  <2>5. QED
    BY <1>10, <2>2, <2>3, <2>4 DEF Reap, HeartRecord
<1>11. ASSUME NEW p \in Process, UnlinkSnapshot(p) PROVE RegistryTypes'
  BY <1>11 DEF UnlinkSnapshot
<1>12. ASSUME NEW p \in Process, Kill(p) PROVE RegistryTypes'
  BY <1>12 DEF Kill
<1>13. CASE Tick
  <2>1. ASSUME NEW j \in Job, snapshot[j] # NoSnapshot
        PROVE  [snapshot[j] EXCEPT !.age = @ + 1] \in Snapshot
    <3>1. snapshot[j] \in Snapshot
      BY <2>1
    <3> HIDE DEF RegistryTypes
    <3>2. QED
      BY <3>1, Aged
  <2>2. snapshot' \in [Job -> Snapshot \cup {NoSnapshot}]
    BY <1>13, <2>1 DEF Tick
  <2>3. QED
    BY <1>13, <2>2 DEF Tick
<1>14. CASE UNCHANGED jobVars
  BY <1>14 DEF jobVars
<1>15. QED
  BY <1>1, <1>2, <1>3, <1>4, <1>5, <1>6, <1>7, <1>8, <1>9, <1>10, <1>11, <1>12, <1>13, <1>14
     DEF JobNext, BeatStep
(* A process takes up a job when it has none, and leaves it finished.      *)
LEMMA OneAtATimeStep ==
    ASSUME RegistryTypes, OneAtATime, [JobNext]_jobVars PROVE OneAtATime'
<1> USE JobAssumption DEF RegistryTypes, OneAtATime, Terminal, local,
            NoOut, Asleep
<1>1. ASSUME NEW p \in Process, NEW j \in Job, CreateJob(p, j) PROVE OneAtATime'
  BY <1>1 DEF CreateJob
<1>2. ASSUME NEW p \in Process, NEW j \in Job, Clear(p, j) PROVE OneAtATime'
  BY <1>2 DEF Clear
<1>3. ASSUME NEW p \in Process, NEW s \in Terminal, FinishJob(p, s) PROVE OneAtATime'
  BY <1>3 DEF FinishJob
<1>4. ASSUME NEW p \in Process, Progress(p) PROVE OneAtATime'
  BY <1>4 DEF Progress
<1>5. ASSUME NEW p \in Process, WriteOut(p) PROVE OneAtATime'
  BY <1>5 DEF WriteOut
<1>6. ASSUME NEW p \in Process, BeatStart(p) PROVE OneAtATime'
  BY <1>6 DEF BeatStart
<1>7. ASSUME NEW p \in Process, BeatWrite(p) PROVE OneAtATime'
  BY <1>7 DEF BeatWrite
<1>8. ASSUME NEW p \in Process, BeatEnd(p) PROVE OneAtATime'
  BY <1>8 DEF BeatEnd
<1>9. ASSUME NEW p \in Process, NEW j \in Job, BeatRender(p, j) PROVE OneAtATime'
  BY <1>9 DEF BeatRender
<1>10. ASSUME NEW p \in Process, NEW j \in Job, Reap(p, j) PROVE OneAtATime'
  BY <1>10 DEF Reap
<1>11. ASSUME NEW p \in Process, UnlinkSnapshot(p) PROVE OneAtATime'
  BY <1>11 DEF UnlinkSnapshot
<1>12. ASSUME NEW p \in Process, Kill(p) PROVE OneAtATime'
  BY <1>12 DEF Kill
<1>13. CASE Tick
  BY <1>13 DEF Tick
<1>14. CASE UNCHANGED jobVars
  BY <1>14 DEF jobVars
<1>15. QED
  BY <1>1, <1>2, <1>3, <1>4, <1>5, <1>6, <1>7, <1>8, <1>9, <1>10, <1>11, <1>12, <1>13, <1>14
     DEF JobNext, BeatStep
(* A job that was never started leaves no trace.                           *)
LEMMA UnbornStep ==
    ASSUME RegistryTypes, OneAtATime, Unborn, [JobNext]_jobVars
    PROVE  Unborn'
<1> USE JobAssumption DEF RegistryTypes, Unborn, Stranger, Terminal,
            local, NoOut, Asleep, OneAtATime
<1>1. ASSUME NEW p \in Process, NEW j \in Job, CreateJob(p, j) PROVE Unborn'
  BY <1>1 DEF CreateJob
<1>2. ASSUME NEW p \in Process, NEW j \in Job, Clear(p, j) PROVE Unborn'
  BY <1>2 DEF Clear, ReadsDone
<1>3. ASSUME NEW p \in Process, NEW s \in Terminal, FinishJob(p, s) PROVE Unborn'
  BY <1>3 DEF FinishJob
<1>4. ASSUME NEW p \in Process, Progress(p) PROVE Unborn'
  BY <1>4 DEF Progress
<1>5. ASSUME NEW p \in Process, WriteOut(p) PROVE Unborn'
  <2>1. out[p].job \in Job /\ (Write(out[p].job, out[p].as) \/ UNCHANGED snapshot)
    BY <1>5 DEF WriteOut, WriteOrFail
  <2>2. \A k \in Job : creates[k] = 0 => snapshot'[k] = NoSnapshot
    <3>1. CASE UNCHANGED snapshot
      BY <3>1
    <3>2. CASE Write(out[p].job, out[p].as)
      <4>1. \A k \in Job : k # out[p].job /\ snapshot[k] = NoSnapshot
                              => snapshot'[k] = NoSnapshot
        <5>1. out[p].job \in Job /\ out[p].as \in {"none", "running"} \cup Terminal
          BY <2>1
        <5>2. snapshot \in [Job -> Snapshot \cup {NoSnapshot}]
          OBVIOUS
        <5> HIDE JobAssumption DEF RegistryTypes, Unborn, OneAtATime
        <5>3. QED
          BY <3>2, <5>1, <5>2, WriteKeeps
      <4>2. QED
        BY <4>1
    <3>3. QED
      BY <2>1, <3>1, <3>2
  <2>3. QED
    BY <1>5, <2>2 DEF WriteOut
<1>6. ASSUME NEW p \in Process, BeatStart(p) PROVE Unborn'
  BY <1>6 DEF BeatStart, RunningAt, RunsHere
<1>7. ASSUME NEW p \in Process, BeatWrite(p) PROVE Unborn'
  <2>1. /\ heart[p].job \in Job
        /\ (Write(heart[p].job, heart[p].as) \/ UNCHANGED snapshot)
    BY <1>7 DEF BeatWrite, WriteOrFail
  <2>2. \A k \in Job : creates[k] = 0 => snapshot'[k] = NoSnapshot
    <3>1. CASE UNCHANGED snapshot
      BY <3>1
    <3>2. CASE Write(heart[p].job, heart[p].as)
      <4>1. \A k \in Job : k # heart[p].job /\ snapshot[k] = NoSnapshot
                              => snapshot'[k] = NoSnapshot
        <5>1. heart[p].job \in Job /\ heart[p].as \in {"none", "running"} \cup Terminal
          BY <2>1
        <5>2. snapshot \in [Job -> Snapshot \cup {NoSnapshot}]
          OBVIOUS
        <5> HIDE JobAssumption DEF RegistryTypes, Unborn, OneAtATime
        <5>3. QED
          BY <3>2, <5>1, <5>2, WriteKeeps
      <4>2. QED
        BY <4>1
    <3>3. QED
      BY <2>1, <3>1, <3>2
  <2>3. QED
    BY <1>7, <2>2 DEF BeatWrite
<1>8. ASSUME NEW p \in Process, BeatEnd(p) PROVE Unborn'
  BY <1>8 DEF BeatEnd
<1>9. ASSUME NEW p \in Process, NEW j \in Job, BeatRender(p, j) PROVE Unborn'
  BY <1>9 DEF BeatRender
<1>10. ASSUME NEW p \in Process, NEW j \in Job, Reap(p, j) PROVE Unborn'
  BY <1>10 DEF Reap, ToReap, Reapable
<1>11. ASSUME NEW p \in Process, UnlinkSnapshot(p) PROVE Unborn'
  BY <1>11 DEF UnlinkSnapshot
<1>12. ASSUME NEW p \in Process, Kill(p) PROVE Unborn'
  BY <1>12 DEF Kill
<1>13. CASE Tick
  BY <1>13 DEF Tick
<1>14. CASE UNCHANGED jobVars
  BY <1>14 DEF jobVars
<1>15. QED
  BY <1>1, <1>2, <1>3, <1>4, <1>5, <1>6, <1>7, <1>8, <1>9, <1>10, <1>11, <1>12, <1>13, <1>14
     DEF JobNext, BeatStep

(* A job that is live was live before, or is started for the first time.   *)
LEMMA LiveBefore ==
    ASSUME RegistryTypes, OneAtATime, Unborn, [JobNext]_jobVars,
           NEW p \in Process, NEW j \in Job, Live(p, j)'
    PROVE  Live(p, j) \/ (CreateJob(p, j) /\ creates[j] = 0)
<1> USE JobAssumption DEF RegistryTypes, Live, RunsHere, Terminal,
            local
<1>1. ASSUME NEW q \in Process, NEW k \in Job, CreateJob(q, k)
      PROVE  Live(p, j) \/ (CreateJob(p, j) /\ creates[j] = 0)
  <2>0. creates' = [creates EXCEPT ![k] = @ + 1] /\ creates'[j] = 1
    BY <1>1 DEF CreateJob
  <2>1. CASE q = p /\ k = j
    <3>1. creates'[j] = creates[j] + 1
      BY <2>0, <2>1
    <3>2. creates[j] = 0
      BY <2>0, <3>1
    <3>3. QED
      BY <1>1, <2>1, <3>2
  <2>2. CASE q # p /\ k = j
    <3>1. creates'[j] = creates[j] + 1
      BY <2>0, <2>2
    <3>2. creates[j] = 0
      BY <2>0, <3>1
    <3>3. status'[p][j] = status[p][j]
      BY <1>1, <2>2 DEF CreateJob
    <3>4. QED
      BY <3>2, <3>3 DEF Unborn, Stranger
  <2>3. CASE q = p /\ k # j
    <3>1. status[p][j] = "running" /\ work[p] = NoJob
      BY <1>1, <2>3 DEF CreateJob
    <3>2. QED
      BY <3>1 DEF OneAtATime
  <2>4. CASE q # p /\ k # j
    <3>1. creates'[j] = creates[j]
      BY <2>0, <2>4
    <3>2. status'[p][j] = status[p][j] /\ listed'[p] = listed[p]
      BY <1>1, <2>4 DEF CreateJob
    <3>3. QED
      BY <2>0, <3>1, <3>2
  <2>5. QED
    BY <2>1, <2>2, <2>3, <2>4
<1>2. ASSUME NEW q \in Process, NEW k \in Job, Clear(q, k)
      PROVE  Live(p, j) \/ (CreateJob(p, j) /\ creates[j] = 0)
  BY <1>2 DEF Clear
<1>3. ASSUME NEW q \in Process, NEW s \in Terminal, FinishJob(q, s)
      PROVE  Live(p, j) \/ (CreateJob(p, j) /\ creates[j] = 0)
  BY <1>3 DEF FinishJob
<1>4. ASSUME NEW q \in Process, Progress(q)
      PROVE  Live(p, j) \/ (CreateJob(p, j) /\ creates[j] = 0)
  BY <1>4 DEF Progress
<1>5. ASSUME NEW q \in Process, WriteOut(q)
      PROVE  Live(p, j) \/ (CreateJob(p, j) /\ creates[j] = 0)
  BY <1>5 DEF WriteOut
<1>6. ASSUME NEW q \in Process, BeatStart(q)
      PROVE  Live(p, j) \/ (CreateJob(p, j) /\ creates[j] = 0)
  BY <1>6 DEF BeatStart
<1>7. ASSUME NEW q \in Process, BeatWrite(q)
      PROVE  Live(p, j) \/ (CreateJob(p, j) /\ creates[j] = 0)
  BY <1>7 DEF BeatWrite
<1>8. ASSUME NEW q \in Process, BeatEnd(q)
      PROVE  Live(p, j) \/ (CreateJob(p, j) /\ creates[j] = 0)
  BY <1>8 DEF BeatEnd
<1>9. ASSUME NEW q \in Process, NEW k \in Job, BeatRender(q, k)
      PROVE  Live(p, j) \/ (CreateJob(p, j) /\ creates[j] = 0)
  BY <1>9 DEF BeatRender
<1>10. ASSUME NEW q \in Process, NEW k \in Job, Reap(q, k)
       PROVE  Live(p, j) \/ (CreateJob(p, j) /\ creates[j] = 0)
  BY <1>10 DEF Reap
<1>11. ASSUME NEW q \in Process, UnlinkSnapshot(q)
       PROVE  Live(p, j) \/ (CreateJob(p, j) /\ creates[j] = 0)
  BY <1>11 DEF UnlinkSnapshot
<1>12. ASSUME NEW q \in Process, Kill(q)
       PROVE  Live(p, j) \/ (CreateJob(p, j) /\ creates[j] = 0)
  BY <1>12 DEF Kill
<1>13. CASE Tick
  BY <1>13 DEF Tick
<1>14. CASE UNCHANGED jobVars
  BY <1>14 DEF jobVars
<1>15. QED
  BY <1>1, <1>2, <1>3, <1>4, <1>5, <1>6, <1>7, <1>8, <1>9, <1>10, <1>11, <1>12, <1>13, <1>14
     DEF JobNext, BeatStep

(* A snapshot that missed one beat is not stale yet.                       *)
LEMMA NotYetStale == \A a \in Nat, n \in Nat \ {0} : a <= 1 => ~(a > n)
  OBVIOUS

(* A heartbeat thread makes nobody speak of the job who did not before.    *)
LEMMA LoneKept ==
    ASSUME NEW p \in Process, NEW j \in Job, Lone(p, j),
           UNCHANGED <<status, work, out, clearing>>,
           \A r \in Process : former[r][j] = "none" => former'[r][j] = "none",
           NEW q \in Process, \A r \in Process : r # q => heart'[r] = heart[r],
           heart'[q].left \subseteq heart[q].left,
           heart'[q].job = j => q = p /\ heart'[q].as = "running"
    PROVE  Lone(p, j)'
<1>1. ASSUME NEW r \in Process, r # p PROVE Stranger(r, j)'
  <2>1. Stranger(r, j)
    BY <1>1 DEF Lone
  <2>2. heart'[r].job # j /\ j \notin heart'[r].left /\ former'[r][j] = "none"
    BY <1>1, <2>1 DEF Stranger
  <2>3. QED
    BY <2>1, <2>2 DEF Stranger
<1>2. heart'[p].job = j => heart'[p].as = "running"
  BY DEF Lone
<1>3. QED
  BY <1>1, <1>2 DEF Lone

(* Its snapshot stays: the steps of others spare it, and the heartbeat of  *)
(* the process writes it once in each interval.                            *)
LEMMA KeptAliveStep ==
    ASSUME RegistryTypes, OneAtATime, [JobNext]_jobVars,
           NEW p \in Process, NEW j \in Job,
           Live(p, j), Live(p, j)', Lone(p, j), Fresh(p, j)
    PROVE  Lone(p, j)' /\ Fresh(p, j)'
<1> USE JobAssumption DEF RegistryTypes, Live, RunsHere, Lone, Fresh, Stranger
<1>a. /\ work[p] = j /\ j # NoJob /\ p \notin Faulty /\ creates[j] = 1 /\ creates'[j] = 1
      /\ status[p][j] = "running" /\ status'[p][j] = "running"
  BY DEF OneAtATime
<1>b. ~ReadsDone(snapshot[j]) /\ ~Reapable(snapshot[j])
  <2>1. CASE snapshot[j] = NoSnapshot
    BY <2>1 DEF ReadsDone, Reapable
  <2>2. CASE snapshot[j] # NoSnapshot
    <3>1. snapshot[j] \in Snapshot /\ snapshot[j].age <= 1 /\ snapshot[j].as = "running"
      BY <2>2
    <3>2. snapshot[j].age \in Nat /\ StaleAfter \in Nat \ {0}
      BY <3>1 DEF Snapshot
    <3>4. ~(snapshot[j].age > StaleAfter)
      BY <3>1, <3>2, NotYetStale
    <3>5. QED
      BY <3>1, <3>4 DEF ReadsDone, Reapable, ReadsActive, Stale
  <2>3. QED
    BY <2>1, <2>2
<1>c. ASSUME NEW k \in Job, NEW as \in {"none", "running"} \cup Terminal, k # j,
             Write(k, as) \/ UNCHANGED snapshot
      PROVE  snapshot'[j] = snapshot[j]
  <2>1. CASE UNCHANGED snapshot
    BY <2>1
  <2>2. CASE Write(k, as)
    <3>1. /\ snapshot[j] = NoSnapshot => snapshot'[j] = NoSnapshot
          /\ ReadsActive(snapshot[j]) => snapshot'[j] = snapshot[j]
      <4>1. snapshot \in [Job -> Snapshot \cup {NoSnapshot}]
        OBVIOUS
      <4> HIDE JobAssumption DEF RegistryTypes, Live, Lone, Fresh
      <4>2. QED
        BY <1>c, <2>2, <4>1, WriteKeeps
    <3>2. QED
      BY <3>1, <1>b DEF ReadsDone
  <2>3. QED
    BY <1>c, <2>1, <2>2
<1>d. ASSUME Write(j, "running")
      PROVE  snapshot'[j] # NoSnapshot /\ snapshot'[j].as = "running" /\ snapshot'[j].age = 0
  <2>1. snapshot'[j] = [as |-> "running", age |-> 0] /\ snapshot'[j] # NoSnapshot
    <3>1. snapshot \in [Job -> Snapshot \cup {NoSnapshot}]
      OBVIOUS
    <3> HIDE JobAssumption DEF RegistryTypes, Live, Lone, Fresh
    <3>2. QED
      BY <1>d, <3>1, WriteKeeps
  <2>2. QED
    BY <2>1
<1>e. ASSUME UNCHANGED snapshot PROVE snapshot'[j] = snapshot[j]
  BY <1>e
<1>1. ASSUME NEW q \in Process, NEW k \in Job, CreateJob(q, k)
      PROVE  Lone(p, j)' /\ Fresh(p, j)'
  <2>1. q # p /\ k # j
    BY <1>1, <1>a DEF CreateJob
  <2>2. QED
    BY <1>1, <1>a, <2>1 DEF CreateJob, local
<1>2. ASSUME NEW q \in Process, NEW k \in Job, Clear(q, k)
      PROVE  Lone(p, j)' /\ Fresh(p, j)'
  BY <1>2, <1>a, <1>b DEF Clear, local
<1>3. ASSUME NEW q \in Process, NEW s \in Terminal, FinishJob(q, s)
      PROVE  Lone(p, j)' /\ Fresh(p, j)'
  <2>1. q # p
    BY <1>3, <1>a DEF FinishJob, Terminal
  <2>2. QED
    BY <1>3, <1>a, <2>1 DEF FinishJob, Terminal
<1>4. ASSUME NEW q \in Process, Progress(q) PROVE Lone(p, j)' /\ Fresh(p, j)'
  BY <1>4, <1>a DEF Progress, local
<1>5. ASSUME NEW q \in Process, WriteOut(q) PROVE Lone(p, j)' /\ Fresh(p, j)'
  <2>1. out[q].job \in Job /\ out[q].as \in {"none", "running"} \cup Terminal
    BY <1>5 DEF WriteOut, OneAtATime
  <2>2. CASE q = p
    <3>1. out[p].job = j
      BY <1>5, <1>a, <2>2 DEF WriteOut, OneAtATime
    <3>2. snapshot'[j] # NoSnapshot /\ snapshot'[j].as = "running" /\ snapshot'[j].age = 0
      BY <1>5, <1>a, <1>d, <2>2, <3>1 DEF WriteOut, WriteOrFail
    <3>3. QED
      BY <1>5, <1>a, <2>2, <3>1, <3>2 DEF WriteOut, NoOut, Terminal,
         local
  <2>3. CASE q # p
    <3>1. snapshot'[j] = snapshot[j]
      BY <1>5, <1>c, <2>1, <2>3 DEF WriteOut, WriteOrFail
    <3>2. QED
      BY <1>5, <1>a, <2>3, <3>1 DEF WriteOut, NoOut, local
  <2>4. QED
    BY <2>2, <2>3
<1>6. ASSUME NEW q \in Process, BeatStart(q) PROVE Lone(p, j)' /\ Fresh(p, j)'
  <2>1. \A r \in Process : r # q => heart'[r] = heart[r]
    BY <1>6 DEF BeatStart
  <2>2. heart'[q].left = RunningAt(q) /\ heart'[q].job = NoJob
    BY <1>6 DEF BeatStart, Asleep
  <2>3. CASE q = p
    <3>1. j \in heart'[p].left
      BY <2>2, <2>3 DEF RunningAt
    <3>2. QED
      BY <1>6, <1>a, <2>1, <2>2, <2>3, <3>1 DEF BeatStart, local
  <2>4. CASE q # p
    <3>1. j \notin heart'[q].left
      BY <2>2, <2>4 DEF RunningAt
    <3>2. QED
      BY <1>6, <1>a, <2>1, <2>2, <2>4, <3>1 DEF BeatStart, local
  <2>5. QED
    BY <2>3, <2>4
<1>7. ASSUME NEW q \in Process, BeatWrite(q) PROVE Lone(p, j)' /\ Fresh(p, j)'
  <2>1. heart[q].job \in Job /\ heart[q].as \in {"none", "running"} \cup Terminal
    BY <1>7 DEF BeatWrite
  <2>2. /\ heart'[q].left = heart[q].left /\ heart'[q].job = NoJob
        /\ heart'[q].awake = heart[q].awake
        /\ \A r \in Process : r # q => heart'[r] = heart[r]
    BY <1>7 DEF BeatWrite
  <2>3. CASE q = p /\ heart[p].job = j
    <3>1. snapshot'[j] # NoSnapshot /\ snapshot'[j].as = "running" /\ snapshot'[j].age = 0
      BY <1>7, <1>a, <1>d, <2>3 DEF BeatWrite, WriteOrFail
    <3>2. QED
      BY <1>7, <1>a, <2>2, <2>3, <3>1 DEF BeatWrite, local
  <2>4. CASE q = p /\ heart[p].job # j
    <3>1. snapshot'[j] = snapshot[j]
      BY <1>7, <1>c, <2>1, <2>4 DEF BeatWrite, WriteOrFail
    <3>2. QED
      BY <1>7, <1>a, <2>2, <2>4, <3>1 DEF BeatWrite, local
  <2>5. CASE q # p
    <3>1. snapshot'[j] = snapshot[j]
      BY <1>7, <1>c, <2>1, <2>5 DEF BeatWrite, WriteOrFail
    <3>2. QED
      BY <1>7, <1>a, <2>2, <2>5, <3>1 DEF BeatWrite, local
  <2>6. QED
    BY <2>3, <2>4, <2>5
<1>8. ASSUME NEW q \in Process, BeatEnd(q) PROVE Lone(p, j)' /\ Fresh(p, j)'
  <2>1. /\ heart'[q].left = {} /\ heart'[q].job = NoJob /\ heart'[q].awake = FALSE
        /\ \A r \in Process : r # q => heart'[r] = heart[r]
    BY <1>8 DEF BeatEnd, Asleep
  <2>2. UNCHANGED <<status, listed, snapshot, work, out, former, clearing, creates>>
    BY <1>8 DEF BeatEnd, local
  <2>3. Lone(p, j)'
    <3>1. heart'[q].left \subseteq heart[q].left /\ heart'[q].job # j
      BY <1>a, <2>1
    <3> HIDE DEF RegistryTypes, Live, RunsHere, Lone, Fresh, Stranger
    <3>2. QED
      BY <2>1, <2>2, <3>1, LoneKept
  <2>4. CASE q = p
    <3>1. snapshot[j] # NoSnapshot => snapshot[j].age = 0
      BY <1>8, <1>a, <2>4 DEF BeatEnd
    <3>2. QED
      BY <2>1, <2>2, <2>3, <2>4, <3>1
  <2>5. CASE q # p
    <3>1. p \in beaten' => p \in beaten
      BY <1>8, <2>5 DEF BeatEnd
    <3>2. QED
      BY <2>1, <2>2, <2>3, <2>5, <3>1
  <2>6. QED
    BY <2>4, <2>5
<1>9. ASSUME NEW q \in Process, NEW k \in Job, BeatRender(q, k)
      PROVE  Lone(p, j)' /\ Fresh(p, j)'
  <2>1. heart' = [heart EXCEPT ![q] = [heart[q] EXCEPT !.left = @ \ {k}, !.job = k,
                                         !.as = HeldStatus(q, k)]]
    BY <1>9 DEF BeatRender
  <2>2. /\ heart'[q].left = heart[q].left \ {k} /\ heart'[q].job = k
        /\ heart'[q].as = HeldStatus(q, k) /\ heart'[q].awake = heart[q].awake
        /\ \A r \in Process : r # q => heart'[r] = heart[r]
    BY <2>1
  <2>3. heart[q].job = NoJob /\ k \in heart[q].left
    BY <1>9 DEF BeatRender
  <2>4. UNCHANGED <<status, listed, snapshot, work, out, clearing, beaten, creates>>
    BY <1>9 DEF BeatRender, local
  <2>5. Lone(p, j)'
    <3>1. k = j => q = p
      BY <2>3
    <3>2. heart'[q].left \subseteq heart[q].left
      BY <2>2
    <3>3. heart'[q].job = j => q = p /\ heart'[q].as = "running"
      BY <1>a, <2>2, <3>1 DEF HeldStatus
    <3>4. \A r \in Process : former[r][j] = "none" => former'[r][j] = "none"
      BY <1>9 DEF BeatRender
    <3> HIDE DEF RegistryTypes, Live, RunsHere, Lone, Fresh, Stranger
    <3>5. QED
      BY <2>2, <2>4, <3>2, <3>3, <3>4, LoneKept
  <2>6. Fresh(p, j)'
    <3> HIDE DEF RegistryTypes, Live, Lone
    <3>1. heart'[p].awake /\ j \notin heart'[p].left /\ heart'[p].job # j
            => heart[p].awake /\ j \notin heart[p].left /\ heart[p].job # j
      <4>1. CASE q = p
        BY <1>a, <2>2, <2>3, <4>1
      <4>2. CASE q # p
        BY <2>2, <4>2
      <4>3. QED
        BY <4>1, <4>2
    <3>2. QED
      BY <2>4, <3>1
  <2>7. QED
    BY <2>5, <2>6
<1>10. ASSUME NEW q \in Process, NEW k \in Job, Reap(q, k)
       PROVE  Lone(p, j)' /\ Fresh(p, j)'
  <2>1. heart' = [heart EXCEPT ![q] = [heart[q] EXCEPT !.job = k, !.as = "failed"]]
    BY <1>10 DEF Reap
  <2>2. /\ heart'[q].left = heart[q].left /\ heart'[q].job = k
        /\ heart'[q].awake = heart[q].awake
        /\ \A r \in Process : r # q => heart'[r] = heart[r]
    BY <2>1
  <2>3. heart[q].job = NoJob /\ k # j
    BY <1>10, <1>b DEF Reap, ToReap
  <2>4. UNCHANGED <<status, listed, snapshot, work, out, former, clearing, beaten, creates>>
    BY <1>10 DEF Reap, local
  <2>5. Lone(p, j)'
    <3> HIDE DEF RegistryTypes, Live, RunsHere, Lone, Fresh, Stranger
    <3>1. QED
      BY <2>2, <2>3, <2>4, LoneKept
  <2>6. Fresh(p, j)'
    BY <1>a, <2>2, <2>3, <2>4
  <2>7. QED
    BY <2>5, <2>6
<1>11. ASSUME NEW q \in Process, UnlinkSnapshot(q) PROVE Lone(p, j)' /\ Fresh(p, j)'
  <2>1. snapshot'[j] = snapshot[j]
    BY <1>11 DEF UnlinkSnapshot
  <2>2. \A r \in Process : clearing'[r] # j
    BY <1>11, <1>a DEF UnlinkSnapshot
  <2>3. QED
    BY <1>11, <1>a, <2>1, <2>2 DEF UnlinkSnapshot, local
<1>12. ASSUME NEW q \in Process, Kill(q) PROVE Lone(p, j)' /\ Fresh(p, j)'
  <2>1. q # p
    BY <1>12, <1>a DEF Kill
  <2>2. \A r \in Process : r # q => heart'[r] = heart[r] /\ out'[r] = out[r]
    BY <1>12 DEF Kill
  <2>3. heart'[q].left = {} /\ heart'[q].job = NoJob /\ out'[q].job = NoJob
    BY <1>12 DEF Kill, Asleep, NoOut
  <2>4. QED
    BY <1>12, <1>a, <2>1, <2>2, <2>3 DEF Kill
<1>13. CASE Tick
  <2>1. p \in beaten /\ ~heart[p].awake /\ beaten' = {}
    BY <1>13, <1>a DEF Tick, OneAtATime
  <2>2. snapshot[j] = NoSnapshot => snapshot'[j] = NoSnapshot
    BY <1>13 DEF Tick
  <2>3. ASSUME snapshot[j] # NoSnapshot
        PROVE  snapshot'[j] # NoSnapshot /\ snapshot'[j].as = "running" /\ snapshot'[j].age = 1
    <3>1. snapshot[j].as = "running" /\ snapshot[j].age = 0 /\ snapshot[j] \in Snapshot
      BY <2>1, <2>3
    <3>2. ~Stale(snapshot[j])
      BY <3>1 DEF Stale
    <3>3. snapshot'[j] = [snapshot[j] EXCEPT !.age = @ + 1]
      BY <1>13, <2>3, <3>2 DEF Tick
    <3>4. snapshot'[j] \in Snapshot /\ snapshot'[j].as = "running" /\ snapshot'[j].age = 1
      <4> HIDE DEF RegistryTypes
      <4>1. snapshot'[j] \in Snapshot
        BY <3>1, <3>3, Aged
      <4>2. snapshot'[j].as = snapshot[j].as /\ snapshot'[j].age = snapshot[j].age + 1
        BY <3>1, <3>3 DEF Snapshot
      <4>3. QED
        BY <3>1, <4>1, <4>2
    <3>5. QED
      BY <3>4
  <2>4. UNCHANGED <<status, listed, work, out, heart, former, clearing, creates>>
    BY <1>13 DEF Tick, local
  <2>5. QED
    BY <1>a, <2>1, <2>2, <2>3, <2>4
<1>14. CASE UNCHANGED jobVars
  BY <1>14 DEF jobVars, local
<1>15. QED
  BY <1>1, <1>2, <1>3, <1>4, <1>5, <1>6, <1>7, <1>8, <1>9, <1>10, <1>11, <1>12, <1>13, <1>14
     DEF JobNext, BeatStep

-----------------------------------------------------------------------------
(* What is listed has its place in the order, and what runs is listed.     *)
Placed == \A p \in Process : \A j \in listed[p] :
            \E i \in 1..Len(order[p]) : order[p][i] = j
Kept   == \A p \in Process :
            work[p] # NoJob /\ status[p][work[p]] = "running" => work[p] \in listed[p]

(* An eviction drops an id and its entry together, and a clear drops the   *)
(* entries of what it unlists only.                                        *)
LEMMA PlacedStep ==
    ASSUME RegistryTypes, Placed, [JobNext]_jobVars PROVE Placed'
<1> USE DEF RegistryTypes, Placed
<1>1. ASSUME NEW p \in Process, NEW j \in Job, CreateJob(p, j) PROVE Placed'
  <2> DEFINE queue == Append(order[p], j)
             jobs  == listed[p] \cup {j}
             st    == [status[p] EXCEPT ![j] = "running"]
             gone  == Evicted(queue, jobs, st)
             left  == Entries(queue, DOMAIN queue \ gone)
  <2>1. /\ order' = [order EXCEPT ![p] = left]
        /\ listed' = [listed EXCEPT ![p] = jobs \ {queue[i] : i \in gone}]
    BY <1>1 DEF CreateJob
  <2>2. queue \in Seq(Job) /\ jobs \in SUBSET Job
    OBVIOUS
  <2>3. \A i \in DOMAIN queue \ gone : \E n \in 1..Len(left) : left[n] = queue[i]
    <3> HIDE DEF queue, jobs, st, RegistryTypes, Placed
    <3>1. QED
      BY <2>2, EvictionSpares
  <2>4. \A k \in jobs : \E i \in DOMAIN queue : queue[i] = k
    <3>1. queue[Len(order[p]) + 1] = j /\ Len(order[p]) + 1 \in DOMAIN queue
      OBVIOUS
    <3>2. \A i \in 1..Len(order[p]) : queue[i] = order[p][i] /\ i \in DOMAIN queue
      OBVIOUS
    <3>3. \A k \in listed[p] : \E i \in 1..Len(order[p]) : order[p][i] = k
      OBVIOUS
    <3> HIDE DEF RegistryTypes, Placed, queue
    <3>4. \A k \in listed[p] : \E i \in DOMAIN queue : queue[i] = k
      BY <3>2, <3>3
    <3>5. QED
      BY <3>1, <3>4
  <2> HIDE DEF queue, gone, left, jobs, st
  <2>5. \A k \in listed'[p] : \E n \in 1..Len(order'[p]) : order'[p][n] = k
    <3>1. listed'[p] = jobs \ {queue[i] : i \in gone} /\ order'[p] = left
      BY <2>1
    <3>2. ASSUME NEW k \in listed'[p] PROVE \E n \in 1..Len(left) : left[n] = k
      <4>1. PICK i \in DOMAIN queue : queue[i] = k
        BY <2>4, <3>1, <3>2
      <4>2. i \notin gone
        BY <3>1, <3>2, <4>1
      <4>3. QED
        BY <2>3, <4>1, <4>2
    <3>3. QED
      BY <3>1, <3>2
  <2>6. \A q \in Process \ {p} : listed'[q] = listed[q] /\ order'[q] = order[q]
    BY <2>1
  <2> HIDE DEF RegistryTypes
  <2>7. QED
    BY <2>5, <2>6
<1>2. ASSUME NEW p \in Process, NEW j \in Job, Clear(p, j) PROVE Placed'
  <2> DEFINE gone == {k \in {j} \cap listed[p] : status[p][k] \in Terminal}
             kept == {i \in DOMAIN order[p] : order[p][i] \in listed[p] \ gone}
             left == Entries(order[p], kept)
  <2>1. /\ order' = [order EXCEPT ![p] = IF gone = {} THEN @ ELSE left]
        /\ listed' = [listed EXCEPT ![p] = @ \ gone]
    BY <1>2 DEF Clear
  <2>2. \A i \in kept : \E n \in 1..Len(left) : left[n] = order[p][i]
    <3>1. order[p] \in Seq(Job) /\ kept \in SUBSET (DOMAIN order[p])
      OBVIOUS
    <3> HIDE DEF kept, RegistryTypes, Placed
    <3>2. QED
      BY <3>1, EntriesKept
  <2>3. ASSUME NEW k \in listed[p] \ gone PROVE \E i \in kept : order[p][i] = k
    <3>1. PICK i \in 1..Len(order[p]) : order[p][i] = k
      OBVIOUS
    <3>2. QED
      BY <2>3, <3>1
  <2> HIDE DEF gone, kept, left
  <2>4. \A k \in listed'[p] : \E n \in 1..Len(order'[p]) : order'[p][n] = k
    <3>1. listed'[p] = listed[p] \ gone
      BY <2>1
    <3>2. CASE gone = {}
      BY <2>1, <3>1, <3>2
    <3>3. CASE gone # {}
      <4>1. order'[p] = left
        BY <2>1, <3>3
      <4>2. ASSUME NEW k \in listed[p] \ gone PROVE \E n \in 1..Len(left) : left[n] = k
        <5>1. PICK i \in kept : order[p][i] = k
          BY <2>3, <4>2
        <5>2. QED
          BY <2>2, <5>1
      <4>3. QED
        BY <3>1, <4>1, <4>2
    <3>4. QED
      BY <3>2, <3>3
  <2>5. \A q \in Process \ {p} : listed'[q] = listed[q] /\ order'[q] = order[q]
    BY <2>1
  <2> HIDE DEF RegistryTypes
  <2>6. QED
    BY <2>4, <2>5
<1>3. ASSUME NEW p \in Process, Kill(p) PROVE Placed'
  BY <1>3 DEF Kill
<1>4. CASE UNCHANGED <<order, listed>>
  BY <1>4
<1> HIDE DEF RegistryTypes, Placed
<1>5. QED
  BY <1>1, <1>2, <1>3, <1>4
     DEF JobNext, jobVars, local, FinishJob, Progress, WriteOut, BeatStep, BeatStart, BeatRender,
         BeatWrite, Reap, BeatEnd, UnlinkSnapshot, Tick

(* A job is listed as it is started, and neither an eviction nor a clear   *)
(* unlists one that has not finished.                                      *)
LEMMA KeptStep ==
    ASSUME RegistryTypes, OneAtATime, Kept, [JobNext]_jobVars PROVE Kept'
<1> USE JobAssumption DEF RegistryTypes, Kept, local
<1>1. ASSUME NEW p \in Process, NEW j \in Job, CreateJob(p, j) PROVE Kept'
  <2> DEFINE queue == Append(order[p], j)
             jobs  == listed[p] \cup {j}
             st    == [status[p] EXCEPT ![j] = "running"]
             gone  == Evicted(queue, jobs, st)
  <2>1. /\ listed' = [listed EXCEPT ![p] = jobs \ {queue[i] : i \in gone}]
        /\ status' = [status EXCEPT ![p] = st] /\ work' = [work EXCEPT ![p] = j]
    BY <1>1 DEF CreateJob
  <2>2. queue \in Seq(Job) /\ jobs \in SUBSET Job
    OBVIOUS
  <2>3. \A i \in gone : st[queue[i]] \in Terminal
    <3> HIDE DEF queue, jobs, st, RegistryTypes, Kept
    <3>1. QED
      BY <2>2, EvictionSpares
  <2>4. st[j] = "running" /\ "running" \notin Terminal /\ j \in jobs
    BY DEF Terminal
  <2> HIDE DEF queue, gone, jobs, st
  <2>5. j \in listed'[p]
    BY <2>1, <2>3, <2>4
  <2>6. QED
    BY <2>1, <2>5
<1>2. ASSUME NEW p \in Process, NEW j \in Job, Clear(p, j) PROVE Kept'
  <2>1. UNCHANGED <<status, work>>
    BY <1>2 DEF Clear
  <2>2. \A q \in Process, k \in Job :
          k \in listed[q] /\ status[q][k] = "running" => k \in listed'[q]
    BY <1>2 DEF Clear, Terminal
  <2>3. QED
    BY <2>1, <2>2
<1>3. ASSUME NEW p \in Process, NEW s \in Terminal, FinishJob(p, s) PROVE Kept'
  BY <1>3 DEF FinishJob, Terminal
<1>4. ASSUME NEW p \in Process, WriteOut(p) PROVE Kept'
  BY <1>4 DEF WriteOut
<1>5. ASSUME NEW p \in Process, Kill(p) PROVE Kept'
  BY <1>5 DEF Kill
<1>6. CASE UNCHANGED <<status, listed, work>>
  BY <1>6
<1> HIDE DEF RegistryTypes, Kept
<1>7. QED
  BY <1>1, <1>2, <1>3, <1>4, <1>5, <1>6
     DEF JobNext, jobVars, Progress, BeatStep, BeatStart, BeatRender,
         BeatWrite, Reap, BeatEnd, UnlinkSnapshot, Tick

-----------------------------------------------------------------------------
(* Nothing that was not started is beaten, rendered or written, and no age *)
(* passes the first at which a snapshot is stale.                          *)
Spoken == [as: {"running"} \cup Terminal, age: 0..(StaleAfter + 1)]

WrittenOnly ==
    /\ snapshot \in [Job -> Spoken \cup {NoSnapshot}]
    /\ \A p \in Process :
         /\ out[p].job # NoJob => out[p].as # "none"
         /\ heart[p].job # NoJob => heart[p].as # "none"
         /\ \A j \in heart[p].left : status[p][j] # "none"
    /\ beaten \subseteq Process \ Faulty

LEMMA AgedAndSpoken ==
    \A f \in Spoken : f.age <= StaleAfter => [f EXCEPT !.age = @ + 1] \in Spoken
<1> SUFFICES ASSUME NEW f \in Spoken, f.age <= StaleAfter
             PROVE  [f EXCEPT !.age = @ + 1] \in Spoken
  OBVIOUS
<1>1. f.age + 1 \in 0..(StaleAfter + 1)
  BY JobAssumption DEF Spoken
<1>2. QED
  BY <1>1 DEF Spoken

LEMMA WriteSpeaks ==
    ASSUME snapshot \in [Job -> Spoken \cup {NoSnapshot}],
           NEW j \in Job, NEW as \in {"running"} \cup Terminal,
           Write(j, as) \/ UNCHANGED snapshot
    PROVE  snapshot' \in [Job -> Spoken \cup {NoSnapshot}]
<1>1. CASE UNCHANGED snapshot
  BY <1>1
<1>2. CASE Write(j, as)
  <2> DEFINE now == [snapshot EXCEPT ![j] = [as |-> as, age |-> 0]]
  <2>1. PICK D : snapshot' = [k \in Job |-> IF k \in D THEN NoSnapshot ELSE now[k]]
    BY <1>2 DEF Write
  <2>2. [as |-> as, age |-> 0] \in Spoken
    <3>1. 0 \in 0..(StaleAfter + 1)
      BY JobAssumption
    <3>2. QED
      BY <3>1 DEF Spoken
  <2>3. now \in [Job -> Spoken \cup {NoSnapshot}]
    BY <2>2
  <2>4. QED
    BY <2>1, <2>3
<1>3. QED
  BY <1>1, <1>2

LEMMA WrittenOnlyStep ==
    ASSUME RegistryTypes, OneAtATime, WrittenOnly, [JobNext]_jobVars
    PROVE  WrittenOnly'
<1> USE JobAssumption DEF RegistryTypes, WrittenOnly, Terminal, local, NoOut, Asleep
<1>1. ASSUME NEW p \in Process, NEW j \in Job, CreateJob(p, j) PROVE WrittenOnly'
  BY <1>1 DEF CreateJob
<1>2. ASSUME NEW p \in Process, NEW j \in Job, Clear(p, j) PROVE WrittenOnly'
  BY <1>2 DEF Clear
<1>3. ASSUME NEW p \in Process, NEW s \in Terminal, FinishJob(p, s) PROVE WrittenOnly'
  BY <1>3 DEF FinishJob
<1>4. ASSUME NEW p \in Process, Progress(p) PROVE WrittenOnly'
  BY <1>4 DEF Progress
<1>5. ASSUME NEW p \in Process, WriteOut(p) PROVE WrittenOnly'
  <2>1. out[p].job \in Job /\ out[p].as \in {"running"} \cup Terminal
    BY <1>5 DEF OneAtATime, WriteOut
  <2>2. snapshot' \in [Job -> Spoken \cup {NoSnapshot}]
    BY <1>5, <2>1, WriteSpeaks DEF WriteOut, WriteOrFail
  <2>3. QED
    BY <1>5, <2>2 DEF WriteOut
<1>6. ASSUME NEW p \in Process, BeatStart(p) PROVE WrittenOnly'
  <2>1. heart'[p] = [awake |-> TRUE, left |-> RunningAt(p), keep |-> RunningAt(p),
                     job |-> NoJob, as |-> "none"]
        /\ \A q \in Process : q # p => heart'[q] = heart[q]
    BY <1>6 DEF BeatStart
  <2>2. \A j \in RunningAt(p) : status[p][j] # "none"
    BY DEF RunningAt, RunsHere
  <2>3. QED
    BY <1>6, <2>1, <2>2 DEF BeatStart
<1>7. ASSUME NEW p \in Process, BeatWrite(p) PROVE WrittenOnly'
  <2>1. heart[p].job \in Job /\ heart[p].as \in {"running"} \cup Terminal
    BY <1>7 DEF BeatWrite
  <2>2. snapshot' \in [Job -> Spoken \cup {NoSnapshot}]
    BY <1>7, <2>1, WriteSpeaks DEF BeatWrite, WriteOrFail
  <2>3. heart'[p].left = heart[p].left /\ heart'[p].job = NoJob
        /\ \A q \in Process : q # p => heart'[q] = heart[q]
    BY <1>7 DEF BeatWrite
  <2>4. UNCHANGED <<status, out, beaten>>
    BY <1>7 DEF BeatWrite
  <2>5. \A q \in Process : /\ heart'[q].left = heart[q].left
                           /\ heart'[q].job # NoJob => q # p
    BY <2>3
  <2>6. QED
    BY <2>2, <2>3, <2>4, <2>5
<1>8. ASSUME NEW p \in Process, BeatEnd(p) PROVE WrittenOnly'
  BY <1>8 DEF BeatEnd
<1>9. ASSUME NEW p \in Process, NEW j \in Job, BeatRender(p, j) PROVE WrittenOnly'
  <2>1. heart'[p].left = heart[p].left \ {j} /\ heart'[p].as = HeldStatus(p, j)
        /\ \A q \in Process : q # p => heart'[q] = heart[q]
    BY <1>9 DEF BeatRender
  <2>2. UNCHANGED <<status, snapshot, out, beaten>> /\ j \in heart[p].left
    BY <1>9 DEF BeatRender
  <2>3. HeldStatus(p, j) # "none"
    BY <2>2 DEF HeldStatus
  <2>4. QED
    BY <2>1, <2>2, <2>3
<1>10. ASSUME NEW p \in Process, NEW j \in Job, Reap(p, j) PROVE WrittenOnly'
  <2>1. heart'[p].left = heart[p].left /\ heart'[p].as = "failed"
        /\ \A q \in Process : q # p => heart'[q] = heart[q]
    BY <1>10 DEF Reap
  <2>2. UNCHANGED <<status, snapshot, out, beaten>>
    BY <1>10 DEF Reap
  <2>3. \A q \in Process : /\ heart'[q].left = heart[q].left
                           /\ heart'[q].job # NoJob => heart'[q].as # "none"
    BY <2>1
  <2>4. QED
    BY <2>2, <2>3
<1>11. ASSUME NEW p \in Process, UnlinkSnapshot(p) PROVE WrittenOnly'
  BY <1>11 DEF UnlinkSnapshot
<1>12. ASSUME NEW p \in Process, Kill(p) PROVE WrittenOnly'
  BY <1>12 DEF Kill
<1>13. CASE Tick
  <2>1. ASSUME NEW j \in Job, snapshot[j] # NoSnapshot, ~Stale(snapshot[j])
        PROVE  [snapshot[j] EXCEPT !.age = @ + 1] \in Spoken
    <3>1. snapshot[j] \in Spoken
      BY <2>1
    <3>2. snapshot[j].age <= StaleAfter
      BY <2>1, <3>1 DEF Stale, Spoken
    <3> HIDE DEF RegistryTypes, WrittenOnly
    <3>3. QED
      BY <3>1, <3>2, AgedAndSpoken
  <2>2. snapshot' \in [Job -> Spoken \cup {NoSnapshot}]
    BY <1>13, <2>1 DEF Tick
  <2>3. QED
    BY <1>13, <2>2 DEF Tick
<1>14. CASE UNCHANGED jobVars
  BY <1>14 DEF jobVars
<1>15. QED
  BY <1>1, <1>2, <1>3, <1>4, <1>5, <1>6, <1>7, <1>8, <1>9, <1>10, <1>11, <1>12, <1>13, <1>14
     DEF JobNext, BeatStep

(* The inductive invariant of RunningJobsShow.                             *)
RegistryInv == RegistryTypes /\ OneAtATime /\ Unborn /\ KeptAlive

(* The whole invariant is inductive.                                       *)
LEMMA RegistryInvariant ==
    ASSUME RegistryInv, [JobNext]_jobVars PROVE RegistryInv'
<1>1. RegistryTypes' /\ OneAtATime' /\ Unborn'
  BY RegistryTypeStep, OneAtATimeStep, UnbornStep DEF RegistryInv
<1>2. ASSUME NEW p \in Process, NEW j \in Job, Live(p, j)'
      PROVE  Lone(p, j)' /\ Fresh(p, j)'
  <2>1. CASE Live(p, j)
    <3>1. Lone(p, j) /\ Fresh(p, j)
      BY <2>1 DEF RegistryInv, KeptAlive
    <3>2. QED
      BY <1>2, <2>1, <3>1, KeptAliveStep DEF RegistryInv
  <2>2. CASE CreateJob(p, j) /\ creates[j] = 0
    <3>1. /\ snapshot[j] = NoSnapshot /\ \A q \in Process : Stranger(q, j) /\ clearing[q] # j
          /\ RegistryTypes
      BY <2>2 DEF RegistryInv, Unborn
    <3>2. /\ status' = [status EXCEPT ![p] = [status[p] EXCEPT ![j] = "running"]]
          /\ work' = [work EXCEPT ![p] = j]
          /\ out' = [out EXCEPT ![p] = [job |-> j, as |-> "running"]]
          /\ UNCHANGED <<snapshot, heart, clearing>>
          /\ \A q \in Process : former'[q][j] = former[q][j]
      BY <2>2, <3>1 DEF CreateJob, RegistryTypes, Stranger
    <3>3. out'[p].job = j /\ out'[p].as = "running"
      BY <3>1, <3>2 DEF RegistryTypes
    <3>4. Lone(p, j)'
      BY <3>1, <3>2, <3>3 DEF Lone, Stranger, RegistryTypes
    <3>5. Fresh(p, j)'
      BY <3>1, <3>2, <3>3 DEF Fresh
    <3>6. QED
      BY <3>4, <3>5
  <2>3. QED
    BY <1>2, <2>1, <2>2, LiveBefore DEF RegistryInv
<1>3. QED
  BY <1>1, <1>2 DEF RegistryInv, KeptAlive

(* The states of the registries, with all that is proved of them.          *)
RegistryInvs == RegistryInv /\ WrittenOnly /\ Placed /\ Kept

LEMMA RegistryHolds == JobSpec => []RegistryInvs
<1>1. JobInit => RegistryInvs
  <2> SUFFICES ASSUME JobInit PROVE RegistryInvs
    OBVIOUS
  <2> USE JobAssumption DEF JobInit
  <2>1. RegistryTypes
    BY DEF RegistryTypes, NoOut, Asleep
  <2>2. OneAtATime
    BY DEF OneAtATime, NoOut, Asleep, Terminal
  <2>3. Unborn
    BY DEF Unborn, Stranger, NoOut, Asleep
  <2>4. KeptAlive
    BY DEF KeptAlive, Live, RunsHere
  <2>5. WrittenOnly
    BY DEF WrittenOnly, NoOut, Asleep
  <2>6. Placed /\ Kept
    BY DEF Placed, Kept
  <2>7. QED
    BY <2>1, <2>2, <2>3, <2>4, <2>5, <2>6 DEF RegistryInv, RegistryInvs
<1>2. RegistryInvs /\ [JobNext]_jobVars => RegistryInvs'
  BY RegistryInvariant, WrittenOnlyStep, PlacedStep, KeptStep DEF RegistryInv, RegistryInvs
<1>3. QED
  BY <1>1, <1>2, PTL DEF JobSpec

(* Registries, snapshots and threads keep their types: a queue of ids is   *)
(* one of jobs whatever is evicted, and no thread writes a job that was    *)
(* never started (JobRegistry.create, clear, _heartbeat).                  *)
THEOREM JobTypeCorrect == JobSpec => []JobTypeOK
<1>1. RegistryInvs => JobTypeOK
  <2> SUFFICES ASSUME RegistryInvs PROVE JobTypeOK
    OBVIOUS
  <2> USE DEF RegistryInvs, RegistryInv, RegistryTypes, WrittenOnly
  <2>1. \A j \in Job : snapshot[j] # NoSnapshot =>
          /\ snapshot[j].as \in {"running"} \cup Terminal
          /\ snapshot[j].age \in 0..(StaleAfter + 1)
    BY DEF Spoken
  <2>2. \A p \in Process :
          /\ out[p].job # NoJob => out[p].job = work[p] /\ out[p].as # "none"
          /\ heart[p].job # NoJob => heart[p].as \in {"running"} \cup Terminal
    BY DEF OneAtATime, NoOut
  <2>3. {work, clearing} \subseteq [Process -> Job \cup {NoJob}]
    OBVIOUS
  <2>4. QED
    BY <2>1, <2>2, <2>3 DEF JobTypeOK
<1>2. QED
  BY <1>1, RegistryHolds, PTL

(* list() of the process that runs a job finds it: an eviction past the    *)
(* cap drops finished jobs only, though an id may be in the order twice,   *)
(* and a clear takes nothing that runs (JobRegistry._evict, clear).        *)
THEOREM RunningJobsAreListed == JobSpec => []RunningIsListed
<1>1. RegistryInvs => RunningIsListed
  BY DEF RegistryInvs, Placed, Kept, RunningIsListed
<1>2. QED
  BY <1>1, RegistryHolds, PTL

(* While a process runs a job on schedule, the snapshot of the job reads   *)
(* as running in every other process (JobRegistry._heartbeat against       *)
(* reap_stale, _evict and clear), whatever the rest do.                    *)
THEOREM RunningJobsShow == JobSpec => []RunningJobShows
<1>1. RegistryInv => RunningJobShows
  <2> SUFFICES ASSUME RegistryInv, NEW p \in Process \ Faulty, NEW j \in Job,
                      RunsHere(p, j), out[p] = NoOut, creates[j] = 1
               PROVE  ReadsActive(snapshot[j])
    BY DEF RunningJobShows
  <2>1. Fresh(p, j)
    BY DEF RegistryInv, KeptAlive, Live
  <2>2. out[p].job # j
    BY JobAssumption DEF NoOut
  <2>3. /\ snapshot[j] # NoSnapshot
        /\ snapshot[j].as = "running"
        /\ snapshot[j].age <= 1
        /\ snapshot[j] \in Snapshot
    BY <2>1, <2>2 DEF Fresh, RegistryInv, RegistryTypes
  <2>4. ~Stale(snapshot[j])
    BY <2>3, JobAssumption DEF Stale, Snapshot
  <2>5. QED
    BY <2>3, <2>4 DEF ReadsActive
<1>2. RegistryInvs => RegistryInv
  BY DEF RegistryInvs
<1>3. QED
  BY <1>1, <1>2, RegistryHolds, PTL
=============================================================================
