----------------------------- MODULE LocalQueue -----------------------------
(***************************************************************************)
(* The durable index work queue of sync/queue.py: one database row per     *)
(* task, claimed by drain() loops under a visibility timeout.  The log     *)
(* tier's LogQueue (sync/log_queue.py) is the same class over another      *)
(* table.                                                                  *)
(*                                                                         *)
(* Time is relative: the code compares a row's visible_at only with the    *)
(* present moment, so visibleIn[t] is the number of ticks until the row is *)
(* claimable, and a tick of the clock lowers it.  The order of enqueued_at *)
(* is the relation older.  A worker is one drain() loop; its local         *)
(* variables are phase (the program counter), held (the IndexTask it       *)
(* carries) and heldAttempts (the attempts that object was built with).    *)
(***************************************************************************)
EXTENDS Naturals

CONSTANTS Task,         \* content-addressed task ids
          Worker,       \* drain() loops, each with its keepalive thread
          NoTask, NoWorker,
          MaxAttempts,  \* max_attempts of every task
          Visibility,   \* visibility_seconds, in ticks
          RetryDelay,   \* retry_in_seconds of nack, in ticks
          MaxCrashes,   \* bound: how many times a worker process is killed
          MaxRequeues   \* bound: how many times the operator requeues

ASSUME QueueAssumption ==
    /\ NoTask \notin Task /\ NoWorker \notin Worker
    /\ MaxAttempts \in Nat \ {0}
    /\ Visibility \in Nat \ {0}
    /\ RetryDelay \in Nat
    /\ MaxCrashes \in Nat /\ MaxRequeues \in Nat

VARIABLES
    \* the table
    status, attempts, owner, visibleIn, older,
    \* the workers
    phase, held, heldAttempts,
    \* the environment
    crashes, requeues,
    \* history, read by the properties only:
    \*   runs[t]    handler runs since the task was last armed
    \*   silence[w] ticks since w's claim or its last heartbeat that landed
    \*   lapsed     workers whose silence reached Visibility in this claim
    \*   overruled  workers at work on a task that another worker, whose
    \*              claim was no longer the row's, has settled meanwhile
    runs, silence, lapsed, overruled

table   == <<status, attempts, owner, visibleIn, older>>
workers == <<phase, held, heldAttempts>>
history == <<runs, silence, lapsed, overruled>>
env     == <<crashes, requeues>>
vars    == <<table, workers, env, history>>

Statuses == {"absent", "pending", "inflight", "done", "dead"}
Phases   == {"idle", "selected", "burying", "running", "succeeded", "failed"}

\* The phases in which a worker carries a claimed task it has not settled.
Claimed == {"burying", "running", "succeeded", "failed"}

\* Every other worker that carries a claim on t.
OtherHolders(w, t) == {v \in Worker \ {w} : held[v] = t /\ phase[v] \in Claimed}

\* Worker w settles t although the row no longer records w's claim: its
\* claim lapsed and the row has been claimed, settled or re-armed since.
IsStale(w, t) == ~(status[t] = "inflight" /\ owner[t] = w)

-----------------------------------------------------------------------------
Init ==
    /\ status = [t \in Task |-> "absent"]
    /\ attempts = [t \in Task |-> 0]
    /\ owner = [t \in Task |-> NoWorker]
    /\ visibleIn = [t \in Task |-> 0]
    /\ older = {}
    /\ phase = [w \in Worker |-> "idle"]
    /\ held = [w \in Worker |-> NoTask]
    /\ heldAttempts = [w \in Worker |-> 0]
    /\ crashes = 0 /\ requeues = 0
    /\ runs = [t \in Task |-> 0]
    /\ silence = [w \in Worker |-> 0]
    /\ lapsed = {} /\ overruled = {}

-----------------------------------------------------------------------------
(* publish(): INSERT, or the ON CONFLICT re-arm of a done row.  A pending, *)
(* inflight or dead row is left alone, so publishing it is a stutter.      *)
Publish(t) ==
    /\ status[t] \in {"absent", "done"}
    /\ status' = [status EXCEPT ![t] = "pending"]
    /\ attempts' = [attempts EXCEPT ![t] = 0]
    /\ owner' = [owner EXCEPT ![t] = NoWorker]
    /\ visibleIn' = [visibleIn EXCEPT ![t] = 0]
    /\ older' = {p \in older : p[1] # t}
                \cup {<<u, t>> : u \in {u \in Task \ {t} : status[u] # "absent"}}
    /\ runs' = [runs EXCEPT ![t] = 0]
    /\ UNCHANGED <<workers, env, silence, lapsed, overruled>>

ClaimableWhileInvisible(t) == status[t] \in {"pending", "inflight"}
ClaimableIfPending(t) == status[t] = "pending" /\ visibleIn[t] = 0
\* status IN ('pending','inflight') AND visible_at <= now: a claim that went
\* silent is claimable again, which is how a dead worker's task is redelivered.
Claimable(t) == status[t] \in {"pending", "inflight"} /\ visibleIn[t] = 0

\* ORDER BY enqueued_at LIMIT 1 over the claimable rows.
IsNext(t) ==
    /\ Claimable(t)
    /\ \A u \in Task \ {t} : Claimable(u) => <<t, u>> \in older

(* The claim's subquery.  On PostgreSQL under READ COMMITTED it is         *)
(* evaluated once, before the row lock is granted.                         *)
Select(w, t) ==
    /\ phase[w] = "idle"
    /\ IsNext(t)
    /\ phase' = [phase EXCEPT ![w] = "selected"]
    /\ held' = [held EXCEPT ![w] = t]
    /\ UNCHANGED <<table, heldAttempts, env, history>>

\* The claim counted one attempt too many: the task is buried, not run.
Exhausted(n) == n > MaxAttempts

(* The claim's UPDATE: the outer WHERE is evaluated on the row as it is    *)
(* once the lock is granted.  A row with attempts to spare is handed to    *)
(* the handler; one past max_attempts goes to _dead_letter.                *)
Claim(w) ==
    LET t == held[w]
        n == attempts[t] + 1
    IN  /\ phase[w] = "selected"
        /\ Claimable(t)
        /\ status' = [status EXCEPT ![t] = "inflight"]
        /\ owner' = [owner EXCEPT ![t] = w]
        /\ attempts' = [attempts EXCEPT ![t] = n]
        /\ visibleIn' = [visibleIn EXCEPT ![t] = Visibility]
        /\ heldAttempts' = [heldAttempts EXCEPT ![w] = n]
        /\ \/ /\ Exhausted(n)
              /\ phase' = [phase EXCEPT ![w] = "burying"]
              /\ UNCHANGED runs
           \/ /\ ~Exhausted(n)
              /\ phase' = [phase EXCEPT ![w] = "running"]
              /\ runs' = [runs EXCEPT ![t] = @ + 1]
        /\ silence' = [silence EXCEPT ![w] = 0]
        /\ lapsed' = lapsed \ {w}
        /\ overruled' = overruled \ {w}
        /\ UNCHANGED <<older, held, env>>

\* The outer WHERE matched nothing: another worker won the row.
LoseRace(w) ==
    /\ phase[w] = "selected"
    /\ ~Claimable(held[w])
    /\ phase' = [phase EXCEPT ![w] = "idle"]
    /\ held' = [held EXCEPT ![w] = NoTask]
    /\ UNCHANGED <<table, heldAttempts, env, history>>

(* heartbeat(), from the keepalive thread of drain(): WHERE id AND status, *)
(* whoever the row's owner is.  The thread still runs while the except     *)
(* branch nacks.  A ping that fails is swallowed, hence not an action.     *)
Heartbeat(w) ==
    LET t == held[w] IN
    /\ phase[w] \in {"running", "failed"}
    /\ status[t] = "inflight"
    /\ visibleIn' = [visibleIn EXCEPT ![t] = Visibility]
    /\ silence' = [silence EXCEPT ![w] = 0]
    /\ UNCHANGED <<status, attempts, owner, older, workers, env, runs,
                   lapsed, overruled>>

\* The handler returns, or raises.
HandlerEnds(w, outcome) ==
    /\ phase[w] = "running"
    /\ outcome \in {"succeeded", "failed"}
    /\ phase' = [phase EXCEPT ![w] = outcome]
    /\ UNCHANGED <<table, held, heldAttempts, env, history>>

-----------------------------------------------------------------------------
\* The worker forgets its task and returns to the top of drain()'s loop.
Forget(w) ==
    /\ phase' = [phase EXCEPT ![w] = "idle"]
    /\ held' = [held EXCEPT ![w] = NoTask]
    /\ heldAttempts' = [heldAttempts EXCEPT ![w] = 0]
    /\ silence' = [silence EXCEPT ![w] = 0]
    /\ lapsed' = lapsed \ {w}

\* What a settlement of t by w does to the others' claims (history).
Overrule(w, t) ==
    overruled' = (IF IsStale(w, t) THEN overruled \cup OtherHolders(w, t)
                                   ELSE overruled) \ {w}

(* ack(): UPDATE ... SET done WHERE id.  No owner, no attempt number, and  *)
(* visible_at is left as it is.                                            *)
Ack(w) ==
    LET t == held[w] IN
    /\ phase[w] = "succeeded"
    /\ status[t] # "absent"
    /\ status' = [status EXCEPT ![t] = "done"]
    /\ owner' = [owner EXCEPT ![t] = NoWorker]
    /\ Forget(w)
    /\ Overrule(w, t)
    /\ UNCHANGED <<attempts, visibleIn, older, env, runs>>

(* nack() with attempts left: back to pending after RetryDelay.            *)
Nack(w) ==
    LET t == held[w] IN
    /\ phase[w] = "failed"
    /\ heldAttempts[w] < MaxAttempts
    /\ status[t] # "absent"
    /\ status' = [status EXCEPT ![t] = "pending"]
    /\ owner' = [owner EXCEPT ![t] = NoWorker]
    /\ visibleIn' = [visibleIn EXCEPT ![t] = RetryDelay]
    /\ Forget(w)
    /\ Overrule(w, t)
    /\ UNCHANGED <<attempts, older, env, runs>>

(* _dead_letter(): from nack() on the last attempt, and from claim() when  *)
(* the row was past max_attempts.                                          *)
DeadLetter(w) ==
    LET t == held[w] IN
    /\ \/ phase[w] = "burying"
       \/ phase[w] = "failed" /\ heldAttempts[w] >= MaxAttempts
    /\ status[t] # "absent"
    /\ status' = [status EXCEPT ![t] = "dead"]
    /\ owner' = [owner EXCEPT ![t] = NoWorker]
    /\ Forget(w)
    /\ Overrule(w, t)
    /\ UNCHANGED <<attempts, visibleIn, older, env, runs>>

\* Any settlement of a row that purge_completed has deleted updates nothing.
SettleNothing(w) ==
    /\ phase[w] \in {"burying", "succeeded", "failed"}
    /\ status[held[w]] = "absent"
    /\ Forget(w)
    /\ overruled' = overruled \ {w}
    /\ UNCHANGED <<table, env, runs>>

-----------------------------------------------------------------------------
\* requeue_dead(): every dead row, in one statement.
RequeueDead ==
    LET dead == {t \in Task : status[t] = "dead"} IN
    /\ dead # {}
    /\ requeues < MaxRequeues
    /\ requeues' = requeues + 1
    /\ status' = [t \in Task |-> IF t \in dead THEN "pending" ELSE status[t]]
    /\ attempts' = [t \in Task |-> IF t \in dead THEN 0 ELSE attempts[t]]
    /\ owner' = [t \in Task |-> IF t \in dead THEN NoWorker ELSE owner[t]]
    /\ visibleIn' = [t \in Task |-> IF t \in dead THEN 0 ELSE visibleIn[t]]
    /\ runs' = [t \in Task |-> IF t \in dead THEN 0 ELSE runs[t]]
    /\ UNCHANGED <<older, workers, crashes, silence, lapsed, overruled>>

PurgeSettled(S) ==
    /\ S # {}
    /\ \A t \in S : status[t] \in {"done", "dead"}
    /\ status' = [t \in Task |-> IF t \in S THEN "absent" ELSE status[t]]
    /\ attempts' = [t \in Task |-> IF t \in S THEN 0 ELSE attempts[t]]
    /\ owner' = [t \in Task |-> IF t \in S THEN NoWorker ELSE owner[t]]
    /\ visibleIn' = [t \in Task |-> IF t \in S THEN 0 ELSE visibleIn[t]]
    /\ older' = {p \in older : p[1] \notin S /\ p[2] \notin S}
    /\ runs' = [t \in Task |-> IF t \in S THEN 0 ELSE runs[t]]
    /\ UNCHANGED <<workers, env, silence, lapsed, overruled>>
\* purge_completed(): the done rows past the retention age, whichever they are.
PurgeCompleted(S) ==
    /\ S # {}
    /\ \A t \in S : status[t] = "done"
    /\ status' = [t \in Task |-> IF t \in S THEN "absent" ELSE status[t]]
    /\ attempts' = [t \in Task |-> IF t \in S THEN 0 ELSE attempts[t]]
    /\ owner' = [t \in Task |-> IF t \in S THEN NoWorker ELSE owner[t]]
    /\ visibleIn' = [t \in Task |-> IF t \in S THEN 0 ELSE visibleIn[t]]
    /\ older' = {p \in older : p[1] \notin S /\ p[2] \notin S}
    /\ runs' = [t \in Task |-> IF t \in S THEN 0 ELSE runs[t]]
    /\ UNCHANGED <<workers, env, silence, lapsed, overruled>>

\* The worker's process is killed and another starts in its place.
Crash(w) ==
    /\ crashes < MaxCrashes
    /\ phase[w] # "idle"
    /\ crashes' = crashes + 1
    /\ Forget(w)
    /\ overruled' = overruled \ {w}
    /\ UNCHANGED <<table, requeues, runs>>

\* One tick of the clock.  Nothing obliges a keepalive thread to have pinged.
Tick ==
    /\ \/ \E t \in Task : visibleIn[t] > 0
       \/ \E w \in Worker : phase[w] \in Claimed /\ silence[w] < Visibility
    /\ visibleIn' = [t \in Task |-> IF visibleIn[t] > 0 THEN visibleIn[t] - 1 ELSE 0]
    /\ silence' = [w \in Worker |->
                     IF phase[w] \in Claimed /\ silence[w] < Visibility
                     THEN silence[w] + 1 ELSE silence[w]]
    /\ lapsed' = lapsed \cup {w \in Worker : silence'[w] = Visibility}
    /\ UNCHANGED <<status, attempts, owner, older, workers, env, runs,
                   overruled>>

-----------------------------------------------------------------------------
Settle(w) == Ack(w) \/ Nack(w) \/ DeadLetter(w) \/ SettleNothing(w)

Next ==
    \/ \E t \in Task : Publish(t)
    \/ \E w \in Worker :
         \/ \E t \in Task : Select(w, t)
         \/ Claim(w) \/ LoseRace(w) \/ Heartbeat(w)
         \/ \E o \in {"succeeded", "failed"} : HandlerEnds(w, o)
         \/ Ack(w) \/ Nack(w) \/ DeadLetter(w) \/ SettleNothing(w)
         \/ Crash(w)
    \/ RequeueDead
    \/ \E S \in SUBSET Task : PurgeCompleted(S)
    \/ Tick

Spec == Init /\ [][Next]_vars

(* A drain() loop keeps polling, a handler returns, a settlement is        *)
(* eventually written, and the clock runs.  Publishers, the operator and   *)
(* the purge owe nothing.                                                  *)
Fairness ==
    /\ WF_vars(Tick)
    /\ \A w \in Worker :
         /\ WF_vars(\E t \in Task : Select(w, t))
         /\ WF_vars(Claim(w) \/ LoseRace(w))
         /\ WF_vars(\E o \in {"succeeded", "failed"} : HandlerEnds(w, o))
         /\ WF_vars(Settle(w))

FairSpec == Spec /\ Fairness

-----------------------------------------------------------------------------
\* Types of the table, of the workers' locals and of the history variables.
TypeOK ==
    /\ status \in [Task -> Statuses]
    /\ attempts \in [Task -> Nat]
    /\ owner \in [Task -> Worker \cup {NoWorker}]
    /\ visibleIn \in [Task -> Nat]
    /\ older \subseteq Task \X Task
    /\ phase \in [Worker -> Phases]
    /\ held \in [Worker -> Task \cup {NoTask}]
    /\ heldAttempts \in [Worker -> Nat]
    /\ \A w \in Worker : (phase[w] = "idle") <=> (held[w] = NoTask)
    /\ crashes \in 0..MaxCrashes /\ requeues \in 0..MaxRequeues
    /\ runs \in [Task -> Nat]
    /\ silence \in [Worker -> 0..Visibility]
    /\ lapsed \subseteq Worker /\ overruled \subseteq Worker

(* A claim is a worker's own until the worker has been silent for the      *)
(* whole visibility period or a worker whose claim was no longer the row's *)
(* has settled the task: two workers whose claims are both sound never     *)
(* carry the same task.  This is the race argument of LocalQueue's         *)
(* docstring (the outer visible_at<=? of _claim_sql) together with the     *)
(* promise of _keepalive.                                                  *)
Sound(w) == phase[w] \in Claimed /\ w \notin lapsed \cup overruled

ExclusiveClaims ==
    \A v, w \in Worker : Sound(v) /\ Sound(w) /\ held[v] = held[w] => v = w

(* A task that always fails, or always kills its worker, is run at most    *)
(* max_attempts times after it was armed, whatever crashes, lapses and     *)
(* late settlements happen in between (dead-lettering in claim and nack).  *)
RunsBounded == \A t \in Task : runs[t] <= MaxAttempts

-----------------------------------------------------------------------------
(* The queue as its callers may think of it: the rows, claims and clock    *)
(* mapped to the contract of TaskQueue.                                    *)
HandedOut(t) == IF attempts[t] < MaxAttempts THEN attempts[t] ELSE MaxAttempts

MappedState(t) ==
    IF status[t] = "absent" THEN "none"
    ELSE IF status[t] \in {"pending", "inflight"} THEN "due" ELSE status[t]

MappedVerdict(w) ==
    IF phase[w] \notin Claimed THEN "nothing"
    ELSE IF phase[w] = "burying" THEN "spent"
    ELSE IF heldAttempts[w] < MaxAttempts THEN "retry" ELSE "last"

Contract == INSTANCE WorkQueue WITH
    state   <- [t \in Task |-> MappedState(t)],
    handed  <- [t \in Task |-> HandedOut(t)],
    carried <- [w \in Worker |-> IF phase[w] \in Claimed THEN held[w] ELSE NoTask],
    verdict <- [w \in Worker |-> MappedVerdict(w)]

(* LocalQueue keeps the contract: no row, claim, lapse, late settlement or *)
(* killed worker loses a task, finishes one no worker has run, or hands one*)
(* out more often than max_attempts.                                       *)
KeepsContract == Contract!Spec

(* Every due task is eventually settled: a claim that dies is redelivered  *)
(* by time alone, a task that keeps failing is dead-lettered.              *)
EventuallySettled == Contract!Settles

-----------------------------------------------------------------------------
(* What the comments of queue.py say and the unfenced ack, nack and        *)
(* _dead_letter do not keep.                                               *)

(* "so the value bounds *silence*, not work": no two workers carry one     *)
(* task unless one of them was silent for the whole visibility period.     *)
OnlySilenceLosesAClaim ==
    \A v, w \in Worker :
        /\ v # w /\ held[v] = held[w]
        /\ phase[v] \in Claimed /\ phase[w] \in Claimed
        => v \in lapsed \/ w \in lapsed

(* "a done row is re-armed": a task is done only after a run that began    *)
(* since it was armed, so the run that was asked for happens.              *)
ArmedTaskIsServed ==
    [][\A t \in Task : status[t] # "done" /\ status'[t] = "done"
                      => runs[t] > 0]_vars

(* "a dead row stays dead": only the operator's requeue_dead revives it.   *)
DeadStaysDead ==
    [][\A t \in Task : status[t] = "dead" /\ status'[t] # "dead" => RequeueDead]_vars
=============================================================================
