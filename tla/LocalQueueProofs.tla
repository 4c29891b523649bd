-------------------------- MODULE LocalQueueProofs --------------------------
(***************************************************************************)
(* Proofs about LocalQueue, for every set of tasks and of workers and for  *)
(* every value of the timeouts and of max_attempts.                        *)
(***************************************************************************)
EXTENDS LocalQueue, TLAPS

(* Why a sound claim is exclusive: the row itself records it and stays     *)
(* invisible for as long as its worker may still be silent.                *)
Entitled ==
    \A w \in Worker : Sound(w) =>
        /\ status[held[w]] = "inflight"
        /\ owner[held[w]] = w
        /\ silence[w] < Visibility
        /\ visibleIn[held[w]] + silence[w] >= Visibility

(* Every handler run was counted by the claim that started it.             *)
RunsCounted == \A t \in Task : runs[t] <= attempts[t] /\ runs[t] <= MaxAttempts

-----------------------------------------------------------------------------
\* A worker that is not idle carries one of the tasks.
LEMMA HeldIsTask ==
    ASSUME TypeOK, NEW w \in Worker, phase[w] # "idle"
    PROVE  held[w] \in Task
BY DEF TypeOK

LEMMA InitType == Init => TypeOK
BY QueueAssumption DEF Init, TypeOK, Statuses, Phases

(* Every step of the queue, of a worker, of the operator or of the clock   *)
(* keeps the types: no statement of queue.py writes a row or a local out   *)
(* of range.                                                               *)
LEMMA NextType == TypeOK /\ [Next]_vars => TypeOK'
<1> SUFFICES ASSUME TypeOK, [Next]_vars PROVE TypeOK'
  OBVIOUS
<1> USE QueueAssumption DEF TypeOK, Statuses, Phases
<1>1. ASSUME NEW t \in Task, Publish(t) PROVE TypeOK'
  BY <1>1 DEF Publish, workers, env
<1>2. ASSUME NEW w \in Worker, NEW t \in Task, Select(w, t) PROVE TypeOK'
  BY <1>2 DEF Select, table, env, history
<1>3. ASSUME NEW w \in Worker, Claim(w) PROVE TypeOK'
  <2>1. held[w] \in Task
    BY <1>3, HeldIsTask DEF Claim
  <2>2. QED
    BY <1>3, <2>1 DEF Claim, env
<1>4. ASSUME NEW w \in Worker, LoseRace(w) PROVE TypeOK'
  BY <1>4 DEF LoseRace, table, env, history
<1>5. ASSUME NEW w \in Worker, Heartbeat(w) PROVE TypeOK'
  BY <1>5 DEF Heartbeat, workers, env
<1>6. ASSUME NEW w \in Worker, NEW o \in {"succeeded", "failed"},
             HandlerEnds(w, o)
      PROVE TypeOK'
  BY <1>6 DEF HandlerEnds, table, env, history
<1>7. ASSUME NEW w \in Worker, Ack(w) PROVE TypeOK'
  BY <1>7 DEF Ack, Forget, Overrule, OtherHolders, env
<1>8. ASSUME NEW w \in Worker, Nack(w) PROVE TypeOK'
  BY <1>8 DEF Nack, Forget, Overrule, OtherHolders, env
<1>9. ASSUME NEW w \in Worker, DeadLetter(w) PROVE TypeOK'
  BY <1>9 DEF DeadLetter, Forget, Overrule, OtherHolders, env
<1>10. ASSUME NEW w \in Worker, SettleNothing(w) PROVE TypeOK'
  BY <1>10 DEF SettleNothing, Forget, table, env
<1>11. ASSUME NEW w \in Worker, Crash(w) PROVE TypeOK'
  BY <1>11 DEF Crash, Forget, table
<1>12. ASSUME RequeueDead PROVE TypeOK'
  BY <1>12 DEF RequeueDead, workers
<1>13. ASSUME NEW S \in SUBSET Task, PurgeCompleted(S) PROVE TypeOK'
  BY <1>13 DEF PurgeCompleted, workers, env
<1>14. ASSUME Tick PROVE TypeOK'
  BY <1>14 DEF Tick, workers, env
<1>15. ASSUME UNCHANGED vars PROVE TypeOK'
  BY <1>15 DEF vars, table, workers, env, history
<1>16. QED
  BY <1>1, <1>2, <1>3, <1>4, <1>5, <1>6, <1>7, <1>8, <1>9, <1>10, <1>11,
     <1>12, <1>13, <1>14, <1>15 DEF Next

(* The table and the workers' locals always have their types.              *)
THEOREM TypeCorrect == Spec => []TypeOK
BY InitType, NextType, PTL DEF Spec

-----------------------------------------------------------------------------
(* Entitled needs one step per action that writes a row or a claim.  The   *)
(* steps that touch a row find no sound claim on it, because a sound claim *)
(* keeps its row inflight and invisible; the settlements either come from  *)
(* the row's owner, or are stale and take every other claim on the task    *)
(* out of the sound ones.                                                  *)
LEMMA NextEntitled == TypeOK /\ Entitled /\ [Next]_vars => Entitled'
<1> SUFFICES ASSUME TypeOK, Entitled, [Next]_vars, NEW v \in Worker, Sound(v)'
             PROVE  (/\ status[held[v]] = "inflight"
                     /\ owner[held[v]] = v
                     /\ silence[v] < Visibility
                     /\ visibleIn[held[v]] + silence[v] >= Visibility)'
  BY DEF Entitled
<1> DEFINE Goal == (/\ status[held[v]] = "inflight"
                    /\ owner[held[v]] = v
                    /\ silence[v] < Visibility
                    /\ visibleIn[held[v]] + silence[v] >= Visibility)'
<1> USE QueueAssumption DEF TypeOK, Statuses, Phases, Entitled, Sound, Claimed
<1>1. ASSUME NEW t \in Task, Publish(t) PROVE Goal
  BY <1>1 DEF Publish, workers, env
<1>2. ASSUME NEW w \in Worker, NEW t \in Task, Select(w, t) PROVE Goal
  BY <1>2 DEF Select, table, env, history
<1>3. ASSUME NEW w \in Worker, Claim(w) PROVE Goal
  <2>1. held[w] \in Task
    BY <1>3, HeldIsTask DEF Claim
  <2>2. CASE v = w
    BY <1>3, <2>1, <2>2 DEF Claim
  <2>3. CASE v # w
    BY <1>3, <2>1, <2>3 DEF Claim, Claimable
  <2>4. QED
    BY <2>2, <2>3
<1>4. ASSUME NEW w \in Worker, LoseRace(w) PROVE Goal
  BY <1>4 DEF LoseRace, table, env, history
<1>5. ASSUME NEW w \in Worker, Heartbeat(w) PROVE Goal
  BY <1>5 DEF Heartbeat, workers, env
<1>6. ASSUME NEW w \in Worker, NEW o \in {"succeeded", "failed"},
             HandlerEnds(w, o)
      PROVE Goal
  BY <1>6 DEF HandlerEnds, table, env, history
<1>7. ASSUME NEW w \in Worker, Ack(w) PROVE Goal
  BY <1>7 DEF Ack, Forget, Overrule, OtherHolders, IsStale, env
<1>8. ASSUME NEW w \in Worker, Nack(w) PROVE Goal
  BY <1>8 DEF Nack, Forget, Overrule, OtherHolders, IsStale, env
<1>9. ASSUME NEW w \in Worker, DeadLetter(w) PROVE Goal
  BY <1>9 DEF DeadLetter, Forget, Overrule, OtherHolders, IsStale, env
<1>10. ASSUME NEW w \in Worker, SettleNothing(w) PROVE Goal
  BY <1>10 DEF SettleNothing, Forget, table, env
<1>11. ASSUME NEW w \in Worker, Crash(w) PROVE Goal
  BY <1>11 DEF Crash, Forget, table
<1>12. ASSUME RequeueDead PROVE Goal
  BY <1>12 DEF RequeueDead, workers
<1>13. ASSUME NEW S \in SUBSET Task, PurgeCompleted(S) PROVE Goal
  BY <1>13 DEF PurgeCompleted, workers, env
<1>14. ASSUME Tick PROVE Goal
  <2>1. Sound(v) /\ silence'[v] < Visibility
    BY <1>14 DEF Tick, workers
  <2>2. QED
    BY <1>14, <2>1, HeldIsTask DEF Tick, workers
<1>15. ASSUME UNCHANGED vars PROVE Goal
  BY <1>15 DEF vars, table, workers, env, history
<1>16. QED
  BY <1>1, <1>2, <1>3, <1>4, <1>5, <1>6, <1>7, <1>8, <1>9, <1>10, <1>11,
     <1>12, <1>13, <1>14, <1>15 DEF Next

(* For every number of workers, tasks and ticks: a worker that has not     *)
(* been silent for the visibility period, and whose task no stale worker   *)
(* has settled, shares its task with no other such worker.                 *)
THEOREM ClaimsAreExclusive == Spec => []ExclusiveClaims
<1>1. Init => Entitled
  BY DEF Init, Entitled, Sound, Claimed
<1>2. TypeOK /\ Entitled => ExclusiveClaims
  BY DEF TypeOK, Entitled, ExclusiveClaims
<1>3. QED
  BY <1>1, <1>2, NextEntitled, TypeCorrect, PTL DEF Spec

-----------------------------------------------------------------------------
(* runs rises only in Claim, which has just raised attempts and found it   *)
(* within max_attempts; attempts falls only where runs is reset with it.   *)
LEMMA NextRuns == TypeOK /\ RunsCounted /\ [Next]_vars => RunsCounted'
<1> SUFFICES ASSUME TypeOK, RunsCounted, [Next]_vars PROVE RunsCounted'
  OBVIOUS
<1> USE QueueAssumption DEF TypeOK, RunsCounted
<1>1. ASSUME NEW t \in Task, Publish(t) PROVE RunsCounted'
  BY <1>1 DEF Publish
<1>2. ASSUME NEW w \in Worker, Claim(w) PROVE RunsCounted'
  <2>1. held[w] \in Task
    BY <1>2, HeldIsTask DEF Claim
  <2>2. QED
    BY <1>2, <2>1 DEF Claim, Exhausted
<1>3. ASSUME RequeueDead PROVE RunsCounted'
  BY <1>3 DEF RequeueDead
<1>4. CASE UNCHANGED <<attempts, runs>>
  BY <1>4
<1>5. ASSUME NEW S \in SUBSET Task, PurgeCompleted(S) PROVE RunsCounted'
  BY <1>5 DEF PurgeCompleted
<1>6. \/ \E t \in Task : Publish(t)
      \/ \E w \in Worker : Claim(w)
      \/ RequeueDead
      \/ \E S \in SUBSET Task : PurgeCompleted(S)
      \/ UNCHANGED <<attempts, runs>>
  BY DEF Next, Select, LoseRace, Heartbeat, HandlerEnds, Ack, Nack, DeadLetter,
         SettleNothing, Crash, Tick, vars, table, history
<1>7. QED
  BY <1>1, <1>2, <1>3, <1>4, <1>5, <1>6

(* For every value of max_attempts, and however often claims lapse or      *)
(* workers die, an armed task is handed to a handler at most max_attempts  *)
(* times.                                                                  *)
THEOREM RunsAreBounded == Spec => []RunsBounded
<1>1. Init => RunsCounted
  <2>1. ASSUME Init, NEW t \in Task PROVE runs[t] = 0 /\ attempts[t] = 0
    BY <2>1 DEF Init
  <2>2. 0 <= 0 /\ 0 <= MaxAttempts
    BY QueueAssumption
  <2>3. QED
    BY <2>1, <2>2 DEF RunsCounted
<1>2. RunsCounted => RunsBounded
  BY DEF RunsCounted, RunsBounded
<1>3. QED
  BY <1>1, <1>2, NextRuns, TypeCorrect, PTL DEF Spec

-----------------------------------------------------------------------------
(* The empty table with idle workers is a queue nothing was submitted to.  *)
LEMMA InitContract == Init => Contract!Init
BY QueueAssumption DEF Init, Contract!Init, MappedState, HandedOut,
                       MappedVerdict, Claimed

(* Every statement of the table is an operation of the contract, or none:  *)
(* selecting, losing a race, pinging and the clock change nothing a caller *)
(* of the queue can tell.                                                  *)
LEMMA NextContract ==
    TypeOK /\ [Next]_vars => [Contract!Next]_(Contract!vars)
<1> SUFFICES ASSUME TypeOK, [Next]_vars
             PROVE  Contract!Next \/ UNCHANGED Contract!vars
  OBVIOUS
<1> USE QueueAssumption DEF TypeOK, Statuses, Phases, Claimed
<1> USE DEF MappedState, HandedOut, MappedVerdict
<1>1. ASSUME NEW t \in Task, Publish(t) PROVE Contract!Submit(t)
  <2>1. MappedState(t) \in {"none", "done"}
    BY <1>1 DEF Publish
  <2>2. MappedState(t)' = "due" /\ HandedOut(t)' = 0
    BY <1>1 DEF Publish
  <2>3. ASSUME NEW u \in Task \ {t}
        PROVE  MappedState(u)' = MappedState(u) /\ HandedOut(u)' = HandedOut(u)
    BY <1>1 DEF Publish
  <2>4. UNCHANGED <<[w \in Worker |-> IF phase[w] \in Claimed THEN held[w] ELSE NoTask],
                    [w \in Worker |-> MappedVerdict(w)]>>
    BY <1>1 DEF Publish, workers
  <2> HIDE DEF MappedState, HandedOut
  <2>5. [u \in Task |-> MappedState(u)]'
          = [[u \in Task |-> MappedState(u)] EXCEPT ![t] = "due"]
    BY <2>2, <2>3
  <2>6. [u \in Task |-> HandedOut(u)]'
          = [[u \in Task |-> HandedOut(u)] EXCEPT ![t] = 0]
    BY <2>2, <2>3
  <2>7. QED
    BY <2>1, <2>4, <2>5, <2>6 DEF Contract!Submit
<1>2. ASSUME NEW w \in Worker, NEW t \in Task, Select(w, t)
      PROVE  UNCHANGED Contract!vars
  BY <1>2 DEF Select, table, env, history, Contract!vars
<1>3. ASSUME NEW w \in Worker, Claim(w)
      PROVE  \E t \in Task : Contract!Hand(w, t)
  <2>1. PICK t \in Task : t = held[w] /\ t # NoTask
    BY <1>3, HeldIsTask DEF Claim
  <2> SUFFICES Contract!Hand(w, t)
    BY <2>1
  <2>2. MappedState(t) = "due" /\ phase[w] \notin Claimed
    BY <1>3, <2>1 DEF Claim, Claimable
  <2>3. \A u \in Task : MappedState(u)' = MappedState(u)
    BY <1>3, <2>1 DEF Claim, Claimable
  <2>4. \A u \in Task \ {t} : HandedOut(u)' = HandedOut(u)
    BY <1>3, <2>1 DEF Claim
  <2>5. /\ phase'[w] \in Claimed /\ held' = held
        /\ \A v \in Worker \ {w} : phase'[v] = phase[v]
        /\ \A v \in Worker \ {w} : heldAttempts'[v] = heldAttempts[v]
    BY <1>3 DEF Claim
  <2>6. \A v \in Worker \ {w} : MappedVerdict(v)' = MappedVerdict(v)
    BY <2>5
  <2>7. CASE ~Exhausted(attempts[t] + 1)
    <3>1. HandedOut(t) < MaxAttempts /\ HandedOut(t)' = HandedOut(t) + 1
      BY <1>3, <2>1, <2>7 DEF Claim, Exhausted
    <3>2. MappedVerdict(w)' = IF HandedOut(t) + 1 = MaxAttempts
                              THEN "last" ELSE "retry"
      BY <1>3, <2>1, <2>7 DEF Claim, Exhausted
    <3> HIDE DEF MappedState, HandedOut, MappedVerdict
    <3>3. [v \in Worker |-> MappedVerdict(v)]'
            = [[v \in Worker |-> MappedVerdict(v)] EXCEPT ![w] =
                IF HandedOut(t) + 1 = MaxAttempts THEN "last" ELSE "retry"]
      BY <2>6, <3>2
    <3>4. [u \in Task |-> HandedOut(u)]'
            = [[u \in Task |-> HandedOut(u)] EXCEPT ![t] = @ + 1]
      BY <2>1, <2>4, <3>1
    <3>5. [v \in Worker |-> IF phase[v] \in Claimed THEN held[v] ELSE NoTask]'
            = [[v \in Worker |-> IF phase[v] \in Claimed THEN held[v] ELSE NoTask]
                EXCEPT ![w] = t]
      BY <2>1, <2>5
    <3>6. QED
      BY <2>2, <2>3, <3>1, <3>3, <3>4, <3>5 DEF Contract!Hand
  <2>8. CASE Exhausted(attempts[t] + 1)
    <3>1. HandedOut(t) = MaxAttempts /\ HandedOut(t)' = HandedOut(t)
      BY <1>3, <2>1, <2>8 DEF Claim, Exhausted
    <3>2. MappedVerdict(w)' = "spent"
      BY <1>3, <2>1, <2>8 DEF Claim
    <3> HIDE DEF MappedState, HandedOut, MappedVerdict
    <3>3. [v \in Worker |-> MappedVerdict(v)]'
            = [[v \in Worker |-> MappedVerdict(v)] EXCEPT ![w] = "spent"]
      BY <2>6, <3>2
    <3>4. [u \in Task |-> HandedOut(u)]' = [u \in Task |-> HandedOut(u)]
      BY <2>4, <3>1
    <3>5. [v \in Worker |-> IF phase[v] \in Claimed THEN held[v] ELSE NoTask]'
            = [[v \in Worker |-> IF phase[v] \in Claimed THEN held[v] ELSE NoTask]
                EXCEPT ![w] = t]
      BY <2>1, <2>5
    <3>6. QED
      BY <2>1, <2>2, <2>3, <3>1, <3>3, <3>4, <3>5 DEF Contract!Hand
  <2>9. QED
    BY <2>7, <2>8
<1>4. ASSUME NEW w \in Worker, LoseRace(w) PROVE UNCHANGED Contract!vars
  BY <1>4 DEF LoseRace, table, env, history, Contract!vars
<1>5. ASSUME NEW w \in Worker, Heartbeat(w) PROVE UNCHANGED Contract!vars
  BY <1>5 DEF Heartbeat, workers, env, Contract!vars
<1>6. ASSUME NEW w \in Worker, NEW o \in {"succeeded", "failed"},
             HandlerEnds(w, o)
      PROVE UNCHANGED Contract!vars
  BY <1>6 DEF HandlerEnds, table, env, history, Contract!vars
<1>a. ASSUME NEW w \in Worker, Forget(w)
      PROVE  /\ [v \in Worker |-> MappedVerdict(v)]'
                   = [[v \in Worker |-> MappedVerdict(v)] EXCEPT ![w] = "nothing"]
             /\ [v \in Worker |-> IF phase[v] \in Claimed THEN held[v] ELSE NoTask]'
                   = [[v \in Worker |-> IF phase[v] \in Claimed THEN held[v] ELSE NoTask]
                        EXCEPT ![w] = NoTask]
  BY <1>a DEF Forget
<1>b. ASSUME NEW w \in Worker, NEW t \in Task, t = held[w], t # NoTask, phase[w] \in Claimed,
             Forget(w), UNCHANGED attempts, status[t] # "absent",
             NEW s \in {"done", "pending", "dead"}, status' = [status EXCEPT ![t] = s],
             NEW mapped, mapped = (IF s = "pending" THEN "due" ELSE s)
      PROVE  Contract!Settle(w, mapped)
  <2>1. MappedState(t) # "none" /\ MappedState(t)' = mapped
    BY <1>b
  <2>2. \A u \in Task \ {t} : MappedState(u)' = MappedState(u)
    BY <1>b
  <2>3. \A u \in Task : HandedOut(u)' = HandedOut(u)
    BY <1>b
  <2> HIDE DEF MappedState, HandedOut, MappedVerdict
  <2>4. [u \in Task |-> MappedState(u)]'
          = [[u \in Task |-> MappedState(u)] EXCEPT ![t] = mapped]
    BY <2>1, <2>2
  <2>5. [u \in Task |-> HandedOut(u)]' = [u \in Task |-> HandedOut(u)]
    BY <2>3
  <2>6. QED
    BY <1>a, <1>b, <2>1, <2>4, <2>5 DEF Contract!Settle
<1>7. ASSUME NEW w \in Worker, Ack(w) PROVE Contract!Complete(w)
  <2>1. PICK t \in Task : t = held[w] /\ t # NoTask
    BY <1>7, HeldIsTask DEF Ack
  <2>2. MappedVerdict(w) \in {"retry", "last"} /\ phase[w] \in Claimed
    BY <1>7 DEF Ack
  <2>3. /\ Forget(w) /\ UNCHANGED attempts
        /\ status[t] # "absent" /\ status' = [status EXCEPT ![t] = "done"]
    BY <1>7, <2>1 DEF Ack
  <2> HIDE DEF MappedState, HandedOut, MappedVerdict
  <2>4. Contract!Settle(w, "done")
    BY <1>b, <2>1, <2>2, <2>3
  <2>5. QED
    BY <2>2, <2>4 DEF Contract!Complete
<1>8. ASSUME NEW w \in Worker, Nack(w) PROVE Contract!Return(w)
  <2>1. PICK t \in Task : t = held[w] /\ t # NoTask
    BY <1>8, HeldIsTask DEF Nack
  <2>2. MappedVerdict(w) = "retry" /\ phase[w] \in Claimed
    BY <1>8 DEF Nack
  <2>3. /\ Forget(w) /\ UNCHANGED attempts
        /\ status[t] # "absent" /\ status' = [status EXCEPT ![t] = "pending"]
    BY <1>8, <2>1 DEF Nack
  <2> HIDE DEF MappedState, HandedOut, MappedVerdict
  <2>4. Contract!Settle(w, "due")
    BY <1>b, <2>1, <2>2, <2>3
  <2>5. QED
    BY <2>2, <2>4 DEF Contract!Return
<1>9. ASSUME NEW w \in Worker, DeadLetter(w) PROVE Contract!Bury(w)
  <2>1. PICK t \in Task : t = held[w] /\ t # NoTask
    BY <1>9, HeldIsTask DEF DeadLetter
  <2>2. MappedVerdict(w) \in {"last", "spent"} /\ phase[w] \in Claimed
    BY <1>9 DEF DeadLetter
  <2>3. /\ Forget(w) /\ UNCHANGED attempts
        /\ status[t] # "absent" /\ status' = [status EXCEPT ![t] = "dead"]
    BY <1>9, <2>1 DEF DeadLetter
  <2> HIDE DEF MappedState, HandedOut, MappedVerdict
  <2>4. Contract!Settle(w, "dead")
    BY <1>b, <2>1, <2>2, <2>3
  <2>5. QED
    BY <2>2, <2>4 DEF Contract!Bury
<1>10. ASSUME NEW w \in Worker, SettleNothing(w) PROVE Contract!Vanish(w)
  <2>1. /\ phase[w] \in Claimed /\ held[w] # NoTask
        /\ Forget(w) /\ UNCHANGED <<status, attempts>>
    BY <1>10, HeldIsTask DEF SettleNothing, table
  <2>2. /\ [u \in Task |-> MappedState(u)]' = [u \in Task |-> MappedState(u)]
        /\ [u \in Task |-> HandedOut(u)]' = [u \in Task |-> HandedOut(u)]
    BY <2>1
  <2> HIDE DEF MappedState, HandedOut, MappedVerdict
  <2>3. QED
    BY <1>a, <2>1, <2>2 DEF Contract!Vanish
<1>11. ASSUME NEW w \in Worker, Crash(w)
       PROVE  Contract!Vanish(w) \/ UNCHANGED Contract!vars
  BY <1>11 DEF Crash, Forget, table, Contract!Vanish, Contract!vars
<1>12. ASSUME RequeueDead PROVE Contract!Revive
  BY <1>12 DEF RequeueDead, workers, Contract!Revive
<1>13. ASSUME NEW S \in SUBSET Task, PurgeCompleted(S) PROVE Contract!Purge(S)
  BY <1>13 DEF PurgeCompleted, workers, env, Contract!Purge
<1>14. ASSUME Tick PROVE UNCHANGED Contract!vars
  BY <1>14 DEF Tick, workers, env, Contract!vars
<1>15. ASSUME UNCHANGED vars PROVE UNCHANGED Contract!vars
  BY <1>15 DEF vars, table, workers, env, history, Contract!vars
<1>16. QED
  <2> HIDE DEF TypeOK, MappedState, HandedOut, MappedVerdict
  <2>1. ASSUME NEW w \in Worker, Claim(w) PROVE Contract!Next
    <3>1. \E t \in Task : Contract!Hand(w, t)
      BY <1>3, <2>1
    <3>2. QED
      BY <3>1 DEF Contract!Next
  <2>2. CASE \/ \E t \in Task : Publish(t)
             \/ RequeueDead
             \/ \E S \in SUBSET Task : PurgeCompleted(S)
    BY <1>1, <1>12, <1>13, <2>2 DEF Contract!Next
  <2>3. CASE \E w \in Worker : Settle(w) \/ Crash(w)
    BY <1>7, <1>8, <1>9, <1>10, <1>11, <2>3 DEF Settle, Contract!Next
  <2>4. CASE \/ \E w \in Worker :
                  \/ \E t \in Task : Select(w, t)
                  \/ LoseRace(w) \/ Heartbeat(w)
                  \/ \E o \in {"succeeded", "failed"} : HandlerEnds(w, o)
             \/ Tick \/ UNCHANGED vars
    BY <1>2, <1>4, <1>5, <1>6, <1>14, <1>15, <2>4
  <2>5. QED
    BY <2>1, <2>2, <2>3, <2>4 DEF Next, Settle

(* LocalQueue implements the contract of TaskQueue, for any number of tasks*)
(* and workers and any timeouts: a submitted task is not lost, not settled *)
(* by a worker it was not handed to, and not handed out too often.         *)
THEOREM ImplementsContract == Spec => KeepsContract
BY InitContract, NextContract, TypeCorrect, PTL
   DEF Spec, KeepsContract, Contract!Spec
=============================================================================
