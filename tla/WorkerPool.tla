----------------------------- MODULE WorkerPool -----------------------------
(***************************************************************************)
(* Remote preparation of a batch (sync/worker_pool.py): WorkerPool hands   *)
(* the batches of the engine's file workers to a fleet of endpoints, with  *)
(* a breaker per endpoint, a budget of attempts and a deadline per call,   *)
(* and the engine prepares locally what the fleet does not answer.         *)
(*                                                                         *)
(* Each `with self._lock` is one step; the request itself runs between     *)
(* two of them.  A caller spends its deadline while it waits for an answer *)
(* or sleeps.  An endpoint that is up answers in the time a request has,   *)
(* with results or with a refusal of the task; one that is down fails the  *)
(* request by then.  Payloads, connections and metrics are left out.       *)
(***************************************************************************)
EXTENDS Naturals, FiniteSets

CONSTANTS N,            \* endpoints
          Caller,       \* the engine's file workers
          Threshold,    \* FAILURE_THRESHOLD
          MaxAttempts,  \* MAX_ATTEMPTS
          ResetAfter,   \* BREAKER_RESET_SECONDS, in ticks
          Deadline      \* remote_worker_timeout_seconds, in ticks

ASSUME PoolAssumption ==
    /\ {N, Threshold, MaxAttempts, ResetAfter, Deadline} \subseteq Nat \ {0}
    /\ IsFiniteSet(Caller) /\ Caller # {}

VARIABLES
    up,        \* the endpoints that answer
    cursor,    \* _cursor
    failures,  \* per endpoint, consecutive failures, counted to Threshold
    age,       \* ticks since opened_at, counted to ResetAfter
    probing,   \* the endpoints whose half-open slot is taken
    pc,        \* where each caller is in _with_failover
    todo,      \* the candidates of its last _order() that it has not called
    turn,      \* where in the rotation it goes on
    at, holds, \* the endpoint it calls, and the local `probing` of _probe
    attempt, budget,
    healthy,   \* history: endpoints up and not tripped since the call began
    wasted     \* history: requests to an endpoint that is out of rotation

breakers == <<failures, age, probing>>
call     == <<todo, turn, at, attempt, budget>>
progress == <<pc, call, holds>>
fleet    == <<up, cursor>>
vars     == <<fleet, breakers, progress, healthy, wasted>>

Endpoint == 0..(N - 1)

\* The call is over; what it has left behind means nothing to the next one.
Over(c) ==
    /\ pc' = [pc EXCEPT ![c] = "idle"]
    /\ todo' = [todo EXCEPT ![c] = {}]
    /\ turn' = [turn EXCEPT ![c] = 0]
    /\ at' = [at EXCEPT ![c] = 0]
    /\ attempt' = [attempt EXCEPT ![c] = 0]
    /\ budget' = [budget EXCEPT ![c] = 0]

Init ==
    /\ up \in SUBSET Endpoint
    /\ cursor = 0
    /\ failures = [e \in Endpoint |-> 0]
    /\ age = [e \in Endpoint |-> 0]
    /\ probing = {}
    /\ pc = [c \in Caller |-> "idle"]
    /\ todo = [c \in Caller |-> {}]
    /\ turn = [c \in Caller |-> 0]
    /\ at = [c \in Caller |-> 0]
    /\ holds = [c \in Caller |-> FALSE]
    /\ attempt = [c \in Caller |-> 0]
    /\ budget = [c \in Caller |-> 0]
    /\ healthy = [c \in Caller |-> {}]
    /\ wasted = [e \in Endpoint |-> 0]

-----------------------------------------------------------------------------
\* _Breaker.tripped
Tripped(e) == failures[e] >= Threshold

Cooled(e) == age[e] >= ResetAfter

AvailableOneShort(e) ==
    failures[e] < Threshold - 1 \/ (e \notin probing /\ Cooled(e))
AvailableHot(e) == ~Tripped(e) \/ e \notin probing
\* _Breaker.available()
Available(e) == ~Tripped(e) \/ (e \notin probing /\ Cooled(e))

\* e comes no later than f in the rotation that starts at k (rotated).
Before(k, e, f) == (e + N - k) % N <= (f + N - k) % N

\* prepare_batch(): a call with its deadline.
Begin(c) ==
    /\ pc[c] = "idle"
    /\ pc' = [pc EXCEPT ![c] = "ordering"]
    /\ budget' = [budget EXCEPT ![c] = Deadline]
    /\ healthy' = [healthy EXCEPT ![c] = {e \in up : ~Tripped(e)}]
    /\ UNCHANGED <<fleet, breakers, todo, turn, at, holds, attempt, wasted>>

\* Between two requests, with attempts left.
Between(c) == pc[c] \in {"next", "backoff"} /\ attempt[c] < MaxAttempts

OrderMarking(c) ==
    LET k          == (cursor + 1) % N
        candidates == {e \in Endpoint : Available(e)}
    IN  /\ pc[c] = "ordering" \/ (Between(c) /\ todo[c] = {})
        /\ cursor' = k
        /\ todo' = [todo EXCEPT ![c] = candidates]
        /\ turn' = [turn EXCEPT ![c] = k]
        /\ probing' = probing \cup {e \in Endpoint : Available(e) /\ Tripped(e)}
        /\ pc' = [pc EXCEPT ![c] = IF candidates = {} THEN "failed" ELSE "next"]
        /\ UNCHANGED <<up, failures, age, at, holds, attempt, budget, healthy, wasted>>
\* _order(); "When every endpoint is open the honest answer is none".
Order(c) ==
    LET k          == (cursor + 1) % N
        candidates == {e \in Endpoint : Available(e)}
    IN  /\ pc[c] = "ordering" \/ (Between(c) /\ todo[c] = {})
        /\ cursor' = k
        /\ todo' = [todo EXCEPT ![c] = candidates]
        /\ turn' = [turn EXCEPT ![c] = k]
        /\ pc' = [pc EXCEPT ![c] = IF candidates = {} THEN "failed" ELSE "next"]
        /\ UNCHANGED <<up, breakers, at, holds, attempt, budget, healthy, wasted>>

(* The deadline has passed before the next dispatch: the batch is prepared *)
(* here (_prepare_batch_remote).                                           *)
Expire(c) ==
    /\ Between(c) /\ todo[c] # {} /\ budget[c] = 0
    /\ Over(c)
    /\ healthy' = [healthy EXCEPT ![c] = {}]
    /\ UNCHANGED <<fleet, breakers, holds, wasted>>

\* _probe() is entered, and the request goes out.
Dispatch(c, e) ==
    /\ Between(c) /\ budget[c] > 0
    /\ e \in todo[c] /\ \A f \in todo[c] : Before(turn[c], e, f)
    /\ pc' = [pc EXCEPT ![c] = "calling"]
    /\ at' = [at EXCEPT ![c] = e]
    /\ todo' = [todo EXCEPT ![c] = @ \ {e}]
    /\ turn' = [turn EXCEPT ![c] = IF todo[c] = {e} THEN 0 ELSE (e + 1) % N]
    /\ attempt' = [attempt EXCEPT ![c] = @ + 1]
    /\ holds' = [holds EXCEPT ![c] = Tripped(e)]
    /\ probing' = IF Tripped(e) THEN probing \cup {e} ELSE probing
    /\ wasted' = [wasted EXCEPT ![e] = IF Tripped(e) /\ ~Cooled(e) THEN @ + 1 ELSE @]
    /\ UNCHANGED <<fleet, failures, age, budget, healthy>>

\* The request returns or raises, and _probe() is left (finally).
Answer(c) ==
    /\ pc[c] = "calling"
    /\ pc' = [pc EXCEPT ![c] = IF at[c] \in up THEN "answered" ELSE "raised"]
    /\ probing' = IF holds[c] THEN probing \ {at[c]} ELSE probing
    /\ holds' = [holds EXCEPT ![c] = FALSE]
    /\ UNCHANGED <<fleet, failures, age, call, healthy, wasted>>

\* What a caller has seen healthy shrinks with what becomes of it.
NotedHealth ==
    healthy' = [c \in Caller |-> IF pc'[c] = "idle" THEN {}
                    ELSE {e \in healthy[c] : e \in up' /\ failures'[e] < Threshold}]

(* _record_success(), also for a refusal: "the worker is fine; the task is *)
(* not".  The results are used, or the batch is prepared here.             *)
RecordSuccess(c) ==
    LET e == at[c] IN
    /\ pc[c] = "answered"
    /\ failures' = [failures EXCEPT ![e] = 0]
    /\ probing' = probing \ {e}
    /\ wasted' = [wasted EXCEPT ![e] = 0]
    /\ Over(c)
    /\ UNCHANGED <<fleet, age, holds>>
    /\ NotedHealth

\* _record_failure(), and a sleep if the failure is retryable.
RecordFailure(c) ==
    LET e == at[c] IN
    /\ pc[c] = "raised"
    /\ failures' = [failures EXCEPT ![e] = IF Tripped(e) THEN @ ELSE @ + 1]
    /\ age' = [age EXCEPT ![e] = IF failures'[e] >= Threshold THEN 0 ELSE @]
    /\ probing' = probing \ {e}
    /\ \/ pc' = [pc EXCEPT ![c] = "next"]
       \/ attempt[c] < MaxAttempts /\ pc' = [pc EXCEPT ![c] = "backoff"]
    /\ at' = [at EXCEPT ![c] = 0]
    /\ UNCHANGED <<fleet, todo, turn, holds, attempt, budget, wasted>>
    /\ NotedHealth

\* The attempts are used up.
GiveUp(c) ==
    /\ pc[c] = "next" /\ attempt[c] >= MaxAttempts
    /\ pc' = [pc EXCEPT ![c] = "failed"]
    /\ UNCHANGED <<fleet, breakers, call, holds, healthy, wasted>>

\* AllWorkersFailed: the batch is prepared here (_prepare_batch_remote).
PrepareLocally(c) ==
    /\ pc[c] = "failed"
    /\ Over(c)
    /\ healthy' = [healthy EXCEPT ![c] = {}]
    /\ UNCHANGED <<fleet, breakers, holds, wasted>>

\* Time passes; a request does not outlive its caller's deadline.
Tick ==
    /\ \A c \in Caller : pc[c] = "calling" => budget[c] > 0
    /\ age' = [e \in Endpoint |-> IF Cooled(e) THEN age[e] ELSE age[e] + 1]
    /\ budget' = [c \in Caller |->
                    IF pc[c] \in {"calling", "backoff"} /\ budget[c] > 0
                    THEN budget[c] - 1 ELSE budget[c]]
    /\ wasted' = [e \in Endpoint |-> IF age'[e] >= ResetAfter THEN 0 ELSE wasted[e]]
    /\ UNCHANGED <<fleet, failures, probing, pc, todo, turn, at, attempt, holds, healthy>>

\* An endpoint goes away or comes back.
Flip(e) ==
    /\ up' = IF e \in up THEN up \ {e} ELSE up \cup {e}
    /\ UNCHANGED <<cursor, breakers, progress, wasted>>
    /\ NotedHealth

Step(c) ==
    \/ Order(c) \/ Expire(c) \/ Answer(c)
    \/ \E e \in Endpoint : Dispatch(c, e)
    \/ RecordSuccess(c) \/ RecordFailure(c) \/ GiveUp(c) \/ PrepareLocally(c)

Next ==
    \/ \E c \in Caller : Begin(c) \/ Step(c)
    \/ \E e \in Endpoint : Flip(e)
    \/ Tick

Spec == Init /\ [][Next]_vars

\* Callers take their steps and the clock runs; no batch need ever come.
FairSpec == Spec /\ WF_vars(Tick) /\ \A c \in Caller : WF_vars(Step(c))

-----------------------------------------------------------------------------
\* Types of the breakers and of the callers' locals.
TypeOK ==
    /\ up \subseteq Endpoint /\ cursor \in Endpoint
    /\ failures \in [Endpoint -> 0..Threshold]
    /\ age \in [Endpoint -> 0..ResetAfter]
    /\ probing \subseteq Endpoint
    /\ pc \in [Caller -> {"idle", "ordering", "next", "backoff", "calling",
                          "answered", "raised", "failed"}]
    /\ todo \in [Caller -> SUBSET Endpoint] /\ turn \in [Caller -> Endpoint]
    /\ at \in [Caller -> Endpoint] /\ holds \in [Caller -> BOOLEAN]
    /\ attempt \in [Caller -> 0..MaxAttempts] /\ budget \in [Caller -> 0..Deadline]
    /\ healthy \in [Caller -> SUBSET Endpoint]
    /\ wasted \in [Endpoint -> Nat]

(* "The flag is now set and cleared around the dispatch itself (_probe),   *)
(* which cannot leak": a taken slot is that of a request under way.        *)
ProbeSlotFreed ==
    \A e \in probing : \E c \in Caller : pc[c] = "calling" /\ at[c] = e /\ holds[c]

(* Once an endpoint is out of rotation it costs each other caller at most  *)
(* one request, that of the candidates it had already listed, until the    *)
(* breaker has cooled down: "one dead worker costs three requests".        *)
StaleDispatchesBounded == \A e \in Endpoint : wasted[e] < Cardinality(Caller)

(* Not every batch of a fleet with a healthy member is prepared locally: a *)
(* call that fails within its deadline has found no endpoint that was up   *)
(* with a closed breaker all the time, if the fleet is not larger than the *)
(* attempts.                                                               *)
HealthyAnswers ==
    N <= MaxAttempts => \A c \in Caller : pc[c] = "failed" => healthy[c] = {}

(* A worker that has come back is used again as long as batches come: its  *)
(* breaker closes, whatever the other callers and endpoints do.            *)
RecoveredIsUsed ==
    \A e \in Endpoint :
        (<>[](e \in up) /\ []<>(\E c \in Caller : pc[c] = "ordering")) => <>[]~Tripped(e)

(* "A tripped endpoint admits one probe at a time": refuted, since two     *)
(* callers may have listed it before either of them dispatches, and        *)
(* _probe() takes the slot without looking at it.                          *)
OneProbeAtATime ==
    \A c, d \in Caller :
        c # d /\ holds[c] /\ holds[d] => at[c] # at[d]
=============================================================================
