------------------------------ MODULE WorkQueue ------------------------------
(***************************************************************************)
(* What sync/queue.py promises of a backend (the module's docstring and    *)
(* the class TaskQueue), without tables, clocks or claims: a submitted     *)
(* task stays due until a worker that was handed it has finished it, or    *)
(* until it was handed out MaxAttempts times; it is handed out at least    *)
(* once, possibly to several workers at the same time, never more than     *)
(* MaxAttempts times, and a worker that vanishes takes nothing with it.    *)
(*                                                                         *)
(* A settlement is what its worker decided when it was handed the task,    *)
(* however late it arrives: the contract has no ownership of a task.       *)
(***************************************************************************)
EXTENDS Naturals

CONSTANTS Task, Worker, NoTask, MaxAttempts

VARIABLES
    state,      \* what has become of each task
    handed,     \* how often it was handed out since it was last submitted
    carried,    \* the task in each worker's hands
    verdict     \* what the worker may do with it if the handler fails

vars == <<state, handed, carried, verdict>>

States   == {"none", "due", "done", "dead"}

Init ==
    /\ state = [t \in Task |-> "none"]
    /\ handed = [t \in Task |-> 0]
    /\ carried = [w \in Worker |-> NoTask]
    /\ verdict = [w \in Worker |-> "nothing"]

\* publish(): a task that is due or dead is already accounted for.
Submit(t) ==
    /\ state[t] \in {"none", "done"}
    /\ state' = [state EXCEPT ![t] = "due"]
    /\ handed' = [handed EXCEPT ![t] = 0]
    /\ UNCHANGED <<carried, verdict>>

\* claim(): a due task goes to a worker, to be run or, spent, to be buried.
Hand(w, t) ==
    /\ carried[w] = NoTask
    /\ state[t] = "due"
    /\ carried' = [carried EXCEPT ![w] = t]
    /\ \/ /\ handed[t] < MaxAttempts
          /\ handed' = [handed EXCEPT ![t] = @ + 1]
          /\ verdict' = [verdict EXCEPT ![w] =
                           IF handed[t] + 1 = MaxAttempts THEN "last" ELSE "retry"]
       \/ /\ handed[t] = MaxAttempts
          /\ handed' = handed
          /\ verdict' = [verdict EXCEPT ![w] = "spent"]
    /\ UNCHANGED state

\* The worker lets go of its task; one that was purged meanwhile stays purged.
Settle(w, s) ==
    /\ carried[w] # NoTask
    /\ state' = [state EXCEPT ![carried[w]] = IF @ = "none" THEN @ ELSE s]
    /\ carried' = [carried EXCEPT ![w] = NoTask]
    /\ verdict' = [verdict EXCEPT ![w] = "nothing"]
    /\ UNCHANGED handed

\* ack(): the handler returned.
Complete(w) == verdict[w] \in {"retry", "last"} /\ Settle(w, "done")

\* nack() with attempts left.
Return(w) == verdict[w] = "retry" /\ Settle(w, "due")

\* nack() on the last attempt, or a claim past it.
Bury(w) == verdict[w] \in {"last", "spent"} /\ Settle(w, "dead")

\* A worker dies: its task is as it was.
Vanish(w) ==
    /\ carried[w] # NoTask
    /\ carried' = [carried EXCEPT ![w] = NoTask]
    /\ verdict' = [verdict EXCEPT ![w] = "nothing"]
    /\ UNCHANGED <<state, handed>>

\* requeue_dead(): every dead task is due again.
Revive ==
    /\ state' = [t \in Task |-> IF state[t] = "dead" THEN "due" ELSE state[t]]
    /\ handed' = [t \in Task |-> IF state[t] = "dead" THEN 0 ELSE handed[t]]
    /\ UNCHANGED <<carried, verdict>>

\* purge_completed(): only finished tasks are ever forgotten.
Purge(S) ==
    /\ \A t \in S : state[t] = "done"
    /\ state' = [t \in Task |-> IF t \in S THEN "none" ELSE state[t]]
    /\ handed' = [t \in Task |-> IF t \in S THEN 0 ELSE handed[t]]
    /\ UNCHANGED <<carried, verdict>>

Next ==
    \/ \E t \in Task : Submit(t)
    \/ \E w \in Worker :
         \/ \E t \in Task : Hand(w, t)
         \/ Complete(w) \/ Return(w) \/ Bury(w) \/ Vanish(w)
    \/ Revive
    \/ \E S \in SUBSET Task : Purge(S)

Spec == Init /\ [][Next]_vars

(* "it survives the process that enqueued it ... and it dead-letters rather*)
(* than retrying forever": a due task is settled in the end.               *)
Settles == \A t \in Task : state[t] = "due" ~> state[t] \in {"done", "dead"}
=============================================================================
