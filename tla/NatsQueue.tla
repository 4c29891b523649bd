------------------------------ MODULE NatsQueue ------------------------------
(***************************************************************************)
(* The broker backend of the index queue (class NatsQueue of               *)
(* sync/queue.py): one JetStream message per publish, a durable consumer   *)
(* on the main subject, and a dead-letter subject that requeue_dead        *)
(* replays.  The broker is external: a delivery counts (num_delivered) and *)
(* hides the message for ack_wait, ack and term remove it, nak returns it, *)
(* all of them whoever's delivery is the latest, and a publish whose       *)
(* Nats-Msg-Id is in the duplicate window is dropped.                      *)
(*                                                                         *)
(* Messages are numbered in the order of their publishing, dead letters in *)
(* that of theirs.  The connection, its event loop and depth() are left    *)
(* out; a call that raises is a worker that drops what it does.            *)
(***************************************************************************)
EXTENDS Naturals, FiniteSets

CONSTANTS Message,      \* bound: 1..n, the messages ever on the main subject
          Letter,       \* bound: 1..n, the letters ever on the dead subject
          Worker,
          MaxAttempts,
          MaxDrops,     \* bound: how often a worker dies or a call raises
          MaxLapses,    \* bound: how often a live worker misses ack_wait
          MaxExpiries   \* bound: how often an id leaves the duplicate window

NoMessage == 0
NoLetter  == 0

ASSUME NatsAssumption ==
    /\ Message \subseteq Nat \ {0} /\ Letter \subseteq Nat \ {0}
    /\ MaxAttempts \in Nat \ {0}
    /\ MaxDrops \in Nat /\ MaxLapses \in Nat /\ MaxExpiries \in Nat

VARIABLES
    \* the broker: main subject, dead subject, duplicate window
    main, delivered, root, dead, about, window,
    \* the drain() loops
    phase, held, tries,
    \* requeue_dead(): the letter it works on, and whether it is published
    replaying, replayed,
    \* bounds
    drops, lapses, expiries,
    \* history: handler runs begun per message, requests a handler finished
    runs, served

broker  == <<main, delivered, root, dead, about, window>>
workers == <<phase, held, tries>>
replay  == <<replaying, replayed>>
bounds  == <<drops, lapses, expiries>>
history == <<runs, served>>
vars    == <<broker, workers, replay, bounds, history>>

Stored == {"waiting", "outstanding"}
Phases == {"idle", "running", "succeeded", "failed", "burying", "buried"}

\* The next free number of a subject.
IsFresh(n, used) == \A k \in DOMAIN used : used[k] = "none" => n <= k

Init ==
    /\ main = [m \in Message |-> "none"]
    /\ delivered = [m \in Message |-> 0]
    /\ root = [m \in Message |-> NoMessage]
    /\ dead = [d \in Letter |-> "none"]
    /\ about = [d \in Letter |-> NoMessage]
    /\ window = {}
    /\ phase = [w \in Worker |-> "idle"]
    /\ held = [w \in Worker |-> NoMessage]
    /\ tries = [w \in Worker |-> 0]
    /\ replaying = NoLetter /\ replayed = FALSE
    /\ drops = 0 /\ lapses = 0 /\ expiries = 0
    /\ runs = [m \in Message |-> 0]
    /\ served = {}

\* A message r asks for (the request of message r) appears on the main subject.
Store(m, r) ==
    /\ main[m] = "none" /\ IsFresh(m, main)
    /\ main' = [main EXCEPT ![m] = "waiting"]
    /\ root' = [root EXCEPT ![m] = r]

\* publish(): every task object has a publish_id of its own.
Publish(m) ==
    /\ Store(m, m)
    /\ UNCHANGED <<delivered, dead, about, window, workers, replay, bounds,
                   history>>

-----------------------------------------------------------------------------
\* Earlier deliveries ended without a nack: bury instead of running.
Exhausted(n) == n > MaxAttempts

(* claim(): fetch(1), and the attempt check on num_delivered.              *)
Claim(w, m) ==
    LET n == delivered[m] + 1 IN
    /\ phase[w] = "idle"
    /\ main[m] = "waiting"
    /\ main' = [main EXCEPT ![m] = "outstanding"]
    /\ delivered' = [delivered EXCEPT ![m] = n]
    /\ held' = [held EXCEPT ![w] = m]
    /\ tries' = [tries EXCEPT ![w] = n]
    /\ \/ /\ Exhausted(n)
          /\ phase' = [phase EXCEPT ![w] = "burying"]
          /\ UNCHANGED runs
       \/ /\ ~Exhausted(n)
          /\ phase' = [phase EXCEPT ![w] = "running"]
          /\ runs' = [runs EXCEPT ![m] = @ + 1]
    /\ UNCHANGED <<root, dead, about, window, replay, bounds, served>>

LastTryEarly(w) == tries[w] >= MaxAttempts - 1
\* The comparison in nack(), on the attempts of the task object.
LastTry(w) == tries[w] >= MaxAttempts

\* The handler returns or raises; nack() looks at the attempts of its task.
HandlerEnds(w, outcome) ==
    /\ phase[w] = "running"
    /\ \/ /\ outcome = "succeeded"
          /\ phase' = [phase EXCEPT ![w] = "succeeded"]
          /\ served' = served \cup {root[held[w]]}
       \/ /\ outcome = "failed"
          /\ phase' = [phase EXCEPT ![w] =
                         IF LastTry(w) THEN "burying" ELSE "failed"]
          /\ UNCHANGED served
    /\ UNCHANGED <<broker, held, tries, replay, bounds, runs>>

\* The worker is back at the top of drain()'s loop.
Forget(w) ==
    /\ phase' = [phase EXCEPT ![w] = "idle"]
    /\ held' = [held EXCEPT ![w] = NoMessage]
    /\ tries' = [tries EXCEPT ![w] = 0]

\* ack, nak and term of a message that is gone do nothing.
SettleAs(w, place) ==
    /\ main' = [main EXCEPT ![held[w]] = IF @ \in Stored THEN place ELSE @]
    /\ Forget(w)
    /\ UNCHANGED <<delivered, root, dead, about, window, replay, bounds, history>>

Ack(w) == phase[w] = "succeeded" /\ SettleAs(w, "acked")

Nak(w) == phase[w] = "failed" /\ SettleAs(w, "waiting")

(* nack() on the last attempt: first the letter, under an id made of the   *)
(* message's sequence number.                                              *)
Bury(w) ==
    LET m == held[w] IN
    /\ phase[w] = "burying"
    /\ phase' = [phase EXCEPT ![w] = "buried"]
    /\ \/ /\ <<"dlq", m>> \in window
          /\ UNCHANGED <<dead, about, window>>
       \/ /\ <<"dlq", m>> \notin window
          /\ \E d \in Letter :
               /\ dead[d] = "none" /\ IsFresh(d, dead)
               /\ dead' = [dead EXCEPT ![d] = "waiting"]
               /\ about' = [about EXCEPT ![d] = m]
          /\ window' = window \cup {<<"dlq", m>>}
    /\ UNCHANGED <<main, delivered, root, held, tries, replay, bounds, history>>

\* ... then term, which stops redelivery for good.
Term(w) == phase[w] = "buried" /\ SettleAs(w, "termed")

(* The worker dies, or a call to the broker raises out of drain().         *)
Drop(w) ==
    /\ phase[w] # "idle"
    /\ drops < MaxDrops
    /\ drops' = drops + 1
    /\ Forget(w)
    /\ UNCHANGED <<broker, replay, lapses, expiries, history>>

-----------------------------------------------------------------------------
\* The worker of the latest delivery of m still has it.
IsCurrent(w, m) == held[w] = m /\ tries[w] = delivered[m]

LapseIfHeld(m) ==
    /\ main[m] = "outstanding"
    /\ main' = [main EXCEPT ![m] = "waiting"]
    /\ \E w \in Worker : IsCurrent(w, m)
    /\ lapses < MaxLapses
    /\ lapses' = lapses + 1
    /\ UNCHANGED <<delivered, root, dead, about, window, workers, replay, drops,
                   expiries, history>>
\* ack_wait runs out and the message is delivered again.  The pings of a live
\* worker's keepalive thread come more often, but nothing makes them arrive.
Lapse(m) ==
    /\ main[m] = "outstanding"
    /\ main' = [main EXCEPT ![m] = "waiting"]
    /\ \/ /\ \A w \in Worker : ~IsCurrent(w, m)
          /\ UNCHANGED lapses
       \/ /\ \E w \in Worker : IsCurrent(w, m)
          /\ lapses < MaxLapses
          /\ lapses' = lapses + 1
    /\ UNCHANGED <<delivered, root, dead, about, window, workers, replay, drops,
                   expiries, history>>

\* An id leaves the duplicate window.
ExpireId(id) ==
    /\ id \in window
    /\ expiries < MaxExpiries
    /\ expiries' = expiries + 1
    /\ window' = window \ {id}
    /\ UNCHANGED <<main, delivered, root, dead, about, workers, replay, drops,
                   lapses, history>>

-----------------------------------------------------------------------------
\* requeue_dead() fetches a letter,
FetchLetter(d) ==
    /\ replaying = NoLetter
    /\ dead[d] = "waiting"
    /\ dead' = [dead EXCEPT ![d] = "outstanding"]
    /\ replaying' = d /\ replayed' = FALSE
    /\ UNCHANGED <<main, delivered, root, about, window, workers, bounds, history>>

\* publishes its task anew, under an id made of the letter's number,
Republish ==
    /\ replaying # NoLetter /\ ~replayed
    /\ replayed' = TRUE
    /\ \/ /\ <<"requeue", replaying>> \in window
          /\ UNCHANGED <<main, root, window>>
       \/ /\ <<"requeue", replaying>> \notin window
          /\ \E m \in Message : Store(m, root[about[replaying]])
          /\ window' = window \cup {<<"requeue", replaying>>}
    /\ UNCHANGED <<delivered, dead, about, workers, replaying, bounds, history>>

AckLetterEarly ==
    /\ replaying # NoLetter
    /\ dead' = [dead EXCEPT ![replaying] = "acked"]
    /\ replaying' = NoLetter /\ replayed' = FALSE
    /\ UNCHANGED <<main, delivered, root, about, window, workers, bounds, history>>
\* and acknowledges the letter.
AckLetter ==
    /\ replaying # NoLetter /\ replayed
    /\ dead' = [dead EXCEPT ![replaying] = "acked"]
    /\ replaying' = NoLetter /\ replayed' = FALSE
    /\ UNCHANGED <<main, delivered, root, about, window, workers, bounds, history>>

\* The operator's process dies: the letter comes back after ack_wait.
DropReplay ==
    /\ replaying # NoLetter
    /\ drops < MaxDrops
    /\ drops' = drops + 1
    /\ dead' = [dead EXCEPT ![replaying] = "waiting"]
    /\ replaying' = NoLetter /\ replayed' = FALSE
    /\ UNCHANGED <<main, delivered, root, about, window, workers, lapses,
                   expiries, history>>

Settle(w) == Ack(w) \/ Nak(w) \/ Term(w)

Next ==
    \/ \E m \in Message : Publish(m) \/ Lapse(m)
    \/ \E w \in Worker :
         \/ \E m \in Message : Claim(w, m)
         \/ \E o \in {"succeeded", "failed"} : HandlerEnds(w, o)
         \/ Bury(w) \/ Ack(w) \/ Nak(w) \/ Term(w) \/ Drop(w)
    \/ \E id \in window : ExpireId(id)
    \/ \E d \in Letter : FetchLetter(d)
    \/ Republish \/ AckLetter \/ DropReplay

Spec == Init /\ [][Next]_vars

(* drain() keeps claiming, handlers return, settlements are sent, and      *)
(* ack_wait runs out for a delivery whose worker is gone.                  *)
Fairness ==
    /\ \A m \in Message : WF_vars(Lapse(m))
    /\ \A w \in Worker :
         /\ WF_vars(\E m \in Message : Claim(w, m))
         /\ WF_vars(\E o \in {"succeeded", "failed"} : HandlerEnds(w, o))
         /\ WF_vars(Bury(w)) /\ WF_vars(Settle(w))

FairSpec == Spec /\ Fairness

-----------------------------------------------------------------------------
\* Types of the broker's records, the workers' locals and the history.
TypeOK ==
    /\ main \in [Message -> Stored \cup {"none", "acked", "termed"}]
    /\ delivered \in [Message -> Nat]
    /\ root \in [Message -> Message \cup {NoMessage}]
    /\ dead \in [Letter -> Stored \cup {"none", "acked"}]
    /\ about \in [Letter -> Message \cup {NoMessage}]
    /\ window \subseteq ({"dlq"} \X Message) \cup ({"requeue"} \X Letter)
    /\ phase \in [Worker -> Phases]
    /\ held \in [Worker -> Message \cup {NoMessage}]
    /\ tries \in [Worker -> Nat]
    /\ \A w \in Worker : (phase[w] = "idle") <=> (held[w] = NoMessage)
    /\ replaying \in Letter \cup {NoLetter} /\ replayed \in BOOLEAN
    /\ drops \in 0..MaxDrops /\ lapses \in 0..MaxLapses
    /\ expiries \in 0..MaxExpiries
    /\ runs \in [Message -> Nat]
    /\ served \subseteq Message

(* "Never term first" and publish-then-ack of requeue_dead: a request that *)
(* no handler has finished is always held by the broker, as a message or   *)
(* as a dead letter, whatever dies between the two calls of a burial or of *)
(* a replay and whichever publish the duplicate window drops.              *)
NothingLost ==
    \A m \in Message : main[m] # "none" =>
        \/ root[m] \in served
        \/ \E n \in Message : root[n] = root[m] /\ main[n] \in Stored
        \/ \E d \in Letter : /\ dead[d] \in Stored
                             /\ root[about[d]] = root[m]

(* No handler starts on a message that has a dead letter: a worker that    *)
(* died between the letter and the term leaves a message that can only be  *)
(* buried again, never one that is both replayed and retried.              *)
BuriedIsNotRun ==
    [][\A m \in Message : (\E d \in Letter : about[d] = m) => runs'[m] = runs[m]]_vars

(* Every message leaves the main subject: acknowledged, or buried with a   *)
(* letter.                                                                 *)
EventuallyLeaves ==
    \A m \in Message : main[m] \in Stored ~> main[m] \in {"acked", "termed"}

-----------------------------------------------------------------------------
(* The contract of TaskQueue over messages: a message is a task, submitted *)
(* once; a replay is the submission of another.                            *)
MappedState(m) ==
    CASE main[m] = "none" -> "none"
      [] main[m] \in Stored -> "due"
      [] main[m] = "acked" -> "done"
      [] main[m] = "termed" -> "dead"

MappedVerdict(w) ==
    CASE phase[w] = "idle" -> "nothing"
      [] phase[w] # "idle" /\ tries[w] < MaxAttempts -> "retry"
      [] phase[w] # "idle" /\ tries[w] = MaxAttempts -> "last"
      [] phase[w] # "idle" /\ tries[w] > MaxAttempts -> "spent"

Contract == INSTANCE WorkQueue WITH
    Task    <- Message,
    NoTask  <- NoMessage,
    state   <- [m \in Message |-> MappedState(m)],
    handed  <- [m \in Message |->
                  IF delivered[m] < MaxAttempts THEN delivered[m] ELSE MaxAttempts],
    carried <- held,
    verdict <- [w \in Worker |-> MappedVerdict(w)]

(* The broker backend keeps the contract the local one keeps.              *)
KeepsContract == Contract!Spec
=============================================================================
