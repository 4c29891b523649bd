--------------------------- MODULE NatsQueueProofs ---------------------------
(***************************************************************************)
(* Proofs about NatsQueue, for any number of messages, letters and workers *)
(* and any bound on deaths, lapses and expiries.                           *)
(***************************************************************************)
EXTENDS NatsQueue, TLAPS

(* Whatever a worker or a letter names was published, for a request.       *)
Published ==
    /\ \A m \in Message : main[m] # "none" => root[m] \in Message
    /\ \A w \in Worker : phase[w] # "idle" => main[held[w]] # "none"
    /\ \A d \in Letter : IF dead[d] = "none" THEN about[d] = NoMessage
                         ELSE about[d] \in Message /\ main[about[d]] # "none"
    /\ replaying # NoLetter => dead[replaying] = "outstanding"

(* What a worker carries was delivered to it, and its phase fits its       *)
(* attempt; a letter is about a message with no attempt left.              *)
Counted ==
    /\ \A m \in Message : main[m] = "none" => delivered[m] = 0
    /\ \A w \in Worker : phase[w] # "idle" =>
         /\ tries[w] \in 1..delivered[held[w]]
         /\ phase[w] \in {"running", "succeeded"} => tries[w] <= MaxAttempts
         /\ phase[w] = "failed" => tries[w] < MaxAttempts
         /\ phase[w] \in {"burying", "buried"} => tries[w] >= MaxAttempts
    /\ \A d \in Letter : about[d] # NoMessage => delivered[about[d]] >= MaxAttempts

(* Request r is finished, or held by the broker under a number above j.    *)
Kept(r, j) ==
    \/ r \in served
    \/ \E n \in Message : n > j /\ root[n] = r /\ main[n] \in Stored
    \/ \E d \in Letter : about[d] > j /\ root[about[d]] = r /\ dead[d] \in Stored

HasLetter(m) == \E d \in Letter : dead[d] # "none" /\ about[d] = m

(* Why a request outlives its messages: a message goes only when it was    *)
(* served or has a letter, a letter only when its request was published    *)
(* anew, and what is published anew has a higher number.                   *)
Inherited ==
    /\ \A m, n \in Message : main[m] # "none" /\ main[n] = "none" => m < n
    /\ \A m \in Message :
         /\ main[m] = "acked" => root[m] \in served
         /\ main[m] = "termed" \/ <<"dlq", m>> \in window => HasLetter(m)
    /\ \A w \in Worker :
         /\ phase[w] = "succeeded" => root[held[w]] \in served
         /\ phase[w] = "buried" => HasLetter(held[w])
    /\ \A d \in Letter :
         /\ dead[d] # "none" =>
              \/ Kept(root[about[d]], about[d])
              \/ \E e \in Letter : about[e] = about[d] /\ dead[e] \in Stored
         /\ <<"requeue", d>> \in window =>
              dead[d] # "none" /\ Kept(root[about[d]], about[d])
    /\ replaying # NoLetter /\ replayed => Kept(root[about[replaying]], about[replaying])

-----------------------------------------------------------------------------
\* Numbers of messages and letters are not those of none.
LEMMA Numbers ==
    /\ MaxAttempts \in Nat /\ MaxAttempts > 0
    /\ \A m \in Message : m \in Nat /\ m > 0 /\ m # NoMessage
    /\ \A d \in Letter : d \in Nat /\ d > 0 /\ d # NoLetter
BY NatsAssumption DEF NoMessage, NoLetter

LEMMA InitType == Init => TypeOK /\ Published
<1> USE NatsAssumption DEF Init, Stored, Phases
<1>1. Init => TypeOK
  <2> SUFFICES ASSUME Init PROVE TypeOK
    OBVIOUS
  <2>1. /\ main \in [Message -> Stored \cup {"none", "acked", "termed"}]
        /\ delivered \in [Message -> Nat] /\ root \in [Message -> Message \cup {NoMessage}]
        /\ dead \in [Letter -> Stored \cup {"none", "acked"}]
        /\ about \in [Letter -> Message \cup {NoMessage}]
    OBVIOUS
  <2>2. /\ phase \in [Worker -> Phases] /\ held \in [Worker -> Message \cup {NoMessage}]
        /\ tries \in [Worker -> Nat] /\ runs \in [Message -> Nat]
        /\ \A w \in Worker : (phase[w] = "idle") <=> (held[w] = NoMessage)
    OBVIOUS
  <2>3. drops \in 0..MaxDrops /\ lapses \in 0..MaxLapses /\ expiries \in 0..MaxExpiries
    OBVIOUS
  <2>4. QED
    BY <2>1, <2>2, <2>3 DEF TypeOK
<1>2. Init => Published
  BY DEF Published
<1>3. QED
  BY <1>1, <1>2

LEMMA CarriedIsMessage ==
    ASSUME TypeOK, NEW w \in Worker, phase[w] # "idle"
    PROVE  held[w] \in Message
BY DEF TypeOK

(* Every call to the broker, every step of a worker and every step of the  *)
(* replay keeps the types.                                                 *)
LEMMA TypeStep == TypeOK /\ Published /\ [Next]_vars => (TypeOK /\ Published)'
<1> SUFFICES ASSUME TypeOK, Published, [Next]_vars PROVE (TypeOK /\ Published)'
  OBVIOUS
<1> USE Numbers, NatsAssumption DEF TypeOK, Published, Stored, Phases
<1>1. ASSUME NEW m \in Message, Publish(m) PROVE (TypeOK /\ Published)'
  BY <1>1 DEF Publish, Store, workers, replay, bounds, history
<1>2. ASSUME NEW w \in Worker, NEW m \in Message, Claim(w, m) PROVE (TypeOK /\ Published)'
  BY <1>2 DEF Claim, replay, bounds
<1>3. ASSUME NEW w \in Worker, NEW o \in {"succeeded", "failed"}, HandlerEnds(w, o)
      PROVE (TypeOK /\ Published)'
  <2>1. held[w] \in Message /\ root[held[w]] \in Message
    BY <1>3, CarriedIsMessage DEF HandlerEnds
  <2>2. PICK next \in {"succeeded", "failed", "burying"} : phase' = [phase EXCEPT ![w] = next]
    BY <1>3 DEF HandlerEnds
  <2>3. /\ phase' \in [Worker -> Phases]
        /\ \A v \in Worker : phase'[v] = "idle" <=> phase[v] = "idle"
    BY <1>3, <2>2 DEF HandlerEnds
  <2>4. served' \in SUBSET Message /\ UNCHANGED <<broker, held, tries, replay, bounds, runs>>
    BY <1>3, <2>1 DEF HandlerEnds
  <2>5. QED
    BY <2>3, <2>4 DEF broker, replay, bounds
<1>4. ASSUME NEW w \in Worker, Ack(w) \/ Nak(w) \/ Term(w) PROVE (TypeOK /\ Published)'
  <2>1. held[w] \in Message
    BY <1>4, CarriedIsMessage DEF Ack, Nak, Term
  <2>2. PICK place \in {"acked", "waiting", "termed"} : SettleAs(w, place)
    BY <1>4 DEF Ack, Nak, Term
  <2>3. TypeOK'
    BY <2>1, <2>2 DEF SettleAs, Forget, replay, bounds, history
  <2>4. Published'
    BY <2>1, <2>2 DEF SettleAs, Forget, replay
  <2>5. QED
    BY <2>3, <2>4
<1>5. ASSUME NEW w \in Worker, Bury(w) PROVE (TypeOK /\ Published)'
  <2>1. held[w] \in Message
    BY <1>5, CarriedIsMessage DEF Bury
  <2>2. QED
    BY <1>5, <2>1 DEF Bury, replay, bounds, history
<1>6. ASSUME NEW w \in Worker, Drop(w) PROVE (TypeOK /\ Published)'
  BY <1>6 DEF Drop, Forget, broker, replay, history
<1>7. ASSUME NEW m \in Message, Lapse(m) PROVE (TypeOK /\ Published)'
  BY <1>7 DEF Lapse, workers, replay, history
<1>8. ASSUME NEW id \in window, ExpireId(id) PROVE (TypeOK /\ Published)'
  BY <1>8 DEF ExpireId, workers, replay, history
<1>9. ASSUME NEW d \in Letter, FetchLetter(d) PROVE (TypeOK /\ Published)'
  BY <1>9 DEF FetchLetter, workers, bounds, history
<1>10. ASSUME Republish PROVE (TypeOK /\ Published)'
  <2>1. replaying \in Letter /\ root[about[replaying]] \in Message
    BY <1>10 DEF Republish
  <2>2. main' \in [Message -> Stored \cup {"none", "acked", "termed"}]
        /\ root' \in [Message -> Message \cup {NoMessage}]
    BY <1>10, <2>1 DEF Republish, Store
  <2>3. window' \subseteq ({"dlq"} \X Message) \cup ({"requeue"} \X Letter)
    BY <1>10, <2>1 DEF Republish
  <2>4. TypeOK'
    BY <1>10, <2>2, <2>3 DEF Republish, workers, bounds, history
  <2>5. /\ UNCHANGED <<dead, about, phase, held, replaying>>
        /\ \A m \in Message : main[m] # "none" => main'[m] # "none" /\ root'[m] = root[m]
        /\ \A m \in Message : main'[m] # "none" => root'[m] \in Message
    BY <1>10, <2>1 DEF Republish, Store, workers
  <2>6. Published'
    <3>1. /\ \A m \in Message : main'[m] # "none" => root'[m] \in Message
          /\ replaying' # NoLetter => dead'[replaying'] = "outstanding"
      BY <2>5
    <3>2. ASSUME NEW w \in Worker, phase'[w] # "idle" PROVE main'[held'[w]] # "none"
      <4>1. phase[w] # "idle" /\ held'[w] = held[w] /\ held[w] \in Message
        BY <2>5, <3>2, CarriedIsMessage
      <4>2. QED
        BY <2>5, <4>1
    <3>3. \A d \in Letter : IF dead'[d] = "none" THEN about'[d] = NoMessage
                            ELSE about'[d] \in Message /\ main'[about'[d]] # "none"
      BY <2>5
    <3>4. QED
      BY <3>1, <3>2, <3>3
  <2>7. QED
    BY <2>4, <2>6
<1>11. ASSUME AckLetter PROVE (TypeOK /\ Published)'
  BY <1>11 DEF AckLetter, workers, bounds, history
<1>12. ASSUME DropReplay PROVE (TypeOK /\ Published)'
  <2>1. replaying \in Letter /\ drops + 1 \in 0..MaxDrops
    BY <1>12 DEF DropReplay
  <2>2. QED
    BY <1>12, <2>1 DEF DropReplay, workers, history
<1>13. ASSUME UNCHANGED vars PROVE (TypeOK /\ Published)'
  BY <1>13 DEF vars, broker, workers, replay, bounds, history
<1>14. QED
  BY <1>1, <1>2, <1>3, <1>4, <1>5, <1>6, <1>7, <1>8, <1>9, <1>10, <1>11, <1>12,
     <1>13 DEF Next

(* The records of the broker, the workers' locals and the history are well *)
(* typed in every reachable state.                                         *)
THEOREM TypeCorrect == Spec => [](TypeOK /\ Published)
BY InitType, TypeStep, PTL DEF Spec

-----------------------------------------------------------------------------
LEMMA InitCounted == Init => Counted
BY Numbers DEF Init, Counted

(* The comparison of claim() on the delivery count and that of nack() on   *)
(* the task's attempts agree on who is spent, whatever is redelivered.     *)
LEMMA CountedStep == TypeOK /\ Published /\ Counted /\ [Next]_vars => Counted'
<1> SUFFICES ASSUME TypeOK, Published, Counted, [Next]_vars PROVE Counted'
  OBVIOUS
<1> USE Numbers DEF TypeOK, Counted, Phases
<1>1. ASSUME NEW m \in Message, Publish(m) PROVE Counted'
  BY <1>1 DEF Publish, Store, workers
<1>2. ASSUME NEW w \in Worker, NEW m \in Message, Claim(w, m) PROVE Counted'
  <2>1. /\ \A n \in Message : delivered'[n] \in Nat /\ delivered'[n] >= delivered[n]
        /\ delivered'[m] = delivered[m] + 1
        /\ \A n \in Message : main'[n] = "none" => n # m /\ main[n] = "none"
    BY <1>2 DEF Claim
  <2>2. ASSUME NEW v \in Worker, v # w
        PROVE  phase'[v] = phase[v] /\ held'[v] = held[v] /\ tries'[v] = tries[v]
    BY <1>2, <2>2 DEF Claim
  <2>3. /\ phase'[w] \in {"burying", "running"} /\ held'[w] = m
        /\ tries'[w] = delivered[m] + 1
        /\ phase'[w] = "burying" <=> delivered[m] + 1 > MaxAttempts
    BY <1>2 DEF Claim, Exhausted
  <2>4. \A n \in Message : main'[n] = "none" => delivered'[n] = 0
    BY <1>2, <2>1 DEF Claim
  <2>5. \A d \in Letter : about'[d] # NoMessage => delivered'[about'[d]] >= MaxAttempts
    BY <1>2, <2>1 DEF Claim
  <2>6. ASSUME NEW v \in Worker, phase'[v] # "idle"
        PROVE  /\ tries'[v] \in 1..delivered'[held'[v]]
               /\ phase'[v] \in {"running", "succeeded"} => tries'[v] <= MaxAttempts
               /\ phase'[v] = "failed" => tries'[v] < MaxAttempts
               /\ phase'[v] \in {"burying", "buried"} => tries'[v] >= MaxAttempts
    BY <2>1, <2>2, <2>3, <2>6, CarriedIsMessage
  <2>7. QED
    BY <2>4, <2>5, <2>6
<1>3. ASSUME NEW w \in Worker, NEW o \in {"succeeded", "failed"}, HandlerEnds(w, o)
      PROVE Counted'
  BY <1>3 DEF HandlerEnds, broker, LastTry
<1>4. ASSUME NEW w \in Worker, Ack(w) \/ Nak(w) \/ Term(w) PROVE Counted'
  <2>1. PICK place \in {"acked", "waiting", "termed"} : SettleAs(w, place)
    BY <1>4 DEF Ack, Nak, Term
  <2>2. QED
    BY <2>1 DEF SettleAs, Forget
<1>5. ASSUME NEW w \in Worker, Bury(w) PROVE Counted'
  <2>1. held[w] \in Message /\ delivered[held[w]] >= MaxAttempts
    BY <1>5, CarriedIsMessage DEF Bury
  <2>2. QED
    BY <1>5, <2>1 DEF Bury
<1>6. ASSUME NEW w \in Worker, Drop(w) PROVE Counted'
  BY <1>6 DEF Drop, Forget, broker
<1>7. ASSUME NEW m \in Message, Lapse(m) PROVE Counted'
  BY <1>7 DEF Lapse, workers
<1>8. ASSUME \/ \E id \in window : ExpireId(id)
             \/ \E d \in Letter : FetchLetter(d)
             \/ AckLetter \/ DropReplay \/ UNCHANGED vars
      PROVE Counted'
  BY <1>8 DEF ExpireId, FetchLetter, AckLetter, DropReplay, vars, broker, workers
<1>9. ASSUME Republish PROVE Counted'
  BY <1>9 DEF Republish, Store, workers
<1>10. QED
  BY <1>1, <1>2, <1>3, <1>4, <1>5, <1>6, <1>7, <1>8, <1>9 DEF Next

(* A buried message is not run again: its delivery count says so to every  *)
(* later claim.                                                            *)
THEOREM BuriedStaysBuried == Spec => BuriedIsNotRun
<1>1. TypeOK /\ Counted /\ [Next]_vars =>
        [\A m \in Message : (\E d \in Letter : about[d] = m) => runs'[m] = runs[m]]_vars
  <2> SUFFICES ASSUME TypeOK, Counted, Next,
                      NEW m \in Message, NEW d \in Letter, about[d] = m
               PROVE  runs'[m] = runs[m]
    OBVIOUS
  <2>1. delivered[m] \in Nat /\ delivered[m] >= MaxAttempts
    BY Numbers DEF Counted, TypeOK
  <2>2. ASSUME NEW w \in Worker, NEW n \in Message, Claim(w, n) PROVE runs'[m] = runs[m]
    BY <2>1, <2>2, Numbers DEF Claim, Exhausted, TypeOK
  <2>3. ASSUME UNCHANGED runs PROVE runs'[m] = runs[m]
    BY <2>3
  <2>4. QED
    BY <2>2, <2>3 DEF Next, Publish, Store, Lapse, HandlerEnds, Bury, Ack, Nak, Term, SettleAs,
       Drop, ExpireId, FetchLetter, Republish, AckLetter, DropReplay, history
<1>2. QED
  BY <1>1, InitCounted, CountedStep, TypeCorrect, PTL DEF Spec, BuriedIsNotRun

-----------------------------------------------------------------------------
(* What one step does to what the broker holds.                            *)
GoesOnly(n) ==
    \/ root[n] \in served
    \/ /\ HasLetter(n) /\ dead' = dead
       /\ \A k \in Message \ {n} : main'[k] = main[k]

EndsOnly(d) ==
    /\ Kept(root[about[d]], about[d]) /\ main' = main
    /\ \A e \in Letter \ {d} : dead'[e] = dead[e]

LEMMA StepKeeps ==
  ASSUME TypeOK, Published, Inherited, [Next]_vars
  PROVE  /\ served \subseteq served'
         /\ \A m \in Message : main[m] # "none" => main'[m] # "none" /\ root'[m] = root[m]
         /\ \A d \in Letter : dead[d] # "none" => dead'[d] # "none" /\ about'[d] = about[d]
         /\ \A n \in Message : main[n] \in Stored /\ main'[n] \notin Stored => GoesOnly(n)
         /\ \A d \in Letter : dead[d] \in Stored /\ dead'[d] \notin Stored => EndsOnly(d)
<1> DEFINE Keeps ==
      /\ served \subseteq served'
      /\ \A m \in Message : main[m] # "none" => main'[m] # "none" /\ root'[m] = root[m]
      /\ \A d \in Letter : dead[d] # "none" => dead'[d] # "none" /\ about'[d] = about[d]
      /\ \A n \in Message : main[n] \in Stored /\ main'[n] \notin Stored => GoesOnly(n)
      /\ \A d \in Letter : dead[d] \in Stored /\ dead'[d] \notin Stored => EndsOnly(d)
<1> USE Numbers DEF TypeOK, Stored
<1>1. ASSUME NEW m \in Message, Publish(m) PROVE Keeps
  BY <1>1 DEF Publish, Store, history
<1>2. ASSUME NEW w \in Worker, NEW m \in Message, Claim(w, m) PROVE Keeps
  BY <1>2 DEF Claim
<1>3. ASSUME NEW w \in Worker, NEW o \in {"succeeded", "failed"}, HandlerEnds(w, o) PROVE Keeps
  BY <1>3 DEF HandlerEnds, broker
<1>4. ASSUME NEW w \in Worker, Ack(w) \/ Nak(w) \/ Term(w) PROVE Keeps
  <2>1. PICK place \in {"acked", "waiting", "termed"} :
          /\ SettleAs(w, place)
          /\ place = "acked" => root[held[w]] \in served
          /\ place = "termed" => HasLetter(held[w])
    BY <1>4 DEF Ack, Nak, Term, Inherited
  <2>2. /\ UNCHANGED <<dead, about, root, served>>
        /\ held[w] \in Message
        /\ main' = [main EXCEPT ![held[w]] = IF @ \in Stored THEN place ELSE @]
    BY <1>4, <2>1, CarriedIsMessage DEF SettleAs, history, Ack, Nak, Term
  <2>3. \A n \in Message : main[n] \in Stored /\ main'[n] \notin Stored => GoesOnly(n)
    BY <2>1, <2>2 DEF GoesOnly
  <2>4. QED
    BY <2>2, <2>3
<1>5. ASSUME NEW w \in Worker, Bury(w) PROVE Keeps
  BY <1>5 DEF Bury, history
<1>6. ASSUME \/ \E w \in Worker : Drop(w)
             \/ \E m \in Message : Lapse(m)
             \/ \E id \in window : ExpireId(id)
             \/ \E d \in Letter : FetchLetter(d)
             \/ DropReplay \/ UNCHANGED vars
      PROVE Keeps
  BY <1>6 DEF Drop, Lapse, ExpireId, FetchLetter, DropReplay, vars, broker, history
<1>7. ASSUME Republish PROVE Keeps
  BY <1>7 DEF Republish, Store, history
<1>8. ASSUME AckLetter PROVE Keeps
  BY <1>8 DEF AckLetter, EndsOnly, Inherited, history
<1>9. QED
  BY <1>1, <1>2, <1>3, <1>4, <1>5, <1>6, <1>7, <1>8 DEF Next

(* A request held above a number stays held above it, or is finished: its  *)
(* holder gives way only to one with a higher number.                      *)
LEMMA KeptStays ==
  ASSUME TypeOK, Published, Inherited, [Next]_vars, NEW r, NEW j \in Nat, Kept(r, j)
  PROVE  Kept(r, j)'
<1> USE Numbers DEF TypeOK
<1>a. \A m \in Message : main[m] \in Stored => main[m] # "none"
  BY DEF Stored
<1>b. \A d \in Letter : dead[d] \in Stored => dead[d] # "none"
  BY DEF Stored
<1>1. CASE r \in served
  BY <1>1, StepKeeps DEF Kept
<1>2. ASSUME NEW n \in Message, n > j, root[n] = r, main[n] \in Stored PROVE Kept(r, j)'
  <2>1. CASE main'[n] \in Stored
    BY <1>2, <2>1, <1>a, StepKeeps DEF Kept
  <2>2. CASE main'[n] \notin Stored
    <3>1. GoesOnly(n)
      BY <1>2, <2>2, StepKeeps
    <3>2. CASE root[n] \in served
      BY <1>2, <3>2, StepKeeps DEF Kept
    <3>3. CASE /\ HasLetter(n) /\ dead' = dead
               /\ \A k \in Message \ {n} : main'[k] = main[k]
      <4>1. \/ Kept(r, n)
            \/ \E e \in Letter : about[e] = n /\ dead[e] \in Stored
        <5>1. PICK d \in Letter : dead[d] # "none" /\ about[d] = n
          BY <3>3 DEF HasLetter
        <5>2. \/ Kept(root[about[d]], about[d])
              \/ \E e \in Letter : about[e] = about[d] /\ dead[e] \in Stored
          BY <5>1 DEF Inherited
        <5>3. QED
          BY <1>2, <5>1, <5>2
      <4>2. CASE Kept(r, n)
        <5>1. CASE r \in served
          BY <5>1, StepKeeps DEF Kept
        <5>2. ASSUME NEW k \in Message, k > n, root[k] = r, main[k] \in Stored
              PROVE  Kept(r, j)'
          <6>1. k # n /\ k > j /\ main'[k] \in Stored /\ root'[k] = r
            BY <1>2, <3>3, <5>2, <1>a, StepKeeps
          <6>2. QED
            BY <6>1 DEF Kept
        <5>3. ASSUME NEW e \in Letter, about[e] > n, root[about[e]] = r, dead[e] \in Stored
              PROVE  Kept(r, j)'
          <6>1. about[e] \in Message /\ about[e] > j /\ main[about[e]] # "none"
            BY <1>2, <5>3, <1>b DEF Published
          <6>2. about'[e] = about[e] /\ root'[about[e]] = r /\ dead'[e] \in Stored
            BY <3>3, <5>3, <6>1, <1>b, StepKeeps
          <6>3. QED
            BY <6>1, <6>2 DEF Kept
        <5>4. QED
          BY <4>2, <5>1, <5>2, <5>3 DEF Kept
      <4>3. CASE \E e \in Letter : about[e] = n /\ dead[e] \in Stored
        BY <1>2, <3>3, <4>3, <1>a, <1>b, StepKeeps DEF Kept
      <4>4. QED
        BY <4>1, <4>2, <4>3
    <3>4. QED
      BY <3>1, <3>2, <3>3 DEF GoesOnly
  <2>3. QED
    BY <2>1, <2>2
<1>3. ASSUME NEW d \in Letter, about[d] > j, root[about[d]] = r, dead[d] \in Stored
      PROVE  Kept(r, j)'
  <2>1. about[d] \in Message /\ main[about[d]] # "none"
    BY <1>3, <1>b DEF Published
  <2>2. CASE dead'[d] \in Stored
    BY <1>3, <2>1, <2>2, <1>b, StepKeeps DEF Kept
  <2>3. CASE dead'[d] \notin Stored
    <3>1. EndsOnly(d)
      BY <1>3, <2>3, StepKeeps
    <3>2. CASE r \in served
      BY <3>2, StepKeeps DEF Kept
    <3>3. ASSUME NEW n \in Message, n > about[d], root[n] = r, main[n] \in Stored
          PROVE  Kept(r, j)'
      BY <1>3, <2>1, <3>1, <3>3, <1>a, StepKeeps DEF Kept, EndsOnly
    <3>4. ASSUME NEW e \in Letter, about[e] > about[d], root[about[e]] = r, dead[e] \in Stored
          PROVE  Kept(r, j)'
      <4>1. e # d /\ about[e] \in Message /\ main[about[e]] # "none" /\ about[e] > j
        BY <1>3, <2>1, <3>4, <1>b DEF Published
      <4>2. dead'[e] \in Stored
        BY <3>1, <3>4, <4>1 DEF EndsOnly
      <4>3. QED
        BY <3>4, <4>1, <4>2, <1>b, StepKeeps DEF Kept
    <3>5. QED
      BY <1>3, <3>1, <3>2, <3>3, <3>4 DEF EndsOnly, Kept
  <2>4. QED
    BY <2>2, <2>3
<1>4. QED
  BY <1>1, <1>2, <1>3 DEF Kept

\* What is known of a letter and of a message goes on to be true.
LEMMA LettersStay ==
  ASSUME TypeOK, Published, Inherited, [Next]_vars
  PROVE  /\ \A m \in Message : HasLetter(m) => HasLetter(m)'
         /\ \A d \in Letter : dead[d] # "none" =>
              /\ dead'[d] # "none"
              /\ \/ Kept(root[about[d]], about[d])'
                 \/ \E e \in Letter : about'[e] = about'[d] /\ dead'[e] \in Stored
         /\ \A d \in Letter : dead[d] # "none" /\ Kept(root[about[d]], about[d])
              => Kept(root[about[d]], about[d])'
<1>1. \A m \in Message : HasLetter(m) => HasLetter(m)'
  BY StepKeeps DEF HasLetter
<1>2. ASSUME NEW d \in Letter, dead[d] # "none"
      PROVE  /\ about[d] \in Message /\ about[d] \in Nat
             /\ about'[d] = about[d] /\ root'[about[d]] = root[about[d]]
  BY <1>2, StepKeeps, Numbers DEF Published
<1>3. ASSUME NEW d \in Letter, dead[d] # "none", Kept(root[about[d]], about[d])
      PROVE  Kept(root[about[d]], about[d])'
  <2>1. PICK r, j : r = root[about[d]] /\ j = about[d]
    OBVIOUS
  <2>2. Kept(r, j)'
    BY <1>2, <1>3, <2>1, KeptStays
  <2>3. r = root'[about'[d]] /\ j = about'[d]
    BY <1>2, <1>3, <2>1
  <2>4. QED
    BY <2>2, <2>3 DEF Kept
<1>4. ASSUME NEW d \in Letter, dead[d] # "none"
      PROVE  \/ Kept(root[about[d]], about[d])'
             \/ \E e \in Letter : about'[e] = about'[d] /\ dead'[e] \in Stored
  <2>1. CASE Kept(root[about[d]], about[d])
    BY <1>3, <1>4, <2>1
  <2>2. ASSUME NEW e \in Letter, about[e] = about[d], dead[e] \in Stored
        PROVE  \/ Kept(root[about[d]], about[d])'
               \/ \E f \in Letter : about'[f] = about'[d] /\ dead'[f] \in Stored
    <3>1. CASE dead'[e] \in Stored
      BY <1>4, <2>2, <3>1, StepKeeps DEF Stored
    <3>2. CASE dead'[e] \notin Stored
      <4>1. Kept(root[about[d]], about[d])
        BY <2>2, <3>2, StepKeeps DEF EndsOnly
      <4>2. QED
        BY <1>3, <1>4, <4>1
    <3>3. QED
      BY <3>1, <3>2
  <2>3. QED
    BY <1>4, <2>1, <2>2 DEF Inherited
<1>5. QED
  BY <1>1, <1>3, <1>4, StepKeeps

(* What is published anew comes after the message it stands for.           *)
LEMMA RepublishedHigher ==
  ASSUME TypeOK, Published, Inherited, Republish
  PROVE  Kept(root[about[replaying]], about[replaying])'
<1>1. replaying \in Letter /\ dead[replaying] # "none"
  BY DEF Republish, TypeOK, Published
<1>2. about[replaying] \in Message /\ main[about[replaying]] # "none"
  BY <1>1 DEF Published
<1>3. CASE <<"requeue", replaying>> \in window
  <2>1. Kept(root[about[replaying]], about[replaying])
    BY <1>1, <1>3 DEF Inherited
  <2>2. UNCHANGED <<main, root, served, about, dead, replaying>>
    BY <1>3 DEF Republish, history
  <2>3. QED
    BY <2>1, <2>2 DEF Kept
<1>4. CASE <<"requeue", replaying>> \notin window
  <2>1. PICK m \in Message : Store(m, root[about[replaying]])
    BY <1>4 DEF Republish
  <2>2. m > about[replaying] /\ m # about[replaying]
    BY <1>2, <2>1, Numbers DEF Store, Inherited
  <2>3. /\ main'[m] \in Stored /\ root'[m] = root[about[replaying]]
        /\ root'[about[replaying]] = root[about[replaying]]
    BY <1>2, <2>1, <2>2 DEF Store, TypeOK, Stored
  <2>4. UNCHANGED <<about, replaying>>
    BY DEF Republish
  <2>5. QED
    BY <2>2, <2>3, <2>4 DEF Kept
<1>5. QED
  BY <1>3, <1>4

(* Messages are numbered without gaps.                                     *)
LEMMA PrefixStep ==
  ASSUME TypeOK, Published, Inherited, [Next]_vars, NEW m \in Message, NEW n \in Message,
         main'[m] # "none", main'[n] = "none"
  PROVE  m < n
<1> USE Numbers DEF TypeOK
<1>1. main[n] = "none"
  BY StepKeeps
<1>2. CASE main[m] # "none"
  BY <1>1, <1>2 DEF Inherited
<1>3. CASE main[m] = "none"
  <2>1. \E r : Store(m, r)
    <3>1. ASSUME NEW k \in Message, NEW r, Store(k, r) PROVE Store(m, r)
      BY <1>3, <3>1 DEF Store
    <3>2. CASE \E k \in Message : Publish(k)
      BY <3>1, <3>2 DEF Publish
    <3>3. CASE Republish
      BY <1>3, <3>1, <3>3 DEF Republish
    <3>4. CASE \E w \in Worker : Ack(w) \/ Nak(w) \/ Term(w)
      <4>1. PICK w \in Worker, place \in {"acked", "waiting", "termed"} : SettleAs(w, place)
        BY <3>4 DEF Ack, Nak, Term
      <4>2. QED
        BY <1>3, <4>1 DEF SettleAs, Stored
    <3>5. CASE \E w \in Worker, k \in Message : Claim(w, k)
      BY <1>3, <3>5 DEF Claim
    <3>6. CASE \E k \in Message : Lapse(k)
      BY <1>3, <3>6 DEF Lapse
    <3>7. CASE main' = main
      BY <1>3, <3>7
    <3>8. QED
      BY <3>2, <3>3, <3>4, <3>5, <3>6, <3>7
      DEF Next, HandlerEnds, Bury, Drop, ExpireId, FetchLetter, AckLetter, DropReplay, vars, broker
  <2>2. QED
    BY <1>1, <2>1 DEF Store, IsFresh
<1>4. QED
  BY <1>2, <1>3

(* Nothing goes from the broker but what is finished or has an heir.       *)
LEMMA InheritedStep == TypeOK /\ Published /\ Inherited /\ [Next]_vars => Inherited'
<1> SUFFICES ASSUME TypeOK, Published, Inherited, [Next]_vars PROVE Inherited'
  OBVIOUS
<1> DEFINE Mine == \A w \in Worker :
                     /\ phase'[w] = "succeeded" => root'[held'[w]] \in served'
                     /\ phase'[w] = "buried" => HasLetter(held[w])'
           Gone == \A m \in Message :
                     /\ main'[m] = "acked" => root'[m] \in served'
                     /\ main'[m] = "termed" \/ <<"dlq", m>> \in window' => HasLetter(m)'
           Lettered == \A d \in Letter : dead'[d] # "none" =>
                     \/ Kept(root[about[d]], about[d])'
                     \/ \E e \in Letter : about'[e] = about'[d] /\ dead'[e] \in Stored
           Requeued == \A d \in Letter : <<"requeue", d>> \in window' =>
                     dead'[d] # "none" /\ Kept(root[about[d]], about[d])'
           Replayed == replaying' # NoLetter /\ replayed' =>
                     Kept(root[about[replaying]], about[replaying])'
<1> USE Numbers DEF TypeOK
<1>0. /\ \A m, n \in Message : main'[m] # "none" /\ main'[n] = "none" => m < n
      /\ \A m \in Message : HasLetter(m) => HasLetter(m)'
      /\ \A m \in Message : main[m] = "acked" => main[m] # "none" /\ root'[m] \in served'
  BY PrefixStep, LettersStay, StepKeeps DEF Inherited
<1>a. (\A w \in Worker : (phase'[w] = phase[w] /\ held'[w] = held[w]) \/ phase'[w] = "idle") => Mine
  <2> SUFFICES ASSUME NEW w \in Worker, phase'[w] = phase[w], held'[w] = held[w], phase[w] # "idle"
               PROVE  /\ phase'[w] = "succeeded" => root'[held'[w]] \in served'
                      /\ phase'[w] = "buried" => HasLetter(held[w])'
    BY DEF HasLetter
  <2>1. held[w] \in Message /\ main[held[w]] # "none"
    BY CarriedIsMessage DEF Published
  <2>2. phase[w] = "succeeded" => root'[held[w]] \in served'
    BY <2>1, StepKeeps DEF Inherited
  <2>3. phase[w] = "buried" => \E d \in Letter : dead'[d] # "none" /\ about'[d] = held[w]
    BY StepKeeps DEF Inherited, HasLetter
  <2>4. QED
    BY <2>2, <2>3 DEF HasLetter
<1>b. (\A m \in Message : main'[m] \in {"acked", "termed"} => main'[m] = main[m])
        /\ window' \cap ({"dlq"} \X Message) \subseteq window => Gone
  BY <1>0 DEF Inherited
<1>c. (\A d \in Letter : dead[d] = "none" => dead'[d] = "none") => Lettered
  BY LettersStay
<1>d. window' \cap ({"requeue"} \X Letter) \subseteq window => Requeued
  BY LettersStay DEF Inherited
<1>e. (replaying' # NoLetter /\ replayed' => replaying' = replaying /\ replayed) => Replayed
  <2> SUFFICES ASSUME replaying' = replaying, replaying # NoLetter, replayed
               PROVE  Kept(root[about[replaying]], about[replaying])'
    OBVIOUS
  <2>1. replaying \in Letter /\ dead[replaying] # "none"
    BY DEF Published
  <2>2. PICK d \in Letter : d = replaying
    BY <2>1
  <2>3. Kept(root[about[d]], about[d])'
    BY <2>1, <2>2, LettersStay DEF Inherited
  <2>4. QED
    BY <2>2, <2>3 DEF Kept
<1>f. Mine /\ Gone /\ Lettered /\ Requeued /\ Replayed => Inherited'
  BY <1>0 DEF Inherited
<1> HIDE DEF Mine, Gone, Lettered, Requeued, Replayed
<1>1. CASE \E m \in Message : Publish(m)
  BY <1>1, <1>a, <1>b, <1>c, <1>d, <1>e, <1>f DEF Publish, Store, workers, replay
<1>2. CASE \E w \in Worker, m \in Message : Claim(w, m)
  <2>1. Mine
    <3>1. PICK w \in Worker, m \in Message : Claim(w, m)
      BY <1>2
    <3>2. phase'[w] \in {"burying", "running"}
          /\ \A v \in Worker \ {w} : phase'[v] = phase[v] /\ held'[v] = held[v]
      BY <3>1 DEF Claim
    <3>3. ASSUME NEW v \in Worker, v # w
          PROVE  /\ phase'[v] = "succeeded" => root'[held'[v]] \in served'
                 /\ phase'[v] = "buried" => HasLetter(held[v])'
      <4>1. UNCHANGED <<root, served, dead, about>>
        BY <3>1 DEF Claim
      <4>2. QED
        BY <3>2, <3>3, <4>1 DEF Inherited, HasLetter
    <3>4. QED
      BY <3>2, <3>3 DEF Mine
  <2>2. QED
    BY <1>2, <2>1, <1>b, <1>c, <1>d, <1>e, <1>f DEF Claim, replay
<1>3. CASE \E w \in Worker, o \in {"succeeded", "failed"} : HandlerEnds(w, o)
  <2>1. Mine
    <3>1. PICK w \in Worker, o \in {"succeeded", "failed"} : HandlerEnds(w, o)
      BY <1>3
    <3>2. /\ \A v \in Worker \ {w} : phase'[v] = phase[v]
          /\ phase'[w] # "buried" /\ (phase'[w] = "succeeded" => root[held[w]] \in served')
          /\ UNCHANGED <<root, dead, about, held>> /\ served \subseteq served'
      BY <3>1 DEF HandlerEnds, broker
    <3>3. QED
      BY <3>2 DEF Inherited, HasLetter, Mine
  <2>2. QED
    BY <1>3, <2>1, <1>b, <1>c, <1>d, <1>e, <1>f DEF HandlerEnds, broker, replay
<1>4. CASE \E w \in Worker : Ack(w) \/ Nak(w) \/ Term(w)
  <2>1. PICK w \in Worker, place \in {"acked", "waiting", "termed"} :
          /\ SettleAs(w, place) /\ phase[w] # "idle"
          /\ place = "acked" => root[held[w]] \in served
          /\ place = "termed" => HasLetter(held[w])
    BY <1>4 DEF Ack, Nak, Term, Inherited
  <2>2. held[w] \in Message
    BY <2>1, CarriedIsMessage
  <2>3. UNCHANGED <<root, served, dead, about, window>>
    BY <2>1 DEF SettleAs, history
  <2>4. Gone
    <3>1. ASSUME NEW m \in Message
          PROVE  main'[m] = main[m] \/ (m = held[w] /\ main'[m] = place)
      BY <2>1 DEF SettleAs
    <3>2. ASSUME NEW m \in Message, main'[m] = "acked" PROVE root'[m] \in served'
      BY <2>1, <2>3, <3>1, <3>2, <1>0
    <3>3. ASSUME NEW m \in Message, main'[m] = "termed" PROVE HasLetter(m)'
      <4>1. HasLetter(m)
        BY <2>1, <3>1, <3>3 DEF Inherited
      <4>2. QED
        BY <4>1, <1>0
    <3>4. ASSUME NEW m \in Message, <<"dlq", m>> \in window' PROVE HasLetter(m)'
      BY <2>3, <3>4, <1>0 DEF Inherited
    <3>5. QED
      BY <3>2, <3>3, <3>4 DEF Gone
  <2>5. \A v \in Worker : (phase'[v] = phase[v] /\ held'[v] = held[v]) \/ phase'[v] = "idle"
    BY <2>1 DEF SettleAs, Forget
  <2>6. QED
    BY <2>1, <2>3, <2>4, <2>5, <1>a, <1>c, <1>d, <1>e, <1>f DEF SettleAs, replay
<1>5. CASE \E w \in Worker : Bury(w)
  <2>1. PICK w \in Worker : Bury(w)
    BY <1>5
  <2>2. held[w] \in Message
    BY <2>1, CarriedIsMessage DEF Bury
  <2>3. HasLetter(held[w])' /\ window' \subseteq window \cup {<<"dlq", held[w]>>}
    BY <2>1, <2>2 DEF Bury, HasLetter, Inherited
  <2>4. Mine
    <3>1. /\ phase'[w] = "buried" /\ \A v \in Worker \ {w} : phase'[v] = phase[v]
          /\ UNCHANGED <<held, root, served>>
      BY <2>1 DEF Bury, history
    <3>2. \A v \in Worker : phase[v] = "buried" => HasLetter(held[v])'
      <4>1. \A v \in Worker : phase[v] = "buried" => held[v] \in Message /\ HasLetter(held[v])
        BY CarriedIsMessage DEF Inherited
      <4>2. QED
        BY <4>1, StepKeeps, <3>1 DEF HasLetter
    <3>3. QED
      BY <2>3, <3>1, <3>2 DEF Inherited, Mine
  <2>5. Gone
    BY <2>1, <2>3, <1>0 DEF Bury, Inherited, Gone
  <2>6. Lettered
    <3>1. \A d \in Letter : dead[d] = "none" /\ dead'[d] # "none" => dead'[d] \in Stored
      BY <2>1 DEF Bury, Stored
    <3>2. QED
      BY <3>1, LettersStay DEF Lettered
  <2>7. QED
    BY <2>1, <2>3, <2>4, <2>5, <2>6, <1>d, <1>e, <1>f DEF Bury, replay
<1>6. CASE \/ \E w \in Worker : Drop(w)
           \/ \E id \in window : ExpireId(id)
           \/ UNCHANGED vars
  BY <1>6, <1>a, <1>b, <1>c, <1>d, <1>e, <1>f
  DEF Drop, Forget, ExpireId, vars, broker, workers, replay
<1>7. CASE \E m \in Message : Lapse(m)
  BY <1>7, <1>a, <1>b, <1>c, <1>d, <1>e, <1>f DEF Lapse, workers, replay
<1>8. CASE (\E d \in Letter : FetchLetter(d)) \/ DropReplay \/ AckLetter
  <2>1. \A d \in Letter : dead[d] = "none" => dead'[d] = "none"
    BY <1>8 DEF FetchLetter, DropReplay, AckLetter, Published
  <2>2. QED
    BY <1>8, <2>1, <1>a, <1>b, <1>c, <1>d, <1>e, <1>f
    DEF FetchLetter, DropReplay, AckLetter, workers
<1>9. CASE Republish
  <2>1. Requeued
    <3>1. window' \subseteq window \cup {<<"requeue", replaying>>} /\ UNCHANGED <<dead, about>>
      BY <1>9 DEF Republish
    <3>2. dead'[replaying] # "none" /\ Kept(root[about[replaying]], about[replaying])'
      BY <1>9, RepublishedHigher DEF Republish, Published
    <3>3. replaying' = replaying
      BY <1>9 DEF Republish
    <3>4. ASSUME NEW d \in Letter, <<"requeue", d>> \in window'
          PROVE  dead'[d] # "none" /\ Kept(root[about[d]], about[d])'
      <4>1. CASE d = replaying
        BY <3>2, <3>3, <4>1 DEF Kept
      <4>2. CASE d # replaying
        BY <3>1, <3>4, <4>2, LettersStay DEF Inherited
      <4>3. QED
        BY <4>1, <4>2
    <3>5. QED
      BY <3>4 DEF Requeued
  <2>2. Replayed
    BY <1>9, RepublishedHigher DEF Replayed
  <2>3. QED
    BY <1>9, <2>1, <2>2, <1>a, <1>b, <1>c, <1>f DEF Republish, Store, workers
<1>10. QED
  BY <1>1, <1>2, <1>3, <1>4, <1>5, <1>6, <1>7, <1>8, <1>9 DEF Next

(* An index request that a worker has not finished is held by the broker,  *)
(* as a message or as a dead letter: nothing is termed before its letter,  *)
(* and no letter acknowledged before its task is published again.          *)
THEOREM RequestsSurvive == Spec => []NothingLost
<1>1. Init => Inherited
  BY Numbers DEF Init, Inherited, HasLetter
<1>2. TypeOK /\ Inherited => NothingLost
  <2> SUFFICES ASSUME TypeOK, Inherited, NEW m \in Message, main[m] # "none", root[m] \notin served
               PROVE  \/ \E n \in Message : root[n] = root[m] /\ main[n] \in Stored
                      \/ \E d \in Letter : dead[d] \in Stored /\ root[about[d]] = root[m]
    BY DEF NothingLost
  <2>1. CASE main[m] \in Stored
    BY <2>1
  <2>2. CASE main[m] = "termed"
    <3>1. PICK d \in Letter : dead[d] # "none" /\ about[d] = m
      BY <2>2 DEF Inherited, HasLetter
    <3>2. \/ Kept(root[about[d]], about[d])
          \/ \E e \in Letter : about[e] = about[d] /\ dead[e] \in Stored
      BY <3>1 DEF Inherited
    <3>3. QED
      BY <3>1, <3>2 DEF Kept
  <2>3. QED
    BY <2>1, <2>2 DEF TypeOK, Inherited
<1>3. QED
  BY <1>1, <1>2, InheritedStep, TypeCorrect, PTL DEF Spec

-----------------------------------------------------------------------------
HandedOut(m) == IF delivered[m] < MaxAttempts THEN delivered[m] ELSE MaxAttempts

\* No message, and idle workers: a queue nothing was submitted to.
LEMMA InitContract == Init => Contract!Init
BY Numbers DEF Init, Contract!Init, MappedState, MappedVerdict, Stored, NoMessage

\* What the contract shows is a function of three variables of the model.
LEMMA SameContract ==
  ASSUME UNCHANGED delivered,
         \A m \in Message : MappedState(m)' = MappedState(m),
         UNCHANGED held, \A w \in Worker : MappedVerdict(w)' = MappedVerdict(w)
  PROVE  UNCHANGED Contract!vars
BY DEF Contract!vars

\* A message stored for a request is a submission.
LEMMA StoreSubmits ==
  ASSUME TypeOK, Counted, NEW m \in Message, NEW r, Store(m, r), UNCHANGED <<delivered, workers>>
  PROVE  Contract!Submit(m)
<1> USE Numbers DEF TypeOK, Stored
<1>1. MappedState(m) = "none" /\ MappedState(m)' = "due"
  BY DEF Store, MappedState
<1>2. \A k \in Message \ {m} : MappedState(k)' = MappedState(k)
  BY DEF Store, MappedState
<1>3. HandedOut(m) = 0 /\ \A k \in Message : HandedOut(k)' = HandedOut(k)
  BY DEF Store, HandedOut, Counted
<1>4. UNCHANGED <<held, [w \in Worker |-> MappedVerdict(w)]>>
  BY DEF workers, MappedVerdict
<1>5. [k \in Message |-> MappedState(k)]' = [[k \in Message |-> MappedState(k)] EXCEPT ![m] = "due"]
  BY <1>1, <1>2
<1>6. [k \in Message |-> HandedOut(k)]' = [[k \in Message |-> HandedOut(k)] EXCEPT ![m] = 0]
  BY <1>3
<1>7. QED
  BY <1>1, <1>4, <1>5, <1>6 DEF Contract!Submit, HandedOut

\* A delivery hands the message out, or is spent.
LEMMA ClaimHands ==
  ASSUME TypeOK, NEW w \in Worker, NEW m \in Message, Claim(w, m)
  PROVE  Contract!Hand(w, m)
<1> USE Numbers DEF TypeOK, Stored
<1>1. /\ held[w] = NoMessage /\ held' = [held EXCEPT ![w] = m]
      /\ MappedState(m) = "due" /\ \A k \in Message : MappedState(k)' = MappedState(k)
  BY DEF Claim, MappedState
<1>2. \A k \in Message \ {m} : HandedOut(k)' = HandedOut(k)
  BY DEF Claim, HandedOut
<1>3. \A v \in Worker \ {w} : MappedVerdict(v)' = MappedVerdict(v)
  <2>1. \A v \in Worker \ {w} : phase'[v] = phase[v] /\ tries'[v] = tries[v]
    BY DEF Claim
  <2>2. QED
    BY <2>1 DEF MappedVerdict
<1>4. CASE ~Exhausted(delivered[m] + 1)
  <2>1. HandedOut(m) < MaxAttempts /\ HandedOut(m)' = HandedOut(m) + 1
    BY <1>4 DEF Claim, Exhausted, HandedOut
  <2>2. MappedVerdict(w)' = IF HandedOut(m) + 1 = MaxAttempts THEN "last" ELSE "retry"
    BY <1>4 DEF Claim, Exhausted, HandedOut, MappedVerdict
  <2>3. [v \in Worker |-> MappedVerdict(v)]' = [[v \in Worker |-> MappedVerdict(v)] EXCEPT ![w] =
                IF HandedOut(m) + 1 = MaxAttempts THEN "last" ELSE "retry"]
    BY <1>3, <2>2
  <2>4. [k \in Message |-> HandedOut(k)]' = [[k \in Message |-> HandedOut(k)] EXCEPT ![m] = @ + 1]
    BY <1>2, <2>1
  <2>5. QED
    BY <1>1, <2>1, <2>3, <2>4 DEF Contract!Hand, HandedOut
<1>5. CASE Exhausted(delivered[m] + 1)
  <2>1. HandedOut(m) = MaxAttempts /\ HandedOut(m)' = HandedOut(m)
    BY <1>5 DEF Claim, Exhausted, HandedOut
  <2>2. MappedVerdict(w)' = "spent"
    BY <1>5 DEF Claim, Exhausted, MappedVerdict
  <2>3. [v \in Worker |-> MappedVerdict(v)]' =
          [[v \in Worker |-> MappedVerdict(v)] EXCEPT ![w] = "spent"]
    BY <1>3, <2>2
  <2>4. QED
    BY <1>1, <1>2, <2>1, <2>3 DEF Contract!Hand, HandedOut
<1>6. QED
  BY <1>4, <1>5

\* A settlement that finds its message settles it; one that comes too late,
\* and a death, only let go of it.
LEMMA SettlesOrVanishes ==
  ASSUME TypeOK, Counted, NEW w \in Worker, Settle(w) \/ Drop(w)
  PROVE  Contract!Next
<1> USE Numbers DEF TypeOK, Stored
<1>1. phase[w] # "idle" /\ held[w] \in Message /\ held[w] # NoMessage
  BY CarriedIsMessage DEF Settle, Ack, Nak, Term, Drop
<1>2. /\ held' = [held EXCEPT ![w] = NoMessage] /\ UNCHANGED delivered
      /\ [v \in Worker |-> MappedVerdict(v)]' =
           [[v \in Worker |-> MappedVerdict(v)] EXCEPT ![w] = "nothing"]
  <2>1. Forget(w) /\ UNCHANGED delivered
    BY DEF Settle, Ack, Nak, Term, Drop, SettleAs, broker
  <2>2. MappedVerdict(w)' = "nothing" /\ \A v \in Worker \ {w} : MappedVerdict(v)' = MappedVerdict(v)
    BY <2>1 DEF Forget, MappedVerdict
  <2>3. [v \in Worker |-> MappedVerdict(v)]' =
          [[v \in Worker |-> MappedVerdict(v)] EXCEPT ![w] = "nothing"]
    BY <2>2
  <2>4. QED
    BY <2>1, <2>3 DEF Forget
<1>3. CASE \A m \in Message : MappedState(m)' = MappedState(m)
  <2>1. [m \in Message |-> MappedState(m)]' = [m \in Message |-> MappedState(m)]
    BY <1>3
  <2>2. Contract!Vanish(w)
    BY <1>1, <1>2, <2>1 DEF Contract!Vanish
  <2>3. QED
    BY <2>2 DEF Contract!Next
<1>4. ASSUME NEW place \in {"acked", "waiting", "termed"}, SettleAs(w, place), main[held[w]] \in Stored,
             NEW s, s = CASE place = "acked" -> "done" [] place = "waiting" -> "due"
                          [] place = "termed" -> "dead"
      PROVE  Contract!Settle(w, s)
  <2>1. /\ MappedState(held[w]) = "due"
        /\ main' = [main EXCEPT ![held[w]] = place]
    BY <1>1, <1>4 DEF MappedState, SettleAs
  <2>2. [m \in Message |-> MappedState(m)]' = [[m \in Message |-> MappedState(m)] EXCEPT ![held[w]] = s]
    BY <1>1, <1>4, <2>1 DEF MappedState
  <2>3. QED
    BY <1>1, <1>2, <2>1, <2>2 DEF Contract!Settle
<1>5. CASE main[held[w]] \in Stored /\ Ack(w)
  <2>1. MappedVerdict(w) \in {"retry", "last"}
    BY <1>1, <1>5 DEF Ack, Counted, MappedVerdict
  <2>2. QED
    BY <1>4, <1>5, <2>1 DEF Ack, Contract!Complete, Contract!Next
<1>6. CASE main[held[w]] \in Stored /\ Nak(w)
  <2>1. MappedVerdict(w) = "retry"
    BY <1>1, <1>6 DEF Nak, Counted, MappedVerdict
  <2>2. QED
    BY <1>4, <1>6, <2>1 DEF Nak, Contract!Return, Contract!Next
<1>7. CASE main[held[w]] \in Stored /\ Term(w)
  <2>1. MappedVerdict(w) \in {"last", "spent"}
    BY <1>1, <1>7 DEF Term, Counted, MappedVerdict
  <2>2. QED
    BY <1>4, <1>7, <2>1 DEF Term, Contract!Bury, Contract!Next
<1>8. CASE main[held[w]] \notin Stored \/ Drop(w)
  <2>1. UNCHANGED main
    BY <1>1, <1>8 DEF Settle, Ack, Nak, Term, SettleAs, Drop, broker
  <2>2. QED
    BY <2>1, <1>3 DEF MappedState
<1>9. QED
  BY <1>5, <1>6, <1>7, <1>8 DEF Settle

LEMMA NextContract ==
  TypeOK /\ Counted /\ [Next]_vars => [Contract!Next]_(Contract!vars)
<1> SUFFICES ASSUME TypeOK, Counted, [Next]_vars PROVE [Contract!Next]_(Contract!vars)
  OBVIOUS
<1>1. CASE \E m \in Message : Publish(m)
  BY <1>1, StoreSubmits DEF Publish, Contract!Next
<1>2. CASE Republish
  <2>1. CASE \E m \in Message : \E r : Store(m, r)
    BY <1>2, <2>1, StoreSubmits DEF Republish, Contract!Next
  <2>2. CASE UNCHANGED main
    <3>1. UNCHANGED <<main, delivered, held, phase, tries>>
      BY <1>2, <2>2 DEF Republish, workers
    <3>2. QED
      BY <3>1, SameContract DEF MappedState, MappedVerdict
  <2>3. QED
    BY <1>2, <2>1, <2>2 DEF Republish
<1>3. CASE \E w \in Worker, m \in Message : Claim(w, m)
  BY <1>3, ClaimHands DEF Contract!Next
<1>4. CASE \E w \in Worker : Settle(w) \/ Drop(w)
  BY <1>4, SettlesOrVanishes
<1>5. ASSUME NEW w \in Worker, Bury(w) \/ \E o \in {"succeeded", "failed"} : HandlerEnds(w, o)
      PROVE  UNCHANGED Contract!vars
  <2>1. UNCHANGED <<main, delivered, held, tries>>
        /\ \A v \in Worker : phase'[v] = "idle" <=> phase[v] = "idle"
    BY <1>5 DEF Bury, HandlerEnds, broker, TypeOK
  <2>2. QED
    BY <2>1, SameContract DEF MappedState, MappedVerdict
<1>6. CASE \E m \in Message : Lapse(m)
  <2>1. UNCHANGED <<delivered, held, phase, tries>>
        /\ \A m \in Message : main'[m] = main[m] \/ {main[m], main'[m]} \subseteq Stored
    BY <1>6 DEF Lapse, workers, Stored
  <2>2. \A m \in Message : MappedState(m)' = MappedState(m)
    BY <2>1 DEF MappedState, Stored
  <2>3. QED
    BY <2>1, <2>2, SameContract DEF MappedVerdict
<1>7. CASE \/ \E id \in window : ExpireId(id)
           \/ \E d \in Letter : FetchLetter(d)
           \/ DropReplay \/ AckLetter \/ UNCHANGED vars
  <2>1. UNCHANGED <<main, delivered, held, phase, tries>>
    BY <1>7 DEF ExpireId, FetchLetter, DropReplay, AckLetter, vars, broker, workers
  <2>2. QED
    BY <2>1, SameContract DEF MappedState, MappedVerdict
<1>8. QED
  BY <1>1, <1>2, <1>3, <1>4, <1>5, <1>6, <1>7 DEF Next, Settle

(* The broker backend implements the contract of TaskQueue: a message is   *)
(* handed out at most max_attempts times and settled only as its worker    *)
(* may, however late; a replay is a submission.                            *)
THEOREM ImplementsContract == Spec => KeepsContract
BY InitContract, NextContract, InitCounted, CountedStep, TypeCorrect, PTL
   DEF Spec, KeepsContract, Contract!Spec
=============================================================================
