-------------------------- MODULE WorkerPoolProofs --------------------------
(***************************************************************************)
(* Proofs about WorkerPool, for any fleet and any finite set of callers,   *)
(* every threshold, attempt budget, cool-down and deadline.                *)
(***************************************************************************)
EXTENDS WorkerPool, FiniteSetTheorems, TLAPS

\* The callers that may still call e from the list they have.
Listing(e) == {c \in Caller : e \in todo[c]}

(* While an endpoint is out of rotation nobody lists it anew: what it has  *)
(* cost and what it may still cost is less than a request per caller.      *)
WasteInv ==
    /\ \A e \in Endpoint :
         IF Tripped(e) /\ ~Cooled(e)
         THEN wasted[e] + Cardinality(Listing(e)) < Cardinality(Caller)
         ELSE wasted[e] = 0
    /\ \A c \in Caller : pc[c] \in {"calling", "answered", "raised"} => at[c] \notin todo[c]

(* A healthy endpoint is listed, stays listed until it is called, and the  *)
(* attempts made since do not exceed the endpoints called.                 *)
HealthInv ==
    \A c \in Caller :
      /\ \A e \in healthy[c] : e \in up /\ ~Tripped(e)
      /\ pc[c] = "idle" => healthy[c] = {}
      /\ pc[c] \in {"idle", "ordering"} => attempt[c] = 0
      /\ pc[c] \in {"next", "backoff", "raised"} => healthy[c] \subseteq todo[c]
      /\ pc[c] = "calling" => healthy[c] \subseteq todo[c] \cup {at[c]}
      /\ pc[c] \in {"next", "backoff", "calling", "raised"} /\ healthy[c] # {}
            => attempt[c] + Cardinality(todo[c]) <= N

-----------------------------------------------------------------------------
\* The constants one by one.
LEMMA Parameters ==
  /\ N \in Nat /\ N > 0
  /\ Threshold \in Nat /\ Threshold > 0
  /\ MaxAttempts \in Nat /\ MaxAttempts > 0
  /\ ResetAfter \in Nat /\ ResetAfter > 0
  /\ Deadline \in Nat /\ Deadline > 0
  /\ 0 \in Endpoint
  /\ \A k \in Nat : k % N \in Endpoint
  /\ \A e \in Endpoint : e + 1 \in Nat
<1>1. \A x \in {N, Threshold, MaxAttempts, ResetAfter, Deadline} : x \in Nat /\ x > 0
  BY PoolAssumption
<1>2. QED
  BY <1>1 DEF Endpoint

\* Subsets of a fleet and of the callers, and what an element less leaves.
LEMMA FleetSize == IsFiniteSet(Endpoint) /\ Cardinality(Endpoint) = N
<1>1. 0 \in Int /\ N - 1 \in Int /\ N = N - 1 - 0 + 1 /\ ~(0 > N - 1)
  BY Parameters
<1>2. QED
  BY <1>1, FS_Interval DEF Endpoint

LEMMA Smaller ==
  ASSUME NEW S, NEW T, IsFiniteSet(T), S \subseteq T
  PROVE  /\ IsFiniteSet(S) /\ Cardinality(S) \in Nat /\ Cardinality(T) \in Nat
         /\ Cardinality(S) <= Cardinality(T)
         /\ S # T => Cardinality(S) < Cardinality(T)
BY FS_Subset, FS_CardinalityType

LEMMA OneLess ==
  ASSUME NEW S, IsFiniteSet(S), NEW x \in S
  PROVE  Cardinality(S \ {x}) = Cardinality(S) - 1 /\ Cardinality(S) \in Nat
BY FS_RemoveElement, FS_CardinalityType

-----------------------------------------------------------------------------
(* Every region under the lock, and every caller's step, keeps the types.  *)
LEMMA TypeStep == TypeOK /\ [Next]_vars => TypeOK'
<1> SUFFICES ASSUME TypeOK, [Next]_vars PROVE TypeOK'
  OBVIOUS
<1> USE Parameters DEF TypeOK, breakers, call, progress, fleet, Over
<1>1. ASSUME NEW c \in Caller, Begin(c) PROVE TypeOK'
  BY <1>1 DEF Begin
<1>2. ASSUME NEW c \in Caller, Order(c) PROVE TypeOK'
  <2>1. turn' \in [Caller -> Endpoint] /\ cursor' \in Endpoint
    BY <1>2 DEF Order
  <2>2. QED
    BY <2>1, <1>2 DEF Order
<1>3. ASSUME NEW c \in Caller, Expire(c) PROVE TypeOK'
  BY <1>3 DEF Expire
<1>4. ASSUME NEW c \in Caller, NEW e \in Endpoint, Dispatch(c, e) PROVE TypeOK'
  <2>1. turn' \in [Caller -> Endpoint]
    BY <1>4 DEF Dispatch
  <2>2. holds' \in [Caller -> BOOLEAN]
    <3>1. Tripped(e) \in BOOLEAN
      BY DEF Tripped
    <3>2. QED
      BY <3>1, <1>4 DEF Dispatch
  <2>3. QED
    BY <2>1, <2>2, <1>4 DEF Dispatch, Between
<1>5. ASSUME NEW c \in Caller, Answer(c) PROVE TypeOK'
  BY <1>5 DEF Answer
<1>6. ASSUME NEW c \in Caller, RecordSuccess(c) PROVE TypeOK'
  BY <1>6 DEF RecordSuccess, NotedHealth
<1>7. ASSUME NEW c \in Caller, RecordFailure(c) PROVE TypeOK'
  BY <1>7 DEF RecordFailure, NotedHealth, Tripped
<1>8. ASSUME NEW c \in Caller, GiveUp(c) PROVE TypeOK'
  BY <1>8 DEF GiveUp
<1>9. ASSUME NEW c \in Caller, PrepareLocally(c) PROVE TypeOK'
  BY <1>9 DEF PrepareLocally
<1>10. ASSUME Tick PROVE TypeOK'
  BY <1>10 DEF Tick, Cooled
<1>11. ASSUME NEW e \in Endpoint, Flip(e) PROVE TypeOK'
  BY <1>11 DEF Flip, NotedHealth
<1>12. ASSUME UNCHANGED vars PROVE TypeOK'
  BY <1>12 DEF vars
<1>13. QED
  BY <1>1, <1>2, <1>3, <1>4, <1>5, <1>6, <1>7, <1>8, <1>9, <1>10, <1>11, <1>12
  DEF Next, Step

(* The breakers and the callers' locals keep their types.                  *)
THEOREM TypeCorrect == Spec => []TypeOK
<1>1. Init => TypeOK
  BY Parameters DEF Init, TypeOK
<1>2. QED
  BY <1>1, TypeStep, PTL DEF Spec

-----------------------------------------------------------------------------
(* A half-open slot that is taken is that of a request under way           *)
(* (_probe): whoever clears it, it cannot stay behind.                     *)
THEOREM SlotsAreFreed == Spec => []ProbeSlotFreed
<1>1. Init => ProbeSlotFreed
  BY DEF Init, ProbeSlotFreed
<1>2. TypeOK /\ ProbeSlotFreed /\ [Next]_vars => ProbeSlotFreed'
  <2> SUFFICES ASSUME TypeOK, ProbeSlotFreed, [Next]_vars, NEW e \in probing'
               PROVE  \E c \in Caller : pc'[c] = "calling" /\ at'[c] = e /\ holds'[c]
    BY DEF ProbeSlotFreed
  <2>0. CASE \E c \in Caller : Dispatch(c, e)
    <3>1. PICK c \in Caller : Dispatch(c, e)
      BY <2>0
    <3>2. pc'[c] = "calling" /\ at'[c] = e /\ holds'[c] = Tripped(e)
      BY <3>1 DEF Dispatch, TypeOK
    <3>3. CASE Tripped(e)
      BY <3>2, <3>3
    <3>4. CASE ~Tripped(e)
      <4>1. e \in probing
        BY <3>1, <3>4 DEF Dispatch
      <4>2. PICK d \in Caller : pc[d] = "calling" /\ at[d] = e /\ holds[d]
        BY <4>1 DEF ProbeSlotFreed
      <4>3. d # c
        BY <4>2, <3>1 DEF Dispatch, Between
      <4>4. QED
        BY <4>2, <4>3, <3>1 DEF Dispatch, TypeOK
    <3>5. QED
      BY <3>3, <3>4
  <2>1. CASE ~\E c \in Caller : Dispatch(c, e)
    <3>1. e \in probing
      BY <2>1 DEF Next, Step, vars, Begin, Order, Expire, Dispatch, Answer, RecordSuccess,
                  RecordFailure, GiveUp, PrepareLocally, Tick, Flip, breakers
    <3>2. PICK d \in Caller : pc[d] = "calling" /\ at[d] = e /\ holds[d]
      BY <3>1 DEF ProbeSlotFreed
    <3> USE DEF TypeOK
    <3>3. ASSUME NEW c \in Caller, Begin(c) PROVE pc'[d] = "calling" /\ at'[d] = e /\ holds'[d]
      BY <3>2, <3>3 DEF Begin
    <3>4. ASSUME NEW c \in Caller, Order(c) PROVE pc'[d] = "calling" /\ at'[d] = e /\ holds'[d]
      BY <3>2, <3>4 DEF Order, Between
    <3>5. ASSUME NEW c \in Caller, Expire(c) PROVE pc'[d] = "calling" /\ at'[d] = e /\ holds'[d]
      BY <3>2, <3>5 DEF Expire, Between, Over
    <3>6. ASSUME NEW c \in Caller, NEW f \in Endpoint, Dispatch(c, f)
          PROVE  pc'[d] = "calling" /\ at'[d] = e /\ holds'[d]
      BY <3>2, <3>6 DEF Dispatch, Between
    <3>7. ASSUME NEW c \in Caller, Answer(c) PROVE pc'[d] = "calling" /\ at'[d] = e /\ holds'[d]
      <4>1. c # d
        BY <3>2, <3>7 DEF Answer
      <4>2. QED
        BY <4>1, <3>2, <3>7 DEF Answer, call
    <3>8. ASSUME NEW c \in Caller, RecordSuccess(c)
          PROVE  pc'[d] = "calling" /\ at'[d] = e /\ holds'[d]
      BY <3>2, <3>8 DEF RecordSuccess, Over
    <3>9. ASSUME NEW c \in Caller, RecordFailure(c)
          PROVE  pc'[d] = "calling" /\ at'[d] = e /\ holds'[d]
      BY <3>2, <3>9 DEF RecordFailure
    <3>10. ASSUME NEW c \in Caller, GiveUp(c) PROVE pc'[d] = "calling" /\ at'[d] = e /\ holds'[d]
      BY <3>2, <3>10 DEF GiveUp, call
    <3>11. ASSUME NEW c \in Caller, PrepareLocally(c)
           PROVE  pc'[d] = "calling" /\ at'[d] = e /\ holds'[d]
      BY <3>2, <3>11 DEF PrepareLocally, Over
    <3>12. ASSUME Tick \/ (\E f \in Endpoint : Flip(f)) \/ UNCHANGED vars
           PROVE  pc'[d] = "calling" /\ at'[d] = e /\ holds'[d]
      BY <3>2, <3>12 DEF Tick, Flip, vars, progress, call
    <3>13. QED
      BY <3>3, <3>4, <3>5, <3>6, <3>7, <3>8, <3>9, <3>10, <3>11, <3>12 DEF Next, Step
  <2>2. QED
    BY <2>0, <2>1
<1>3. QED
  BY <1>1, <1>2, TypeCorrect, PTL DEF Spec

-----------------------------------------------------------------------------
(* A step after which e is listed by no more callers, costs no more and is *)
(* no longer out of rotation than before keeps within the bound.           *)
LEMMA NotMore ==
  ASSUME TypeOK, NEW e \in Endpoint, Listing(e)' \subseteq Listing(e),
         wasted[e] + Cardinality(Listing(e)) < Cardinality(Caller)
  PROVE  wasted[e] + Cardinality(Listing(e)') < Cardinality(Caller)
<1> DEFINE L == Listing(e)  M == Listing(e)'
<1>1. M \subseteq L /\ L \subseteq Caller /\ IsFiniteSet(Caller)
  BY PoolAssumption DEF Listing
<1>2. IsFiniteSet(L) /\ Cardinality(L) \in Nat /\ Cardinality(Caller) \in Nat
  BY <1>1, Smaller
<1>3. Cardinality(M) <= Cardinality(L) /\ Cardinality(M) \in Nat
  BY <1>1, <1>2, Smaller
<1>4. wasted[e] \in Nat
  BY DEF TypeOK
<1> HIDE DEF L, M
<1>5. wasted[e] + Cardinality(L) < Cardinality(Caller) => wasted[e] + Cardinality(M) < Cardinality(Caller)
  BY <1>2, <1>3, <1>4
<1>6. QED
  BY <1>5 DEF L, M

(* No step exceeds the bound.                                              *)
LEMMA WasteStep == TypeOK /\ WasteInv /\ [Next]_vars => WasteInv'
<1> SUFFICES ASSUME TypeOK, TypeOK', WasteInv, [Next]_vars PROVE WasteInv'
  BY TypeStep
<1> DEFINE Calling(c) == pc[c] \in {"calling", "answered", "raised"}
           Bound(e)   == IF Tripped(e) /\ ~Cooled(e)
                         THEN wasted[e] + Cardinality(Listing(e)) < Cardinality(Caller)
                         ELSE wasted[e] = 0
           Called(c)  == Calling(c) => at[c] \notin todo[c]
<1>0. /\ WasteInv <=> (\A e \in Endpoint : Bound(e)) /\ (\A c \in Caller : Called(c))
      /\ WasteInv' <=> (\A e \in Endpoint : Bound(e)') /\ (\A c \in Caller : Called(c)')
  BY DEF WasteInv
\* A step that leaves the breakers and the waste alone, and lists nothing new.
<1>a. ASSUME NEW e \in Endpoint, UNCHANGED <<failures[e], age[e], wasted[e]>>,
             Listing(e)' \subseteq Listing(e)
      PROVE  Bound(e)'
  <2>1. (Tripped(e)' <=> Tripped(e)) /\ (Cooled(e)' <=> Cooled(e))
    BY <1>a DEF Tripped, Cooled
  <2>2. Bound(e)
    BY <1>0
  <2>3. CASE Tripped(e) /\ ~Cooled(e)
    BY <2>1, <2>2, <2>3, <1>a, NotMore
  <2>4. CASE ~(Tripped(e) /\ ~Cooled(e))
    BY <2>1, <2>2, <2>4, <1>a
  <2>5. QED
    BY <2>3, <2>4
<1>1. ASSUME NEW c \in Caller, Begin(c) PROVE WasteInv'
  <2>1. \A d \in Caller : Called(d)'
    BY <1>0, <1>1 DEF Begin, TypeOK
  <2>2. \A e \in Endpoint : UNCHANGED <<failures[e], age[e], wasted[e]>> /\ Listing(e)' \subseteq Listing(e)
    BY <1>1 DEF Begin, breakers, Listing
  <2>3. QED
    BY <1>0, <1>a, <2>1, <2>2
<1>2. ASSUME NEW c \in Caller, Order(c) PROVE WasteInv'
  <2>1. \A d \in Caller : Called(d)'
    BY <1>0, <1>2 DEF Order, TypeOK
  <2>2. ASSUME NEW e \in Endpoint PROVE Bound(e)'
    <3>1. UNCHANGED <<failures[e], age[e], wasted[e]>>
      BY <1>2 DEF Order, breakers
    <3>2. CASE Tripped(e) /\ ~Cooled(e)
      <4>1. Listing(e)' \subseteq Listing(e)
        BY <1>2, <3>2 DEF Order, Available, Listing, TypeOK
      <4>2. QED
        BY <1>a, <3>1, <4>1
    <3>3. CASE ~(Tripped(e) /\ ~Cooled(e))
      BY <1>0, <3>1, <3>3 DEF Tripped, Cooled
    <3>4. QED
      BY <3>2, <3>3
  <2>3. QED
    BY <1>0, <2>1, <2>2
<1>3. ASSUME NEW c \in Caller, Over(c), UNCHANGED <<failures, age, wasted>> PROVE WasteInv'
  <2>1. \A d \in Caller : Called(d)'
    BY <1>0, <1>3 DEF Over, TypeOK
  <2>2. \A e \in Endpoint : Listing(e)' \subseteq Listing(e)
    BY <1>3 DEF Over, Listing, TypeOK
  <2>3. QED
    BY <1>0, <1>a, <1>3, <2>1, <2>2
<1>4. ASSUME NEW c \in Caller, NEW e \in Endpoint, Dispatch(c, e) PROVE WasteInv'
  <2>1. \A d \in Caller : Called(d)'
    BY <1>0, <1>4 DEF Dispatch, TypeOK
  <2>2. ASSUME NEW f \in Endpoint, f # e PROVE Bound(f)'
    <3>1. UNCHANGED <<failures[f], age[f], wasted[f]>> /\ Listing(f)' \subseteq Listing(f)
      BY <1>4, <2>2 DEF Dispatch, Listing, TypeOK
    <3>2. QED
      BY <1>a, <3>1
  <2>3. Bound(e)'
    <3> DEFINE L == Listing(e)
    <3>1. c \in L /\ Listing(e)' = L \ {c} /\ L \subseteq Caller
      BY <1>4 DEF Dispatch, Listing, TypeOK
    <3>2. (Tripped(e)' <=> Tripped(e)) /\ (Cooled(e)' <=> Cooled(e))
      BY <1>4 DEF Dispatch, Tripped, Cooled
    <3>3. IsFiniteSet(L) /\ Cardinality(Caller) \in Nat
      BY <3>1, Smaller, PoolAssumption
    <3>4. Cardinality(L \ {c}) = Cardinality(L) - 1 /\ Cardinality(L) \in Nat
      BY <3>1, <3>3, OneLess
    <3>5. wasted'[e] = IF Tripped(e) /\ ~Cooled(e) THEN wasted[e] + 1 ELSE wasted[e]
      BY <1>4 DEF Dispatch, TypeOK
    <3>6. wasted[e] \in Nat /\ Bound(e)
      BY <1>0 DEF TypeOK
    <3>7. CASE Tripped(e) /\ ~Cooled(e)
      <4>1. wasted[e] + Cardinality(L) < Cardinality(Caller)
        BY <3>6, <3>7
      <4>2. wasted'[e] + Cardinality(Listing(e)') < Cardinality(Caller)
        BY <3>1, <3>3, <3>4, <3>5, <3>6, <3>7, <4>1
      <4>3. QED
        BY <3>2, <3>7, <4>2
    <3>8. CASE ~(Tripped(e) /\ ~Cooled(e))
      BY <3>2, <3>5, <3>6, <3>8
    <3>9. QED
      BY <3>7, <3>8
  <2>4. QED
    BY <1>0, <2>1, <2>2, <2>3
<1>5. ASSUME NEW c \in Caller, Answer(c) PROVE WasteInv'
  <2>1. \A d \in Caller : Called(d)'
    BY <1>0, <1>5 DEF Answer, call, TypeOK
  <2>2. \A e \in Endpoint : UNCHANGED <<failures[e], age[e], wasted[e]>> /\ Listing(e)' \subseteq Listing(e)
    BY <1>5 DEF Answer, call, Listing
  <2>3. QED
    BY <1>0, <1>a, <2>1, <2>2
<1>6. ASSUME NEW c \in Caller, RecordSuccess(c) PROVE WasteInv'
  <2>1. \A d \in Caller : Called(d)'
    BY <1>0, <1>6 DEF RecordSuccess, Over, TypeOK
  <2>2. \A e \in Endpoint : Listing(e)' \subseteq Listing(e)
    BY <1>6 DEF RecordSuccess, Over, Listing, TypeOK
  <2>3. ASSUME NEW e \in Endpoint PROVE Bound(e)'
    <3>1. CASE e = at[c]
      <4>1. failures'[e] = 0 /\ wasted'[e] = 0
        BY <1>6, <3>1 DEF RecordSuccess, TypeOK
      <4>2. ~Tripped(e)'
        BY <4>1, Parameters DEF Tripped
      <4>3. QED
        BY <4>1, <4>2
    <3>2. CASE e # at[c]
      <4>1. UNCHANGED <<failures[e], age[e], wasted[e]>>
        BY <1>6, <3>2 DEF RecordSuccess, TypeOK
      <4>2. QED
        BY <1>a, <2>2, <4>1
    <3>3. QED
      BY <3>1, <3>2
  <2>4. QED
    BY <1>0, <2>1, <2>3
<1>7. ASSUME NEW c \in Caller, RecordFailure(c) PROVE WasteInv'
  <2>1. \A d \in Caller : Called(d)'
    BY <1>0, <1>7 DEF RecordFailure, TypeOK
  <2>2. \A e \in Endpoint : Listing(e)' = Listing(e) /\ UNCHANGED wasted[e]
    BY <1>7 DEF RecordFailure, Listing
  <2>3. ASSUME NEW e \in Endpoint PROVE Bound(e)'
    <3>1. CASE e # at[c]
      <4>1. UNCHANGED <<failures[e], age[e], wasted[e]>>
        BY <1>7, <3>1 DEF RecordFailure, TypeOK
      <4>2. QED
        BY <1>a, <2>2, <4>1
    <3>2. CASE e = at[c] /\ Tripped(e) /\ ~Cooled(e)
      <4>1. Tripped(e)' /\ ~Cooled(e)' /\ wasted'[e] + Cardinality(Listing(e)') < Cardinality(Caller)
        <5>1. failures'[e] = failures[e] /\ age'[e] = 0
          BY <1>7, <3>2 DEF RecordFailure, Tripped, TypeOK
        <5>2. wasted[e] + Cardinality(Listing(e)) < Cardinality(Caller)
          BY <1>0, <3>2
        <5>3. QED
          BY <2>2, <3>2, <5>1, <5>2, Parameters DEF Tripped, Cooled
      <4>2. QED
        BY <4>1
    <3>3. CASE e = at[c] /\ ~(Tripped(e) /\ ~Cooled(e))
      <4>1. wasted'[e] = 0
        BY <1>0, <2>2, <3>3
      <4>2. c \in Caller \ Listing(e)
        BY <1>0, <1>7, <3>3 DEF RecordFailure, Listing
      <4>3. Listing(e) \subseteq Caller /\ Listing(e) # Caller
        BY <4>2 DEF Listing
      <4>4. Cardinality(Listing(e)) < Cardinality(Caller) /\ Cardinality(Listing(e)) \in Nat
        BY <4>3, Smaller, PoolAssumption
      <4>5. QED
        BY <2>2, <4>1, <4>4
    <3>4. QED
      BY <3>1, <3>2, <3>3
  <2>4. QED
    BY <1>0, <2>1, <2>3
<1>8. ASSUME NEW c \in Caller, GiveUp(c) PROVE WasteInv'
  <2>1. \A d \in Caller : Called(d)'
    BY <1>0, <1>8 DEF GiveUp, call, TypeOK
  <2>2. \A e \in Endpoint : UNCHANGED <<failures[e], age[e], wasted[e]>> /\ Listing(e)' \subseteq Listing(e)
    BY <1>8 DEF GiveUp, call, breakers, Listing
  <2>3. QED
    BY <1>0, <1>a, <2>1, <2>2
<1>9. ASSUME Tick PROVE WasteInv'
  <2>1. \A d \in Caller : Called(d)'
    BY <1>0, <1>9 DEF Tick
  <2>2. ASSUME NEW e \in Endpoint PROVE Bound(e)'
    <3>0. Listing(e)' = Listing(e) /\ (Tripped(e)' <=> Tripped(e)) /\ age[e] \in Nat
      BY <1>9 DEF Tick, Listing, Tripped, TypeOK
    <3>1. CASE age'[e] >= ResetAfter
      BY <1>9, <3>1 DEF Tick, Cooled
    <3>2. CASE ~(age'[e] >= ResetAfter)
      <4>1. wasted'[e] = wasted[e] /\ ~Cooled(e)'
        BY <1>9, <3>2 DEF Tick, Cooled
      <4>2. ~Cooled(e)
        BY <1>9, <3>0, <3>2, Parameters DEF Tick, Cooled
      <4>3. QED
        BY <1>0, <3>0, <4>1, <4>2
    <3>3. QED
      BY <3>1, <3>2
  <2>3. QED
    BY <1>0, <2>1, <2>2
<1>10. ASSUME (\E e \in Endpoint : Flip(e)) \/ UNCHANGED vars PROVE WasteInv'
  <2>1. UNCHANGED <<pc, at, todo, failures, age, wasted>>
    BY <1>10 DEF Flip, vars, breakers, progress, call
  <2>2. \A d \in Caller : Called(d)'
    BY <1>0, <2>1
  <2>3. \A e \in Endpoint : UNCHANGED <<failures[e], age[e], wasted[e]>> /\ Listing(e)' \subseteq Listing(e)
    BY <2>1 DEF Listing
  <2>4. QED
    BY <1>0, <1>a, <2>2, <2>3
<1>11. ASSUME NEW c \in Caller, Expire(c) \/ PrepareLocally(c) PROVE WasteInv'
  BY <1>3, <1>11 DEF Expire, PrepareLocally, breakers
<1>12. QED
  BY <1>1, <1>2, <1>4, <1>5, <1>6, <1>7, <1>8, <1>9, <1>10, <1>11 DEF Next, Step

(* A tripped endpoint costs each of the other callers at most one request  *)
(* until it has cooled down (_order, _Breaker.available).                  *)
THEOREM WasteIsBounded == Spec => []StaleDispatchesBounded
<1>1. Init => WasteInv
  BY Parameters DEF Init, WasteInv, Tripped
<1>2. TypeOK /\ WasteInv => StaleDispatchesBounded
  <2> SUFFICES ASSUME TypeOK, WasteInv, NEW e \in Endpoint PROVE wasted[e] < Cardinality(Caller)
    BY DEF StaleDispatchesBounded
  <2>1. {} \subseteq Caller /\ {} # Caller /\ Listing(e) \subseteq Caller
    BY PoolAssumption DEF Listing
  <2>2. Cardinality({}) < Cardinality(Caller) /\ Cardinality({}) \in Nat
        /\ Cardinality(Caller) \in Nat /\ Cardinality(Listing(e)) \in Nat
    BY <2>1, Smaller, PoolAssumption
  <2>3. QED
    BY <2>2 DEF WasteInv, TypeOK
<1>3. QED
  BY <1>1, <1>2, WasteStep, TypeCorrect, PTL DEF Spec

-----------------------------------------------------------------------------
(* What a caller knows of its healthy endpoints survives every step: the   *)
(* five facts of HealthInv for one caller, whose health only shrinks.      *)
LEMMA HealthStep == TypeOK /\ HealthInv /\ [Next]_vars => HealthInv'
<1> SUFFICES ASSUME TypeOK, TypeOK', HealthInv, [Next]_vars PROVE HealthInv'
  BY TypeStep
<1> DEFINE Asks(c)  == pc[c] \in {"next", "backoff", "calling", "raised"}
           Good(c)  == \A e \in healthy[c] : e \in up /\ ~Tripped(e)
           Fresh(c) == /\ pc[c] = "idle" => healthy[c] = {}
                       /\ pc[c] \in {"idle", "ordering"} => attempt[c] = 0
           Listed(c) == /\ pc[c] \in {"next", "backoff", "raised"} => healthy[c] \subseteq todo[c]
                        /\ pc[c] = "calling" => healthy[c] \subseteq todo[c] \cup {at[c]}
           Spent(c) == Asks(c) /\ healthy[c] # {} => attempt[c] + Cardinality(todo[c]) <= N
           Inv(c)   == Good(c) /\ Fresh(c) /\ Listed(c) /\ Spent(c)
<1>0. (HealthInv <=> \A c \in Caller : Inv(c)) /\ (HealthInv' <=> \A c \in Caller : Inv(c)')
  BY DEF HealthInv
\* A caller whose call does not move, and whose health at most shrinks.
<1>a. ASSUME NEW d \in Caller, UNCHANGED <<pc[d], todo[d], at[d], attempt[d]>>,
             healthy'[d] \subseteq healthy[d], Good(d)'
      PROVE  Inv(d)'
  BY <1>0, <1>a
<1>b. ASSUME NEW d \in Caller, UNCHANGED <<up, failures, healthy[d]>>
      PROVE  Good(d)'
  BY <1>0, <1>b DEF Tripped
<1>c. ASSUME NotedHealth, NEW d \in Caller
      PROVE  /\ healthy'[d] \subseteq healthy[d] /\ Good(d)'
             /\ pc'[d] = "idle" => healthy'[d] = {}
  <2>1. failures' \in [Endpoint -> 0..Threshold] /\ healthy[d] \subseteq Endpoint
    BY DEF TypeOK
  <2>2. healthy'[d] = IF pc'[d] = "idle" THEN {}
                      ELSE {e \in healthy[d] : e \in up' /\ failures'[e] < Threshold}
    BY <1>c DEF NotedHealth
  <2>3. \A e \in Endpoint : failures'[e] < Threshold => ~Tripped(e)'
    BY <2>1, Parameters DEF Tripped
  <2>4. QED
    BY <2>1, <2>2, <2>3
<1>1. ASSUME NEW c \in Caller, Begin(c) PROVE HealthInv'
  <2>1. ASSUME NEW d \in Caller, d # c PROVE Inv(d)'
    BY <1>1, <1>a, <1>b, <2>1 DEF Begin, fleet, breakers, TypeOK
  <2>2. /\ pc'[c] = "ordering" /\ attempt'[c] = 0
        /\ healthy'[c] = {e \in up : ~Tripped(e)} /\ UNCHANGED <<up, failures>>
    BY <1>0, <1>1 DEF Begin, fleet, breakers, TypeOK
  <2>3. Inv(c)'
    BY <2>2 DEF Tripped
  <2>4. QED
    BY <1>0, <2>1, <2>3
<1>2. ASSUME NEW c \in Caller, Order(c) PROVE HealthInv'
  <2> DEFINE candidates == {e \in Endpoint : Available(e)}
  <2>1. ASSUME NEW d \in Caller, d # c PROVE Inv(d)'
    BY <1>2, <1>a, <1>b, <2>1 DEF Order, breakers, TypeOK
  <2>2. /\ pc'[c] \in {"next", "failed"} /\ todo'[c] = candidates
        /\ UNCHANGED <<up, failures, healthy, attempt>>
    BY <1>2 DEF Order, breakers, TypeOK
  <2>3. Good(c)' /\ Good(c)
    BY <1>0, <1>b, <2>2
  <2>4. healthy[c] \subseteq candidates
    BY <2>3 DEF Available, TypeOK
  <2>5. healthy[c] # {} => attempt[c] = 0
    BY <1>0, <1>2 DEF Order, Between
  <2>6. Cardinality(candidates) <= N
    BY FleetSize, Smaller
  <2>7. Inv(c)'
    <3>1. Spent(c)'
      <4>1. SUFFICES ASSUME healthy[c] # {} PROVE attempt'[c] + Cardinality(todo'[c]) <= N
        BY <2>2
      <4>2. Cardinality(candidates) \in Nat
        BY FleetSize, Smaller
      <4>3. QED
        BY <2>2, <2>5, <2>6, <4>1, <4>2, Parameters
    <3>2. QED
      BY <2>2, <2>3, <2>4, <3>1
  <2>8. QED
    BY <1>0, <2>1, <2>7
<1>3. ASSUME NEW c \in Caller, Expire(c) \/ PrepareLocally(c) PROVE HealthInv'
  <2>1. ASSUME NEW d \in Caller, d # c PROVE Inv(d)'
    BY <1>3, <1>a, <1>b, <2>1 DEF Expire, PrepareLocally, Over, fleet, breakers, TypeOK
  <2>2. pc'[c] = "idle" /\ healthy'[c] = {} /\ attempt'[c] = 0
    BY <1>3 DEF Expire, PrepareLocally, Over, TypeOK
  <2>3. QED
    BY <1>0, <2>1, <2>2
<1>4. ASSUME NEW c \in Caller, NEW e \in Endpoint, Dispatch(c, e) PROVE HealthInv'
  <2>1. ASSUME NEW d \in Caller, d # c PROVE Inv(d)'
    BY <1>4, <1>a, <1>b, <2>1 DEF Dispatch, fleet, TypeOK
  <2>2. /\ pc'[c] = "calling" /\ at'[c] = e /\ todo'[c] = todo[c] \ {e} /\ e \in todo[c]
        /\ attempt'[c] = attempt[c] + 1 /\ pc[c] \in {"next", "backoff"}
        /\ UNCHANGED <<up, failures, healthy>>
    BY <1>4 DEF Dispatch, Between, fleet, TypeOK
  <2>3. IsFiniteSet(todo[c]) /\ attempt[c] \in Nat
    <3>1. todo[c] \in SUBSET Endpoint /\ attempt[c] \in 0..MaxAttempts
      BY DEF TypeOK
    <3>2. IsFiniteSet(todo[c])
      BY <3>1, FleetSize, FS_Subset
    <3>3. attempt[c] \in Nat
      BY <3>1, Parameters
    <3>4. QED
      BY <3>2, <3>3
  <2>4. Cardinality(todo'[c]) = Cardinality(todo[c]) - 1 /\ Cardinality(todo[c]) \in Nat
    BY <2>2, <2>3, OneLess
  <2>5. Spent(c)'
    BY <1>0, <2>2, <2>3, <2>4, Parameters
  <2>6. Good(c)' /\ Fresh(c)' /\ Listed(c)'
    BY <1>0, <1>b, <2>2
  <2>7. QED
    BY <1>0, <2>1, <2>5, <2>6
<1>5. ASSUME NEW c \in Caller, Answer(c) PROVE HealthInv'
  <2>1. ASSUME NEW d \in Caller, d # c PROVE Inv(d)'
    BY <1>5, <1>a, <1>b, <2>1 DEF Answer, call, fleet, TypeOK
  <2>2. /\ pc'[c] = IF at[c] \in up THEN "answered" ELSE "raised"
        /\ pc[c] = "calling"
        /\ UNCHANGED <<up, failures, healthy, todo, at, attempt>>
    BY <1>5 DEF Answer, call, fleet, TypeOK
  <2>3. pc'[c] = "raised" => healthy[c] \subseteq todo[c]
    BY <1>0, <2>2
  <2>4. Inv(c)'
    BY <1>0, <1>b, <2>2, <2>3
  <2>5. QED
    BY <1>0, <2>1, <2>4
<1>6. ASSUME NEW c \in Caller, RecordSuccess(c) PROVE HealthInv'
  <2>1. ASSUME NEW d \in Caller, d # c PROVE Inv(d)'
    BY <1>6, <1>a, <1>c, <2>1 DEF RecordSuccess, Over, TypeOK
  <2>2. pc'[c] = "idle" /\ attempt'[c] = 0
    BY <1>6 DEF RecordSuccess, Over, TypeOK
  <2>3. Inv(c)'
    BY <1>6, <1>c, <2>2 DEF RecordSuccess
  <2>4. QED
    BY <1>0, <2>1, <2>3
<1>7. ASSUME NEW c \in Caller, RecordFailure(c) PROVE HealthInv'
  <2>1. ASSUME NEW d \in Caller, d # c PROVE Inv(d)'
    BY <1>7, <1>a, <1>c, <2>1 DEF RecordFailure, TypeOK
  <2>2. /\ pc'[c] \in {"next", "backoff"} /\ pc[c] = "raised"
        /\ UNCHANGED <<todo, attempt>>
    BY <1>7 DEF RecordFailure, TypeOK
  <2>3. healthy'[c] \subseteq healthy[c] /\ Good(c)'
    BY <1>7, <1>c DEF RecordFailure
  <2>4. Inv(c)'
    BY <1>0, <2>2, <2>3
  <2>5. QED
    BY <1>0, <2>1, <2>4
<1>8. ASSUME NEW c \in Caller, GiveUp(c) PROVE HealthInv'
  <2>1. ASSUME NEW d \in Caller, d # c PROVE Inv(d)'
    BY <1>8, <1>a, <1>b, <2>1 DEF GiveUp, call, fleet, breakers, TypeOK
  <2>2. pc'[c] = "failed" /\ UNCHANGED <<up, failures, healthy>>
    BY <1>8 DEF GiveUp, fleet, breakers, TypeOK
  <2>3. Inv(c)'
    BY <1>b, <2>2
  <2>4. QED
    BY <1>0, <2>1, <2>3
<1>9. ASSUME Tick \/ UNCHANGED vars PROVE HealthInv'
  BY <1>0, <1>9, <1>a, <1>b DEF Tick, vars, fleet, breakers, progress, call
<1>10. ASSUME NEW e \in Endpoint, Flip(e) PROVE HealthInv'
  BY <1>0, <1>10, <1>a, <1>c DEF Flip, progress, call
<1>11. QED
  BY <1>1, <1>2, <1>3, <1>4, <1>5, <1>6, <1>7, <1>8, <1>9, <1>10 DEF Next, Step

(* A caller fails only when it may: nothing was listed, or the attempts    *)
(* went to as many endpoints, none of them healthy.                        *)
LEMMA FailureStep == TypeOK /\ HealthInv /\ HealthyAnswers /\ [Next]_vars => HealthyAnswers'
<1> SUFFICES ASSUME TypeOK, HealthInv, HealthyAnswers, [Next]_vars, N <= MaxAttempts,
                    NEW c \in Caller, pc'[c] = "failed"
             PROVE  healthy'[c] = {}
  BY DEF HealthyAnswers
<1>1. CASE pc[c] = "failed"
  <2>1. healthy[c] = {}
    BY <1>1, Parameters DEF HealthyAnswers
  <2>2. ASSUME NEW d \in Caller, Begin(d) PROVE healthy'[c] = {}
    BY <1>1, <2>1, <2>2 DEF Begin, TypeOK
  <2>3. ASSUME NotedHealth PROVE healthy'[c] = {}
    BY <2>1, <2>3 DEF NotedHealth
  <2>4. ASSUME NEW d \in Caller, Expire(d) \/ PrepareLocally(d) PROVE healthy'[c] = {}
    BY <2>1, <2>4 DEF Expire, PrepareLocally, TypeOK
  <2>5. QED
    BY <2>1, <2>2, <2>3, <2>4
    DEF Next, Step, vars, Order, Dispatch, Answer, RecordSuccess, RecordFailure, GiveUp, Tick, Flip
<1>2. CASE pc[c] # "failed" /\ Order(c)
  <2>1. {e \in Endpoint : Available(e)} = {}
    BY <1>2 DEF Order, TypeOK
  <2>2. \A e \in healthy[c] : e \in Endpoint /\ Available(e)
    BY DEF HealthInv, Available, TypeOK
  <2>3. QED
    BY <1>2, <2>1, <2>2 DEF Order
<1>3. CASE pc[c] # "failed" /\ GiveUp(c)
  <2>1. IsFiniteSet(todo[c]) /\ attempt[c] \in Nat
    <3>1. todo[c] \in SUBSET Endpoint /\ attempt[c] \in 0..MaxAttempts
      BY DEF TypeOK
    <3>2. QED
      BY <3>1, FleetSize, Smaller, Parameters
  <2>2. Cardinality(todo[c]) \in Nat /\ (Cardinality(todo[c]) = 0 <=> todo[c] = {})
    BY <2>1, FS_EmptySet, FS_CardinalityType
  <2>3. healthy[c] # {} => attempt[c] + Cardinality(todo[c]) <= N /\ healthy[c] \subseteq todo[c]
    BY <1>3 DEF HealthInv, GiveUp
  <2>4. attempt[c] >= N
    BY <1>3, <2>1, Parameters DEF GiveUp
  <2>5. healthy[c] = {}
    BY <2>1, <2>2, <2>3, <2>4, Parameters
  <2>6. QED
    BY <1>3, <2>5 DEF GiveUp
<1>4. pc[c] = "failed" \/ Order(c) \/ GiveUp(c)
  <2>1. ASSUME NEW d \in Caller, Begin(d) PROVE pc[c] = "failed"
    BY <2>1 DEF Begin, TypeOK
  <2>2. ASSUME NEW d \in Caller, Order(d) PROVE pc[c] = "failed" \/ Order(c)
    BY <2>2 DEF Order, TypeOK
  <2>3. ASSUME NEW d \in Caller, GiveUp(d) PROVE pc[c] = "failed" \/ GiveUp(c)
    BY <2>3 DEF GiveUp, TypeOK
  <2>4. ASSUME NEW d \in Caller,
               \/ Expire(d) \/ PrepareLocally(d) \/ RecordSuccess(d) \/ Answer(d)
               \/ RecordFailure(d) \/ \E e \in Endpoint : Dispatch(d, e)
        PROVE  pc[c] = "failed"
    BY <2>4 DEF Expire, PrepareLocally, RecordSuccess, Answer, RecordFailure, Dispatch, Over, TypeOK
  <2>5. QED
    BY <2>1, <2>2, <2>3, <2>4 DEF Next, Step, vars, Tick, Flip, progress
<1>5. QED
  BY <1>1, <1>2, <1>3, <1>4

(* A fleet that is not larger than the attempts and has a healthy member   *)
(* answers every batch that does not run out of time (_with_failover).     *)
THEOREM HealthyFleetsAnswer == Spec => []HealthyAnswers
<1>1. Init => HealthInv /\ HealthyAnswers
  BY DEF Init, HealthInv, HealthyAnswers
<1>2. QED
  BY <1>1, HealthStep, FailureStep, TypeCorrect, PTL DEF Spec
=============================================================================
