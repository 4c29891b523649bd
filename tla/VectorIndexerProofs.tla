------------------------ MODULE VectorIndexerProofs ------------------------
(***************************************************************************)
(* Proofs about VectorIndexer, for any number of threads and chunks, every *)
(* queue size and any number of provider failures.                         *)
(***************************************************************************)
EXTENDS VectorIndexer, FiniteSetTheorems, TLAPS

Flushing == {"flush", "embed", "stored", "flushed"}

(* Why a flush may return: what it owes is stored, or one of its items is  *)
(* still outstanding, and an item leaves outstanding only after its chunk  *)
(* was stored.                                                             *)
Tracked ==
    /\ \A c \in queued : c \in store \/ \E i \in outstanding : i[2] = c
    /\ \A t \in Thread : pc[t] \in Flushing =>
        \A c \in due[t] : c \in store \/ \E i \in mine[t] \cap outstanding : i[2] = c
    /\ \A t \in Thread : pc[t] = "flushed" => due[t] \subseteq store
    /\ \A t \in Thread : pc[t] = "stored" => \A i \in batch[t] : i[2] \in store
    /\ bg = "stored" => \A i \in bgBatch : i[2] \in store

(* A reset has the indexer to itself, and no batch is out once it clears.  *)
Alone ==
    /\ \A t, u \in Thread :
        pc[t] \in {"reset", "clear", "resetstore"} /\ u # t => pc[u] = "idle"
    /\ \A t \in Thread : pc[t] \in {"clear", "resetstore"} => bg = "none"
    /\ \A t \in Thread : pc[t] = "resetstore" => queued = {}
    /\ bg = "none" => bgBatch = {}
    /\ \A t \in Thread : batch[t] # {} => pc[t] \in {"embed", "stored"}

(* Every chunk on its way to the store was queued since the last reset.    *)
Sourced ==
    /\ \A i \in pending \cup bgBatch : i[2] \in queued
    /\ \A t \in Thread : \A i \in batch[t] : i[2] \in queued
    /\ (\A t \in Thread : pc[t] # "resetstore") => store \subseteq queued

(* While the provider has not failed, each thread has added at most the    *)
(* artifact it waits with to a queue that was not full.                    *)
Waiting == {t \in Thread : pc[t] = "submit"}

Small(C) == IsFiniteSet(C) /\ Cardinality(C) <= PerArtifact

Bounded ==
    failures = 0 =>
        /\ error = FALSE
        /\ IsFiniteSet(pending)
        /\ Cardinality(pending) <= QueueSize - 1 + PerArtifact * Cardinality(Waiting)
        /\ Cardinality(bgBatch) <= QueueBound
        /\ \A t \in Thread : pc[t] = "queue" => Small(chunk[t])

(* Items are numbered in turn, so that a new one is nobody's yet.          *)
Numbered ==
    /\ \A i \in pending \cup outstanding \cup bgBatch : i[1] <= seq
    /\ \A t \in Thread : \A i \in mine[t] \cup batch[t] : i[1] <= seq

\* The items that somebody is bringing to the store.
Carried == bgBatch \cup UNION {batch[t] : t \in Thread}

(* Nobody waits for what has happened already: who waits for the slot of   *)
(* the background thread does so while a batch is in flight, and who       *)
(* flushes while something of it is outstanding.  That something is on its *)
(* way to the store, as long as the provider has not failed.               *)
WaitsForSomebody ==
    \A t \in asleep :
        /\ pc[t] \in {"submit", "reset"} => inflight > 0
        /\ pc[t] = "flush" => ~Flushed(t)
        /\ pc[t] = "flush" /\ failures = 0 => mine[t] \cap outstanding \subseteq Carried

(* Why: what is outstanding is queued or carried, and a batch that has     *)
(* landed is not outstanding any more.                                     *)
Awaited ==
    /\ failures = 0 => outstanding \subseteq pending \cup Carried
    /\ failures = 0 /\ bg = "done" => bgBatch \cap outstanding = {}
    /\ WaitsForSomebody

-----------------------------------------------------------------------------
(* The types hold before the first call.                                   *)
LEMMA InitType == Init => TypeOK
<1> SUFFICES ASSUME Init PROVE TypeOK
  OBVIOUS
<1>1. error \in BOOLEAN
  BY Zenon DEF Init
<1>2. failures \in 0..MaxFailures /\ seq \in Nat /\ inflight \in {0, 1}
  BY IndexerAssumption DEF Init
<1>3. QED
  BY <1>1, <1>2 DEF Init, TypeOK, Labels

(* Every region under one of the locks keeps the types.                   *)
LEMMA TypeStep == TypeOK /\ [Next]_vars => TypeOK'
<1> SUFFICES ASSUME TypeOK, [Next]_vars PROVE TypeOK'
  OBVIOUS
<1> USE IndexerAssumption DEF TypeOK, Item, Chunk, Labels, queue, background, threads, history, Goto, At
<1>1. ASSUME NEW t \in Thread, NEW rows \in SUBSET ChunksOf(t), Index(t, rows) PROVE TypeOK'
  <2>1. rows \ store \subseteq Thread \X (1..PerSource)
    BY DEF ChunksOf
  <2>2. QED
    BY <1>1, <2>1 DEF Index, Calls
<1>2. ASSUME NEW t \in Thread, IndexRaises(t) PROVE TypeOK'
  BY <1>2 DEF IndexRaises, Calls
<1>3. ASSUME NEW t \in Thread, Queue(t) PROVE TypeOK'
  BY <1>3 DEF Queue
<1>4. ASSUME NEW t \in Thread, SubmitWaits(t) PROVE TypeOK'
  BY <1>4 DEF SubmitWaits
<1>5. ASSUME NEW t \in Thread, SubmitReturns(t) PROVE TypeOK'
  BY <1>5 DEF SubmitReturns
<1>6. ASSUME NEW t \in Thread, Submit(t) PROVE TypeOK'
  BY <1>6 DEF Submit
<1>7. ASSUME NEW t \in Thread, Flush(t) PROVE TypeOK'
  BY <1>7 DEF Flush, Calls
<1>8. ASSUME NEW t \in Thread, FlushRaises(t) PROVE TypeOK'
  BY <1>8 DEF FlushRaises, EndFlush
<1>9. ASSUME NEW t \in Thread, FlushReturns(t) PROVE TypeOK'
  BY <1>9 DEF FlushReturns, Flushed
<1>10. ASSUME NEW t \in Thread, FlushTakes(t) PROVE TypeOK'
  BY <1>10 DEF FlushTakes
<1>11. ASSUME NEW t \in Thread, FlushWaits(t) PROVE TypeOK'
  BY <1>11 DEF FlushWaits
<1>12. ASSUME NEW t \in Thread, FlushStore(t) PROVE TypeOK'
  BY <1>12 DEF FlushStore, Ids
<1>13. ASSUME NEW t \in Thread, FlushLand(t) PROVE TypeOK'
  BY <1>13 DEF FlushLand
<1>14. ASSUME NEW t \in Thread, FlushFails(t) PROVE TypeOK'
  BY <1>14 DEF FlushFails, Fails, EndFlush
<1>15. ASSUME NEW t \in Thread, StoreFlush(t) PROVE TypeOK'
  BY <1>15 DEF StoreFlush, EndFlush
<1>16. ASSUME NEW t \in Thread, Reset(t) PROVE TypeOK'
  BY <1>16 DEF Reset
<1>17. ASSUME NEW t \in Thread, ResetWaits(t) PROVE TypeOK'
  BY <1>17 DEF ResetWaits
<1>18. ASSUME NEW t \in Thread, ResetWaited(t) PROVE TypeOK'
  BY <1>18 DEF ResetWaited
<1>19. ASSUME NEW t \in Thread, ResetQueue(t) PROVE TypeOK'
  BY <1>19 DEF ResetQueue
<1>20. ASSUME NEW t \in Thread, ResetStore(t) PROVE TypeOK'
  BY <1>20 DEF ResetStore
<1>21. CASE BgStore
  BY <1>21 DEF BgStore, Ids
<1>22. CASE BgLand
  BY <1>22 DEF BgLand
<1>23. CASE BgFail
  BY <1>23 DEF BgFail, Fails
<1>24. CASE BgDone
  BY <1>24 DEF BgDone
<1>25. CASE UNCHANGED vars
  BY <1>25 DEF vars
<1>26. QED
  BY <1>1, <1>2, <1>3, <1>4, <1>5, <1>6, <1>7, <1>8, <1>9, <1>10, <1>11, <1>12,
     <1>13, <1>14, <1>15, <1>16, <1>17, <1>18, <1>19, <1>20, <1>21, <1>22, <1>23, <1>24,
     <1>25
     DEF Next, Call, Step, Background

(* No call begins while a reset is under way.                              *)
LEMMA AloneStep == TypeOK /\ Alone /\ [Next]_vars => Alone'
<1> SUFFICES ASSUME TypeOK, Alone, [Next]_vars PROVE Alone'
  OBVIOUS
<1> USE DEF Alone, TypeOK, Labels, queue, background, threads, history, Goto, At
<1>1. ASSUME NEW t \in Thread, NEW rows \in SUBSET ChunksOf(t), Index(t, rows) PROVE Alone'
  BY <1>1 DEF Index, Calls
<1>2. ASSUME NEW t \in Thread, IndexRaises(t) PROVE Alone'
  BY <1>2 DEF IndexRaises, Calls
<1>3. ASSUME NEW t \in Thread, Queue(t) PROVE Alone'
  BY <1>3 DEF Queue
<1>4. ASSUME NEW t \in Thread, SubmitWaits(t) PROVE Alone'
  BY <1>4 DEF SubmitWaits
<1>5. ASSUME NEW t \in Thread, SubmitReturns(t) PROVE Alone'
  BY <1>5 DEF SubmitReturns
<1>6. ASSUME NEW t \in Thread, Submit(t) PROVE Alone'
  BY <1>6 DEF Submit
<1>7. ASSUME NEW t \in Thread, Flush(t) PROVE Alone'
  BY <1>7 DEF Flush, Calls
<1>8. ASSUME NEW t \in Thread, FlushRaises(t) PROVE Alone'
  BY <1>8 DEF FlushRaises, EndFlush
<1>9. ASSUME NEW t \in Thread, FlushReturns(t) PROVE Alone'
  BY <1>9 DEF FlushReturns, Flushed
<1>10. ASSUME NEW t \in Thread, FlushTakes(t) PROVE Alone'
  BY <1>10 DEF FlushTakes
<1>11. ASSUME NEW t \in Thread, FlushWaits(t) PROVE Alone'
  BY <1>11 DEF FlushWaits
<1>12. ASSUME NEW t \in Thread, FlushStore(t) PROVE Alone'
  BY <1>12 DEF FlushStore, Ids
<1>13. ASSUME NEW t \in Thread, FlushLand(t) PROVE Alone'
  BY <1>13 DEF FlushLand
<1>14. ASSUME NEW t \in Thread, FlushFails(t) PROVE Alone'
  BY <1>14 DEF FlushFails, Fails, EndFlush
<1>15. ASSUME NEW t \in Thread, StoreFlush(t) PROVE Alone'
  BY <1>15 DEF StoreFlush, EndFlush
<1>16. ASSUME NEW t \in Thread, Reset(t) PROVE Alone'
  BY <1>16 DEF Reset
<1>17. ASSUME NEW t \in Thread, ResetWaits(t) PROVE Alone'
  BY <1>17 DEF ResetWaits
<1>18. ASSUME NEW t \in Thread, ResetWaited(t) PROVE Alone'
  BY <1>18 DEF ResetWaited
<1>19. ASSUME NEW t \in Thread, ResetQueue(t) PROVE Alone'
  BY <1>19 DEF ResetQueue
<1>20. ASSUME NEW t \in Thread, ResetStore(t) PROVE Alone'
  BY <1>20 DEF ResetStore
<1>21. CASE BgStore
  BY <1>21 DEF BgStore, Ids
<1>22. CASE BgLand
  BY <1>22 DEF BgLand
<1>23. CASE BgFail
  BY <1>23 DEF BgFail, Fails
<1>24. CASE BgDone
  BY <1>24 DEF BgDone
<1>25. CASE UNCHANGED vars
  BY <1>25 DEF vars
<1>26. QED
  BY <1>1, <1>2, <1>3, <1>4, <1>5, <1>6, <1>7, <1>8, <1>9, <1>10, <1>11, <1>12,
     <1>13, <1>14, <1>15, <1>16, <1>17, <1>18, <1>19, <1>20, <1>21, <1>22, <1>23, <1>24,
     <1>25
     DEF Next, Call, Step, Background

(* No step loses track of a chunk that is queued.                          *)
LEMMA TrackedStep == TypeOK /\ Alone /\ Tracked /\ [Next]_vars => Tracked'
<1> SUFFICES ASSUME TypeOK, Alone, Tracked, [Next]_vars PROVE Tracked'
  OBVIOUS
<1> USE DEF Tracked, Alone, TypeOK, Labels, Flushing, queue, background, threads, history, Goto, At
<1>1. ASSUME NEW t \in Thread, NEW rows \in SUBSET ChunksOf(t), Index(t, rows) PROVE Tracked'
  BY <1>1 DEF Index, Calls
<1>2. ASSUME NEW t \in Thread, IndexRaises(t) PROVE Tracked'
  BY <1>2 DEF IndexRaises, Calls
<1>3. ASSUME NEW t \in Thread, Queue(t) PROVE Tracked'
  <2> DEFINE items == {<<seq + 1, c>> : c \in chunk[t]}
  <2>1. /\ outstanding' = outstanding \cup items
        /\ queued' = queued \cup chunk[t]
        /\ pc'[t] \in {"submit", "idle"} /\ \A u \in Thread : u # t => pc'[u] = pc[u]
        /\ UNCHANGED <<store, due, mine, batch, bg, bgBatch>>
    BY <1>3 DEF Queue
  <2>2. \A c \in chunk[t] : \E i \in items : i[2] = c
    <3>1. TAKE c \in chunk[t]
    <3>2. <<seq + 1, c>> \in items
      OBVIOUS
    <3>3. QED
      BY <3>2
  <2> HIDE DEF items
  <2>3. \A c \in queued' : c \in store' \/ \E i \in outstanding' : i[2] = c
    BY <2>1, <2>2
  <2>4. \A u \in Thread : pc'[u] \in Flushing =>
            \A c \in due'[u] : c \in store' \/ \E i \in mine'[u] \cap outstanding' : i[2] = c
    BY <2>1
  <2>5. \A u \in Thread : pc'[u] = "flushed" => due'[u] \subseteq store'
    BY <2>1
  <2>6. QED
    BY <2>1, <2>3, <2>4, <2>5
<1>4. ASSUME NEW t \in Thread, SubmitWaits(t) PROVE Tracked'
  BY <1>4 DEF SubmitWaits
<1>5. ASSUME NEW t \in Thread, SubmitReturns(t) PROVE Tracked'
  BY <1>5 DEF SubmitReturns
<1>6. ASSUME NEW t \in Thread, Submit(t) PROVE Tracked'
  BY <1>6 DEF Submit
<1>7. ASSUME NEW t \in Thread, Flush(t) PROVE Tracked'
  BY <1>7 DEF Flush, Calls
<1>8. ASSUME NEW t \in Thread, FlushRaises(t) PROVE Tracked'
  BY <1>8 DEF FlushRaises, EndFlush
<1>9. ASSUME NEW t \in Thread, FlushReturns(t) PROVE Tracked'
  BY <1>9 DEF FlushReturns, Flushed
<1>10. ASSUME NEW t \in Thread, FlushTakes(t) PROVE Tracked'
  BY <1>10 DEF FlushTakes
<1>11. ASSUME NEW t \in Thread, FlushWaits(t) PROVE Tracked'
  BY <1>11 DEF FlushWaits
<1>12. ASSUME NEW t \in Thread, FlushStore(t) PROVE Tracked'
  BY <1>12 DEF FlushStore, Ids
<1>13. ASSUME NEW t \in Thread, FlushLand(t) PROVE Tracked'
  BY <1>13 DEF FlushLand
<1>14. ASSUME NEW t \in Thread, FlushFails(t) PROVE Tracked'
  BY <1>14 DEF FlushFails, Fails, EndFlush
<1>15. ASSUME NEW t \in Thread, StoreFlush(t) PROVE Tracked'
  BY <1>15 DEF StoreFlush, EndFlush
<1>16. ASSUME NEW t \in Thread, Reset(t) PROVE Tracked'
  BY <1>16 DEF Reset
<1>17. ASSUME NEW t \in Thread, ResetWaits(t) PROVE Tracked'
  BY <1>17 DEF ResetWaits
<1>18. ASSUME NEW t \in Thread, ResetWaited(t) PROVE Tracked'
  BY <1>18 DEF ResetWaited
<1>19. ASSUME NEW t \in Thread, ResetQueue(t) PROVE Tracked'
  BY <1>19 DEF ResetQueue
<1>20. ASSUME NEW t \in Thread, ResetStore(t) PROVE Tracked'
  BY <1>20 DEF ResetStore
<1>21. CASE BgStore
  BY <1>21 DEF BgStore, Ids
<1>22. CASE BgLand
  BY <1>22 DEF BgLand
<1>23. CASE BgFail
  BY <1>23 DEF BgFail, Fails
<1>24. CASE BgDone
  BY <1>24 DEF BgDone
<1>25. CASE UNCHANGED vars
  BY <1>25 DEF vars
<1>26. QED
  BY <1>1, <1>2, <1>3, <1>4, <1>5, <1>6, <1>7, <1>8, <1>9, <1>10, <1>11, <1>12,
     <1>13, <1>14, <1>15, <1>16, <1>17, <1>18, <1>19, <1>20, <1>21, <1>22, <1>23, <1>24,
     <1>25
     DEF Next, Call, Step, Background

(* No step carries a chunk across a reset.                                 *)
LEMMA SourcedStep == TypeOK /\ Alone /\ Sourced /\ [Next]_vars => Sourced'
<1> SUFFICES ASSUME TypeOK, Alone, Sourced, [Next]_vars PROVE Sourced'
  OBVIOUS
<1> USE DEF Sourced, Alone, TypeOK, Labels, queue, background, threads, history, Goto, At
<1>1. ASSUME NEW t \in Thread, NEW rows \in SUBSET ChunksOf(t), Index(t, rows) PROVE Sourced'
  BY <1>1 DEF Index, Calls
<1>2. ASSUME NEW t \in Thread, IndexRaises(t) PROVE Sourced'
  BY <1>2 DEF IndexRaises, Calls
<1>3. ASSUME NEW t \in Thread, Queue(t) PROVE Sourced'
  BY <1>3 DEF Queue
<1>4. ASSUME NEW t \in Thread, SubmitWaits(t) PROVE Sourced'
  BY <1>4 DEF SubmitWaits
<1>5. ASSUME NEW t \in Thread, SubmitReturns(t) PROVE Sourced'
  BY <1>5 DEF SubmitReturns
<1>6. ASSUME NEW t \in Thread, Submit(t) PROVE Sourced'
  BY <1>6 DEF Submit
<1>7. ASSUME NEW t \in Thread, Flush(t) PROVE Sourced'
  BY <1>7 DEF Flush, Calls
<1>8. ASSUME NEW t \in Thread, FlushRaises(t) PROVE Sourced'
  BY <1>8 DEF FlushRaises, EndFlush
<1>9. ASSUME NEW t \in Thread, FlushReturns(t) PROVE Sourced'
  BY <1>9 DEF FlushReturns, Flushed
<1>10. ASSUME NEW t \in Thread, FlushTakes(t) PROVE Sourced'
  BY <1>10 DEF FlushTakes
<1>11. ASSUME NEW t \in Thread, FlushWaits(t) PROVE Sourced'
  BY <1>11 DEF FlushWaits
<1>12. ASSUME NEW t \in Thread, FlushStore(t) PROVE Sourced'
  BY <1>12 DEF FlushStore, Ids
<1>13. ASSUME NEW t \in Thread, FlushLand(t) PROVE Sourced'
  BY <1>13 DEF FlushLand
<1>14. ASSUME NEW t \in Thread, FlushFails(t) PROVE Sourced'
  BY <1>14 DEF FlushFails, Fails, EndFlush
<1>15. ASSUME NEW t \in Thread, StoreFlush(t) PROVE Sourced'
  BY <1>15 DEF StoreFlush, EndFlush
<1>16. ASSUME NEW t \in Thread, Reset(t) PROVE Sourced'
  BY <1>16 DEF Reset
<1>17. ASSUME NEW t \in Thread, ResetWaits(t) PROVE Sourced'
  BY <1>17 DEF ResetWaits
<1>18. ASSUME NEW t \in Thread, ResetWaited(t) PROVE Sourced'
  BY <1>18 DEF ResetWaited
<1>19. ASSUME NEW t \in Thread, ResetQueue(t) PROVE Sourced'
  BY <1>19 DEF ResetQueue
<1>20. ASSUME NEW t \in Thread, ResetStore(t) PROVE Sourced'
  BY <1>20 DEF ResetStore
<1>21. CASE BgStore
  BY <1>21 DEF BgStore, Ids
<1>22. CASE BgLand
  BY <1>22 DEF BgLand
<1>23. CASE BgFail
  BY <1>23 DEF BgFail, Fails
<1>24. CASE BgDone
  BY <1>24 DEF BgDone
<1>25. CASE UNCHANGED vars
  BY <1>25 DEF vars
<1>26. QED
  BY <1>1, <1>2, <1>3, <1>4, <1>5, <1>6, <1>7, <1>8, <1>9, <1>10, <1>11, <1>12,
     <1>13, <1>14, <1>15, <1>16, <1>17, <1>18, <1>19, <1>20, <1>21, <1>22, <1>23, <1>24,
     <1>25
     DEF Next, Call, Step, Background

(* The arithmetic of the bound.                                            *)
LEMMA Product ==
    ASSUME NEW a \in Nat, NEW n \in Nat
    PROVE  a * n \in Nat /\ a * (n + 1) = a * n + a
OBVIOUS

(* The chunks of a source are finitely many.                               *)
LEMMA ChunksFinite == ASSUME NEW t, NEW C \in SUBSET ChunksOf(t) PROVE IsFiniteSet(C)
<1>1. IsFiniteSet({t}) /\ IsFiniteSet(1..PerSource)
  <2>1. IsFiniteSet({t})
    BY FS_Singleton
  <2>2. 1 \in Int /\ PerSource \in Int
    BY IndexerAssumption
  <2>3. QED
    BY <2>1, <2>2, FS_Interval
<1>2. IsFiniteSet(ChunksOf(t))
  BY <1>1, FS_Product DEF ChunksOf
<1>3. QED
  BY <1>2, FS_Subset

(* One call adds no more items than its artifact has chunks.               *)
LEMMA ItemsAreSmall ==
    ASSUME NEW C, Small(C)
    PROVE  /\ IsFiniteSet({<<seq + 1, c>> : c \in C})
           /\ Cardinality({<<seq + 1, c>> : c \in C}) \in Nat
           /\ Cardinality({<<seq + 1, c>> : c \in C}) <= PerArtifact
<1> DEFINE items == {<<seq + 1, c>> : c \in C}
           f == [c \in C |-> <<seq + 1, c>>]
<1>1. f \in Surjection(C, items)
  BY DEF Surjection
<1> HIDE DEF items, f
<1>2. IsFiniteSet(items) /\ Cardinality(items) <= Cardinality(C)
  BY <1>1, FS_Surjection DEF Small
<1>3. Cardinality(items) \in Nat /\ Cardinality(C) \in Nat
  BY <1>2, FS_CardinalityType DEF Small
<1>4. QED
  BY <1>2, <1>3, IndexerAssumption DEF Small, items

(* What the threads that wait have brought fits below the bound.           *)
LEMMA RoomForAll ==
    ASSUME IsFiniteSet(Thread)
    PROVE  /\ IsFiniteSet(Waiting) /\ Cardinality(Waiting) \in Nat
           /\ PerArtifact * Cardinality(Waiting) \in Nat
           /\ PerArtifact * Cardinality(Waiting) <= PerArtifact * Cardinality(Thread)
           /\ PerArtifact * Cardinality(Thread) \in Nat
<1>1. /\ IsFiniteSet(Waiting) /\ Cardinality(Waiting) \in Nat
      /\ Cardinality(Waiting) <= Cardinality(Thread) /\ Cardinality(Thread) \in Nat
  <2>1. Waiting \subseteq Thread
    BY DEF Waiting
  <2>2. QED
    BY <2>1, FS_Subset, FS_CardinalityType
<1>2. PerArtifact * Cardinality(Waiting) \in Nat /\ PerArtifact * Cardinality(Thread) \in Nat
  BY <1>1, Product, IndexerAssumption
<1>3. PerArtifact * Cardinality(Waiting) <= PerArtifact * Cardinality(Thread)
  <2>1. PICK k \in Nat : Cardinality(Thread) = Cardinality(Waiting) + k
    <3>1. Cardinality(Thread) - Cardinality(Waiting) \in Nat
      BY <1>1
    <3>2. QED
      BY <1>1, <3>1
  <2>2. PerArtifact * Cardinality(Thread) = PerArtifact * Cardinality(Waiting) + PerArtifact * k
    BY <1>1, <2>1, IndexerAssumption
  <2>3. PerArtifact * k \in Nat
    BY Product, IndexerAssumption
  <2>4. QED
    BY <1>2, <2>2, <2>3
<1>4. QED
  BY <1>1, <1>2, <1>3

(* A thread that fills the queue waits until the batch before it is out.   *)
LEMMA BoundedStep ==
    ASSUME IsFiniteSet(Thread), TypeOK, Bounded, [Next]_vars PROVE Bounded'
<1>f. SUFFICES ASSUME failures' = 0, failures = 0 PROVE Bounded'
  <2>1. failures \in Nat /\ failures' \in {failures, failures + 1}
    <3>1. failures \in Nat
      BY IndexerAssumption DEF TypeOK
    <3>2. failures' \in {failures, failures + 1}
      BY DEF Next, Call, Step, Background, IndexRaises, Flush, Reset, Index, Queue, SubmitWaits,
             SubmitReturns, Submit, FlushRaises, FlushReturns, FlushTakes, FlushWaits, FlushStore,
             FlushLand, StoreFlush, ResetWaits, ResetWaited, ResetQueue, ResetStore, FlushFails,
             Fails, BgStore, BgLand, BgDone, BgFail, vars, history
    <3>3. QED
      BY <3>1, <3>2
  <2>2. failures' = 0 => failures = 0
    BY <2>1
  <2>3. QED
    BY <2>2 DEF Bounded
<1>0. /\ error = FALSE
      /\ IsFiniteSet(pending) /\ Cardinality(pending) \in Nat
      /\ Cardinality(pending) <= QueueSize - 1 + PerArtifact * Cardinality(Waiting)
      /\ Cardinality(pending) <= QueueBound
      /\ Cardinality(bgBatch) <= QueueBound
      /\ \A t \in Thread : pc[t] = "queue" => Small(chunk[t])
      /\ IsFiniteSet(Waiting) /\ Cardinality(Waiting) \in Nat
      /\ PerArtifact * Cardinality(Waiting) \in Nat /\ QueueBound \in Nat
  <2>1. IsFiniteSet(pending) => Cardinality(pending) \in Nat
    BY FS_CardinalityType
  <2>2. QED
    BY <1>f, <2>1, RoomForAll, IndexerAssumption DEF Bounded, QueueBound
<1>e. ASSUME pending' = {}
      PROVE  /\ IsFiniteSet(pending') /\ Cardinality(pending') = 0
             /\ Cardinality(pending') <= QueueSize - 1 + PerArtifact * Cardinality(Waiting')
  <2>1. Waiting' \subseteq Thread
    BY DEF Waiting
  <2>2. Cardinality(Waiting') \in Nat /\ Cardinality({}) = 0 /\ IsFiniteSet({})
    BY <2>1, FS_Subset, FS_CardinalityType, FS_EmptySet
  <2>3. PerArtifact * Cardinality(Waiting') \in Nat
    BY <2>2, Product, IndexerAssumption
  <2>4. QED
    BY <1>e, <2>2, <2>3, IndexerAssumption
<1>s. ASSUME error' = FALSE, UNCHANGED <<pending, bgBatch>>,
             \A u \in Thread : pc'[u] = "submit" <=> pc[u] = "submit",
             \A u \in Thread : pc'[u] = "queue" => Small(chunk'[u])
      PROVE  Bounded'
  <2>1. Waiting' = Waiting
    BY <1>s DEF Waiting
  <2>2. QED
    BY <1>0, <1>s, <2>1 DEF Bounded, QueueBound
<1> USE DEF Bounded, TypeOK, Labels, queue, background, threads, history, Goto, At
<1>1. ASSUME NEW t \in Thread, NEW rows \in SUBSET ChunksOf(t), Index(t, rows) PROVE Bounded'
  <2>1. /\ pc[t] = "idle" /\ error = FALSE /\ Cardinality(rows) <= PerArtifact
        /\ pc' = [pc EXCEPT ![t] = "queue"] /\ chunk' = [chunk EXCEPT ![t] = rows \ store]
        /\ UNCHANGED <<error, pending, bgBatch>>
    BY <1>0, <1>1 DEF Index, Calls
  <2>2. Small(rows \ store)
    <3>1. IsFiniteSet(rows) /\ Cardinality(rows \ store) <= Cardinality(rows)
          /\ IsFiniteSet(rows \ store)
      BY ChunksFinite, FS_Subset
    <3>2. Cardinality(rows) \in Nat /\ Cardinality(rows \ store) \in Nat
      BY <3>1, FS_CardinalityType
    <3>3. QED
      BY <2>1, <3>1, <3>2, IndexerAssumption DEF Small
  <2>3. /\ \A u \in Thread : pc'[u] = "submit" <=> pc[u] = "submit"
        /\ \A u \in Thread : pc'[u] = "queue" => Small(chunk'[u])
    BY <1>0, <2>1, <2>2
  <2>4. QED
    BY <1>s, <2>1, <2>3
<1>2. ASSUME NEW t \in Thread, IndexRaises(t) PROVE Bounded'
  BY <1>0, <1>s, <1>2 DEF IndexRaises, Calls
<1>3. ASSUME NEW t \in Thread, Queue(t) PROVE Bounded'
  <2> DEFINE items == {<<seq + 1, c>> : c \in chunk[t]}
  <2>1. /\ pc[t] = "queue" /\ pending' = pending \cup items
        /\ pc' = [pc EXCEPT ![t] = IF Cardinality(pending') >= QueueSize THEN "submit" ELSE "idle"]
        /\ chunk' = [chunk EXCEPT ![t] = {}]
        /\ UNCHANGED <<error, bgBatch, failures>>
    BY <1>3 DEF Queue
  <2>2. IsFiniteSet(items) /\ Cardinality(items) \in Nat /\ Cardinality(items) <= PerArtifact
    BY <1>0, <2>1, ItemsAreSmall
  <2> HIDE DEF items
  <2>3. /\ IsFiniteSet(pending')
        /\ Cardinality(pending') <= Cardinality(pending) + PerArtifact
        /\ Cardinality(pending') \in Nat
    <3>1. /\ IsFiniteSet(pending')
          /\ Cardinality(pending')
               = Cardinality(pending) + Cardinality(items) - Cardinality(pending \cap items)
      BY <1>0, <2>1, <2>2, FS_Union
    <3>2. Cardinality(pending \cap items) \in Nat /\ Cardinality(pending') \in Nat
      BY <1>0, <3>1, FS_Subset, FS_CardinalityType
    <3>3. QED
      BY <1>0, <2>2, <3>1, <3>2, IndexerAssumption
  <2>4. \A u \in Thread : pc'[u] = "queue" => Small(chunk'[u])
    <3>1. \A u \in Thread : pc'[u] = "queue" => u # t /\ pc[u] = "queue"
      BY <2>1
    <3>2. QED
      BY <1>0, <2>1, <3>1
  <2>5. CASE Cardinality(pending') >= QueueSize
    <3>1. Waiting' = Waiting \cup {t} /\ t \notin Waiting
      BY <2>1, <2>5 DEF Waiting
    <3>2. Cardinality(Waiting') = Cardinality(Waiting) + 1
      BY <1>0, <3>1, FS_AddElement
    <3>3. PerArtifact * Cardinality(Waiting') = PerArtifact * Cardinality(Waiting) + PerArtifact
      BY <1>0, <3>2, Product, IndexerAssumption
    <3>4. Cardinality(pending') <= QueueSize - 1 + PerArtifact * Cardinality(Waiting')
      BY <1>0, <2>3, <3>3, IndexerAssumption
    <3>5. QED
      BY <1>0, <2>1, <2>3, <2>4, <3>4 DEF QueueBound
  <2>6. CASE ~(Cardinality(pending') >= QueueSize)
    <3>1. Waiting' = Waiting
      BY <2>1, <2>6 DEF Waiting
    <3>2. Cardinality(pending') <= QueueSize - 1 + PerArtifact * Cardinality(Waiting')
      BY <1>0, <2>3, <2>6, <3>1, IndexerAssumption
    <3>3. QED
      BY <1>0, <2>1, <2>3, <2>4, <3>2 DEF QueueBound
  <2>7. QED
    BY <2>5, <2>6
<1>4. ASSUME NEW t \in Thread, SubmitWaits(t) PROVE Bounded'
  BY <1>0, <1>s, <1>4 DEF SubmitWaits
<1>5. ASSUME NEW t \in Thread, SubmitReturns(t) PROVE Bounded'
  <2>1. pending = {} /\ UNCHANGED <<error, pending, bgBatch, chunk, failures>>
    BY <1>0, <1>5 DEF SubmitReturns
  <2>2. \A u \in Thread : pc'[u] = "queue" => pc[u] = "queue"
    BY <1>5 DEF SubmitReturns, TypeOK
  <2>3. QED
    BY <1>0, <1>e, <2>1, <2>2
<1>6. ASSUME NEW t \in Thread, Submit(t) PROVE Bounded'
  <2>1. pending' = {} /\ bgBatch' = pending /\ UNCHANGED <<error, chunk, failures>>
    BY <1>6 DEF Submit
  <2>2. \A u \in Thread : pc'[u] = "queue" => pc[u] = "queue"
    BY <1>6 DEF Submit, TypeOK
  <2>3. Cardinality(bgBatch') <= QueueBound
    BY <1>0, <2>1
  <2>4. QED
    BY <1>0, <1>e, <2>1, <2>2, <2>3
<1>7. ASSUME NEW t \in Thread, Flush(t) PROVE Bounded'
  BY <1>0, <1>s, <1>7 DEF Flush, Calls
<1>8. ASSUME NEW t \in Thread, FlushRaises(t) PROVE Bounded'
  BY <1>0, <1>s, <1>8 DEF FlushRaises, EndFlush
<1>9. ASSUME NEW t \in Thread, FlushReturns(t) PROVE Bounded'
  BY <1>0, <1>s, <1>9 DEF FlushReturns
<1>10. ASSUME NEW t \in Thread, FlushTakes(t) PROVE Bounded'
  <2>1. pending' = {} /\ UNCHANGED <<error, bgBatch, chunk, failures>>
    BY <1>10 DEF FlushTakes
  <2>2. \A u \in Thread : pc'[u] = "queue" => pc[u] = "queue"
    BY <1>10 DEF FlushTakes, TypeOK
  <2>3. QED
    BY <1>0, <1>e, <2>1, <2>2
<1>11. ASSUME NEW t \in Thread, FlushWaits(t) PROVE Bounded'
  BY <1>0, <1>s, <1>11 DEF FlushWaits
<1>12. ASSUME NEW t \in Thread, FlushStore(t) PROVE Bounded'
  BY <1>0, <1>s, <1>12 DEF FlushStore
<1>13. ASSUME NEW t \in Thread, FlushLand(t) PROVE Bounded'
  BY <1>0, <1>s, <1>13 DEF FlushLand
<1>14. ASSUME NEW t \in Thread, FlushFails(t) PROVE Bounded'
  BY <1>f, <1>14 DEF FlushFails, Fails
<1>15. ASSUME NEW t \in Thread, StoreFlush(t) PROVE Bounded'
  BY <1>0, <1>s, <1>15 DEF StoreFlush, EndFlush
<1>16. ASSUME NEW t \in Thread, Reset(t) PROVE Bounded'
  BY <1>0, <1>s, <1>16 DEF Reset
<1>17. ASSUME NEW t \in Thread, ResetWaits(t) PROVE Bounded'
  BY <1>0, <1>s, <1>17 DEF ResetWaits
<1>18. ASSUME NEW t \in Thread, ResetWaited(t) PROVE Bounded'
  BY <1>0, <1>s, <1>18 DEF ResetWaited
<1>19. ASSUME NEW t \in Thread, ResetQueue(t) PROVE Bounded'
  <2>1. pending' = {} /\ UNCHANGED <<error, bgBatch, chunk, failures>>
    BY <1>19 DEF ResetQueue
  <2>2. \A u \in Thread : pc'[u] = "queue" => pc[u] = "queue"
    BY <1>19 DEF ResetQueue, TypeOK
  <2>3. QED
    BY <1>0, <1>e, <2>1, <2>2
<1>20. ASSUME NEW t \in Thread, ResetStore(t) PROVE Bounded'
  BY <1>0, <1>s, <1>20 DEF ResetStore
<1>21. CASE BgStore
  BY <1>0, <1>s, <1>21 DEF BgStore
<1>22. CASE BgLand
  BY <1>0, <1>s, <1>22 DEF BgLand
<1>23. CASE BgFail
  BY <1>f, <1>23 DEF BgFail, Fails
<1>24. CASE BgDone
  <2>1. bgBatch' = {} /\ UNCHANGED <<error, pending, pc, chunk, failures>>
    BY <1>24 DEF BgDone
  <2>2. Cardinality(bgBatch') <= QueueBound
    <3>1. Cardinality({}) = 0
      BY FS_EmptySet
    <3>2. QED
      BY <1>0, <2>1, <3>1, IndexerAssumption
  <2>3. QED
    BY <1>0, <2>1, <2>2 DEF Waiting
<1>25. CASE UNCHANGED vars
  BY <1>0, <1>s, <1>25 DEF vars
<1>26. QED
  BY <1>1, <1>2, <1>3, <1>4, <1>5, <1>6, <1>7, <1>8, <1>9, <1>10, <1>11, <1>12,
     <1>13, <1>14, <1>15, <1>16, <1>17, <1>18, <1>19, <1>20, <1>21, <1>22, <1>23, <1>24,
     <1>25
     DEF Next, Call, Step, Background

(* A number is given once.                                                 *)
LEMMA NumberedStep == TypeOK /\ Numbered /\ [Next]_vars => Numbered'
<1> SUFFICES ASSUME TypeOK, Numbered, [Next]_vars PROVE Numbered'
  OBVIOUS
<1> USE DEF TypeOK, Item, Numbered, queue, background, threads, history, Goto, At
<1>1. ASSUME NEW t \in Thread, NEW rows \in SUBSET ChunksOf(t), Index(t, rows) PROVE Numbered'
  BY <1>1 DEF Index, Calls
<1>2. ASSUME NEW t \in Thread, IndexRaises(t) PROVE Numbered'
  BY <1>2 DEF IndexRaises, Calls
<1>3. ASSUME NEW t \in Thread, Queue(t) PROVE Numbered'
  BY <1>3 DEF Queue
<1>4. ASSUME NEW t \in Thread, SubmitWaits(t) PROVE Numbered'
  BY <1>4 DEF SubmitWaits
<1>5. ASSUME NEW t \in Thread, SubmitReturns(t) PROVE Numbered'
  BY <1>5 DEF SubmitReturns
<1>6. ASSUME NEW t \in Thread, Submit(t) PROVE Numbered'
  BY <1>6 DEF Submit
<1>7. ASSUME NEW t \in Thread, Flush(t) PROVE Numbered'
  BY <1>7 DEF Flush, Calls
<1>8. ASSUME NEW t \in Thread, FlushRaises(t) PROVE Numbered'
  BY <1>8 DEF FlushRaises, EndFlush
<1>9. ASSUME NEW t \in Thread, FlushReturns(t) PROVE Numbered'
  BY <1>9 DEF FlushReturns
<1>10. ASSUME NEW t \in Thread, FlushTakes(t) PROVE Numbered'
  BY <1>10 DEF FlushTakes
<1>11. ASSUME NEW t \in Thread, FlushWaits(t) PROVE Numbered'
  BY <1>11 DEF FlushWaits
<1>12. ASSUME NEW t \in Thread, FlushStore(t) PROVE Numbered'
  BY <1>12 DEF FlushStore
<1>13. ASSUME NEW t \in Thread, FlushLand(t) PROVE Numbered'
  BY <1>13 DEF FlushLand
<1>14. ASSUME NEW t \in Thread, FlushFails(t) PROVE Numbered'
  BY <1>14 DEF FlushFails, Fails, EndFlush
<1>15. ASSUME NEW t \in Thread, StoreFlush(t) PROVE Numbered'
  BY <1>15 DEF StoreFlush, EndFlush
<1>16. ASSUME NEW t \in Thread, Reset(t) PROVE Numbered'
  BY <1>16 DEF Reset
<1>17. ASSUME NEW t \in Thread, ResetWaits(t) PROVE Numbered'
  BY <1>17 DEF ResetWaits
<1>18. ASSUME NEW t \in Thread, ResetWaited(t) PROVE Numbered'
  BY <1>18 DEF ResetWaited
<1>19. ASSUME NEW t \in Thread, ResetQueue(t) PROVE Numbered'
  BY <1>19 DEF ResetQueue
<1>20. ASSUME NEW t \in Thread, ResetStore(t) PROVE Numbered'
  BY <1>20 DEF ResetStore
<1>21. CASE BgStore
  BY <1>21 DEF BgStore
<1>22. CASE BgLand
  BY <1>22 DEF BgLand
<1>23. CASE BgFail
  BY <1>23 DEF BgFail, Fails
<1>24. CASE BgDone
  BY <1>24 DEF BgDone
<1>25. CASE UNCHANGED vars
  BY <1>25 DEF vars
<1>26. QED
  BY <1>1, <1>2, <1>3, <1>4, <1>5, <1>6, <1>7, <1>8, <1>9, <1>10, <1>11, <1>12,
     <1>13, <1>14, <1>15, <1>16, <1>17, <1>18, <1>19, <1>20, <1>21, <1>22, <1>23, <1>24,
     <1>25
     DEF Next, Call, Step, Background

(* Whoever lands, or gives up, what others wait for tells them.            *)
LEMMA AwaitedStep == TypeOK /\ Alone /\ Numbered /\ Awaited /\ [Next]_vars => Awaited'
<1> SUFFICES ASSUME TypeOK, Alone, Numbered, Awaited, [Next]_vars PROVE Awaited'
  OBVIOUS
<1> USE DEF TypeOK, Alone, Awaited, WaitsForSomebody, Carried, Flushed, queue, background,
            threads, history, Goto, At
<1>1. ASSUME NEW t \in Thread, NEW rows \in SUBSET ChunksOf(t), Index(t, rows) PROVE Awaited'
  BY <1>1 DEF Index, Calls
<1>2. ASSUME NEW t \in Thread, IndexRaises(t) PROVE Awaited'
  BY <1>2 DEF IndexRaises, Calls
<1>3. ASSUME NEW t \in Thread, Queue(t) PROVE Awaited'
  <2> DEFINE items == {<<seq + 1, c>> : c \in chunk[t]}
  <2>1. /\ pc[t] = "queue" /\ t \notin asleep
        /\ outstanding' = outstanding \cup items /\ pending' = pending \cup items
        /\ \A u \in Thread \ {t} : pc'[u] = pc[u]
        /\ UNCHANGED <<inflight, batch, mine, bg, bgBatch, asleep, failures>>
    BY <1>3 DEF Queue
  <2>2. Carried' = Carried
    BY <2>1
  <2>3. \A i \in items : i[1] = seq + 1
    OBVIOUS
  <2> HIDE DEF items
  <2>4. items \cap bgBatch = {} /\ \A u \in Thread : items \cap mine[u] = {}
    BY <2>3 DEF Numbered
  <2> HIDE DEF Carried
  <2>5. asleep \subseteq Thread /\ \A u \in asleep : pc'[u] = pc[u] /\ mine[u] \cap outstanding' = mine[u] \cap outstanding
    BY <2>1, <2>4
  <2>6. QED
    BY <2>1, <2>2, <2>4, <2>5
<1>4. ASSUME NEW t \in Thread, SubmitWaits(t) PROVE Awaited'
  BY <1>4 DEF SubmitWaits
<1>5. ASSUME NEW t \in Thread, SubmitReturns(t) PROVE Awaited'
  BY <1>5 DEF SubmitReturns
<1>6. ASSUME NEW t \in Thread, Submit(t) PROVE Awaited'
  BY <1>6 DEF Submit
<1>7. ASSUME NEW t \in Thread, Flush(t) PROVE Awaited'
  BY <1>7 DEF Flush, Calls
<1>8. ASSUME NEW t \in Thread, FlushRaises(t) PROVE Awaited'
  BY <1>8 DEF FlushRaises, EndFlush
<1>9. ASSUME NEW t \in Thread, FlushReturns(t) PROVE Awaited'
  BY <1>9 DEF FlushReturns
<1>10. ASSUME NEW t \in Thread, FlushTakes(t) PROVE Awaited'
  BY <1>10 DEF FlushTakes
<1>11. ASSUME NEW t \in Thread, FlushWaits(t) PROVE Awaited'
  BY <1>11 DEF FlushWaits
<1>12. ASSUME NEW t \in Thread, FlushStore(t) PROVE Awaited'
  BY <1>12 DEF FlushStore
<1>13. ASSUME NEW t \in Thread, FlushLand(t) PROVE Awaited'
  BY <1>13 DEF FlushLand
<1>14. ASSUME NEW t \in Thread, FlushFails(t) PROVE Awaited'
  BY <1>14 DEF FlushFails, Fails, EndFlush
<1>15. ASSUME NEW t \in Thread, StoreFlush(t) PROVE Awaited'
  BY <1>15 DEF StoreFlush, EndFlush
<1>16. ASSUME NEW t \in Thread, Reset(t) PROVE Awaited'
  BY <1>16 DEF Reset
<1>17. ASSUME NEW t \in Thread, ResetWaits(t) PROVE Awaited'
  BY <1>17 DEF ResetWaits
<1>18. ASSUME NEW t \in Thread, ResetWaited(t) PROVE Awaited'
  BY <1>18 DEF ResetWaited
<1>19. ASSUME NEW t \in Thread, ResetQueue(t) PROVE Awaited'
  BY <1>19 DEF ResetQueue
<1>20. ASSUME NEW t \in Thread, ResetStore(t) PROVE Awaited'
  BY <1>20 DEF ResetStore
<1>21. CASE BgStore
  BY <1>21 DEF BgStore
<1>22. CASE BgLand
  BY <1>22 DEF BgLand
<1>23. CASE BgFail
  BY <1>23 DEF BgFail, Fails
<1>24. CASE BgDone
  BY <1>24 DEF BgDone
<1>25. CASE UNCHANGED vars
  BY <1>25 DEF vars
<1>26. QED
  BY <1>1, <1>2, <1>3, <1>4, <1>5, <1>6, <1>7, <1>8, <1>9, <1>10, <1>11, <1>12,
     <1>13, <1>14, <1>15, <1>16, <1>17, <1>18, <1>19, <1>20, <1>21, <1>22, <1>23, <1>24,
     <1>25
     DEF Next, Call, Step, Background

-----------------------------------------------------------------------------
(* The queue, the threads and the background slot keep their types: at     *)
(* most one background batch is in flight (_submit_background).            *)
THEOREM TypeCorrect == Spec => []TypeOK
<1>1. QED
  BY InitType, TypeStep, PTL DEF Spec

(* A reset has the indexer to itself in every reachable state.             *)
LEMMA ResetsAlone == Spec => []Alone
<1>1. Init => Alone
  BY DEF Init, Alone
<1>2. QED
  BY <1>1, AloneStep, TypeCorrect, PTL DEF Spec

(* When flush returns, every chunk queued before it was called is in the   *)
(* store, whoever embedded it and whatever failed meanwhile                *)
(* (flush_pending).                                                        *)
THEOREM FlushesKeepTheirPromise == Spec => []FlushGuarantee
<1>1. Init => Tracked
  BY DEF Init, Tracked, Flushing
<1>2. Tracked => FlushGuarantee
  BY DEF Tracked, FlushGuarantee, Flushing
<1>3. QED
  BY <1>1, <1>2, TrackedStep, TypeCorrect, ResetsAlone, PTL DEF Spec

(* No batch taken before a reset lands after it (reset).                   *)
THEOREM ResetsAreClean == Spec => []NothingLandsLate
<1>1. Init => Sourced
  BY DEF Init, Sourced
<1>2. Sourced => NothingLandsLate
  BY DEF Sourced, NothingLandsLate
<1>3. QED
  BY <1>1, <1>2, SourcedStep, TypeCorrect, ResetsAlone, PTL DEF Spec

(* While the provider does not fail, no more than a queue that was not     *)
(* full and one artifact of each thread that waits is pending or in flight *)
(* (_submit_background).                                                   *)
THEOREM PendingStaysBounded == ASSUME IsFiniteSet(Thread) PROVE Spec => []PendingBounded
<1>1. Init => Bounded
  <2> SUFFICES ASSUME Init PROVE Bounded
    OBVIOUS
  <2>1. Cardinality({}) = 0 /\ IsFiniteSet({})
    BY FS_EmptySet
  <2>2. pending = {} /\ bgBatch = {} /\ error = FALSE /\ \A t \in Thread : pc[t] # "queue"
    BY DEF Init
  <2>3. QED
    BY <2>1, <2>2, RoomForAll, IndexerAssumption DEF Bounded, QueueBound
<1>2. TypeOK /\ Bounded => PendingBounded
  <2>1. IsFiniteSet(pending) => Cardinality(pending) \in Nat
    BY FS_CardinalityType
  <2>2. QED
    BY <2>1, RoomForAll, IndexerAssumption DEF Bounded, PendingBounded, QueueBound
<1>3. TypeOK /\ Bounded /\ [Next]_vars => Bounded'
  BY BoundedStep
<1>4. QED
  BY <1>1, <1>2, <1>3, TypeCorrect, PTL DEF Spec

(* Nobody waits for ever for what has already happened: a commit loop that *)
(* waits has a batch in flight to wait for, and a flush an item that is not*)
(* stored yet and, unless the provider has failed, is on its way there     *)
(* (_state.wait and notify_all in _submit_background, _run_background and  *)
(* flush_pending).  FlushEnds is refuted with a provider that fails.       *)
THEOREM NoWakeUpIsLost == Spec => []WaitsForSomebody
<1>1. Init => Numbered /\ Awaited
  BY DEF Init, Numbered, Awaited, WaitsForSomebody
<1>2. Awaited => WaitsForSomebody
  BY DEF Awaited
<1>3. QED
  BY <1>1, <1>2, NumberedStep, AwaitedStep, TypeCorrect, ResetsAlone, PTL DEF Spec
=============================================================================
