---------------------------- MODULE VectorIndexer ----------------------------
(***************************************************************************)
(* The queue of chunks to embed (search/vector_indexer.py), shared by the  *)
(* threads that sync several sources at once and by one background thread. *)
(*                                                                         *)
(* An action is a region under the indexer's condition or its store lock;  *)
(* the provider's round trip lies between two of them.  A thread that      *)
(* waits on the condition is in asleep, and only a notify_all wakes it.    *)
(*                                                                         *)
(* A chunk is <<thread, n>>: the thread that holds its source's lock.  The *)
(* code numbers every queued chunk; here seq numbers the calls, and an     *)
(* item <<seq, chunk>> is as unique.  prune_source is part of SyncPipeline.*)
(***************************************************************************)
EXTENDS Naturals, FiniteSets

CONSTANTS Thread,      \* the syncs, one per source
          PerSource,   \* chunks of a source
          PerArtifact, \* the most chunks one artifact has
          QueueSize,   \* queue_size
          MaxSeq,      \* bound: calls that queue something
          MaxFailures  \* bound: failures of the embedding provider

ASSUME IndexerAssumption ==
    /\ PerSource \in Nat /\ PerArtifact \in Nat /\ QueueSize \in Nat \ {0}
    /\ MaxSeq \in Nat /\ MaxFailures \in Nat

Chunk == Thread \X (1..PerSource)
Item == Nat \X Chunk
Ids(items) == {i[2] : i \in items}

VARIABLES
    pending,     \* _pending
    outstanding, \* _outstanding: the items queued and not yet stored
    seq,         \* _seq
    inflight,    \* _inflight
    error,       \* _error is not None
    store,       \* the vector store: the chunks it holds
    bg, bgBatch, \* the background thread: where it is, and its batch
    pc, chunk, mine, batch, \* the threads: where each is, and its locals
    asleep,      \* the threads in _state.wait()
    queued,      \* history: the chunks queued since the last reset
    due,         \* history: what was queued when a thread called flush
    failures

queue == <<pending, outstanding, seq, inflight, error>>
background == <<bg, bgBatch>>
threads == <<pc, chunk, mine, batch, asleep>>
history == <<queued, due, failures>>
vars == <<queue, store, background, threads, history>>

Init ==
    /\ pending = {} /\ outstanding = {} /\ seq = 0 /\ inflight = 0
    /\ error = FALSE
    /\ store = {}
    /\ bg = "none" /\ bgBatch = {}
    /\ pc = [t \in Thread |-> "idle"]
    /\ chunk = [t \in Thread |-> {}]
    /\ mine = [t \in Thread |-> {}]
    /\ batch = [t \in Thread |-> {}]
    /\ asleep = {}
    /\ queued = {}
    /\ due = [t \in Thread |-> {}]
    /\ failures = 0

Goto(t, label) == pc' = [pc EXCEPT ![t] = label]
At(t, label) == pc[t] = label /\ t \notin asleep
Fails == failures < MaxFailures /\ failures' = failures + 1

-----------------------------------------------------------------------------
(* index_artifact: the chunks of the artifact that was just committed.     *)

\* Callers reset an indexer before the syncs that use it begin.
Calls(t) == pc[t] = "idle" /\ \A u \in Thread : pc[u] \notin {"reset", "clear", "resetstore"}

\* A background batch's error fails the next call, once.
IndexRaises(t) ==
    /\ Calls(t)
    /\ error
    /\ error' = FALSE
    /\ UNCHANGED <<pending, outstanding, seq, inflight, store, background, threads, history>>

ChunksOf(t) == {t} \X (1..PerSource)

\* The chunks that the store lacks are queued, all of them.
Index(t, rows) ==
    /\ Calls(t)
    /\ ~error
    /\ Cardinality(rows) <= PerArtifact
    /\ ~ rows \subseteq store
    /\ seq + Cardinality({u \in Thread : pc[u] = "queue"}) < MaxSeq
    /\ chunk' = [chunk EXCEPT ![t] = rows \ store]
    /\ Goto(t, "queue")
    /\ UNCHANGED <<queue, store, background, mine, batch, asleep, history>>

\* The size is compared once, when the last of them is in the queue.
Queue(t) ==
    LET items == {<<seq + 1, c>> : c \in chunk[t]}
    IN  /\ pc[t] = "queue"
        /\ seq' = seq + 1
        /\ outstanding' = outstanding \cup items
        /\ pending' = pending \cup items
        /\ queued' = queued \cup chunk[t]
        /\ chunk' = [chunk EXCEPT ![t] = {}]
        /\ Goto(t, IF Cardinality(pending') >= QueueSize THEN "submit" ELSE "idle")
        /\ UNCHANGED <<inflight, error, store, background, mine, batch, asleep, due, failures>>

-----------------------------------------------------------------------------
(* _submit_background: a full queue goes to the background thread.         *)

\* Backpressure: one batch in flight while the next fills.
SubmitWaits(t) ==
    /\ At(t, "submit")
    /\ inflight > 0 /\ ~error
    /\ asleep' = asleep \cup {t}
    /\ UNCHANGED <<queue, store, background, pc, chunk, mine, batch, history>>

SubmitRetries(t) ==
    /\ At(t, "submit")
    /\ error \/ (inflight = 0 /\ pending = {})
    /\ UNCHANGED vars
\* The error of a batch that failed meanwhile is left to the next call.
SubmitReturns(t) ==
    /\ At(t, "submit")
    /\ error \/ (inflight = 0 /\ pending = {})
    /\ Goto(t, "idle")
    /\ UNCHANGED <<queue, store, background, chunk, mine, batch, asleep, history>>

\* The batches line up behind the one in flight, in the executor's own queue.
SubmitAtOnce(t) ==
    /\ At(t, "submit")
    /\ ~error /\ pending # {}
    /\ bg' = "embed"
    /\ bgBatch' = bgBatch \cup pending
    /\ pending' = {}
    /\ inflight' = inflight + 1
    /\ Goto(t, "idle")
    /\ UNCHANGED <<outstanding, seq, error, store, chunk, mine, batch, asleep, history>>
\* The queue goes out as one batch, once the slot is free.
Submit(t) ==
    /\ At(t, "submit")
    /\ ~error /\ inflight = 0 /\ pending # {}
    /\ bg' = "embed"
    /\ bgBatch' = pending
    /\ pending' = {}
    /\ inflight' = inflight + 1
    /\ Goto(t, "idle")
    /\ UNCHANGED <<outstanding, seq, error, store, chunk, mine, batch, asleep, history>>

\* _run_background: the provider answered, and the upsert lands.
BgStore ==
    /\ bg = "embed"
    /\ store' = store \cup Ids(bgBatch)
    /\ bg' = "stored"
    /\ UNCHANGED <<queue, bgBatch, threads, history>>

BgLand ==
    /\ bg = "stored"
    /\ outstanding' = outstanding \ bgBatch
    /\ asleep' = {}
    /\ bg' = "done"
    /\ UNCHANGED <<pending, seq, inflight, error, store, bgBatch, pc, chunk, mine, batch,
                   history>>

\* The batch is put back; the error waits for the next call.
BgFail ==
    /\ bg = "embed"
    /\ Fails
    /\ pending' = pending \cup bgBatch
    /\ error' = TRUE
    /\ bg' = "done"
    /\ UNCHANGED <<outstanding, seq, inflight, store, bgBatch, threads, queued, due>>

\* finally: the slot is free, and everyone who waits is told.
BgDone ==
    /\ bg = "done"
    /\ inflight' = inflight - 1
    /\ asleep' = {}
    /\ bg' = "none"
    /\ bgBatch' = {}
    /\ UNCHANGED <<pending, outstanding, seq, error, store, pc, chunk, mine, batch, history>>

-----------------------------------------------------------------------------
(* flush, flush_pending.                                                   *)

Flush(t) ==
    /\ Calls(t)
    /\ mine' = [mine EXCEPT ![t] = outstanding]
    /\ due' = [due EXCEPT ![t] = queued]
    /\ Goto(t, "flush")
    /\ UNCHANGED <<queue, store, background, chunk, batch, asleep, queued, failures>>

\* The call is over; its locals are gone.
EndFlush(t) ==
    /\ Goto(t, "idle")
    /\ mine' = [mine EXCEPT ![t] = {}]
    /\ due' = [due EXCEPT ![t] = {}]
    /\ batch' = [batch EXCEPT ![t] = {}]

FlushRaises(t) ==
    /\ At(t, "flush")
    /\ error
    /\ error' = FALSE
    /\ EndFlush(t)
    /\ UNCHANGED <<pending, outstanding, seq, inflight, store, background, chunk, asleep,
                   queued, failures>>

FlushedIfQuiet(t) == pending = {} /\ inflight = 0
\* Nothing of what was outstanding at the call is outstanding still.
Flushed(t) == mine[t] \cap outstanding = {}

FlushReturns(t) ==
    /\ At(t, "flush")
    /\ ~error /\ Flushed(t)
    /\ Goto(t, "flushed")
    /\ UNCHANGED <<queue, store, background, chunk, mine, batch, asleep, history>>

\* What is queued is embedded here ...
FlushTakes(t) ==
    /\ At(t, "flush")
    /\ ~error /\ ~Flushed(t) /\ pending # {}
    /\ batch' = [batch EXCEPT ![t] = pending]
    /\ pending' = {}
    /\ Goto(t, "embed")
    /\ UNCHANGED <<outstanding, seq, inflight, error, store, background, chunk, mine, asleep,
                   history>>

\* ... and what another thread has in its batch is waited for.
FlushWaits(t) ==
    /\ At(t, "flush")
    /\ ~error /\ ~Flushed(t) /\ pending = {}
    /\ asleep' = asleep \cup {t}
    /\ UNCHANGED <<queue, store, background, pc, chunk, mine, batch, history>>

FlushStore(t) ==
    /\ pc[t] = "embed"
    /\ store' = store \cup Ids(batch[t])
    /\ Goto(t, "stored")
    /\ UNCHANGED <<queue, background, chunk, mine, batch, asleep, history>>

FlushLand(t) ==
    /\ pc[t] = "stored"
    /\ outstanding' = outstanding \ batch[t]
    /\ batch' = [batch EXCEPT ![t] = {}]
    /\ asleep' = {}
    /\ Goto(t, "flush")
    /\ UNCHANGED <<pending, seq, inflight, error, store, background, chunk, mine, history>>

\* The batch is put back and the error is raised; nobody is told.
FlushFails(t) ==
    /\ pc[t] = "embed"
    /\ Fails
    /\ pending' = pending \cup batch[t]
    /\ EndFlush(t)
    /\ UNCHANGED <<outstanding, seq, inflight, error, store, background, chunk, asleep, queued>>

\* flush: the store's writes go to disk, and the call returns.
StoreFlush(t) ==
    /\ pc[t] = "flushed"
    /\ EndFlush(t)
    /\ UNCHANGED <<queue, store, background, chunk, asleep, queued, failures>>

-----------------------------------------------------------------------------
(* reset: the vector space changed (rebuild_vectors).                      *)

Reset(t) ==
    /\ \A u \in Thread : pc[u] = "idle"
    /\ Goto(t, "reset")
    /\ UNCHANGED <<queue, store, background, chunk, mine, batch, asleep, history>>

\* _wait_background.
ResetWaits(t) ==
    /\ At(t, "reset")
    /\ inflight > 0
    /\ asleep' = asleep \cup {t}
    /\ UNCHANGED <<queue, store, background, pc, chunk, mine, batch, history>>

ResetAtOnce(t) ==
    /\ At(t, "reset")
    /\ error' = FALSE
    /\ Goto(t, "clear")
    /\ UNCHANGED <<pending, outstanding, seq, inflight, store, background, chunk, mine, batch,
                   asleep, history>>
ResetWaited(t) ==
    /\ At(t, "reset")
    /\ inflight = 0
    /\ error' = FALSE
    /\ Goto(t, "clear")
    /\ UNCHANGED <<pending, outstanding, seq, inflight, store, background, chunk, mine, batch,
                   asleep, history>>

ResetQueue(t) ==
    /\ pc[t] = "clear"
    /\ pending' = {} /\ outstanding' = {}
    /\ queued' = {}
    /\ Goto(t, "resetstore")
    /\ UNCHANGED <<seq, inflight, error, store, background, chunk, mine, batch, asleep, due,
                   failures>>

ResetStore(t) ==
    /\ pc[t] = "resetstore"
    /\ store' = {}
    /\ Goto(t, "idle")
    /\ UNCHANGED <<queue, background, chunk, mine, batch, asleep, history>>

-----------------------------------------------------------------------------
Call(t) ==
    \/ IndexRaises(t) \/ Flush(t) \/ Reset(t)
    \/ \E rows \in SUBSET ChunksOf(t) : Index(t, rows)

Step(t) ==
    \/ Queue(t) \/ SubmitWaits(t) \/ SubmitReturns(t) \/ Submit(t)
    \/ FlushRaises(t) \/ FlushReturns(t) \/ FlushTakes(t) \/ FlushWaits(t)
    \/ FlushStore(t) \/ FlushLand(t) \/ StoreFlush(t)
    \/ ResetWaits(t) \/ ResetWaited(t) \/ ResetQueue(t) \/ ResetStore(t)

Background == BgStore \/ BgLand \/ BgDone

Next ==
    \/ \E t \in Thread : Call(t) \/ Step(t) \/ FlushFails(t)
    \/ Background \/ BgFail

Spec == Init /\ [][Next]_vars

\* A thread that can run does, and the provider answers, one way or the other.
FairSpec ==
    /\ Spec
    /\ WF_vars(Background)
    /\ \A t \in Thread : WF_vars(Step(t))

-----------------------------------------------------------------------------
Labels == {"idle", "queue", "submit", "flush", "embed", "stored", "flushed", "reset", "clear",
           "resetstore"}

\* Types; the one slot in flight is the background thread's, and an item is
\* outstanding until its upsert landed.
TypeOK ==
    /\ pending \subseteq Item /\ outstanding \subseteq Item
    /\ seq \in Nat
    /\ inflight \in {0, 1}
    /\ error \in BOOLEAN
    /\ store \subseteq Chunk
    /\ bg \in {"none", "embed", "stored", "done"}
    /\ inflight = 0 <=> bg = "none"
    /\ bgBatch \subseteq Item
    /\ pc \in [Thread -> Labels]
    /\ chunk \in [Thread -> SUBSET Chunk]
    /\ mine \in [Thread -> SUBSET Item] /\ batch \in [Thread -> SUBSET Item]
    /\ asleep \subseteq {t \in Thread : pc[t] \in {"submit", "flush", "reset"}}
    /\ queued \subseteq Chunk
    /\ due \in [Thread -> SUBSET Chunk]
    /\ failures \in 0..MaxFailures

(* "when it returns, every chunk queued before it was called is in the     *)
(* store" (VectorIndexer): also when another source's flush or background  *)
(* batch picked the chunks up and failed with them.                        *)
FlushGuarantee == \A t \in Thread : pc[t] = "flushed" => due[t] \subseteq store

(* "one landing after the reset would write vectors from the space being   *)
(* discarded into the new one" (reset): the store holds only what was      *)
(* queued since.                                                           *)
NothingLandsLate ==
    (\A t \in Thread : pc[t] # "resetstore") => store \subseteq queued

(* "Waiting here is what bounds pending text when the provider is slower   *)
(* than the commit loop" (_submit_background): while the provider works,   *)
(* each thread adds at most the artifact it then waits with to a queue     *)
(* that was not full.                                                      *)
QueueBound == QueueSize - 1 + PerArtifact * Cardinality(Thread)
PendingBounded ==
    failures = 0 =>
        /\ Cardinality(pending) <= QueueBound
        /\ Cardinality(bgBatch) <= QueueBound

(* No commit loop waits for ever for a batch in flight: the background     *)
(* thread frees its slot and tells it, also when the provider failed.      *)
SubmitEnds == \A t \in Thread : pc[t] = "submit" ~> pc[t] # "submit"

-----------------------------------------------------------------------------
(* "it embeds what is still queued and waits for whatever another thread   *)
(* has in flight" (flush_pending): a flush returns or raises.  Refuted: a  *)
(* flush that fails puts the other's chunks back and wakes nobody.         *)
FlushEnds == \A t \in Thread : pc[t] = "flush" ~> pc[t] \in {"idle", "flushed"}

(* "At most one batch is in flight, so pending text stays bounded at two   *)
(* queues" (VectorIndexer): a queue in flight and a queue that fills.      *)
(* Refuted: an artifact's chunks are queued before the size is looked at,  *)
(* and every thread may bring one to a queue whose batch is still out.     *)
BoundedAtTwoQueues == Cardinality(pending) + Cardinality(bgBatch) <= 2 * QueueSize
=============================================================================
