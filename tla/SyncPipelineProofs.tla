------------------------- MODULE SyncPipelineProofs -------------------------
(***************************************************************************)
(* Proofs about SyncPipeline, for every set of files, contents and         *)
(* configurations, every choice of operations and any number of edits and  *)
(* faults.                                                                 *)
(***************************************************************************)
EXTENDS SyncPipeline, TLAPS

Working == {"loop", "committed", "checkpoint", "embed", "prune", "flush", "enrich", "save",
            "claim", "record"}
Cancelling == {"cancel", "cancelgraph", "cancelclaim", "cancelled"}
Linking == {"enrich", "save", "claim", "record", "cancelgraph", "cancelclaim", "cancelled"}

(* Why the end of a full pass finds the stores in agreement.  Once the     *)
(* source is empty the rows, the working graph and the entries move        *)
(* together ...                                                            *)
InStep ==
    /\ pc = "clear" => run.mode = "full" /\ rows = Absent
    /\ pc \in Working \cup Cancelling /\ run.mode = "full" =>
        rows = entries /\ graph.node = entries

(* ... each row is of this configuration, and its chunk is stored, queued  *)
(* or about to be queued ...                                               *)
Embedding ==
    pc \in Working \cup Cancelling /\ run.mode = "full" =>
        \A f \in File : rows[f] # 0 =>
            made[f] = config /\ (f \in item \/ <<f, rows[f], made[f]>> \in vectors \cup pending)

(* ... until the flush empties the queue and the pruning leaves nothing    *)
(* else ...                                                                *)
Embedded ==
    run.mode = "full" =>
        /\ pc \in Linking => pending = {}
        /\ pc \in {"save", "claim", "record"} =>
            \A v \in vectors : rows[v[1]] # 0 /\ v = <<v[1], rows[v[1]], made[v[1]]>>

(* ... and the graph and the manifest are saved as they then stand.        *)
Published ==
    run.mode = "full" =>
        /\ pc \in {"claim", "record"} => saved = graph
        /\ pc \in {"record", "cancelled"} => manifest = entries
        /\ pc \in {"cancelclaim", "cancelled"} => saved = graph \/ entries = Absent
        /\ pc \in {"loop", "cancel", "cancelgraph"} => changed \/ entries = Absent

FullInv == InStep /\ Embedding /\ Embedded /\ Published

(* What a repair pass has handled is healed.                               *)
RepairInv ==
    pc \in Working /\ run.mode = "repair" =>
        \A f \in listed \ (unread \cup todo) :
            entries[f] # 0 => rows[f] = entries[f] /\ graph.node[f] # 0

(* The claims of the manifest.  While a full sync that was interrupted is  *)
(* owed, and where no pass ever empties the source, what an entry says of  *)
(* a file that is not held out can be relied on.                           *)
KeepsIndexed ==
    /\ Modes \subseteq {"incremental", "repair", "deferred", "apply"}
    /\ \A k, l \in Config : k = l

Interrupted == owed /\ ~crossed

Assured(f) ==
    \/ KeepsIndexed /\ f \notin archived
    \/ Interrupted /\ f \notin Held

\* The interrupted pass emptied the source, and saved nothing since.
Emptied == ~KeepsIndexed /\ scope # "checkpointed"

\* An edit makes a content no store remembers; what is held is archived.
Bounded ==
    /\ \A f \in File : disk[f] <= newest[f] /\ manifest[f] <= newest[f] /\ entries[f] <= newest[f]
    /\ Held \subseteq archived

\* An entry that speaks of the current content speaks of what is indexed; the
\* entries of the pass are not saved yet, and the working graph bears them out.
Sound(f) ==
    /\ manifest[f] = disk[f] =>
        rows[f] = disk[f] /\ saved.node[f] = disk[f] /\ graph.node[f] = disk[f]
    /\ entries[f] = disk[f] => rows[f] = disk[f] /\ graph.node[f] = disk[f]

ClaimsHold == ~Emptied => \A f \in File : Assured(f) /\ disk[f] # 0 => Sound(f)

\* A pass that has changed nothing has the persisted entries, less those it
\* dropped; one that has, saves the graph before it saves them.
SavesInOrder ==
    /\ ~changed /\ item = {} => \A f \in File : entries[f] \in {0, manifest[f]}
    /\ pc \in {"idle", "unembed", "disclaim", "unrow"} => entries = Absent
    /\ pc = "checkpoint" => saved = graph
    /\ pc \in {"claim", "cancelclaim"} /\ changed => saved = graph

\* What a listing lacks has an entry for another content, or is held out.
Unlisted ==
    listed # {} => \A f \in File \ listed : Assured(f) /\ disk[f] # 0 =>
        entries[f] # disk[f] /\ manifest[f] # disk[f]

\* What a listing has is not held out.
ListedKept == Interrupted => listed \cap Held = {}

\* Which passes run where the claims are relied on, and through which labels.
Regime ==
    /\ KeepsIndexed => run.mode \notin {"full", "remove", "replace"} /\ ~owed /\ ~run.resume
    /\ ~owed => ~crossed
    /\ Interrupted /\ pc # "idle" => run.mode \in {"full", "apply"} \/ run.resume
    /\ run.resume => run.mode = "incremental" /\ owed /\ (Interrupted => scope = "checkpointed")
    /\ pc \in {"list", "clear", "loop", "committed", "checkpoint", "embed"}
           \cup Cancelling => run.mode \in SyncModes
    /\ pc \in {"unembed", "disclaim", "unrow"} => run.mode \in {"remove", "replace"}

\* What the resumption of a full sync has handled has its row and its node.
Handled ==
    run.resume /\ ~crossed /\ pc \in Working =>
        \A f \in listed \ (unread \cup todo) :
            /\ rows[f] = entries[f] /\ graph.node[f] = entries[f]
            /\ ~changed /\ item = {} => saved.node[f] = entries[f]
            /\ pc \in {"claim", "record"} => saved.node[f] = entries[f]

ClaimsInv ==
    /\ Bounded /\ ClaimsHold /\ SavesInOrder /\ Unlisted /\ ListedKept /\ Regime
    /\ Handled

-----------------------------------------------------------------------------
(* The types hold before the first pass.                                   *)
LEMMA InitType == Init => TypeOK
<1> SUFFICES ASSUME Init PROVE TypeOK
  OBVIOUS
<1> USE PipelineAssumption DEF Init, Absent, NoGraph, NoRun
<1>1. /\ disk \in [File -> Content \cup {0}] /\ newest \in [File -> Content \cup {0}]
      /\ saved \in Graph /\ graph \in Graph
  BY DEF Graph
<1>2. /\ rows \in [File -> Content \cup {0}] /\ manifest \in [File -> Content \cup {0}]
      /\ entries \in [File -> Content \cup {0}]
      /\ held \in [File -> Kinds \cup {"no"}] /\ made \in [File -> Config]
  OBVIOUS
<1>3. run \in [mode: SyncModes \cup {"none", "apply", "remove", "replace"},
               resume: BOOLEAN, tasked: BOOLEAN, deferred: BOOLEAN]
  OBVIOUS
<1>4. edits \in 0..MaxEdits /\ faults \in 0..MaxFaults
  OBVIOUS
<1>5. /\ enrichDue \in BOOLEAN /\ dirty \in BOOLEAN /\ changed \in BOOLEAN
      /\ owed \in BOOLEAN /\ crossed \in BOOLEAN
  BY Zenon
<1>6. QED
  BY <1>1, <1>2, <1>3, <1>4, <1>5 DEF TypeOK, Labels, Finishing

(* Every step of the source, of a pass or of a failure keeps the types.    *)
LEMMA TypeStep == TypeOK /\ [Next]_vars => TypeOK'
<1> SUFFICES ASSUME TypeOK, [Next]_vars PROVE TypeOK'
  OBVIOUS
<1> USE PipelineAssumption
    DEF TypeOK, Graph, Labels, Finishing, SyncModes, source, stores, flags, engine, pass,
        bounds, task, Crosses, TaskSettled, Goto, Absent, NoRun
<1>1. ASSUME NEW f \in File, NEW c \in Content \cup {0}, Edit(f, c) PROVE TypeOK'
  BY <1>1 DEF Edit
<1>2. ASSUME NEW f \in File, NEW kind \in Kinds \cup {"no"}, Hold(f, kind) PROVE TypeOK'
  BY <1>2 DEF Hold
<1>3. ASSUME NEW k \in Config, Configure(k) PROVE TypeOK'
  BY <1>3 DEF Configure
<1>4. ASSUME NEW mode \in SyncModes, Begin(mode) PROVE TypeOK'
  <2>1. Start(mode, FALSE, FALSE, FALSE) /\ owed' = owed /\ crossed' \in BOOLEAN
    BY <1>4, Zenon DEF Begin
  <2>2. /\ run' \in [mode: SyncModes \cup {"none", "apply", "remove", "replace"},
                    resume: BOOLEAN, tasked: BOOLEAN, deferred: BOOLEAN]
        /\ pc = "idle" /\ pc' = "list" /\ entries' = manifest
        /\ UNCHANGED <<source, stores, flags, engine, todo, listed, unread, changed, item,
                       bounds>>
    BY <2>1 DEF Start
  <2>3. QED
    BY <2>1, <2>2
<1>5. ASSUME NEW mode \in {"remove", "replace"}, Remove(mode) PROVE TypeOK'
  <2>1. run' \in [mode: SyncModes \cup {"none", "apply", "remove", "replace"},
                  resume: BOOLEAN, tasked: BOOLEAN, deferred: BOOLEAN]
    BY <1>5 DEF Remove
  <2>2. graph' \in Graph /\ saved' = graph'
    BY <1>5 DEF Remove
  <2>3. crossed' \in BOOLEAN /\ owed' = owed
    BY <1>5, Zenon DEF Remove
  <2>4. /\ pc = "idle" /\ pc' \in {"unembed", "disclaim"}
        /\ UNCHANGED <<source, rows, made, manifest, vectors, flags, dirty, pending, todo,
                       listed, unread, entries, changed, item, bounds>>
    BY <1>5 DEF Remove
  <2>5. QED
    BY <2>1, <2>2, <2>3, <2>4
<1>6. ASSUME NEW f \in File, Skip(f) PROVE TypeOK'
  BY <1>6 DEF Skip
<1>7. ASSUME NEW f \in File, Unreadable(f) PROVE TypeOK'
  BY <1>7 DEF Unreadable
<1>8. ASSUME NEW f \in File, Commit(f) PROVE TypeOK'
  BY <1>8 DEF Commit
<1>9. CASE List
  BY <1>9 DEF List, Admitted
<1>10. CASE ClearRows
  BY <1>10 DEF ClearRows
<1>11. CASE Clear
  BY <1>11 DEF Clear, Admitted
<1>12. CASE NotDue
  BY <1>12 DEF NotDue
<1>13. CASE CheckpointGraph
  BY <1>13 DEF CheckpointGraph
<1>14. CASE CheckpointManifest
  <2>1. scope' \in {"none", "starting", "cleared", "checkpointed"}
    BY <1>14 DEF CheckpointManifest
  <2>2. dirty' \in BOOLEAN /\ manifest' = entries /\ item' = item /\ rows' = rows /\ pc' = "embed"
    BY <1>14, Zenon DEF CheckpointManifest
  <2>3. QED
    BY <1>14, <2>1, <2>2 DEF CheckpointManifest
<1>15. CASE Embed
  BY <1>15 DEF Embed, ItemChunks, Chunks
<1>16. CASE LoopDone
  BY <1>16 DEF LoopDone
<1>17. CASE NothingRead
  BY <1>17 DEF NothingRead, EndPass
<1>18. CASE Prune
  BY <1>18 DEF Prune, Pruned, Held, Vanished, Without
<1>19. CASE Flush
  BY <1>19 DEF Flush
<1>20. CASE Enrich
  <2>1. Live \subseteq vectors
    BY DEF Live
  <2>2. CASE run.deferred
    BY <1>20, <2>1, <2>2 DEF Enrich
  <2>3. CASE ~run.deferred
    <3>1. enrichDue' = (enrichDue /\ ~Enriches) /\ graph' = [graph EXCEPT !.linked = @ \/ Enriches]
      BY <1>20, <2>3 DEF Enrich
    <3>2. enrichDue' \in BOOLEAN
      BY <3>1, Zenon
    <3>3. graph' \in Graph
      <4>1. (graph.linked \/ Enriches) \in BOOLEAN
        BY Zenon
      <4>2. QED
        BY <3>1, <4>1
    <3>4. QED
      BY <1>20, <2>1, <2>3, <3>2, <3>3 DEF Enrich
  <2>4. QED
    BY <2>2, <2>3
<1>21. CASE SaveGraph
  <2>1. CASE changed \/ run.mode = "full"
    <3>1. dirty' \in BOOLEAN /\ saved' = graph
      BY <1>21, <2>1, Zenon DEF SaveGraph
    <3>2. QED
      BY <1>21, <2>1, <3>1 DEF SaveGraph
  <2>2. CASE ~(changed \/ run.mode = "full")
    BY <1>21, <2>2 DEF SaveGraph
  <2>3. QED
    BY <2>1, <2>2
<1>22. CASE SaveManifest
  BY <1>22 DEF SaveManifest
<1>23. CASE Record
  <2>1. owed' \in BOOLEAN /\ crossed' \in BOOLEAN
    BY <1>23, Zenon DEF Record
  <2>2. /\ scope' \in {"none", "starting", "cleared", "checkpointed"}
        /\ fingerprint' \in SUBSET Config
        /\ UNCHANGED <<source, stores, enrichDue, engine, bounds>>
    BY <1>23 DEF Record
  <2>3. EndPass
    BY <1>23 DEF Record
  <2>4. QED
    BY <2>1, <2>2, <2>3 DEF EndPass
<1>24. CASE Applied
  BY <1>24 DEF Applied, EndPass
<1>25. CASE CancelFlush
  BY <1>25 DEF CancelFlush
<1>26. CASE CancelGraph
  <2>1. CASE changed
    <3>1. dirty' \in BOOLEAN /\ saved' = graph /\ enrichDue' \in BOOLEAN
      BY <1>26, <2>1, Zenon DEF CancelGraph
    <3>2. QED
      BY <1>26, <2>1, <3>1 DEF CancelGraph
  <2>2. CASE ~changed
    BY <1>26, <2>2 DEF CancelGraph
  <2>3. QED
    BY <2>1, <2>2
<1>27. CASE CancelManifest
  BY <1>27 DEF CancelManifest
<1>28. CASE Cancelled
  BY <1>28 DEF Cancelled, EndPass
<1>29. CASE RemoveVectors
  BY <1>29 DEF RemoveVectors
<1>30. CASE RemoveManifest
  BY <1>30 DEF RemoveManifest
<1>31. CASE RemoveRows
  <2>1. /\ rows' \in [File -> Content \cup {0}] /\ held' \in [File -> Kinds \cup {"no"}]
        /\ UNCHANGED <<disk, newest, archived, config, made, saved, manifest, vectors, flags,
                       engine, task, bounds>>
    BY <1>31 DEF RemoveRows
  <2>2. EndPass
    BY <1>31 DEF RemoveRows
  <2>3. QED
    BY <2>1, <2>2 DEF EndPass
<1>32. CASE Store
  BY <1>32 DEF Store
<1>33. CASE CheckpointFails
  BY <1>33 DEF CheckpointFails
<1>34. CASE Cancel
  BY <1>34 DEF Cancel
<1>35. CASE NotIndexed
  <2>1. owed' \in BOOLEAN /\ scope' \in {"none", "starting", "cleared", "checkpointed"}
    BY <1>35, Zenon DEF NotIndexed
  <2>2. faults' \in 0..MaxFaults
    BY <1>35 DEF NotIndexed
  <2>3. QED
    BY <1>35, <2>1, <2>2 DEF NotIndexed, EndPass
<1>36. CASE Fail
  <2>1. faults' \in 0..MaxFaults
    BY <1>36 DEF Fail
  <2>2. QED
    BY <1>36, <2>1 DEF Fail, EndPass
<1>37. CASE Crash
  <2>1. faults' \in 0..MaxFaults
    BY <1>37 DEF Crash
  <2>2. QED
    BY <1>37, <2>1 DEF Crash, EndPass
<1>38. CASE Close
  <2>1. faults' \in 0..MaxFaults
    BY <1>38 DEF Close
  <2>2. saved' \in Graph /\ graph' \in Graph
    BY <1>38, Zenon DEF Close
  <2>3. QED
    BY <1>38, <2>1, <2>2 DEF Close, EndPass
<1>39. CASE BeginDeferred
  BY <1>39 DEF BeginDeferred, Start
<1>40. CASE BeginTask
  BY <1>40 DEF BeginTask, Start, Resumes
<1>41. CASE BeginApply
  <2>1. run' \in [mode: SyncModes \cup {"none", "apply", "remove", "replace"},
                 resume: BOOLEAN, tasked: BOOLEAN, deferred: BOOLEAN]
    BY <1>41 DEF BeginApply
  <2>2. pc = "idle" /\ pc' = "prune" /\ entries' = manifest
        /\ UNCHANGED <<source, stores, flags, engine, todo, listed, unread, changed, item,
                       task, bounds>>
    BY <1>41 DEF BeginApply
  <2>3. QED
    BY <2>1, <2>2
<1>42. CASE UNCHANGED vars
  BY <1>42 DEF vars
<1> HIDE PipelineAssumption
    DEF TypeOK, Graph, Labels, Finishing, source, stores, flags, engine, pass, bounds, task,
        Crosses, TaskSettled, Goto, Absent, NoRun
<1>43. QED
  BY <1>1, <1>2, <1>3, <1>4, <1>5, <1>6, <1>7, <1>8, <1>9, <1>10, <1>11, <1>12,
     <1>13, <1>14, <1>15, <1>16, <1>17, <1>18, <1>19, <1>20, <1>21, <1>22, <1>23, <1>24,
     <1>25, <1>26, <1>27, <1>28, <1>29, <1>30, <1>31, <1>32, <1>33, <1>34, <1>35, <1>36,
     <1>37, <1>38, <1>39, <1>40, <1>41, <1>42
     DEF Next, World, BeginAny, Loop, Advance, Trouble
-----------------------------------------------------------------------------
(* The part of the types that the next two lemmas need.                    *)
Shape ==
    /\ rows \in [File -> Content \cup {0}] /\ entries \in [File -> Content \cup {0}]
    /\ graph.node \in [File -> Content \cup {0}]
    /\ graph \in [node: [File -> Content \cup {0}], linked: BOOLEAN]
    /\ pc \in {"committed", "checkpoint", "embed"} <=> item # {}

(* A full pass keeps its stores in step whatever step comes next: the      *)
(* other passes, which could break it, exclude it by the source lock.      *)
LEMMA FullStep == TypeOK /\ FullInv /\ [Next]_vars => FullInv'
<1> SUFFICES ASSUME TypeOK, FullInv, [Next]_vars PROVE FullInv'
  OBVIOUS
<1>0. Shape
  BY DEF TypeOK, Shape, Graph
<1> USE <1>0
    DEF Shape, FullInv, InStep, Embedding, Embedded, Published, Working, Cancelling, Linking,
        source, stores, flags, engine, pass, bounds, Goto
<1>1. ASSUME NEW f \in File, NEW c \in Content \cup {0}, Edit(f, c) PROVE FullInv'
  BY <1>1 DEF Edit
<1>2. ASSUME NEW f \in File, NEW kind \in Kinds \cup {"no"}, Hold(f, kind) PROVE FullInv'
  BY <1>2 DEF Hold
<1>3. ASSUME NEW k \in Config, Configure(k) PROVE FullInv'
  BY <1>3 DEF Configure
<1>4. ASSUME NEW mode \in SyncModes, Begin(mode) PROVE FullInv'
  BY <1>4 DEF Begin, Start
<1>5. ASSUME NEW mode \in {"remove", "replace"}, Remove(mode) PROVE FullInv'
  BY <1>5 DEF Remove
<1>6. ASSUME NEW f \in File, Skip(f) PROVE FullInv'
  BY <1>6 DEF Skip, Skips, NeedsRepair
<1>7. ASSUME NEW f \in File, Unreadable(f) PROVE FullInv'
  BY <1>7 DEF Unreadable
<1>8. ASSUME NEW f \in File, Commit(f) PROVE FullInv'
  <2>1. InStep'
    BY <1>8 DEF Commit
  <2>2. Embedding'
    <3> SUFFICES ASSUME pc' \in Working \cup Cancelling, run'.mode = "full",
                        NEW g \in File, rows'[g] # 0
                 PROVE  made'[g] = config' /\ (g \in item'
                          \/ <<g, rows'[g], made'[g]>> \in vectors' \cup pending')
      OBVIOUS
    <3>1. CASE g = f
      BY <1>8, <3>1 DEF Commit, TypeOK
    <3>2. CASE g # f
      BY <1>8, <3>2 DEF Commit, TypeOK
    <3>3. QED
      BY <3>1, <3>2
  <2>3. Embedded' /\ Published'
    BY <1>8 DEF Commit
  <2>4. QED
    BY <2>1, <2>2, <2>3
<1>9. CASE List
  BY <1>9 DEF List, Admitted
<1>10. CASE ClearRows
  BY <1>10 DEF ClearRows
<1>11. CASE Clear
  <2>1. rows' = Absent /\ entries' = Absent /\ graph'.node = Absent /\ pc' = "loop"
    BY <1>11 DEF Clear
  <2>2. QED
    BY <2>1 DEF Absent
<1>12. CASE NotDue
  BY <1>12 DEF NotDue
<1>13. CASE CheckpointGraph
  BY <1>13 DEF CheckpointGraph
<1>14. CASE CheckpointManifest
  BY <1>14 DEF CheckpointManifest
<1>15. CASE Embed
  <2>1. \A f \in item : <<f, rows[f], made[f]>> \in vectors' \cup pending'
    <3>1. pending' = pending \cup (ItemChunks \ vectors) /\ vectors' = vectors
      BY <1>15 DEF Embed
    <3>2. \A f \in item : <<f, rows[f], made[f]>> \in ItemChunks
      BY Zenon DEF ItemChunks, Chunks
    <3>3. QED
      BY <3>1, <3>2
  <2>2. vectors \cup pending \subseteq vectors' \cup pending'
    BY <1>15 DEF Embed
  <2>3. UNCHANGED <<rows, made, config, graph, entries, run>> /\ changed' = TRUE /\ pc' = "loop"
    BY <1>15 DEF Embed
  <2>4. pc = "embed"
    BY <1>15 DEF Embed
  <2>5. InStep' /\ Embedded' /\ Published'
    BY <2>3, <2>4
  <2>6. Embedding'
    BY <2>1, <2>2, <2>3, <2>4
  <2>7. QED
    BY <2>5, <2>6
<1>16. CASE LoopDone
  BY <1>16 DEF LoopDone
<1>17. CASE NothingRead
  BY <1>17 DEF NothingRead, EndPass, NoRun
<1>18. CASE Prune
  <2> DEFINE gone == {f \in Pruned : rows[f] # 0}
  <2>1. /\ pc = "prune" /\ pc' \in {"applied", "flush"}
        /\ rows' = Without(rows, gone)
        /\ graph' = [graph EXCEPT !.node = Without(graph.node, gone)]
        /\ entries' = Without(entries, Pruned)
        /\ UNCHANGED <<made, config, vectors, pending, run, item>>
    BY <1>18 DEF Prune
  <2>2. CASE run.mode = "full"
    <3>1. rows = entries /\ graph.node = entries
      BY <2>1, <2>2
    <3>2. Without(rows, gone) = Without(entries, Pruned)
      BY <3>1 DEF Without
    <3>3. InStep'
      BY <2>1, <3>1, <3>2
    <3>4. \A f \in File : rows'[f] # 0 => rows'[f] = rows[f]
      BY <2>1 DEF Without
    <3>5. Embedding'
      BY <2>1, <2>2, <3>4
    <3>6. QED
      BY <2>1, <3>3, <3>5
  <2>3. CASE run.mode # "full"
    BY <2>1, <2>3
  <2>4. QED
    BY <2>2, <2>3
<1>19. CASE Flush
  BY <1>19 DEF Flush
<1>20. CASE Enrich
  BY <1>20 DEF Enrich, Live, Chunks
<1>21. CASE SaveGraph
  BY <1>21 DEF SaveGraph
<1>22. CASE SaveManifest
  BY <1>22 DEF SaveManifest
<1>23. CASE Record
  BY <1>23 DEF Record, EndPass, NoRun
<1>24. CASE Applied
  BY <1>24 DEF Applied, EndPass, NoRun
<1>25. CASE CancelFlush
  BY <1>25 DEF CancelFlush
<1>26. CASE CancelGraph
  BY <1>26 DEF CancelGraph
<1>27. CASE CancelManifest
  BY <1>27 DEF CancelManifest
<1>28. CASE Cancelled
  BY <1>28 DEF Cancelled, EndPass, NoRun
<1>29. CASE RemoveVectors
  BY <1>29 DEF RemoveVectors
<1>30. CASE RemoveManifest
  BY <1>30 DEF RemoveManifest
<1>31. CASE RemoveRows
  BY <1>31 DEF RemoveRows, EndPass, NoRun
<1>32. CASE Store
  BY <1>32 DEF Store
<1>33. CASE CheckpointFails
  BY <1>33 DEF CheckpointFails
<1>34. CASE Cancel
  BY <1>34 DEF Cancel
<1>35. CASE NotIndexed
  BY <1>35 DEF NotIndexed, EndPass, NoRun
<1>36. CASE Fail
  BY <1>36 DEF Fail, EndPass, NoRun
<1>37. CASE Crash
  BY <1>37 DEF Crash, EndPass, NoRun
<1>38. CASE Close
  BY <1>38 DEF Close, EndPass, NoRun
<1>39. CASE BeginDeferred
  BY <1>39 DEF BeginDeferred, Start
<1>40. CASE BeginTask
  BY <1>40 DEF BeginTask, Start
<1>41. CASE BeginApply
  BY <1>41 DEF BeginApply, NoRun
<1>42. CASE UNCHANGED vars
  BY <1>42 DEF vars
<1>43. QED
  BY <1>1, <1>2, <1>3, <1>4, <1>5, <1>6, <1>7, <1>8, <1>9, <1>10, <1>11, <1>12,
     <1>13, <1>14, <1>15, <1>16, <1>17, <1>18, <1>19, <1>20, <1>21, <1>22, <1>23, <1>24,
     <1>25, <1>26, <1>27, <1>28, <1>29, <1>30, <1>31, <1>32, <1>33, <1>34, <1>35, <1>36,
     <1>37, <1>38, <1>39, <1>40, <1>41, <1>42
     DEF Next, World, BeginAny, Loop, Advance, Trouble

(* A repair pass keeps what it has healed.                                 *)
LEMMA RepairStep == TypeOK /\ RepairInv /\ [Next]_vars => RepairInv'
<1> SUFFICES ASSUME TypeOK, RepairInv, [Next]_vars PROVE RepairInv'
  OBVIOUS
<1>0. Shape
  BY DEF TypeOK, Shape, Graph
<1> USE <1>0
    DEF Shape, RepairInv, Working, source, stores, flags, engine, pass, bounds, Goto
<1>1. ASSUME NEW f \in File, NEW c \in Content \cup {0}, Edit(f, c) PROVE RepairInv'
  BY <1>1 DEF Edit
<1>2. ASSUME NEW f \in File, NEW kind \in Kinds \cup {"no"}, Hold(f, kind) PROVE RepairInv'
  BY <1>2 DEF Hold
<1>3. ASSUME NEW k \in Config, Configure(k) PROVE RepairInv'
  BY <1>3 DEF Configure
<1>4. ASSUME NEW mode \in SyncModes, Begin(mode) PROVE RepairInv'
  BY <1>4 DEF Begin, Start
<1>5. ASSUME NEW mode \in {"remove", "replace"}, Remove(mode) PROVE RepairInv'
  BY <1>5 DEF Remove
<1>6. ASSUME NEW f \in File, Skip(f) PROVE RepairInv'
  BY <1>6 DEF Skip, Skips, NeedsRepair
<1>7. ASSUME NEW f \in File, Unreadable(f) PROVE RepairInv'
  BY <1>7 DEF Unreadable
<1>8. ASSUME NEW f \in File, Commit(f) PROVE RepairInv'
  BY <1>8 DEF Commit
<1>9. CASE List
  BY <1>9 DEF List, Admitted
<1>10. CASE ClearRows
  BY <1>10 DEF ClearRows
<1>11. CASE Clear
  BY <1>11 DEF Clear, Admitted
<1>12. CASE NotDue
  BY <1>12 DEF NotDue
<1>13. CASE CheckpointGraph
  BY <1>13 DEF CheckpointGraph
<1>14. CASE CheckpointManifest
  BY <1>14 DEF CheckpointManifest
<1>15. CASE Embed
  BY <1>15 DEF Embed, ItemChunks, Chunks
<1>16. CASE LoopDone
  BY <1>16 DEF LoopDone
<1>17. CASE NothingRead
  BY <1>17 DEF NothingRead, EndPass, NoRun
<1>18. CASE Prune
  <2> DEFINE gone == {f \in Pruned : rows[f] # 0}
  <2>1. /\ pc = "prune"
        /\ rows' = Without(rows, gone)
        /\ graph'.node = Without(graph.node, gone)
        /\ entries' = Without(entries, Pruned)
        /\ UNCHANGED <<run, listed, unread, todo>>
    BY <1>18 DEF Prune
  <2>2. \A f \in File : entries'[f] # 0 =>
            entries'[f] = entries[f] /\ rows'[f] = rows[f] /\ graph'.node[f] = graph.node[f]
    BY <2>1 DEF Without
  <2>3. QED
    BY <2>1, <2>2 DEF TypeOK
<1>19. CASE Flush
  BY <1>19 DEF Flush
<1>20. CASE Enrich
  BY <1>20 DEF Enrich, Live, Chunks
<1>21. CASE SaveGraph
  BY <1>21 DEF SaveGraph
<1>22. CASE SaveManifest
  BY <1>22 DEF SaveManifest
<1>23. CASE Record
  BY <1>23 DEF Record, EndPass, NoRun
<1>24. CASE Applied
  BY <1>24 DEF Applied, EndPass, NoRun
<1>25. CASE CancelFlush
  BY <1>25 DEF CancelFlush
<1>26. CASE CancelGraph
  BY <1>26 DEF CancelGraph
<1>27. CASE CancelManifest
  BY <1>27 DEF CancelManifest
<1>28. CASE Cancelled
  BY <1>28 DEF Cancelled, EndPass, NoRun
<1>29. CASE RemoveVectors
  BY <1>29 DEF RemoveVectors
<1>30. CASE RemoveManifest
  BY <1>30 DEF RemoveManifest
<1>31. CASE RemoveRows
  BY <1>31 DEF RemoveRows, EndPass, NoRun
<1>32. CASE Store
  BY <1>32 DEF Store
<1>33. CASE CheckpointFails
  BY <1>33 DEF CheckpointFails
<1>34. CASE Cancel
  BY <1>34 DEF Cancel
<1>35. CASE NotIndexed
  BY <1>35 DEF NotIndexed, EndPass, NoRun
<1>36. CASE Fail
  BY <1>36 DEF Fail, EndPass, NoRun
<1>37. CASE Crash
  BY <1>37 DEF Crash, EndPass, NoRun
<1>38. CASE Close
  BY <1>38 DEF Close, EndPass, NoRun
<1>39. CASE BeginDeferred
  BY <1>39 DEF BeginDeferred, Start
<1>40. CASE BeginTask
  BY <1>40 DEF BeginTask, Start
<1>41. CASE BeginApply
  BY <1>41 DEF BeginApply, NoRun
<1>42. CASE UNCHANGED vars
  BY <1>42 DEF vars
<1>43. QED
  BY <1>1, <1>2, <1>3, <1>4, <1>5, <1>6, <1>7, <1>8, <1>9, <1>10, <1>11, <1>12,
     <1>13, <1>14, <1>15, <1>16, <1>17, <1>18, <1>19, <1>20, <1>21, <1>22, <1>23, <1>24,
     <1>25, <1>26, <1>27, <1>28, <1>29, <1>30, <1>31, <1>32, <1>33, <1>34, <1>35, <1>36,
     <1>37, <1>38, <1>39, <1>40, <1>41, <1>42
     DEF Next, World, BeginAny, Loop, Advance, Trouble

(* An edit makes a content that was not there before, and no store makes   *)
(* one up.                                                                 *)
LEMMA BoundStep == ~Reverts /\ TypeOK /\ Bounded /\ [Next]_vars => Bounded'
<1> SUFFICES ASSUME ~Reverts, TypeOK, Bounded, [Next]_vars PROVE Bounded'
  OBVIOUS
<1>0. /\ Content \subseteq Nat
      /\ disk \in [File -> Nat] /\ newest \in [File -> Nat] /\ manifest \in [File -> Nat]
      /\ entries \in [File -> Nat] /\ held \in [File -> Kinds \cup {"no"}]
      /\ todo \subseteq File
  <2>1. Content \cup {0} \subseteq Nat
    BY PipelineAssumption
  <2>2. QED
    BY <2>1 DEF TypeOK
<1> USE <1>0
    DEF Bounded, Held, Absent, source, stores, flags, engine, pass, bounds, Goto
<1>1. ASSUME NEW f \in File, NEW c \in Content \cup {0}, Edit(f, c) PROVE Bounded'
  BY <1>1 DEF Edit
<1>2. ASSUME NEW f \in File, NEW kind \in Kinds \cup {"no"}, Hold(f, kind) PROVE Bounded'
  BY <1>2 DEF Hold
<1>3. ASSUME NEW k \in Config, Configure(k) PROVE Bounded'
  BY <1>3 DEF Configure
<1>4. ASSUME NEW mode \in SyncModes, Begin(mode) PROVE Bounded'
  BY <1>4 DEF Begin, Start
<1>5. ASSUME NEW mode \in {"remove", "replace"}, Remove(mode) PROVE Bounded'
  BY <1>5 DEF Remove
<1>6. ASSUME NEW f \in File, Skip(f) PROVE Bounded'
  BY <1>6 DEF Skip
<1>7. ASSUME NEW f \in File, Unreadable(f) PROVE Bounded'
  BY <1>7 DEF Unreadable
<1>8. ASSUME NEW f \in File, Commit(f) PROVE Bounded'
  BY <1>8 DEF Commit
<1>9. CASE List
  BY <1>9 DEF List
<1>10. CASE ClearRows
  BY <1>10 DEF ClearRows
<1>11. CASE Clear
  BY <1>11 DEF Clear
<1>12. CASE NotDue
  BY <1>12 DEF NotDue
<1>13. CASE CheckpointGraph
  BY <1>13 DEF CheckpointGraph
<1>14. CASE CheckpointManifest
  BY <1>14 DEF CheckpointManifest
<1>15. CASE Embed
  BY <1>15 DEF Embed
<1>16. CASE LoopDone
  BY <1>16 DEF LoopDone
<1>17. CASE NothingRead
  BY <1>17 DEF NothingRead, EndPass, NoRun
<1>18. CASE Prune
  BY <1>18 DEF Prune, Without, Pruned, Vanished
<1>19. CASE Flush
  BY <1>19 DEF Flush
<1>20. CASE Enrich
  BY <1>20 DEF Enrich
<1>21. CASE SaveGraph
  BY <1>21 DEF SaveGraph
<1>22. CASE SaveManifest
  BY <1>22 DEF SaveManifest
<1>23. CASE Record
  BY <1>23 DEF Record, EndPass, NoRun
<1>24. CASE Applied
  BY <1>24 DEF Applied, EndPass, NoRun
<1>25. CASE CancelFlush
  BY <1>25 DEF CancelFlush
<1>26. CASE CancelGraph
  BY <1>26 DEF CancelGraph
<1>27. CASE CancelManifest
  BY <1>27 DEF CancelManifest
<1>28. CASE Cancelled
  BY <1>28 DEF Cancelled, EndPass, NoRun
<1>29. CASE RemoveVectors
  BY <1>29 DEF RemoveVectors
<1>30. CASE RemoveManifest
  BY <1>30 DEF RemoveManifest
<1>31. CASE RemoveRows
  BY <1>31 DEF RemoveRows, EndPass, NoRun
<1>32. CASE Store
  BY <1>32 DEF Store
<1>33. CASE CheckpointFails
  BY <1>33 DEF CheckpointFails
<1>34. CASE Cancel
  BY <1>34 DEF Cancel
<1>35. CASE NotIndexed
  BY <1>35 DEF NotIndexed, EndPass, NoRun
<1>36. CASE Fail
  BY <1>36 DEF Fail, EndPass, NoRun
<1>37. CASE Crash
  BY <1>37 DEF Crash, EndPass, NoRun
<1>38. CASE Close
  BY <1>38 DEF Close, EndPass, NoRun
<1>39. CASE BeginDeferred
  BY <1>39 DEF BeginDeferred, Start
<1>40. CASE BeginTask
  BY <1>40 DEF BeginTask, Start
<1>41. CASE BeginApply
  BY <1>41 DEF BeginApply, NoRun
<1>42. CASE UNCHANGED vars
  BY <1>42 DEF vars
<1>43. QED
  BY <1>1, <1>2, <1>3, <1>4, <1>5, <1>6, <1>7, <1>8, <1>9, <1>10, <1>11, <1>12,
     <1>13, <1>14, <1>15, <1>16, <1>17, <1>18, <1>19, <1>20, <1>21, <1>22, <1>23, <1>24,
     <1>25, <1>26, <1>27, <1>28, <1>29, <1>30, <1>31, <1>32, <1>33, <1>34, <1>35, <1>36,
     <1>37, <1>38, <1>39, <1>40, <1>41, <1>42
     DEF Next, World, BeginAny, Loop, Advance, Trouble

(* The graph is saved before the entries that speak of it.                 *)
LEMMA OrderStep == TypeOK /\ SavesInOrder /\ [Next]_vars => SavesInOrder'
<1> SUFFICES ASSUME TypeOK, SavesInOrder, [Next]_vars PROVE SavesInOrder'
  OBVIOUS
<1>0. Shape
  BY DEF TypeOK, Shape, Graph
<1> USE <1>0
    DEF Shape, SavesInOrder, Absent, source, stores, flags, engine, pass, bounds, Goto
<1>1. ASSUME NEW f \in File, NEW c \in Content \cup {0}, Edit(f, c) PROVE SavesInOrder'
  BY <1>1 DEF Edit
<1>2. ASSUME NEW f \in File, NEW kind \in Kinds \cup {"no"}, Hold(f, kind) PROVE SavesInOrder'
  BY <1>2 DEF Hold
<1>3. ASSUME NEW k \in Config, Configure(k) PROVE SavesInOrder'
  BY <1>3 DEF Configure
<1>4. ASSUME NEW mode \in SyncModes, Begin(mode) PROVE SavesInOrder'
  BY <1>4 DEF Begin, Start
<1>5. ASSUME NEW mode \in {"remove", "replace"}, Remove(mode) PROVE SavesInOrder'
  BY <1>5 DEF Remove
<1>6. ASSUME NEW f \in File, Skip(f) PROVE SavesInOrder'
  BY <1>6 DEF Skip
<1>7. ASSUME NEW f \in File, Unreadable(f) PROVE SavesInOrder'
  BY <1>7 DEF Unreadable
<1>8. ASSUME NEW f \in File, Commit(f) PROVE SavesInOrder'
  BY <1>8 DEF Commit
<1>9. CASE List
  BY <1>9 DEF List
<1>10. CASE ClearRows
  BY <1>10 DEF ClearRows
<1>11. CASE Clear
  BY <1>11 DEF Clear
<1>12. CASE NotDue
  BY <1>12 DEF NotDue
<1>13. CASE CheckpointGraph
  BY <1>13 DEF CheckpointGraph
<1>14. CASE CheckpointManifest
  BY <1>14 DEF CheckpointManifest
<1>15. CASE Embed
  BY <1>15 DEF Embed
<1>16. CASE LoopDone
  BY <1>16 DEF LoopDone
<1>17. CASE NothingRead
  BY <1>17 DEF NothingRead, EndPass, NoRun
<1>18. CASE Prune
  BY <1>18 DEF Prune, Without, Pruned, Vanished
<1>19. CASE Flush
  BY <1>19 DEF Flush
<1>20. CASE Enrich
  BY <1>20 DEF Enrich
<1>21. CASE SaveGraph
  BY <1>21 DEF SaveGraph
<1>22. CASE SaveManifest
  BY <1>22 DEF SaveManifest
<1>23. CASE Record
  BY <1>23 DEF Record, EndPass, NoRun
<1>24. CASE Applied
  BY <1>24 DEF Applied, EndPass, NoRun
<1>25. CASE CancelFlush
  BY <1>25 DEF CancelFlush
<1>26. CASE CancelGraph
  BY <1>26 DEF CancelGraph
<1>27. CASE CancelManifest
  BY <1>27 DEF CancelManifest
<1>28. CASE Cancelled
  BY <1>28 DEF Cancelled, EndPass, NoRun
<1>29. CASE RemoveVectors
  BY <1>29 DEF RemoveVectors
<1>30. CASE RemoveManifest
  BY <1>30 DEF RemoveManifest
<1>31. CASE RemoveRows
  BY <1>31 DEF RemoveRows, EndPass, NoRun
<1>32. CASE Store
  BY <1>32 DEF Store
<1>33. CASE CheckpointFails
  BY <1>33 DEF CheckpointFails
<1>34. CASE Cancel
  BY <1>34 DEF Cancel
<1>35. CASE NotIndexed
  BY <1>35 DEF NotIndexed, EndPass, NoRun
<1>36. CASE Fail
  BY <1>36 DEF Fail, EndPass, NoRun
<1>37. CASE Crash
  BY <1>37 DEF Crash, EndPass, NoRun
<1>38. CASE Close
  BY <1>38 DEF Close, EndPass, NoRun
<1>39. CASE BeginDeferred
  BY <1>39 DEF BeginDeferred, Start
<1>40. CASE BeginTask
  BY <1>40 DEF BeginTask, Start
<1>41. CASE BeginApply
  BY <1>41 DEF BeginApply, NoRun
<1>42. CASE UNCHANGED vars
  BY <1>42 DEF vars
<1>43. QED
  BY <1>1, <1>2, <1>3, <1>4, <1>5, <1>6, <1>7, <1>8, <1>9, <1>10, <1>11, <1>12,
     <1>13, <1>14, <1>15, <1>16, <1>17, <1>18, <1>19, <1>20, <1>21, <1>22, <1>23, <1>24,
     <1>25, <1>26, <1>27, <1>28, <1>29, <1>30, <1>31, <1>32, <1>33, <1>34, <1>35, <1>36,
     <1>37, <1>38, <1>39, <1>40, <1>41, <1>42
     DEF Next, World, BeginAny, Loop, Advance, Trouble

(* Where claims are relied on only some passes run.                        *)
LEMMA RegimeStep == TypeOK /\ InStep /\ Regime /\ [Next]_vars => Regime'
<1> SUFFICES ASSUME TypeOK, InStep, Regime, [Next]_vars PROVE Regime'
  OBVIOUS
<1>0. run \in [mode: SyncModes \cup {"none", "apply", "remove", "replace"},
              resume: BOOLEAN, tasked: BOOLEAN, deferred: BOOLEAN]
  BY DEF TypeOK
<1> USE <1>0
    DEF Regime, Interrupted, SyncModes, Cancelling, Crosses, TaskSettled, source, stores, flags,
        engine, pass, task, bounds, Goto
<1>1. ASSUME NEW f \in File, NEW c \in Content \cup {0}, Edit(f, c) PROVE Regime'
  BY <1>1 DEF Edit
<1>2. ASSUME NEW f \in File, NEW kind \in Kinds \cup {"no"}, Hold(f, kind) PROVE Regime'
  BY <1>2 DEF Hold
<1>3. ASSUME NEW k \in Config, Configure(k) PROVE Regime'
  BY <1>3 DEF Configure
<1>4. ASSUME NEW mode \in SyncModes, Begin(mode) PROVE Regime'
  BY <1>4 DEF Begin, Start, KeepsIndexed, Escalates, TypeOK
<1>5. ASSUME NEW mode \in {"remove", "replace"}, Remove(mode) PROVE Regime'
  <2>1. /\ pc' \in {"unembed", "disclaim"} /\ run' = [NoRun EXCEPT !.mode = mode]
        /\ mode \in Modes /\ UNCHANGED owed
    BY <1>5 DEF Remove
  <2>2. ~KeepsIndexed
    BY <2>1 DEF KeepsIndexed
  <2>3. ~(owed' /\ ~crossed') /\ (~owed' => ~crossed')
    BY <1>5, Zenon DEF Remove
  <2>4. QED
    BY <2>1, <2>2, <2>3 DEF NoRun
<1>6. ASSUME NEW f \in File, Skip(f) PROVE Regime'
  BY <1>6 DEF Skip
<1>7. ASSUME NEW f \in File, Unreadable(f) PROVE Regime'
  BY <1>7 DEF Unreadable
<1>8. ASSUME NEW f \in File, Commit(f) PROVE Regime'
  BY <1>8 DEF Commit
<1>9. CASE List
  BY <1>9 DEF List
<1>10. CASE ClearRows
  BY <1>10 DEF ClearRows
<1>11. CASE Clear
  BY <1>11 DEF Clear, InStep
<1>12. CASE NotDue
  BY <1>12 DEF NotDue
<1>13. CASE CheckpointGraph
  BY <1>13 DEF CheckpointGraph
<1>14. CASE CheckpointManifest
  BY <1>14 DEF CheckpointManifest
<1>15. CASE Embed
  BY <1>15 DEF Embed
<1>16. CASE LoopDone
  BY <1>16 DEF LoopDone
<1>17. CASE NothingRead
  BY <1>17 DEF NothingRead, EndPass, NoRun
<1>18. CASE Prune
  BY <1>18 DEF Prune
<1>19. CASE Flush
  BY <1>19 DEF Flush
<1>20. CASE Enrich
  BY <1>20 DEF Enrich
<1>21. CASE SaveGraph
  BY <1>21 DEF SaveGraph
<1>22. CASE SaveManifest
  BY <1>22 DEF SaveManifest
<1>23. CASE Record
  BY <1>23 DEF Record, EndPass, NoRun
<1>24. CASE Applied
  BY <1>24 DEF Applied, EndPass, NoRun
<1>25. CASE CancelFlush
  BY <1>25 DEF CancelFlush
<1>26. CASE CancelGraph
  BY <1>26 DEF CancelGraph
<1>27. CASE CancelManifest
  BY <1>27 DEF CancelManifest
<1>28. CASE Cancelled
  BY <1>28 DEF Cancelled, EndPass, NoRun
<1>29. CASE RemoveVectors
  BY <1>29 DEF RemoveVectors
<1>30. CASE RemoveManifest
  BY <1>30 DEF RemoveManifest
<1>31. CASE RemoveRows
  BY <1>31 DEF RemoveRows, EndPass, NoRun
<1>32. CASE Store
  BY <1>32 DEF Store
<1>33. CASE CheckpointFails
  BY <1>33 DEF CheckpointFails
<1>34. CASE Cancel
  BY <1>34 DEF Cancel
<1>35. CASE NotIndexed
  BY <1>35 DEF NotIndexed, EndPass, NoRun
<1>36. CASE Fail
  BY <1>36 DEF Fail, EndPass, NoRun
<1>37. CASE Crash
  BY <1>37 DEF Crash, EndPass, NoRun
<1>38. CASE Close
  BY <1>38 DEF Close, EndPass, NoRun
<1>39. CASE BeginDeferred
  BY <1>39 DEF BeginDeferred, Start, KeepsIndexed, Escalates, TypeOK
<1>40. CASE BeginTask
  <2>1. "task" \in Modes /\ pc' = "list" /\ scope' = scope
        /\ run' = [mode |-> IF Escalates(IF Resumes THEN "incremental" ELSE "full", Resumes) THEN "full"
                          ELSE IF Resumes THEN "incremental" ELSE "full",
                   resume |-> Resumes, tasked |-> TRUE, deferred |-> FALSE]
    BY <1>40 DEF BeginTask, Start
  <2>2. ~KeepsIndexed
    BY <2>1 DEF KeepsIndexed
  <2>3. owed'
    BY <1>40, Zenon DEF BeginTask
  <2>4. Resumes => owed /\ scope = "checkpointed" /\ run'.mode = "incremental" /\ run'.resume
    <3>1. Resumes => owed /\ scope = "checkpointed"
      BY Zenon DEF Resumes
    <3>2. Resumes => ~Escalates("incremental", Resumes)
      BY Zenon DEF Escalates
    <3>3. QED
      BY <2>1, <3>1, <3>2
  <2>5. ~Resumes => run'.mode = "full" /\ ~run'.resume
    <3>1. ~Resumes => run' = [mode |-> IF Escalates("full", Resumes) THEN "full" ELSE "full",
                              resume |-> Resumes, tasked |-> TRUE, deferred |-> FALSE]
      BY <2>1
    <3>2. QED
      BY <3>1
  <2>6. QED
    BY <2>1, <2>2, <2>3, <2>4, <2>5
<1>41. CASE BeginApply
  BY <1>41 DEF BeginApply, NoRun
<1>42. CASE UNCHANGED vars
  BY <1>42 DEF vars
<1>43. QED
  BY <1>1, <1>2, <1>3, <1>4, <1>5, <1>6, <1>7, <1>8, <1>9, <1>10, <1>11, <1>12,
     <1>13, <1>14, <1>15, <1>16, <1>17, <1>18, <1>19, <1>20, <1>21, <1>22, <1>23, <1>24,
     <1>25, <1>26, <1>27, <1>28, <1>29, <1>30, <1>31, <1>32, <1>33, <1>34, <1>35, <1>36,
     <1>37, <1>38, <1>39, <1>40, <1>41, <1>42
     DEF Next, World, BeginAny, Loop, Advance, Trouble

(* What is relied on after a step was relied on before it.                 *)
LEMMA Inherited ==
    ASSUME TypeOK, InStep, Bounded, Regime, [Next]_vars, ~Emptied' \/ listed' # {},
           NEW g \in File, disk'[g] # 0, Assured(g)'
    PROVE  Assured(g) /\ (Emptied /\ ~Emptied' => run.mode = "full")
<1> DEFINE Was == Assured(g) /\ (Emptied /\ ~Emptied' => run.mode = "full")
<1> USE DEF Regime, Interrupted, Assured, Emptied, InStep, Held, Bounded, Crosses, TaskSettled, source,
        stores, flags, engine, pass, task, bounds, Goto
<1>1. ASSUME NEW f \in File, NEW c \in Content \cup {0}, Edit(f, c) PROVE Was
  BY <1>1 DEF Edit
<1>2. ASSUME NEW f \in File, NEW kind \in Kinds \cup {"no"}, Hold(f, kind) PROVE Was
  BY <1>2 DEF Hold
<1>3. ASSUME NEW k \in Config, Configure(k) PROVE Was
  BY <1>3 DEF Configure
<1>4. ASSUME NEW mode \in SyncModes, Begin(mode) PROVE Was
  BY <1>4 DEF Begin, Start
<1>5. ASSUME NEW mode \in {"remove", "replace"}, Remove(mode) PROVE Was
  BY <1>5 DEF Remove
<1>6. ASSUME NEW f \in File, Skip(f) PROVE Was
  BY <1>6 DEF Skip
<1>7. ASSUME NEW f \in File, Unreadable(f) PROVE Was
  BY <1>7 DEF Unreadable
<1>8. ASSUME NEW f \in File, Commit(f) PROVE Was
  BY <1>8 DEF Commit
<1>9. CASE List
  BY <1>9 DEF List
<1>10. CASE ClearRows
  BY <1>10 DEF ClearRows
<1>11. CASE Clear
  BY <1>11 DEF Clear
<1>12. CASE NotDue
  BY <1>12 DEF NotDue
<1>13. CASE CheckpointGraph
  BY <1>13 DEF CheckpointGraph
<1>14. CASE CheckpointManifest
  <2>1. UNCHANGED <<owed, crossed, held, archived>> /\ pc = "checkpoint"
    BY <1>14 DEF CheckpointManifest
  <2>2. Assured(g)
    BY <2>1
  <2>3. Emptied => run.mode = "full"
    BY <2>1, <2>2 DEF SyncModes
  <2>4. QED
    BY <2>2, <2>3
<1>15. CASE Embed
  BY <1>15 DEF Embed
<1>16. CASE LoopDone
  BY <1>16 DEF LoopDone
<1>17. CASE NothingRead
  BY <1>17 DEF NothingRead, EndPass, NoRun
<1>18. CASE Prune
  <2>1. /\ UNCHANGED <<owed, crossed, scope, archived>>
        /\ disk' = Without(disk, {f \in File : held[f] = "removed"})
        /\ held' = [f \in File |-> IF f \in {e \in File : held[e] = "removed"} THEN "no" ELSE held[f]]
    BY <1>18 DEF Prune
  <2>2. held'[g] = held[g]
    BY <2>1 DEF Without
  <2>3. QED
    BY <2>1, <2>2
<1>19. CASE Flush
  BY <1>19 DEF Flush
<1>20. CASE Enrich
  BY <1>20 DEF Enrich
<1>21. CASE SaveGraph
  BY <1>21 DEF SaveGraph
<1>22. CASE SaveManifest
  BY <1>22 DEF SaveManifest
<1>23. CASE Record
  BY <1>23 DEF Record, EndPass, NoRun
<1>24. CASE Applied
  BY <1>24 DEF Applied, EndPass, NoRun
<1>25. CASE CancelFlush
  BY <1>25 DEF CancelFlush
<1>26. CASE CancelGraph
  BY <1>26 DEF CancelGraph
<1>27. CASE CancelManifest
  BY <1>27 DEF CancelManifest
<1>28. CASE Cancelled
  BY <1>28 DEF Cancelled, EndPass, NoRun
<1>29. CASE RemoveVectors
  BY <1>29 DEF RemoveVectors
<1>30. CASE RemoveManifest
  BY <1>30 DEF RemoveManifest
<1>31. CASE RemoveRows
  BY <1>31 DEF RemoveRows, EndPass, NoRun
<1>32. CASE Store
  BY <1>32 DEF Store
<1>33. CASE CheckpointFails
  BY <1>33 DEF CheckpointFails
<1>34. CASE Cancel
  BY <1>34 DEF Cancel
<1>35. CASE NotIndexed
  BY <1>35 DEF NotIndexed, EndPass, NoRun
<1>36. CASE Fail
  BY <1>36 DEF Fail, EndPass, NoRun
<1>37. CASE Crash
  BY <1>37 DEF Crash, EndPass, NoRun
<1>38. CASE Close
  BY <1>38 DEF Close, EndPass, NoRun
<1>39. CASE BeginDeferred
  BY <1>39 DEF BeginDeferred, Start
<1>40. CASE BeginTask
  <2>1. ~KeepsIndexed /\ scope' = scope /\ held' = held
    BY <1>40 DEF BeginTask, Start, KeepsIndexed
  <2>2. scope = "checkpointed"
    <3>1. listed' = {}
      BY <1>40 DEF BeginTask, Start, TypeOK
    <3>2. QED
      BY <2>1, <3>1
  <2>3. owed /\ (~crossed' => ~crossed)
    <3>1. scope # "none" /\ ~crossed'
      BY <2>1, <2>2
    <3>2. crossed' = (crossed \/ (~owed /\ scope # "none"))
      BY <1>40 DEF BeginTask
    <3>3. QED
      BY <3>1, <3>2, Zenon
  <2>4. QED
    BY <2>1, <2>2, <2>3
<1>41. CASE BeginApply
  BY <1>41 DEF BeginApply, NoRun
<1>42. CASE UNCHANGED vars
  BY <1>42 DEF vars
<1>43. QED
  BY <1>1, <1>2, <1>3, <1>4, <1>5, <1>6, <1>7, <1>8, <1>9, <1>10, <1>11, <1>12,
     <1>13, <1>14, <1>15, <1>16, <1>17, <1>18, <1>19, <1>20, <1>21, <1>22, <1>23, <1>24,
     <1>25, <1>26, <1>27, <1>28, <1>29, <1>30, <1>31, <1>32, <1>33, <1>34, <1>35, <1>36,
     <1>37, <1>38, <1>39, <1>40, <1>41, <1>42
     DEF Next, World, BeginAny, Loop, Advance, Trouble

(* An entry is saved after what it speaks of, and no step takes away what  *)
(* an entry speaks of and leaves the entry.                                *)
LEMMA ClaimsStep ==
    ASSUME ~Reverts, TypeOK, InStep, Bounded, SavesInOrder, Unlisted, Regime, ClaimsHold,
           [Next]_vars
    PROVE  ClaimsHold'
<1> SUFFICES ASSUME ~Emptied', NEW g \in File, Assured(g)', disk'[g] # 0
             PROVE  Sound(g)'
  BY DEF ClaimsHold
<1>a. Assured(g) /\ (Emptied => run.mode = "full")
  BY Inherited
<1>d. Emptied => scope # "checkpointed" /\ scope' = "checkpointed"
  BY DEF Emptied
<1>b. ~Emptied /\ disk[g] # 0 => Sound(g)
  BY <1>a DEF ClaimsHold
<1>c. ~(KeepsIndexed /\ run.mode \in {"full", "remove", "replace"})
  BY DEF Regime
<1>0. Shape /\ todo \subseteq listed /\ manifest \in [File -> Content \cup {0}]
  BY DEF TypeOK, Shape, Graph
<1> USE <1>0, <1>a, <1>b, <1>d
    DEF Shape, Sound, Absent, source, stores, flags, engine, pass, bounds, Goto
<1>1. ASSUME NEW f \in File, NEW c \in Content \cup {0}, Edit(f, c) PROVE Sound(g)'
  <2>1. CASE f = g
    <3>1. disk'[g] = c /\ c > newest[g] /\ UNCHANGED <<manifest, entries>>
      BY <1>1, <2>1 DEF Edit, TypeOK
    <3>2. manifest[g] <= newest[g] /\ entries[g] <= newest[g]
      BY DEF Bounded
    <3>3. newest[g] \in Nat /\ c \in Nat /\ manifest[g] \in Nat /\ entries[g] \in Nat
      <4>1. Content \cup {0} \subseteq Nat
        BY PipelineAssumption
      <4>2. QED
        BY <4>1 DEF TypeOK
    <3>4. manifest'[g] # disk'[g] /\ entries'[g] # disk'[g]
      BY <3>1, <3>2, <3>3
    <3>5. QED
      BY <3>4
  <2>2. CASE f # g
    BY <1>1, <2>2 DEF Edit, TypeOK
  <2>3. QED
    BY <2>1, <2>2
<1>2. ASSUME NEW f \in File, NEW kind \in Kinds \cup {"no"}, Hold(f, kind) PROVE Sound(g)'
  BY <1>2 DEF Hold
<1>3. ASSUME NEW k \in Config, Configure(k) PROVE Sound(g)'
  BY <1>3 DEF Configure
<1>4. ASSUME NEW mode \in SyncModes, Begin(mode) PROVE Sound(g)'
  BY <1>4 DEF Begin, Start
<1>5. ASSUME NEW mode \in {"remove", "replace"}, Remove(mode) PROVE Sound(g)'
  <2>1. mode \in Modes /\ held' = held /\ owed' = owed /\ crossed' = (crossed \/ owed)
    BY <1>5 DEF Remove, Crosses
  <2>2. ~KeepsIndexed
    BY <2>1 DEF KeepsIndexed
  <2>3. ~Interrupted'
    BY <2>1, Zenon DEF Interrupted
  <2>4. QED
    BY <2>2, <2>3 DEF Assured
<1>6. ASSUME NEW f \in File, Skip(f) PROVE Sound(g)'
  BY <1>6 DEF Skip
<1>7. ASSUME NEW f \in File, Unreadable(f) PROVE Sound(g)'
  BY <1>7 DEF Unreadable
<1>8. ASSUME NEW f \in File, Commit(f) PROVE Sound(g)'
  BY <1>8 DEF Commit
<1>9. CASE List
  BY <1>9 DEF List
<1>10. CASE ClearRows
  <2>1. run.mode = "full" /\ scope' = "starting"
    BY <1>10 DEF ClearRows
  <2>2. QED
    BY <1>c, <2>1 DEF Emptied
<1>11. CASE Clear
  <2>1. run.mode = "full" /\ scope' = "cleared"
    BY <1>11 DEF Clear, InStep
  <2>2. QED
    BY <1>c, <2>1 DEF Emptied
<1>12. CASE NotDue
  BY <1>12 DEF NotDue
<1>13. CASE CheckpointGraph
  BY <1>13 DEF CheckpointGraph
<1>14. CASE CheckpointManifest
  <2>1. /\ pc = "checkpoint" /\ manifest' = entries
        /\ UNCHANGED <<disk, rows, saved, graph, entries, run>>
    BY <1>14 DEF CheckpointManifest
  <2>2. saved = graph
    BY <2>1 DEF SavesInOrder
  <2>3. entries[g] = disk[g] => rows[g] = disk[g] /\ graph.node[g] = disk[g]
    <3>1. CASE Emptied
      BY <2>1, <3>1 DEF InStep, Working
    <3>2. CASE ~Emptied
      BY <2>1, <3>2
    <3>3. QED
      BY <3>1, <3>2
  <2>4. QED
    BY <2>1, <2>2, <2>3
<1>15. CASE Embed
  BY <1>15 DEF Embed
<1>16. CASE LoopDone
  BY <1>16 DEF LoopDone
<1>17. CASE NothingRead
  BY <1>17 DEF NothingRead, EndPass, NoRun
<1>18. CASE Prune
  <2> DEFINE gone == {f \in Pruned : rows[f] # 0}
  <2>1. /\ disk' = Without(disk, {f \in File : held[f] = "removed"})
        /\ rows' = Without(rows, gone) /\ entries' = Without(entries, Pruned)
        /\ graph' = [graph EXCEPT !.node = Without(graph.node, gone)]
        /\ UNCHANGED <<saved, manifest, scope>>
    BY <1>18 DEF Prune
  <2>2. disk'[g] = disk[g] /\ disk[g] # 0 /\ ~Emptied
    BY <2>1, <1>a DEF Without
  <2>3. held[g] = "no"
    BY DEF Assured, Bounded, Held
  <2>4. CASE g \in Pruned
    <3>1. listed # {} /\ g \notin listed
      BY <2>3, <2>4 DEF Pruned, Vanished, Held
    <3>2. entries[g] # disk[g] /\ manifest[g] # disk[g]
      BY <1>a, <2>2, <3>1 DEF Unlisted
    <3>3. entries'[g] = 0
      BY <2>1, <2>4 DEF Without
    <3>4. QED
      BY <2>1, <2>2, <3>2, <3>3
  <2>5. CASE g \notin Pruned
    <3>1. UNCHANGED <<rows[g], entries[g], graph.node[g]>>
      BY <2>1, <2>5 DEF Without
    <3>2. QED
      BY <2>1, <2>2, <3>1
  <2>6. QED
    BY <2>4, <2>5
<1>19. CASE Flush
  BY <1>19 DEF Flush
<1>20. CASE Enrich
  BY <1>20 DEF Enrich
<1>21. CASE SaveGraph
  BY <1>21 DEF SaveGraph
<1>22. CASE SaveManifest
  <2>1. /\ pc = "claim" /\ manifest' = entries
        /\ UNCHANGED <<disk, rows, saved, graph, entries, run, scope>>
    BY <1>22 DEF SaveManifest
  <2>2. changed => saved = graph
    BY <2>1 DEF SavesInOrder
  <2>3. ~changed => entries[g] \in {0, manifest[g]}
    BY <2>1 DEF SavesInOrder
  <2>4. QED
    BY <2>1, <2>2, <2>3
<1>23. CASE Record
  BY <1>23 DEF Record, EndPass, NoRun
<1>24. CASE Applied
  BY <1>24 DEF Applied, EndPass, NoRun
<1>25. CASE CancelFlush
  BY <1>25 DEF CancelFlush
<1>26. CASE CancelGraph
  BY <1>26 DEF CancelGraph
<1>27. CASE CancelManifest
  <2>1. /\ pc = "cancelclaim" /\ manifest' = entries
        /\ UNCHANGED <<disk, rows, saved, graph, entries, run, scope>>
    BY <1>27 DEF CancelManifest
  <2>2. changed => saved = graph
    BY <2>1 DEF SavesInOrder
  <2>3. ~changed => entries[g] \in {0, manifest[g]}
    BY <2>1 DEF SavesInOrder
  <2>4. QED
    BY <2>1, <2>2, <2>3
<1>28. CASE Cancelled
  BY <1>28 DEF Cancelled, EndPass, NoRun
<1>29. CASE RemoveVectors
  BY <1>29 DEF RemoveVectors
<1>30. CASE RemoveManifest
  <2>1. pc = "disclaim" /\ run.mode \in {"remove", "replace"}
    BY <1>30 DEF RemoveManifest, Regime
  <2>2. QED
    BY <1>a, <1>c, <2>1 DEF Assured, Regime
<1>31. CASE RemoveRows
  <2>1. pc = "unrow" /\ run.mode \in {"remove", "replace"}
    BY <1>31 DEF RemoveRows, Regime
  <2>2. QED
    BY <1>a, <1>c, <2>1 DEF Assured, Regime
<1>32. CASE Store
  BY <1>32 DEF Store
<1>33. CASE CheckpointFails
  BY <1>33 DEF CheckpointFails
<1>34. CASE Cancel
  BY <1>34 DEF Cancel
<1>35. CASE NotIndexed
  BY <1>35 DEF NotIndexed, EndPass, NoRun
<1>36. CASE Fail
  BY <1>36 DEF Fail, EndPass, NoRun
<1>37. CASE Crash
  BY <1>37 DEF Crash, EndPass, NoRun
<1>38. CASE Close
  BY <1>38 DEF Close, EndPass, NoRun
<1>39. CASE BeginDeferred
  BY <1>39 DEF BeginDeferred, Start
<1>40. CASE BeginTask
  BY <1>40 DEF BeginTask, Start
<1>41. CASE BeginApply
  BY <1>41 DEF BeginApply, NoRun
<1>42. CASE UNCHANGED vars
  BY <1>42 DEF vars
<1>43. QED
  BY <1>1, <1>2, <1>3, <1>4, <1>5, <1>6, <1>7, <1>8, <1>9, <1>10, <1>11, <1>12,
     <1>13, <1>14, <1>15, <1>16, <1>17, <1>18, <1>19, <1>20, <1>21, <1>22, <1>23, <1>24,
     <1>25, <1>26, <1>27, <1>28, <1>29, <1>30, <1>31, <1>32, <1>33, <1>34, <1>35, <1>36,
     <1>37, <1>38, <1>39, <1>40, <1>41, <1>42
     DEF Next, World, BeginAny, Loop, Advance, Trouble

(* What a listing lacks stays without an entry for its content.            *)
LEMMA UnlistedStep ==
    ASSUME ~Reverts, TypeOK, InStep, Bounded, SavesInOrder, Unlisted, Regime, [Next]_vars
    PROVE  Unlisted'
<1>0. /\ Shape /\ todo \subseteq listed /\ manifest \in [File -> Content \cup {0}]
      /\ listed \subseteq File
      /\ pc \in {"idle", "list", "clear"} => listed = {}
  BY DEF TypeOK, Shape, Graph
<1> DEFINE Lacks(g) == entries[g] # disk[g] /\ manifest[g] # disk[g]
<1>s. SUFFICES ASSUME listed' # {}, NEW g \in File, g \notin listed', Assured(g)', disk'[g] # 0
               PROVE  Lacks(g)'
  BY <1>0 DEF Unlisted
<1>a. Assured(g)
  BY <1>s, Inherited
<1>b. listed # {} /\ g \notin listed /\ disk[g] # 0 => Lacks(g)
  BY <1>a DEF Unlisted
<1> USE <1>0, <1>s, <1>a, <1>b
    DEF Shape, Absent, source, stores, flags, engine, pass, bounds, Goto
<1>1. ASSUME NEW f \in File, NEW c \in Content \cup {0}, Edit(f, c) PROVE Lacks(g)'
  <2>1. CASE f = g
    <3>1. disk'[g] = c /\ c > newest[g] /\ UNCHANGED <<manifest, entries>>
      BY <1>1, <2>1 DEF Edit, TypeOK
    <3>2. manifest[g] <= newest[g] /\ entries[g] <= newest[g]
      BY DEF Bounded
    <3>3. newest[g] \in Nat /\ c \in Nat /\ manifest[g] \in Nat /\ entries[g] \in Nat
      <4>1. Content \cup {0} \subseteq Nat
        BY PipelineAssumption
      <4>2. QED
        BY <4>1 DEF TypeOK
    <3>4. QED
      BY <3>1, <3>2, <3>3
  <2>2. CASE f # g
    BY <1>1, <2>2 DEF Edit, TypeOK
  <2>3. QED
    BY <2>1, <2>2
<1>2. ASSUME NEW f \in File, NEW kind \in Kinds \cup {"no"}, Hold(f, kind) PROVE Lacks(g)'
  BY <1>2 DEF Hold
<1>3. ASSUME NEW k \in Config, Configure(k) PROVE Lacks(g)'
  BY <1>3 DEF Configure
<1>4. ASSUME NEW mode \in SyncModes, Begin(mode) PROVE Lacks(g)'
  BY <1>4 DEF Begin, Start
<1>5. ASSUME NEW mode \in {"remove", "replace"}, Remove(mode) PROVE Lacks(g)'
  BY <1>5 DEF Remove
<1>6. ASSUME NEW f \in File, Skip(f) PROVE Lacks(g)'
  BY <1>6 DEF Skip
<1>7. ASSUME NEW f \in File, Unreadable(f) PROVE Lacks(g)'
  BY <1>7 DEF Unreadable
<1>8. ASSUME NEW f \in File, Commit(f) PROVE Lacks(g)'
  BY <1>8 DEF Commit
<1>9. CASE List
  <2>1. listed' = Admitted /\ UNCHANGED <<disk, held>>
    BY <1>9 DEF List
  <2>2. g \in Held /\ Assured(g)
    BY <2>1, <1>a DEF Admitted
  <2>3. QED
    BY <1>s, <2>2, <1>9 DEF List, Assured, Bounded
<1>10. CASE ClearRows
  BY <1>10 DEF ClearRows
<1>11. CASE Clear
  <2>1. listed' = Admitted /\ entries' = Absent /\ UNCHANGED <<disk, held>>
    BY <1>11 DEF Clear
  <2>2. g \in Held /\ Assured(g)
    BY <2>1, <1>a DEF Admitted
  <2>3. QED
    BY <1>s, <2>2, <1>11 DEF Clear, Assured, Bounded
<1>12. CASE NotDue
  BY <1>12 DEF NotDue
<1>13. CASE CheckpointGraph
  BY <1>13 DEF CheckpointGraph
<1>14. CASE CheckpointManifest
  BY <1>14 DEF CheckpointManifest
<1>15. CASE Embed
  BY <1>15 DEF Embed
<1>16. CASE LoopDone
  BY <1>16 DEF LoopDone
<1>17. CASE NothingRead
  BY <1>17 DEF NothingRead, EndPass, NoRun
<1>18. CASE Prune
  <2>1. /\ disk' = Without(disk, {f \in File : held[f] = "removed"})
        /\ entries' = Without(entries, Pruned)
        /\ UNCHANGED <<manifest, listed>>
    BY <1>18 DEF Prune
  <2>2. disk'[g] = disk[g] /\ disk[g] # 0
    BY <1>s, <2>1 DEF Without
  <2>3. entries'[g] \in {0, entries[g]}
    BY <2>1 DEF Without
  <2>4. QED
    BY <1>s, <2>1, <2>2, <2>3
<1>19. CASE Flush
  BY <1>19 DEF Flush
<1>20. CASE Enrich
  BY <1>20 DEF Enrich
<1>21. CASE SaveGraph
  BY <1>21 DEF SaveGraph
<1>22. CASE SaveManifest
  BY <1>22 DEF SaveManifest
<1>23. CASE Record
  BY <1>23 DEF Record, EndPass, NoRun
<1>24. CASE Applied
  BY <1>24 DEF Applied, EndPass, NoRun
<1>25. CASE CancelFlush
  BY <1>25 DEF CancelFlush
<1>26. CASE CancelGraph
  BY <1>26 DEF CancelGraph
<1>27. CASE CancelManifest
  BY <1>27 DEF CancelManifest
<1>28. CASE Cancelled
  BY <1>28 DEF Cancelled, EndPass, NoRun
<1>29. CASE RemoveVectors
  BY <1>29 DEF RemoveVectors
<1>30. CASE RemoveManifest
  BY <1>30 DEF RemoveManifest
<1>31. CASE RemoveRows
  BY <1>31 DEF RemoveRows, EndPass, NoRun
<1>32. CASE Store
  BY <1>32 DEF Store
<1>33. CASE CheckpointFails
  BY <1>33 DEF CheckpointFails
<1>34. CASE Cancel
  BY <1>34 DEF Cancel
<1>35. CASE NotIndexed
  BY <1>35 DEF NotIndexed, EndPass, NoRun
<1>36. CASE Fail
  BY <1>36 DEF Fail, EndPass, NoRun
<1>37. CASE Crash
  BY <1>37 DEF Crash, EndPass, NoRun
<1>38. CASE Close
  BY <1>38 DEF Close, EndPass, NoRun
<1>39. CASE BeginDeferred
  BY <1>39 DEF BeginDeferred, Start
<1>40. CASE BeginTask
  BY <1>40 DEF BeginTask, Start
<1>41. CASE BeginApply
  BY <1>41 DEF BeginApply, NoRun
<1>42. CASE UNCHANGED vars
  BY <1>42 DEF vars
<1>43. QED
  BY <1>1, <1>2, <1>3, <1>4, <1>5, <1>6, <1>7, <1>8, <1>9, <1>10, <1>11, <1>12,
     <1>13, <1>14, <1>15, <1>16, <1>17, <1>18, <1>19, <1>20, <1>21, <1>22, <1>23, <1>24,
     <1>25, <1>26, <1>27, <1>28, <1>29, <1>30, <1>31, <1>32, <1>33, <1>34, <1>35, <1>36,
     <1>37, <1>38, <1>39, <1>40, <1>41, <1>42
     DEF Next, World, BeginAny, Loop, Advance, Trouble

(* Holding a document out while a full sync is owed crosses it.             *)
LEMMA KeptStep == TypeOK /\ ListedKept /\ [Next]_vars => ListedKept'
<1> SUFFICES ASSUME TypeOK, ListedKept, [Next]_vars PROVE ListedKept'
  OBVIOUS
<1>0. pc \in {"idle", "list", "clear"} => listed = {}
  BY DEF TypeOK
<1> USE <1>0
    DEF ListedKept, Interrupted, Held, Admitted, Crosses, TaskSettled, source, stores, flags,
        engine, pass, task, bounds, Goto
<1>1. ASSUME NEW f \in File, NEW c \in Content \cup {0}, Edit(f, c) PROVE ListedKept'
  BY <1>1 DEF Edit
<1>2. ASSUME NEW f \in File, NEW kind \in Kinds \cup {"no"}, Hold(f, kind) PROVE ListedKept'
  <2>1. owed' = owed /\ crossed' = (crossed \/ owed)
    BY <1>2 DEF Hold
  <2>2. ~(owed' /\ ~crossed')
    BY <2>1, Zenon
  <2>3. QED
    BY <2>2
<1>3. ASSUME NEW k \in Config, Configure(k) PROVE ListedKept'
  BY <1>3 DEF Configure
<1>4. ASSUME NEW mode \in SyncModes, Begin(mode) PROVE ListedKept'
  BY <1>4 DEF Begin, Start
<1>5. ASSUME NEW mode \in {"remove", "replace"}, Remove(mode) PROVE ListedKept'
  BY <1>5 DEF Remove
<1>6. ASSUME NEW f \in File, Skip(f) PROVE ListedKept'
  BY <1>6 DEF Skip
<1>7. ASSUME NEW f \in File, Unreadable(f) PROVE ListedKept'
  BY <1>7 DEF Unreadable
<1>8. ASSUME NEW f \in File, Commit(f) PROVE ListedKept'
  BY <1>8 DEF Commit
<1>9. CASE List
  BY <1>9 DEF List
<1>10. CASE ClearRows
  BY <1>10 DEF ClearRows
<1>11. CASE Clear
  BY <1>11 DEF Clear
<1>12. CASE NotDue
  BY <1>12 DEF NotDue
<1>13. CASE CheckpointGraph
  BY <1>13 DEF CheckpointGraph
<1>14. CASE CheckpointManifest
  BY <1>14 DEF CheckpointManifest
<1>15. CASE Embed
  BY <1>15 DEF Embed
<1>16. CASE LoopDone
  BY <1>16 DEF LoopDone
<1>17. CASE NothingRead
  BY <1>17 DEF NothingRead, EndPass, NoRun
<1>18. CASE Prune
  <2>1. Held' \subseteq Held /\ listed' = listed /\ UNCHANGED task
    BY <1>18 DEF Prune
  <2>2. QED
    BY <2>1
<1>19. CASE Flush
  BY <1>19 DEF Flush
<1>20. CASE Enrich
  BY <1>20 DEF Enrich
<1>21. CASE SaveGraph
  BY <1>21 DEF SaveGraph
<1>22. CASE SaveManifest
  BY <1>22 DEF SaveManifest
<1>23. CASE Record
  BY <1>23 DEF Record, EndPass, NoRun
<1>24. CASE Applied
  BY <1>24 DEF Applied, EndPass, NoRun
<1>25. CASE CancelFlush
  BY <1>25 DEF CancelFlush
<1>26. CASE CancelGraph
  BY <1>26 DEF CancelGraph
<1>27. CASE CancelManifest
  BY <1>27 DEF CancelManifest
<1>28. CASE Cancelled
  BY <1>28 DEF Cancelled, EndPass, NoRun
<1>29. CASE RemoveVectors
  BY <1>29 DEF RemoveVectors
<1>30. CASE RemoveManifest
  BY <1>30 DEF RemoveManifest
<1>31. CASE RemoveRows
  BY <1>31 DEF RemoveRows, EndPass, NoRun
<1>32. CASE Store
  BY <1>32 DEF Store
<1>33. CASE CheckpointFails
  BY <1>33 DEF CheckpointFails
<1>34. CASE Cancel
  BY <1>34 DEF Cancel
<1>35. CASE NotIndexed
  BY <1>35 DEF NotIndexed, EndPass, NoRun
<1>36. CASE Fail
  BY <1>36 DEF Fail, EndPass, NoRun
<1>37. CASE Crash
  BY <1>37 DEF Crash, EndPass, NoRun
<1>38. CASE Close
  BY <1>38 DEF Close, EndPass, NoRun
<1>39. CASE BeginDeferred
  BY <1>39 DEF BeginDeferred, Start
<1>40. CASE BeginTask
  BY <1>40 DEF BeginTask, Start
<1>41. CASE BeginApply
  BY <1>41 DEF BeginApply, NoRun
<1>42. CASE UNCHANGED vars
  BY <1>42 DEF vars
<1>43. QED
  BY <1>1, <1>2, <1>3, <1>4, <1>5, <1>6, <1>7, <1>8, <1>9, <1>10, <1>11, <1>12,
     <1>13, <1>14, <1>15, <1>16, <1>17, <1>18, <1>19, <1>20, <1>21, <1>22, <1>23, <1>24,
     <1>25, <1>26, <1>27, <1>28, <1>29, <1>30, <1>31, <1>32, <1>33, <1>34, <1>35, <1>36,
     <1>37, <1>38, <1>39, <1>40, <1>41, <1>42
     DEF Next, World, BeginAny, Loop, Advance, Trouble

(* A resumed pass skips only what is indexed, and commits the rest.        *)
LEMMA HandledStep ==
    ASSUME TypeOK, InStep, Bounded, SavesInOrder, Unlisted, ListedKept, Regime, ClaimsHold,
           Handled, [Next]_vars
    PROVE  Handled'
<1>0. /\ Shape /\ todo \subseteq listed /\ listed \subseteq File
      /\ saved \in Graph /\ manifest \in [File -> Content \cup {0}]
      /\ pc \in Finishing => todo = {}
  BY DEF TypeOK, Shape, Graph
<1>a. run.resume /\ ~crossed =>
         run.mode = "incremental" /\ \A f \in listed : disk[f] # 0 => Sound(f)
  <2> SUFFICES ASSUME run.resume, ~crossed, NEW f \in listed, disk[f] # 0 PROVE Sound(f)
    BY DEF Regime
  <2>1. Interrupted /\ ~Emptied
    BY DEF Regime, Interrupted, Emptied
  <2>2. f \in File /\ f \notin Held
    BY <1>0, <2>1 DEF ListedKept
  <2>3. QED
    BY <2>1, <2>2 DEF ClaimsHold, Assured
<1>b. run.resume /\ ~crossed => listed \cap Pruned = {}
  BY <1>0 DEF Regime, Interrupted, ListedKept, Pruned, Vanished
<1> USE <1>0
    DEF Shape, Handled, Working, Finishing, source, stores, flags, engine, pass, task, bounds,
        Goto
<1>1. ASSUME NEW f \in File, NEW c \in Content \cup {0}, Edit(f, c) PROVE Handled'
  BY <1>1 DEF Edit
<1>2. ASSUME NEW f \in File, NEW kind \in Kinds \cup {"no"}, Hold(f, kind) PROVE Handled'
  <2>1. owed' = owed /\ crossed' = (crossed \/ owed) /\ run' = run
    BY <1>2 DEF Hold, Crosses
  <2>2. run.resume => owed
    BY DEF Regime
  <2>3. run.resume => crossed'
    BY <2>1, <2>2, Zenon
  <2>4. QED
    BY <2>1, <2>3
<1>3. ASSUME NEW k \in Config, Configure(k) PROVE Handled'
  BY <1>3 DEF Configure
<1>4. ASSUME NEW mode \in SyncModes, Begin(mode) PROVE Handled'
  BY <1>4 DEF Begin, Start
<1>5. ASSUME NEW mode \in {"remove", "replace"}, Remove(mode) PROVE Handled'
  BY <1>5 DEF Remove
<1>6. ASSUME NEW f \in File, Skip(f) PROVE Handled'
  <2> SUFFICES ASSUME run'.resume, ~crossed', NEW g \in listed' \ (unread' \cup todo')
               PROVE  /\ rows'[g] = entries'[g] /\ graph'.node[g] = entries'[g]
                      /\ ~changed' /\ item' = {} => saved'.node[g] = entries'[g]
    BY <1>6 DEF Skip
  <2>1. /\ UNCHANGED <<rows, graph, saved, manifest, entries, changed, item, run, crossed, listed, unread>>
        /\ pc = "loop" /\ todo' = todo \ {f} /\ disk[f] # 0 /\ Skips(f) /\ f \in todo
    BY <1>6 DEF Skip
  <2>2. CASE g # f
    BY <2>1, <2>2
  <2>3. CASE g = f
    <3>1. run.mode = "incremental" /\ Sound(f)
      BY <1>a, <2>1
    <3>2. entries[f] = disk[f]
      BY <2>1, <3>1 DEF Skips
    <3>3. ~changed /\ item = {} => manifest[f] = disk[f]
      BY <2>1, <3>2 DEF SavesInOrder
    <3>4. QED
      BY <2>1, <2>3, <3>1, <3>2, <3>3 DEF Sound
  <2>4. QED
    BY <2>2, <2>3
<1>7. ASSUME NEW f \in File, Unreadable(f) PROVE Handled'
  BY <1>7 DEF Unreadable
<1>8. ASSUME NEW f \in File, Commit(f) PROVE Handled'
  BY <1>8 DEF Commit
<1>9. CASE List
  BY <1>9 DEF List
<1>10. CASE ClearRows
  BY <1>10 DEF ClearRows
<1>11. CASE Clear
  BY <1>11 DEF Clear
<1>12. CASE NotDue
  BY <1>12 DEF NotDue
<1>13. CASE CheckpointGraph
  BY <1>13 DEF CheckpointGraph
<1>14. CASE CheckpointManifest
  BY <1>14 DEF CheckpointManifest
<1>15. CASE Embed
  BY <1>15 DEF Embed
<1>16. CASE LoopDone
  BY <1>16 DEF LoopDone
<1>17. CASE NothingRead
  BY <1>17 DEF NothingRead, EndPass, NoRun
<1>18. CASE Prune
  <2> DEFINE gone == {f \in Pruned : rows[f] # 0}
  <2>1. /\ rows' = Without(rows, gone) /\ entries' = Without(entries, Pruned)
        /\ graph' = [graph EXCEPT !.node = Without(graph.node, gone)]
        /\ changed' = (changed \/ gone # {})
        /\ pc = "prune" /\ pc' \in {"flush", "applied"}
        /\ UNCHANGED <<saved, item, run, crossed, listed, unread, todo>>
    BY <1>18 DEF Prune
  <2>2. ~changed' => ~changed
    BY <2>1, Zenon
  <2>3. run.resume /\ ~crossed => \A g \in listed :
          rows'[g] = rows[g] /\ entries'[g] = entries[g] /\ graph'.node[g] = graph.node[g]
    BY <2>1, <1>b DEF Without
  <2>4. QED
    BY <2>1, <2>2, <2>3
<1>19. CASE Flush
  BY <1>19 DEF Flush
<1>20. CASE Enrich
  BY <1>20 DEF Enrich
<1>21. CASE SaveGraph
  BY <1>21 DEF SaveGraph
<1>22. CASE SaveManifest
  BY <1>22 DEF SaveManifest
<1>23. CASE Record
  BY <1>23 DEF Record, EndPass, NoRun
<1>24. CASE Applied
  BY <1>24 DEF Applied, EndPass, NoRun
<1>25. CASE CancelFlush
  BY <1>25 DEF CancelFlush
<1>26. CASE CancelGraph
  BY <1>26 DEF CancelGraph
<1>27. CASE CancelManifest
  BY <1>27 DEF CancelManifest
<1>28. CASE Cancelled
  BY <1>28 DEF Cancelled, EndPass, NoRun
<1>29. CASE RemoveVectors
  BY <1>29 DEF RemoveVectors
<1>30. CASE RemoveManifest
  BY <1>30 DEF RemoveManifest
<1>31. CASE RemoveRows
  BY <1>31 DEF RemoveRows, EndPass, NoRun
<1>32. CASE Store
  BY <1>32 DEF Store
<1>33. CASE CheckpointFails
  BY <1>33 DEF CheckpointFails
<1>34. CASE Cancel
  BY <1>34 DEF Cancel
<1>35. CASE NotIndexed
  BY <1>35 DEF NotIndexed, EndPass, NoRun
<1>36. CASE Fail
  BY <1>36 DEF Fail, EndPass, NoRun
<1>37. CASE Crash
  BY <1>37 DEF Crash, EndPass, NoRun
<1>38. CASE Close
  BY <1>38 DEF Close, EndPass, NoRun
<1>39. CASE BeginDeferred
  BY <1>39 DEF BeginDeferred, Start
<1>40. CASE BeginTask
  BY <1>40 DEF BeginTask, Start
<1>41. CASE BeginApply
  BY <1>41 DEF BeginApply, NoRun
<1>42. CASE UNCHANGED vars
  BY <1>42 DEF vars
<1>43. QED
  BY <1>1, <1>2, <1>3, <1>4, <1>5, <1>6, <1>7, <1>8, <1>9, <1>10, <1>11, <1>12,
     <1>13, <1>14, <1>15, <1>16, <1>17, <1>18, <1>19, <1>20, <1>21, <1>22, <1>23, <1>24,
     <1>25, <1>26, <1>27, <1>28, <1>29, <1>30, <1>31, <1>32, <1>33, <1>34, <1>35, <1>36,
     <1>37, <1>38, <1>39, <1>40, <1>41, <1>42
     DEF Next, World, BeginAny, Loop, Advance, Trouble

-----------------------------------------------------------------------------
(* The stores, the working graph and the locals of a pass keep their       *)
(* types, no step of a pass follows the loop while items are left, and the *)
(* item whose chunks are to be embedded has its row: for any source and    *)
(* any interleaving of edits, passes and faults.                           *)
THEOREM TypeCorrect == Spec => []TypeOK
<1>1. QED
  BY InitType, TypeStep, PTL DEF Spec

(* Full passes stay in step in every reachable state.                      *)
LEMMA FullInvariant == Spec => []FullInv
<1>1. Init => FullInv
  BY DEF Init, FullInv, InStep, Embedding, Embedded, Published, Working, Cancelling, Linking, NoRun
<1>2. QED
  BY <1>1, FullStep, TypeCorrect, PTL DEF Spec

(* A full pass that reaches its end leaves rows, published graph, manifest *)
(* and vectors in agreement, made with the current configuration, whatever *)
(* happened before it (sync_source: _clear_source, commit loop, prune,     *)
(* _finalize_index_state).                                                 *)
THEOREM FullPassesAgree == Spec => []FullPassAgrees
<1>1. TypeOK /\ FullInv => FullPassAgrees
  <2> SUFFICES ASSUME TypeOK, FullInv, pc = "record", run.mode = "full", NEW f \in File
               PROVE  Agree(f) /\ (rows[f] # 0 => made[f] = config)
    BY DEF FullPassAgrees
  <2>1. rows = entries /\ graph.node = entries /\ saved = graph /\ manifest = entries
    BY DEF FullInv, InStep, Published, Working
  <2>2. \A v \in vectors : rows[v[1]] # 0 /\ v = <<v[1], rows[v[1]], made[v[1]]>>
    BY DEF FullInv, Embedded
  <2>3. rows[f] # 0 => made[f] = config /\ <<f, rows[f], made[f]>> \in vectors
    BY DEF FullInv, Embedding, Embedded, Working, Linking, TypeOK
  <2>4. {v \in vectors : v[1] = f} = IF manifest[f] = 0 THEN {} ELSE Chunks(f)
    BY <2>1, <2>2, <2>3 DEF Chunks
  <2>5. QED
    BY <2>1, <2>3, <2>4 DEF Agree
<1>2. QED
  BY <1>1, TypeCorrect, FullInvariant, PTL

(* A full pass that is cancelled keeps what it committed: each entry of    *)
(* the manifest it leaves has its row, its node in the published graph and *)
(* its vectors (finish_cancelled).                                         *)
THEOREM CancelsKeepWork == Spec => []CancelKeepsWork
<1>1. TypeOK /\ FullInv => CancelKeepsWork
  <2> SUFFICES ASSUME TypeOK, FullInv, pc = "cancelled", run.mode = "full",
                      NEW f \in File, manifest[f] # 0
               PROVE  rows[f] = manifest[f] /\ saved.node[f] = manifest[f]
                        /\ Chunks(f) \subseteq vectors
    BY DEF CancelKeepsWork
  <2>1. rows = entries /\ graph.node = entries /\ manifest = entries
    BY DEF FullInv, InStep, Published, Cancelling
  <2>2. saved = graph
    BY <2>1 DEF FullInv, Published, Absent
  <2>3. <<f, rows[f], made[f]>> \in vectors
    BY <2>1 DEF FullInv, Embedding, Embedded, Cancelling, Linking, TypeOK
  <2>4. QED
    BY <2>1, <2>2, <2>3 DEF Chunks
<1>2. QED
  BY <1>1, TypeCorrect, FullInvariant, PTL

(* A repair pass that reaches its end has healed every file it could read: *)
(* each that has an entry has its row and a node (_needs_repair).          *)
THEOREM RepairsHeal == Spec => []RepairHeals
<1>1. Init => RepairInv
  BY DEF Init, RepairInv, Working
<1>2. TypeOK /\ RepairInv => RepairHeals
  BY DEF TypeOK, RepairInv, RepairHeals, Working, Finishing
<1>3. QED
  BY <1>1, <1>2, RepairStep, TypeCorrect, PTL DEF Spec

-----------------------------------------------------------------------------
(* The claims of the manifest hold in every behaviour of a source whose    *)
(* contents do not come back.                                              *)
LEMMA ClaimsInvariant == ASSUME ~Reverts PROVE Spec => []ClaimsInv
<1>1. Init => ClaimsInv
  <2> SUFFICES ASSUME Init PROVE ClaimsInv
    OBVIOUS
  <2> USE DEF Init, Absent, NoRun
  <2>1. Bounded
    <3>1. disk \in [File -> Nat]
      <4>1. Content \cup {0} \subseteq Nat
        BY PipelineAssumption
      <4>2. QED
        BY <4>1, InitType DEF TypeOK
    <3>2. QED
      BY <3>1 DEF Bounded, Held
  <2>2. ClaimsHold
    BY DEF ClaimsHold, Sound
  <2>3. SavesInOrder /\ Unlisted /\ ListedKept
    BY DEF SavesInOrder, Unlisted, ListedKept
  <2>4. Regime
    BY DEF Regime, Interrupted, Cancelling
  <2>5. QED
    BY <2>1, <2>2, <2>3, <2>4 DEF ClaimsInv, Handled
<1>2. TypeOK /\ FullInv /\ ClaimsInv /\ [Next]_vars => ClaimsInv'
  BY BoundStep, OrderStep, RegimeStep, ClaimsStep, UnlistedStep, KeptStep, HandledStep
     DEF ClaimsInv, FullInv
<1>3. QED
  BY <1>1, <1>2, TypeCorrect, FullInvariant, PTL DEF Spec

(* Where no pass empties the source first, what an incremental pass skips  *)
(* is in the rows and in the published graph, whatever crashes, failures   *)
(* and cancellations came between the writes (checkpoint_graph).           *)
THEOREM SkipsAreSafe == ASSUME ~Reverts, KeepsIndexed PROVE Spec => []SkipIsSafe
<1>1. TypeOK /\ ClaimsInv => SkipIsSafe
  BY DEF TypeOK, ClaimsInv, ClaimsHold, Assured, Emptied, Sound, SkipIsSafe
<1>2. QED
  BY <1>1, TypeCorrect, ClaimsInvariant, PTL

(* A redelivered full task that resumes leaves what the full pass it       *)
(* stands for would have left: each file it listed and read has the row    *)
(* and the published node of its entry (_apply_index_task).                *)
THEOREM ResumesAreSound == ASSUME ~Reverts PROVE Spec => []ResumeIsSound
<1>1. TypeOK /\ ClaimsInv => ResumeIsSound
  BY DEF TypeOK, ClaimsInv, Handled, Working, Finishing, ResumeIsSound
<1>2. QED
  BY <1>1, TypeCorrect, ClaimsInvariant, PTL
=============================================================================
