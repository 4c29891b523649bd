---------------------------- MODULE SyncPipeline ----------------------------
(***************************************************************************)
(* One source and the process that indexes it: SyncEngine.sync_source and  *)
(* the steps it is made of (sync/engine.py, sync/cancellation.py,          *)
(* sync/vanished.py, sync/archived.py).  The source's write lock is held   *)
(* from Begin to the end of a pass (modules SourceLease and SourceLock),   *)
(* so there is one pass at a time.                                         *)
(*                                                                         *)
(* A file's content, and what a store remembers of it, is the natural      *)
(* number that stands for its sha256; 0 is "not there".  Four stores can   *)
(* disagree about a file: the state rows (artifact, chunks, full text),    *)
(* the published graph, the manifest that decides what a later pass skips, *)
(* and the vectors.  A step ends wherever the code has written one of them *)
(* and not yet the next, so that a crash or an exception can come between. *)
(***************************************************************************)
EXTENDS Naturals, FiniteSets

CONSTANTS File, Content, Config,
          Modes,     \* the operations asked for: sync modes, "remove", "replace"
          Kinds,     \* how a document is held out: "archived", "removed"
          Reverts,   \* may an edit bring an older content back?
          MaxEdits,  \* bound: edits of the source, its archive and its config
          MaxFaults  \* bound: crashes, exceptions, cancellations, unreadable items

SyncModes == {"incremental", "repair", "full"}

ASSUME PipelineAssumption ==
    /\ Content \subseteq Nat \ {0}
    /\ Modes \subseteq SyncModes \cup {"deferred", "task", "apply", "remove", "replace"}
    /\ Kinds \subseteq {"archived", "removed"}
    /\ Reverts \in BOOLEAN
    /\ MaxEdits \in Nat /\ MaxFaults \in Nat

VARIABLES
    disk,      \* the source: what each file holds now
    newest,    \* the latest content of each file, unless contents come back
    held,      \* archived_documents: how each path is held out, or "no"
    archived,  \* history: the files that were ever held out
    config,    \* the configuration the content pipeline runs with
    rows,      \* the state store: the sha of each artifact row
    made,      \*   and the configuration its chunks were made with
    saved,     \* the published graph
    manifest,  \* the persisted manifest
    vectors,   \* the vector store: <<file, sha, config>> of each stored chunk
    scope,     \* sync_fingerprints: where an interrupted full sync was
    fingerprint, \* sync_fingerprints: the config of the last completed pass
    enrichDue, \* sync_fingerprints: enrichment was put off
    graph,     \* engine: the working graph
    dirty,     \* engine: _graph_dirty
    pending,   \* engine: chunks queued for embedding
    pc, run, todo, listed, unread, entries, changed, item, \* the pass
    owed,      \* a full sync task was claimed and is not done yet
    crossed,   \* history: another operation, or a change of the archive, came since,
               \*   or the task found an interrupted full sync of someone else's
    edits, faults

source == <<disk, newest, held, archived, config>>
stores == <<rows, made, saved, manifest, vectors>>
flags  == <<scope, fingerprint, enrichDue>>
engine == <<graph, dirty, pending>>
pass   == <<run, todo, listed, unread, entries, changed, item>>
task   == <<owed, crossed>>
bounds == <<edits, faults>>
vars == <<source, stores, flags, engine, pc, pass, task, bounds>>

Absent == [f \in File |-> 0]
NoGraph == [node |-> Absent, linked |-> TRUE]
NoRun == [mode |-> "none", resume |-> FALSE, tasked |-> FALSE, deferred |-> FALSE]
Without(store, gone) == [f \in File |-> IF f \in gone THEN 0 ELSE store[f]]
Held == {f \in File : held[f] # "no"}

Init ==
    /\ disk \in [File -> {0} \cup {c \in Content : \A d \in Content : c <= d}]
    /\ newest = disk
    /\ held = [f \in File |-> "no"]
    /\ archived = {}
    /\ config \in Config
    /\ rows = Absent
    /\ made = [f \in File |-> config]
    /\ saved = NoGraph
    /\ manifest = Absent
    /\ vectors = {}
    /\ scope = "none"
    /\ fingerprint = {}
    /\ enrichDue = FALSE
    /\ graph = NoGraph
    /\ dirty = FALSE
    /\ pending = {}
    /\ pc = "idle"
    /\ run = NoRun
    /\ todo = {} /\ listed = {} /\ unread = {}
    /\ entries = Absent
    /\ changed = FALSE
    /\ item = {}
    /\ owed = FALSE /\ crossed = FALSE
    /\ edits = 0 /\ faults = 0

\* History: something begins while a full task waits to be redelivered.
Crosses == crossed' = (crossed \/ owed) /\ UNCHANGED owed

-----------------------------------------------------------------------------
(* The world outside the engine.                                           *)

\* A file is written, created (disk[f] = 0 before) or deleted (c = 0).
Edit(f, c) ==
    /\ edits < MaxEdits
    /\ c # disk[f]
    /\ Reverts \/ c = 0 \/ c > newest[f]
    /\ disk' = [disk EXCEPT ![f] = c]
    /\ newest' = [newest EXCEPT ![f] = IF ~Reverts /\ c # 0 THEN c ELSE @]
    /\ edits' = edits + 1
    /\ UNCHANGED <<held, archived, config, stores, flags, engine, pc, pass, task, faults>>

\* archive.add, archive.remove: a row the next step of a sync consults.
Hold(f, kind) ==
    /\ edits < MaxEdits
    /\ Kinds # {}
    /\ kind # held[f]
    /\ held' = [held EXCEPT ![f] = kind]
    /\ archived' = archived \cup {f}
    /\ edits' = edits + 1
    /\ Crosses
    /\ UNCHANGED <<disk, newest, config, stores, flags, engine, pc, pass, faults>>

\* The operator edits globs or chunking: in force from the next pass on.
Configure(k) ==
    /\ edits < MaxEdits
    /\ pc = "idle"
    /\ k # config
    /\ config' = k
    /\ edits' = edits + 1
    /\ UNCHANGED <<disk, newest, held, archived, stores, flags, engine, pc, pass, task, faults>>

-----------------------------------------------------------------------------
(* Beginning a pass.                                                       *)

Goto(label) == pc' = label

\* The task that asked for the pass, if any, is done.
TaskSettled ==
    /\ owed' = (owed /\ ~run.tasked)
    /\ crossed' = (crossed /\ ~run.tasked)

\* The pass is over; its locals are gone.
EndPass ==
    /\ Goto("idle")
    /\ run' = NoRun
    /\ todo' = {} /\ listed' = {} /\ unread' = {}
    /\ entries' = Absent
    /\ changed' = FALSE
    /\ item' = {}

\* A config edit turns the cheap modes into a full pass, but not the resumption
\* of an interrupted full sync.
Escalates(mode, resume) ==
    /\ fingerprint # {} /\ fingerprint # {config}
    /\ mode \in {"incremental", "repair"}
    /\ ~resume

\* sync_source up to the manifest load, for a sync asked for directly or by a
\* task of that mode.
Start(mode, resume, tasked, deferred) ==
    /\ pc = "idle"
    /\ run' = [mode |-> IF Escalates(mode, resume) THEN "full" ELSE mode,
               resume |-> resume, tasked |-> tasked, deferred |-> deferred]
    /\ entries' = manifest
    /\ Goto("list")
    /\ UNCHANGED <<source, stores, flags, engine, todo, listed, unread, changed, item, bounds>>

Begin(mode) ==
    /\ mode \in Modes \cap SyncModes
    /\ Start(mode, FALSE, FALSE, FALSE)
    /\ IF mode = "full" THEN UNCHANGED task ELSE Crosses

\* The memory write path: incremental, with enrichment put off.
BeginDeferred ==
    /\ "deferred" \in Modes
    /\ Start("incremental", FALSE, FALSE, TRUE)
    /\ Crosses

ResumesAnyAttempt == owed
\* A redelivered full task resumes from what its predecessor checkpointed.
Resumes == owed /\ scope = "checkpointed"

\* _apply_index_task with a full sync.  owed: this is not the first attempt.
BeginTask ==
    /\ "task" \in Modes
    /\ Start(IF Resumes THEN "incremental" ELSE "full", Resumes, TRUE, FALSE)
    /\ owed' = TRUE
    /\ crossed' = (crossed \/ (~owed /\ scope # "none"))

\* archived.apply: take out what is held now, without a listing.
BeginApply ==
    /\ "apply" \in Modes
    /\ pc = "idle"
    /\ run' = [NoRun EXCEPT !.mode = "apply"]
    /\ entries' = manifest
    /\ Goto("prune")
    /\ UNCHANGED <<source, stores, flags, engine, todo, listed, unread, changed, item, task,
                   bounds>>

\* The source cannot be listed: path_missing, limit_exceeded, remote_error.
NotIndexed ==
    /\ pc = "list"
    /\ faults < MaxFaults
    /\ faults' = faults + 1
    /\ EndPass
    /\ TaskSettled
    /\ scope' = IF run.resume THEN "none" ELSE scope
    /\ UNCHANGED <<source, stores, fingerprint, enrichDue, engine, edits>>

\* What the connector lists, less what is held out (archived.admit).
Admitted == {f \in File : disk[f] # 0} \ Held

\* list_items and admit, for the modes that keep what is indexed.
List ==
    /\ pc = "list"
    /\ run.mode # "full"
    /\ listed' = Admitted
    /\ todo' = Admitted
    /\ Goto("loop")
    /\ UNCHANGED <<source, stores, flags, engine, run, unread, entries, changed, item, task, bounds>>

\* A full pass empties the source first: the rows in the state store, the
\* nodes in the working graph and the entries in memory.  The published graph
\* and the persisted manifest stay as they are.
ClearRows ==
    /\ pc = "list"
    /\ run.mode = "full"
    /\ scope' = "starting"
    /\ rows' = Absent
    /\ Goto("clear")
    /\ UNCHANGED <<source, made, saved, manifest, vectors, fingerprint, enrichDue, engine,
                   pass, task, bounds>>

Clear ==
    /\ pc = "clear"
    /\ graph' = [graph EXCEPT !.node = Absent]
    /\ scope' = "cleared"
    /\ entries' = Absent
    /\ listed' = Admitted
    /\ todo' = Admitted
    /\ Goto("loop")
    /\ UNCHANGED <<source, stores, fingerprint, enrichDue, dirty, pending, run, unread,
                   changed, item, task, bounds>>

-----------------------------------------------------------------------------
(* The commit loop.                                                        *)

NeedsRepairByManifest(f) == entries[f] # disk[f]
\* _needs_repair, less the chunk count.
NeedsRepair(f) ==
    \/ entries[f] # disk[f]
    \/ rows[f] # disk[f]
    \/ graph.node[f] = 0

SkipsByRow(f) == run.mode # "full" /\ rows[f] = disk[f]
\* _prepare_item: an unchanged file needs no work.
Skips(f) ==
    \/ run.mode = "incremental" /\ entries[f] = disk[f]
    \/ run.mode = "repair" /\ ~NeedsRepair(f)

Skip(f) ==
    /\ pc = "loop" /\ f \in todo
    /\ disk[f] # 0
    /\ Skips(f)
    /\ todo' = todo \ {f}
    /\ UNCHANGED <<source, stores, flags, engine, pc, run, listed, unread, entries, changed,
                   item, task, bounds>>

\* read_item raises: the file went after the listing, or could not be read.
Unreadable(f) ==
    /\ pc = "loop" /\ f \in todo
    /\ disk[f] = 0 \/ faults < MaxFaults
    /\ todo' = todo \ {f}
    /\ unread' = unread \cup {f}
    /\ faults' = IF disk[f] = 0 THEN faults ELSE faults + 1
    /\ UNCHANGED <<source, stores, flags, engine, pc, run, listed, entries, changed, item,
                   task, edits>>

\* Rows, working graph and entry, under the commit mutex.
Commit(f) ==
    /\ pc = "loop" /\ f \in todo
    /\ disk[f] # 0
    /\ ~Skips(f)
    /\ todo' = todo \ {f}
    /\ item' = {f}
    /\ rows' = [rows EXCEPT ![f] = disk[f]]
    /\ made' = [made EXCEPT ![f] = config]
    /\ graph' = [node |-> [graph.node EXCEPT ![f] = disk[f]], linked |-> FALSE]
    /\ dirty' = TRUE
    /\ entries' = [entries EXCEPT ![f] = disk[f]]
    /\ Goto("committed")
    /\ UNCHANGED <<source, saved, manifest, vectors, flags, pending, run, listed, unread,
                   changed, task, bounds>>

\* _maybe_checkpoint: not due yet.
NotDue ==
    /\ pc = "committed"
    /\ Goto("embed")
    /\ UNCHANGED <<source, stores, flags, engine, pass, task, bounds>>

CheckpointManifestFirst ==
    /\ pc = "committed"
    /\ manifest' = entries
    /\ Goto("checkpoint")
    /\ UNCHANGED <<source, rows, made, saved, vectors, flags, engine, pass, task, bounds>>
\* checkpoint_graph: the graph first ...
CheckpointGraph ==
    /\ pc = "committed"
    /\ saved' = graph
    /\ Goto("checkpoint")
    /\ UNCHANGED <<source, rows, made, manifest, vectors, flags, engine, pass, task, bounds>>

\* ... then the manifest, and how far a full sync got.
CheckpointManifest ==
    /\ pc = "checkpoint"
    /\ manifest' = entries
    /\ scope' = IF scope \in {"starting", "cleared"} THEN "checkpointed" ELSE scope
    /\ dirty' = FALSE
    /\ Goto("embed")
    /\ UNCHANGED <<source, rows, made, saved, vectors, fingerprint, enrichDue, graph, pending,
                   pass, task, bounds>>

\* A checkpoint hiccup does not fail the sync.
CheckpointFails ==
    /\ pc = "checkpoint"
    /\ faults < MaxFaults
    /\ faults' = faults + 1
    /\ Goto("embed")
    /\ UNCHANGED <<source, stores, flags, engine, pass, task, edits>>

Chunks(f) == {<<f, rows[f], made[f]>>}

ItemChunks == UNION {Chunks(f) : f \in item}

\* index_artifact: chunks the store does not hold are queued.
Embed ==
    /\ pc = "embed"
    /\ pending' = pending \cup (ItemChunks \ vectors)
    /\ changed' = TRUE
    /\ item' = {}
    /\ Goto("loop")
    /\ UNCHANGED <<source, stores, flags, graph, dirty, run, todo, listed, unread, entries,
                   task, bounds>>

\* A background batch lands.
Store ==
    /\ pending # {}
    /\ vectors' = vectors \cup pending
    /\ pending' = {}
    /\ UNCHANGED <<source, rows, made, saved, manifest, flags, graph, dirty, pc, pass, task,
                   bounds>>

\* The loop is done and could read something (require_some_read).
LoopDone ==
    /\ pc = "loop" /\ todo = {}
    /\ unread = {} \/ unread # listed
    /\ Goto("prune")
    /\ UNCHANGED <<source, stores, flags, engine, pass, task, bounds>>

\* require_some_read raises: none of the items could be read.
NothingRead ==
    /\ pc = "loop" /\ todo = {}
    /\ unread # {} /\ unread = listed
    /\ EndPass
    /\ UNCHANGED <<source, stores, flags, engine, task, bounds>>

-----------------------------------------------------------------------------
(* Finishing a pass.                                                       *)

\* prune_vanished: what the manifest has and a listing, unless empty, lacks.
Vanished == IF listed = {} THEN {} ELSE {f \in File : entries[f] # 0} \ listed

PrunedIfClaimed == {f \in Held : entries[f] # 0} \cup Vanished
\* What leaves: every held path, whatever the manifest knows of it.
Pruned == Held \cup Vanished

\* archived.prune, then prune_vanished.  Rows and nodes are removed for the
\* artifacts that still have a row; a removed upload loses its bytes and its
\* archive row.
Prune ==
    LET gone == {f \in Pruned : rows[f] # 0}
        uploads == {f \in File : held[f] = "removed"}
    IN  /\ pc = "prune"
        /\ rows' = Without(rows, gone)
        /\ graph' = [graph EXCEPT !.node = Without(@, gone)]
        /\ entries' = Without(entries, Pruned)
        /\ changed' = (changed \/ gone # {})
        /\ disk' = Without(disk, uploads)
        /\ held' = [f \in File |-> IF f \in uploads THEN "no" ELSE held[f]]
        /\ Goto(IF run.mode = "apply" /\ gone = {} THEN "applied" ELSE "flush")
        /\ UNCHANGED <<newest, archived, config, made, saved, manifest, vectors, flags, dirty,
                       pending, run, todo, listed, unread, item, task, bounds>>

FlushNothing ==
    /\ pc = "flush"
    /\ Goto("enrich")
    /\ UNCHANGED <<source, stores, flags, engine, pass, task, bounds>>
\* _finalize_index_state: vectors.flush() returns when nothing is pending.
Flush ==
    /\ pc = "flush"
    /\ vectors' = vectors \cup pending
    /\ pending' = {}
    /\ Goto("enrich")
    /\ UNCHANGED <<source, rows, made, saved, manifest, flags, graph, dirty, pass, task, bounds>>

\* The vectors whose chunk row is gone are pruned.
Live == {v \in vectors : rows[v[1]] # 0 /\ v \in Chunks(v[1])}

Enriches == changed \/ run.mode = "full" \/ enrichDue

\* Prune the vectors and link the graph, or put the linking off.
Enrich ==
    /\ pc = "enrich"
    /\ vectors' = Live
    /\ IF run.deferred
       THEN /\ enrichDue' = (enrichDue \/ changed)
            /\ UNCHANGED graph
       ELSE /\ enrichDue' = (enrichDue /\ ~Enriches)
            /\ graph' = [graph EXCEPT !.linked = @ \/ Enriches]
    /\ Goto("save")
    /\ UNCHANGED <<source, rows, made, saved, manifest, scope, fingerprint, dirty, pending,
                   pass, task, bounds>>

\* The graph is published only if this pass changed it.
SaveGraph ==
    /\ pc = "save"
    /\ IF changed \/ run.mode = "full"
       THEN saved' = graph /\ dirty' = FALSE
       ELSE UNCHANGED <<saved, dirty>>
    /\ Goto("claim")
    /\ UNCHANGED <<source, rows, made, manifest, vectors, flags, graph, pending, pass, task,
                   bounds>>

\* manifests.save, after the graph.
SaveManifest ==
    /\ pc = "claim"
    /\ manifest' = entries
    /\ Goto(IF run.mode = "apply" THEN "applied" ELSE "record")
    /\ UNCHANGED <<source, rows, made, saved, vectors, flags, engine, pass, task, bounds>>

\* Only now is the pass remembered as done with this config.
Record ==
    /\ pc = "record"
    /\ fingerprint' = {config}
    /\ scope' = IF run.mode = "full" \/ run.resume THEN "none" ELSE scope
    /\ TaskSettled
    /\ EndPass
    /\ UNCHANGED <<source, stores, enrichDue, engine, bounds>>

\* archived.apply records nothing about the pass.
Applied ==
    /\ pc = "applied"
    /\ EndPass
    /\ UNCHANGED <<source, stores, flags, engine, task, bounds>>

-----------------------------------------------------------------------------
(* Cancelling a pass (cancellation.py): checked before an item is handed   *)
(* out, so only while there is one.                                        *)

\* The run finds cancel_requested_at in its row.
Cancel ==
    /\ pc = "loop" /\ todo # {}
    /\ faults < MaxFaults
    /\ faults' = faults + 1
    /\ Goto("cancel")
    /\ UNCHANGED <<source, stores, flags, engine, pass, task, edits>>

\* finish_cancelled: what is queued for embedding lands first ...
CancelFlush ==
    /\ pc = "cancel"
    /\ vectors' = vectors \cup pending
    /\ pending' = {}
    /\ Goto("cancelgraph")
    /\ UNCHANGED <<source, rows, made, saved, manifest, flags, graph, dirty, pass, task, bounds>>

CancelGraphNever ==
    /\ pc = "cancelgraph"
    /\ UNCHANGED <<saved, dirty, enrichDue>>
    /\ Goto("cancelclaim")
    /\ UNCHANGED <<source, rows, made, manifest, vectors, scope, fingerprint, graph, pending,
                   pass, task, bounds>>
\* ... then the graph, if the pass committed anything ...
CancelGraph ==
    /\ pc = "cancelgraph"
    /\ IF changed
       THEN saved' = graph /\ dirty' = FALSE /\ enrichDue' = TRUE
       ELSE UNCHANGED <<saved, dirty, enrichDue>>
    /\ Goto("cancelclaim")
    /\ UNCHANGED <<source, rows, made, manifest, vectors, scope, fingerprint, graph, pending,
                   pass, task, bounds>>

\* ... and last the manifest.
CancelManifest ==
    /\ pc = "cancelclaim"
    /\ manifest' = entries
    /\ Goto("cancelled")
    /\ UNCHANGED <<source, rows, made, saved, vectors, flags, engine, pass, task, bounds>>

\* The task that asked for the pass is settled like any other.
Cancelled ==
    /\ pc = "cancelled"
    /\ scope' = IF run.resume THEN "none" ELSE scope
    /\ TaskSettled
    /\ EndPass
    /\ UNCHANGED <<source, stores, fingerprint, enrichDue, engine, bounds>>

-----------------------------------------------------------------------------
(* Removing a source, and replacing its configuration.                     *)

\* The graph is published without the source ...
Remove(mode) ==
    /\ pc = "idle"
    /\ mode \in Modes \cap {"remove", "replace"}
    /\ graph' = [graph EXCEPT !.node = Absent]
    /\ saved' = graph'
    /\ run' = [NoRun EXCEPT !.mode = mode]
    /\ Goto(IF mode = "remove" THEN "unembed" ELSE "disclaim")
    /\ UNCHANGED <<source, rows, made, manifest, vectors, flags, dirty, pending, todo, listed,
                   unread, entries, changed, item, bounds>>
    /\ Crosses

\* ... its vectors go, and what was still queued is embedded ...
RemoveVectors ==
    /\ pc = "unembed"
    /\ vectors' = pending
    /\ pending' = {}
    /\ Goto("disclaim")
    /\ UNCHANGED <<source, rows, made, saved, manifest, flags, graph, dirty, pass, task, bounds>>

\* ... then the manifest ...
RemoveManifest ==
    /\ pc = "disclaim"
    /\ manifest' = Absent
    /\ Goto("unrow")
    /\ UNCHANGED <<source, rows, made, saved, vectors, flags, engine, pass, task, bounds>>

\* ... and the rows, with the archive rows of a source that is removed.
RemoveRows ==
    /\ pc = "unrow"
    /\ rows' = Absent
    /\ held' = IF run.mode = "remove" THEN [f \in File |-> "no"] ELSE held
    /\ EndPass
    /\ UNCHANGED <<disk, newest, archived, config, made, saved, manifest, vectors, flags,
                   engine, task, bounds>>

-----------------------------------------------------------------------------
(* Failure.                                                                *)

\* An exception ends the pass; the engine lives on with its working graph and
\* with what is queued for embedding.
Fail ==
    /\ pc # "idle"
    /\ faults < MaxFaults
    /\ faults' = faults + 1
    /\ EndPass
    /\ UNCHANGED <<source, stores, flags, engine, task, edits>>

\* The process is killed: the next engine starts from what was published.
Crash ==
    /\ faults < MaxFaults
    /\ faults' = faults + 1
    /\ graph' = saved
    /\ dirty' = FALSE
    /\ pending' = {}
    /\ EndPass
    /\ UNCHANGED <<source, stores, flags, task, edits>>

\* close() on the server's shutdown path, whatever the pass was doing: the
\* graph if dirty, then the vectors; the manifest is not saved.
Close ==
    /\ faults < MaxFaults
    /\ faults' = faults + 1
    /\ saved' = IF dirty THEN graph ELSE saved
    /\ graph' = saved'
    /\ dirty' = FALSE
    /\ vectors' = vectors \cup pending
    /\ pending' = {}
    /\ EndPass
    /\ UNCHANGED <<source, rows, made, manifest, flags, task, edits>>

-----------------------------------------------------------------------------
World ==
    \/ \E f \in File, c \in Content \cup {0} : Edit(f, c)
    \/ \E f \in File, kind \in Kinds \cup {"no"} : Hold(f, kind)
    \/ \E k \in Config : Configure(k)

BeginAny ==
    \/ \E mode \in SyncModes : Begin(mode)
    \/ BeginDeferred \/ BeginTask \/ BeginApply
    \/ \E mode \in {"remove", "replace"} : Remove(mode)

Loop == \E f \in File : Skip(f) \/ Unreadable(f) \/ Commit(f)

Advance ==
    \/ List \/ ClearRows \/ Clear \/ Loop
    \/ NotDue \/ CheckpointGraph \/ CheckpointManifest \/ Embed \/ LoopDone
    \/ NothingRead
    \/ Prune \/ Flush \/ Enrich \/ SaveGraph \/ SaveManifest \/ Record
    \/ Applied
    \/ CancelFlush \/ CancelGraph \/ CancelManifest \/ Cancelled
    \/ RemoveVectors \/ RemoveManifest \/ RemoveRows

Trouble == CheckpointFails \/ Cancel \/ NotIndexed \/ Fail \/ Crash \/ Close

Next == World \/ BeginAny \/ Advance \/ Store \/ Trouble

Spec == Init /\ [][Next]_vars

\* A pass that runs goes on, and the scheduler begins another when one ends.
FairSpec == Spec /\ WF_vars(Advance) /\ WF_vars(BeginAny)

-----------------------------------------------------------------------------
Graph == [node: [File -> Content \cup {0}], linked: BOOLEAN]
Labels == {"idle", "list", "clear", "loop", "committed", "checkpoint", "embed", "prune",
           "flush", "enrich", "save", "claim", "record", "applied", "cancel", "cancelgraph",
           "cancelclaim", "cancelled", "unembed", "disclaim", "unrow"}

Finishing == {"prune", "flush", "enrich", "save", "claim", "record"}

\* Types; a pass that is finishing has handled every item it listed, and the
\* item between its commit and its embedding has a row.
TypeOK ==
    /\ disk \in [File -> Content \cup {0}]
    /\ newest \in [File -> Content \cup {0}]
    /\ held \in [File -> Kinds \cup {"no"}] /\ archived \subseteq File
    /\ config \in Config
    /\ rows \in [File -> Content \cup {0}]
    /\ made \in [File -> Config]
    /\ saved \in Graph /\ graph \in Graph
    /\ manifest \in [File -> Content \cup {0}]
    /\ vectors \subseteq File \X Content \X Config
    /\ pending \subseteq File \X Content \X Config
    /\ scope \in {"none", "starting", "cleared", "checkpointed"}
    /\ fingerprint \subseteq Config
    /\ enrichDue \in BOOLEAN /\ dirty \in BOOLEAN
    /\ pc \in Labels
    /\ run \in [mode: SyncModes \cup {"none", "apply", "remove", "replace"},
               resume: BOOLEAN, tasked: BOOLEAN, deferred: BOOLEAN]
    /\ todo \subseteq listed /\ listed \subseteq File /\ unread \subseteq listed \ todo
    /\ pc \in {"idle", "list", "clear"} => listed = {}
    /\ pc \in Finishing => todo = {}
    /\ pc \in {"committed", "checkpoint", "embed"} <=> item # {}
    /\ entries \in [File -> Content \cup {0}]
    /\ changed \in BOOLEAN /\ owed \in BOOLEAN /\ crossed \in BOOLEAN
    /\ item \subseteq {f \in File : rows[f] # 0}
    /\ edits \in 0..MaxEdits /\ faults \in 0..MaxFaults

(* What an incremental pass would skip is indexed: a file whose manifest   *)
(* entry matches its content has that content in its row and in the        *)
(* published graph.  (checkpoint_graph: "the inverse order could make an   *)
(* incremental scan skip content whose graph generation was never          *)
(* published".)  Stated for passes that do not empty the source first, for *)
(* sources whose contents do not come back and documents never held out.   *)
SkipIsSafe ==
    \A f \in File \ archived :
        disk[f] # 0 /\ manifest[f] = disk[f] =>
            rows[f] = disk[f] /\ saved.node[f] = disk[f]

\* The stores agree on f: its row, its node, its entry and its vectors.
Agree(f) ==
    /\ rows[f] = manifest[f]
    /\ saved.node[f] = manifest[f]
    /\ {v \in vectors : v[1] = f} = IF manifest[f] = 0 THEN {} ELSE Chunks(f)

(* A full pass that reaches its end leaves the four stores in agreement,   *)
(* with chunks made by the current configuration, whatever crashes,        *)
(* exceptions, cancellations and reverted edits came before it.            *)
FullPassAgrees ==
    pc = "record" /\ run.mode = "full" =>
        \A f \in File : Agree(f) /\ (rows[f] # 0 => made[f] = config)

(* A full pass that is cancelled keeps everything it committed: what it    *)
(* read is in the rows, the published graph, the manifest and the vectors, *)
(* so that the next incremental pass skips it rightly.                     *)
CancelKeepsWork ==
    pc = "cancelled" /\ run.mode = "full" =>
        \A f \in File : manifest[f] # 0 =>
            /\ rows[f] = manifest[f]
            /\ saved.node[f] = manifest[f]
            /\ Chunks(f) \subseteq vectors

(* A repair pass heals the rows: whatever was interrupted before, each     *)
(* file it could read has its row and a node of the graph when it ends.    *)
RepairHeals ==
    pc = "record" /\ run.mode = "repair" =>
        \A f \in listed \ unread :
            entries[f] # 0 => rows[f] = entries[f] /\ graph.node[f] # 0

(* A redelivered full task that resumes is as good as the full pass it     *)
(* stands for: what it lists and skips was committed by its predecessor,   *)
(* never left over from before that one emptied the source                 *)
(* ("Resuming interrupted full sync as a content-addressed delta pass").   *)
(* For sources whose contents do not come back: a failed resumption leaves *)
(* a row newer than the manifest, which a reverted edit would make match.  *)
ResumeIsSound ==
    pc = "record" /\ run.resume /\ ~crossed =>
        \A f \in listed \ unread :
            rows[f] = entries[f] /\ saved.node[f] = entries[f]

(* Passes that only ever skip and commit catch up with the source: however *)
(* often they are interrupted, each file that is there comes to be in the  *)
(* rows, the published graph and the manifest with its current content.    *)
(* Documents never held out, as above.                                     *)
(* ("an incremental resync converges to the uninterrupted-run state",      *)
(* test_crash_safety.)                                                     *)
Converges ==
    []<>(\A f \in File \ archived : disk[f] # 0 =>
            rows[f] = disk[f] /\ saved.node[f] = disk[f] /\ manifest[f] = disk[f])

(* A document that is held out leaves the index, whenever it was archived  *)
(* ("a document archived while this sync was running is removed when it    *)
(* finishes", archived.prune).                                             *)
ArchivedLeaves ==
    \A f \in File : held[f] # "no" /\ rows[f] # 0 ~> (rows[f] = 0 \/ held[f] = "no")

-----------------------------------------------------------------------------
(* What the repository says and the code does not do.                      *)

\* What a pass that ends healthy did with its listing.
Finished(f) == pc = "record" /\ f \in listed \ unread

(* "Only two things can be stale" after a restart (startup), "the next     *)
(* sync of source_id reads them again" (archive.remove): a file that a     *)
(* completed pass listed, read and did not prune has its row.              *)
HealthyIsComplete ==
    \A f \in File : Finished(f) /\ entries[f] # 0 => rows[f] = entries[f]

(* "The source would then record its manifest while its vectors were still *)
(* out, and a crash in that window leaves chunks no incremental sync ever  *)
(* re-embeds" (VectorIndexer): a completed pass leaves no row without its  *)
(* vectors.                                                                *)
RowsAreEmbedded ==
    \A f \in File : Finished(f) /\ rows[f] # 0 => Chunks(f) \subseteq vectors

(* "a path the manifest records and the listing lacks is a file that was   *)
(* deleted, and it is removed here" (vanished): after a completed pass     *)
(* whose listing was not empty, only listed files are served.              *)
DeletedIsGone ==
    pc = "record" /\ listed # {} =>
        \A f \in File \ listed : rows[f] = 0 /\ saved.node[f] = 0

(* "The next enrich=now pass over the source runs enrichment and clears    *)
(* the flag, even if that pass itself finds nothing new to index"          *)
(* (sync_source): what it links is in the graph the region publishes.      *)
LinksArePublished ==
    pc = "record" /\ ~run.deferred => saved.linked \/ enrichDue

(* "a config edit that changes what the content pipeline produces must     *)
(* [re-index]" (sync_source): a completed pass leaves only chunks made     *)
(* with the configuration it records.                                      *)
ConfigApplied ==
    \A f \in File : Finished(f) /\ rows[f] # 0 => made[f] = config

(* "Prune vectors after graph publication so retries finish cleanup"       *)
(* (remove_source): a removed source has no vectors left.                  *)
RemovedIsGone == pc = "unrow" /\ run.mode = "remove" => vectors = {}

(* "the graph and the chunks it describes now land in one transaction"     *)
(* (graph_rows): between passes the published graph and the rows agree.    *)
NodesLandWithRows == pc = "idle" => saved.node = rows
=============================================================================
