----------------------------- MODULE GraphCommit -----------------------------
(***************************************************************************)
(* How the knowledge graph reaches the state store: the in-memory graph    *)
(* and the record of what it owes the store (graph/simple.py), the rows,   *)
(* the aggregates maintained beside them and the published generation      *)
(* (persistence/graph_store.py, graph_rows.py), and the derived node index *)
(* (search/node_index.py) with the delta it is fed from.                   *)
(*                                                                         *)
(* A node is its id and one of a few contents; an edge is an endpoint pair *)
(* and a kind, parallel edges being several kinds of one pair.  A digest   *)
(* stands for the row it is made of, so an XOR fold is a set: adding a     *)
(* digest twice takes it out again.  The knowledge base's own node is left *)
(* out: it is there from the start, is in the first delta and never goes,  *)
(* so that the store is empty until the first save and never after it.     *)
(***************************************************************************)
EXTENDS Naturals, FiniteSets

CONSTANTS Node, Content, Absent,
          Pair,       \* the endpoint pairs that may be linked
          Kind,       \* types of parallel edges
          Source,     \* the sources, each the set of its nodes; a node may have none
          Overlap     \* whether another thread mutates while a save runs

ASSUME GraphAssumption ==
    /\ IsFiniteSet(Node) /\ IsFiniteSet(Content) /\ IsFiniteSet(Kind)
    /\ Absent \notin Content
    /\ Pair \subseteq Node \X Node
    /\ Source \subseteq SUBSET Node
    /\ Overlap \in BOOLEAN

VARIABLES
    \* the graph in memory, and what it owes the store and the index
    nodes, edges,
    pendingNodes, removedNodes, pendingPairs, removedPairs,
    dirtyNodes, droppedNodes,
    \* the state store: whether it is empty, rows, aggregates, published generation
    fresh, savedNodes, savedEdges,
    nodeFold, edgeFold, nodeCount, edgeCount, generation,
    \* the ids that the node index holds; their text is compared with nothing
    index,
    \* the thread that saves: where it is, and the delta it has read
    phase, delta

graph  == <<nodes, edges>>
owed   == <<pendingNodes, removedNodes, pendingPairs, removedPairs>>
feed   == <<dirtyNodes, droppedNodes>>
rows   == <<fresh, savedNodes, savedEdges, nodeFold, edgeFold, nodeCount, edgeCount>>
saver  == <<phase, delta>>
vars   == <<graph, owed, feed, rows, generation, index, saver>>

Phases == {"idle", "flushed", "read", "applied", "cleared", "published"}

NoDelta == [nodeUpserts |-> {}, nodeRemovals |-> {},
            edgeUpserts |-> {}, edgeRemovals |-> {}]

Held(f)        == {n \in Node : f[n] # Absent}
NodeRows(f)    == {<<n, f[n]>> : n \in Held(f)}
Touching(E, S) == {e \in E : e[1][1] \in S \/ e[1][2] \in S}
OfPairs(E, P)  == {e \in E : e[1] \in P}
Kinds(E, p)    == {e[2] : e \in OfPairs(E, {p})}
Xor(A, B)      == (A \ B) \cup (B \ A)

\* Label of the rows: publish() digests the folds and the counts.
Label(nf, ef, nc, ec) == [nodes |-> nf, edges |-> ef, n |-> nc, e |-> ec]

Init ==
    /\ nodes = [n \in Node |-> Absent] /\ edges = {}
    /\ pendingNodes = {} /\ removedNodes = {}
    /\ pendingPairs = {} /\ removedPairs = {}
    /\ dirtyNodes = {} /\ droppedNodes = {}
    /\ fresh = TRUE /\ savedNodes = [n \in Node |-> Absent] /\ savedEdges = {}
    /\ nodeFold = {} /\ edgeFold = {} /\ nodeCount = 0 /\ edgeCount = 0
    /\ generation = Label({}, {}, 0, 0)
    /\ index = {}
    /\ phase = "idle" /\ delta = NoDelta

-----------------------------------------------------------------------------
(* Mutations.  Those of the engine hold the commit mutex, hence run between*)
(* saves; memory maintenance mutates from its own thread without it.       *)
MayMutate == phase = "idle" \/ Overlap

AddNodeForgettingRemoval(n, c) ==
    /\ MayMutate
    /\ nodes' = [nodes EXCEPT ![n] = c]
    /\ pendingNodes' = pendingNodes \cup {n}
    /\ removedNodes' = removedNodes \ {n}
    /\ dirtyNodes' = dirtyNodes \cup {n}
    /\ droppedNodes' = droppedNodes \ {n}
    /\ UNCHANGED <<edges, pendingPairs, removedPairs, rows, generation, index, saver>>
\* add_node(): the removal of a node that comes back is still owed.
AddNode(n, c) ==
    /\ MayMutate
    /\ nodes' = [nodes EXCEPT ![n] = c]
    /\ pendingNodes' = pendingNodes \cup {n}
    /\ dirtyNodes' = dirtyNodes \cup {n}
    /\ droppedNodes' = droppedNodes \ {n}
    /\ UNCHANGED <<edges, removedNodes, pendingPairs, removedPairs, rows,
                   generation, index, saver>>

\* The pair owes a write: all its parallel edges are replaced.
Owe(p) ==
    /\ pendingPairs' = pendingPairs \cup {p}
    /\ removedPairs' = removedPairs \ {p}

\* add_edge(): whether the ends are in the graph is not asked; the memory
\* bridge links ids that it read from other tables.
AddEdge(p, k) ==
    /\ MayMutate
    /\ <<p, k>> \notin edges
    /\ edges' = edges \cup {<<p, k>>}
    /\ Owe(p)
    /\ UNCHANGED <<nodes, pendingNodes, removedNodes, feed, rows, generation,
                   index, saver>>

\* upsert_edge() of an existing edge: changed in place, then touch_edge().
ChangeEdge(p, k, l) ==
    /\ MayMutate
    /\ <<p, k>> \in edges /\ <<p, l>> \notin edges
    /\ edges' = (edges \ {<<p, k>>}) \cup {<<p, l>>}
    /\ Owe(p)
    /\ UNCHANGED <<nodes, pendingNodes, removedNodes, feed, rows, generation,
                   index, saver>>

\* remove_nodes_from(), of nodes its callers found in the graph: the edges on
\* both sides go with the nodes, and the store is owed the node removals only.
RemoveNodes(S) ==
    LET lost == Touching(edges, S)
    IN  /\ MayMutate
        /\ S # {} /\ S \subseteq Held(nodes)
        /\ nodes' = [n \in Node |-> IF n \in S THEN Absent ELSE nodes[n]]
        /\ edges' = edges \ lost
        /\ pendingNodes' = pendingNodes \ S
        /\ removedNodes' = removedNodes \cup S
        /\ pendingPairs' = pendingPairs \ {e[1] : e \in lost}
        /\ dirtyNodes' = dirtyNodes \ S
        /\ droppedNodes' = droppedNodes \cup S
        /\ UNCHANGED <<removedPairs, rows, generation, index, saver>>

\* remove_edges_where(): the kinds K of one pair; the survivors are rewritten.
\* With all its kinds this is remove_edges_from().
RemoveEdges(p, K) ==
    LET kept == Kinds(edges, p) \ K IN
    /\ MayMutate
    /\ Kinds(edges, p) \cap K # {}
    /\ edges' = edges \ {<<p, k>> : k \in K}
    /\ \/ kept # {} /\ Owe(p)
       \/ /\ kept = {}
          /\ pendingPairs' = pendingPairs \ {p}
          /\ removedPairs' = removedPairs \cup {p}
    /\ UNCHANGED <<nodes, pendingNodes, removedNodes, feed, rows, generation,
                   index, saver>>

-----------------------------------------------------------------------------
\* take_index_delta() claims what the index is owed ...
Claimed == dirtyNodes' = {} /\ droppedNodes' = {}

\* ... and NodeIndex.apply() deletes and inserts it.
Indexed(upserts, removals) ==
    index' = (index \ removals) \cup upserts

(* flush_node_index(), before every save.  A failure is swallowed and the  *)
(* claimed delta is lost.                                                  *)
FlushIndex ==
    /\ phase = "idle"
    /\ Claimed
    /\ \/ Indexed(dirtyNodes \cap Held(nodes), droppedNodes)
       \/ UNCHANGED index
    /\ phase' = "flushed"
    /\ UNCHANGED <<graph, owed, rows, generation, delta>>

\* graph_delta(): read, not claimed.
ReadDelta ==
    /\ phase = "flushed"
    /\ delta' = [nodeUpserts  |-> {<<n, nodes[n]>> : n \in pendingNodes \cap Held(nodes)},
                 nodeRemovals |-> removedNodes,
                 edgeUpserts  |-> OfPairs(edges, pendingPairs),
                 edgeRemovals |-> pendingPairs \cup removedPairs]
    /\ phase' = "read"
    /\ UNCHANGED <<graph, owed, feed, rows, generation, index>>

Upserted == {r[1] : r \in delta.nodeUpserts}
Replaced == {e[1] : e \in delta.edgeUpserts} \cup delta.edgeRemovals

EdgesOutTwice == Xor(OfPairs(savedEdges, Replaced),
                     Touching(savedEdges, delta.nodeRemovals))
\* The edge rows a delta replaces or deletes, each of them once: as a pair
\* of the delta, or at an endpoint that goes.
EdgesOut == OfPairs(savedEdges, Replaced) \cup Touching(savedEdges, delta.nodeRemovals)

\* The node rows a delta replaces or deletes: those found, not those named.
NodesOut == {r \in NodeRows(savedNodes) : r[1] \in Upserted \cup delta.nodeRemovals}

EdgesLeftByPair == savedEdges \ OfPairs(savedEdges, Replaced)
\* What the deletes leave: _delete_edges() and the cascade of a removed node.
EdgesLeft == (savedEdges \ OfPairs(savedEdges, Replaced))
                \ Touching(savedEdges, delta.nodeRemovals)

\* What folds and counts are told; an empty store has nothing to fold out.
Out(S) == IF fresh THEN {} ELSE S

Recount(n, in, out) == LET m == (n + Cardinality(in)) - Cardinality(out)
                       IN  IF m < 0 THEN 0 ELSE m

(* apply_delta(): the digests are read first, then one transaction deletes,*)
(* inserts and folds.  The commit mutex keeps the process's other threads  *)
(* out; that no other process writes the rows meanwhile is assumed (source *)
(* locks are per source).  An empty store skips the deletes.               *)
Apply ==
    /\ phase = "read"
    /\ phase' = "applied"
    /\ savedNodes' = [n \in Node |->
          IF n \in Upserted THEN (CHOOSE r \in delta.nodeUpserts : r[1] = n)[2]
          ELSE IF n \in delta.nodeRemovals /\ ~fresh THEN Absent
          ELSE savedNodes[n]]
    /\ fresh' = FALSE
    /\ savedEdges' = (IF fresh THEN savedEdges ELSE EdgesLeft) \cup delta.edgeUpserts
    /\ nodeFold' = Xor(Xor(nodeFold, Out(NodesOut)), delta.nodeUpserts)
    /\ edgeFold' = Xor(Xor(edgeFold, Out(EdgesOut)), delta.edgeUpserts)
    /\ nodeCount' = Recount(nodeCount, delta.nodeUpserts, Out(NodesOut))
    /\ edgeCount' = Recount(edgeCount, delta.edgeUpserts, Out(EdgesOut))
    /\ UNCHANGED <<graph, owed, feed, generation, index, delta>>

FailApplyClaimed ==
    /\ phase = "read"
    /\ phase' = "idle" /\ delta' = NoDelta
    /\ pendingNodes' = {} /\ removedNodes' = {}
    /\ pendingPairs' = {} /\ removedPairs' = {}
    /\ UNCHANGED <<graph, feed, rows, generation, index>>
\* The transaction fails: the save raises, and the delta is still owed.
FailApply ==
    /\ phase = "read"
    /\ phase' = "idle" /\ delta' = NoDelta
    /\ UNCHANGED <<graph, owed, feed, rows, generation, index>>

\* clear_graph_delta(): by id, whatever has become of the id meanwhile.
ClearDelta ==
    /\ phase = "applied"
    /\ phase' = "cleared"
    /\ pendingNodes' = pendingNodes \ Upserted
    /\ removedNodes' = removedNodes \ delta.nodeRemovals
    /\ pendingPairs' = pendingPairs \ {e[1] : e \in delta.edgeUpserts}
    /\ removedPairs' = removedPairs \ delta.edgeRemovals
    /\ delta' = NoDelta
    /\ UNCHANGED <<graph, feed, rows, generation, index>>

\* publish(): the rows get their name.
Publish ==
    /\ phase = "cleared"
    /\ phase' = "published"
    /\ generation' = Label(nodeFold, edgeFold, nodeCount, edgeCount)
    /\ UNCHANGED <<graph, owed, feed, rows, index, delta>>

\* A checkpoint ends with the save, and so does a pass whose reconcile fails.
EndSave ==
    /\ phase = "published"
    /\ phase' = "idle"
    /\ UNCHANGED <<graph, owed, feed, rows, generation, index, delta>>

HealStaleOnly(S) ==
    /\ ~fresh
    /\ Indexed({}, (index \ Held(savedNodes)) \cap S)
    /\ phase' = IF phase = "published" THEN "idle" ELSE phase
    /\ UNCHANGED <<graph, owed, feed, rows, generation, delta>>
(* reconcile() of one source, as a run of it begins and at the end of its  *)
(* pass, with or without a save before it: the ids that the index holds of *)
(* the source are compared with those of its rows.  One that fails, or that*)
(* finds no saved graph, changes nothing and says nothing (EndSave).       *)
Heal(S) ==
    /\ ~fresh
    /\ Indexed((Held(savedNodes) \ index) \cap S \cap Held(nodes),
               (index \ Held(savedNodes)) \cap S)
    /\ phase' = IF phase = "published" THEN "idle" ELSE phase
    /\ UNCHANGED <<graph, owed, feed, rows, generation, delta>>

(* The process dies; the next one loads the rows (from_stored), owing the  *)
(* store nothing.  All its nodes are marked for the index; the loads that  *)
(* are put off until a task needs the graph drop those marks.              *)
Restart ==
    /\ nodes' = savedNodes /\ edges' = savedEdges
    /\ pendingNodes' = {} /\ removedNodes' = {}
    /\ pendingPairs' = {} /\ removedPairs' = {}
    /\ dirtyNodes' \in {Held(savedNodes), {}} /\ droppedNodes' = {}
    /\ phase' = "idle" /\ delta' = NoDelta
    /\ UNCHANGED <<rows, generation, index>>

-----------------------------------------------------------------------------
Next ==
    \/ \E n \in Node, c \in Content : AddNode(n, c)
    \/ \E p \in Pair, k \in Kind : AddEdge(p, k)
    \/ \E p \in Pair, k, l \in Kind : ChangeEdge(p, k, l)
    \/ \E S \in SUBSET Node : RemoveNodes(S)
    \/ \E p \in Pair, K \in SUBSET Kind : RemoveEdges(p, K)
    \/ FlushIndex \/ ReadDelta \/ Apply \/ FailApply \/ ClearDelta \/ Publish
    \/ EndSave
    \/ \E S \in Source : Heal(S)
    \/ Restart

Spec == Init /\ [][Next]_vars

-----------------------------------------------------------------------------
(* Types of the graph, of the deltas, of the store and of the index; what  *)
(* is due to be written exists, so that a delta can be read from it.       *)
TypeOK ==
    /\ {nodes, savedNodes} \subseteq [Node -> Content \cup {Absent}]
    /\ index \subseteq Node
    /\ edges \cup savedEdges \cup edgeFold \subseteq Pair \X Kind
    /\ pendingNodes \cup removedNodes \cup dirtyNodes \cup droppedNodes \subseteq Node
    /\ pendingPairs \cup removedPairs \subseteq Pair
    /\ pendingNodes \cup dirtyNodes \subseteq Held(nodes)
    /\ pendingPairs \subseteq {e[1] : e \in edges}
    /\ fresh \in BOOLEAN
    /\ nodeFold \subseteq Node \X Content
    /\ nodeCount \in Nat /\ edgeCount \in Nat
    /\ phase \in Phases
    /\ delta.nodeUpserts \subseteq Node \X Content
    /\ delta.nodeRemovals \subseteq Node
    /\ delta.edgeUpserts \subseteq Pair \X Kind
    /\ delta.edgeRemovals \subseteq Pair

(* The store differs from the graph only where the graph says it owes it:  *)
(* "a delta claimed and then lost to a crashed commit is a node that never *)
(* reaches disk", and settled_node_link takes a graph that owes nothing for*)
(* the published one.                                                      *)
OwesWhatDiffers ==
    /\ \A n \in Node : nodes[n] # savedNodes[n] => n \in pendingNodes \cup removedNodes
    /\ \A e \in Xor(edges, savedEdges) :
         \/ e[1] \in pendingPairs \cup removedPairs
         \/ e[1][1] \in removedNodes \/ e[1][2] \in removedNodes

(* Folds and counts, which only deltas maintain, are those of the rows:    *)
(* XOR takes a row in again that is folded out twice.                      *)
AggregatesExact ==
    /\ nodeFold = NodeRows(savedNodes) /\ nodeCount = Cardinality(NodeRows(savedNodes))
    /\ edgeFold = savedEdges           /\ edgeCount = Cardinality(savedEdges)

(* Once a pass has saved, a reconcile that succeeds leaves the index with  *)
(* the nodes that the graph has of the source, whatever flush was lost or  *)
(* process died before (reconcile).                                        *)
IndexHeals ==
    [][\A S \in Source : phase = "published" /\ Heal(S)
        => index' \cap S = Held(nodes) \cap S]_vars

-----------------------------------------------------------------------------
\* A graph as the rows spell it.
AsGraph(N, E) == [nodes |-> N, edges |-> E]
Graphs == [nodes: {NodeRows(f) : f \in [Node -> Content \cup {Absent}]},
           edges: SUBSET (Pair \X Kind)]

Store == INSTANCE GraphStore WITH
            Graph <- Graphs, Empty <- AsGraph({}, {}),
            memory <- AsGraph(NodeRows(nodes), edges),
            disk <- AsGraph(NodeRows(savedNodes), savedEdges),
            published <- AsGraph(generation.nodes, generation.edges)

(* Deltas, folds and cascades amount to saving the graph whole: the rows   *)
(* are never a mixture of two graphs, also where edges dangle, and the     *)
(* label that is published is that of a graph they made up, whatever fails *)
(* or dies in between.                                                     *)
StoresWholeGraphs == Store!Spec

-----------------------------------------------------------------------------
(* "a dangling edge would show up in a traversal as a neighbour with no    *)
(* attributes" (apply_delta): no edge row without its end nodes.  Refuted: *)
(* removals take the edges along, but an edge is added, and saved, without *)
(* a look at its ends.                                                     *)
NoDanglingRows ==
    \A e \in savedEdges : {e[1][1], e[1][2]} \subseteq Held(savedNodes)
=============================================================================
