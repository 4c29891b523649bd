-------------------------- MODULE GraphCommitProofs --------------------------
(***************************************************************************)
(* Proofs about GraphCommit, for any finite graph.  What the store owes is *)
(* proved for the engine's own mutations, which hold the commit mutex and  *)
(* hence do not overlap a save (Overlap = FALSE).                          *)
(***************************************************************************)
EXTENDS GraphCommit, FiniteSetTheorems, TLAPS

(* What the pending sets say of the graph they were collected from.        *)
Owing ==
    /\ \A n \in removedNodes : n \notin pendingNodes => nodes[n] = Absent
    /\ \A e \in edges : e[1] \notin removedPairs
    /\ \A e \in edges : {e[1][1], e[1][2]} \cap removedNodes # {} => e[1] \in pendingPairs

(* The delta of the save under way is the one of the graph as it is, and   *)
(* once it has been applied the rows are those of the graph.               *)
Saving ==
    /\ phase \in {"read", "applied"} =>
         /\ delta.nodeUpserts = {<<n, nodes[n]>> : n \in pendingNodes}
         /\ delta.nodeRemovals = removedNodes
         /\ delta.edgeUpserts = OfPairs(edges, pendingPairs)
         /\ delta.edgeRemovals = pendingPairs \cup removedPairs
    /\ phase \in {"applied", "cleared", "published"} =>
         savedNodes = nodes /\ savedEdges = edges

\* What apply_delta() takes an empty store to be.
FreshIsEmpty == fresh => /\ savedNodes = [n \in Node |-> Absent]
                         /\ savedEdges = {}

-----------------------------------------------------------------------------
LEMMA FiniteGraph ==
    /\ \A S : S \subseteq Node \X Content => IsFiniteSet(S) /\ Cardinality(S) \in Nat
    /\ \A S : S \subseteq Pair \X Kind => IsFiniteSet(S) /\ Cardinality(S) \in Nat
<1>1. IsFiniteSet(Node \X Content) /\ IsFiniteSet(Node \X Node)
  BY GraphAssumption, FS_Product
<1>2. IsFiniteSet(Pair)
  BY <1>1, GraphAssumption, FS_Subset
<1>3. IsFiniteSet(Pair \X Kind)
  BY <1>2, GraphAssumption, FS_Product
<1>4. QED
  BY <1>1, <1>3, FS_Subset, FS_CardinalityType

LEMMA InitType == Init => TypeOK
BY GraphAssumption DEF Init, TypeOK, NoDelta, Held, Phases

LEMMA MutateType ==
  ASSUME TypeOK,
         \/ \E n \in Node, c \in Content : AddNode(n, c)
         \/ \E p \in Pair, k \in Kind : AddEdge(p, k)
         \/ \E p \in Pair, k, l \in Kind : ChangeEdge(p, k, l)
         \/ \E S \in SUBSET Node : RemoveNodes(S)
         \/ \E p \in Pair, K \in SUBSET Kind : RemoveEdges(p, K)
  PROVE  TypeOK'
<1> USE GraphAssumption DEF TypeOK, Held, rows, saver, feed
<1>1. ASSUME NEW n \in Node, NEW c \in Content, AddNode(n, c) PROVE TypeOK'
  BY <1>1 DEF AddNode
<1>2. ASSUME NEW p \in Pair, NEW k \in Kind, AddEdge(p, k) PROVE TypeOK'
  <2>1. pendingPairs' \subseteq {e[1] : e \in edges'}
    BY <1>2 DEF AddEdge, Owe
  <2>2. QED
    BY <1>2, <2>1 DEF AddEdge, Owe
<1>3. ASSUME NEW p \in Pair, NEW k \in Kind, NEW l \in Kind, ChangeEdge(p, k, l) PROVE TypeOK'
  <2>1. pendingPairs' \subseteq {e[1] : e \in edges'}
    BY <1>3 DEF ChangeEdge, Owe
  <2>2. QED
    BY <1>3, <2>1 DEF ChangeEdge, Owe
<1>4. ASSUME NEW S \in SUBSET Node, RemoveNodes(S) PROVE TypeOK'
  <2>1. pendingPairs' \subseteq {e[1] : e \in edges'}
    BY <1>4 DEF RemoveNodes, Touching
  <2>2. nodes' \in [Node -> Content \cup {Absent}] /\ pendingNodes' \cup dirtyNodes' \subseteq Held(nodes')
    BY <1>4 DEF RemoveNodes
  <2>3. QED
    BY <1>4, <2>1, <2>2 DEF RemoveNodes, Touching
<1>5. ASSUME NEW p \in Pair, NEW K \in SUBSET Kind, RemoveEdges(p, K) PROVE TypeOK'
  <2>1. pendingPairs' \subseteq {e[1] : e \in edges'}
    BY <1>5 DEF RemoveEdges, Owe, Kinds, OfPairs
  <2>2. QED
    BY <1>5, <2>1 DEF RemoveEdges, Owe
<1>6. QED
  BY <1>1, <1>2, <1>3, <1>4, <1>5

LEMMA SaveType ==
  ASSUME TypeOK,
         FlushIndex \/ ReadDelta \/ Apply \/ FailApply \/ ClearDelta \/ Publish
            \/ EndSave \/ (\E S \in Source : Heal(S)) \/ Restart
  PROVE  TypeOK'
<1> USE GraphAssumption DEF TypeOK, Held, Phases, graph, owed, feed, rows, NoDelta
<1>1. ASSUME NEW U \in SUBSET Node, NEW R, Indexed(U, R)
      PROVE  index' \subseteq Node
  BY <1>1 DEF Indexed
<1>2. CASE FlushIndex
  BY <1>2, <1>1 DEF FlushIndex, Claimed
<1>3. CASE ReadDelta
  BY <1>3 DEF ReadDelta, OfPairs
<1>4. CASE Apply
  <2>1. /\ NodesOut \subseteq Node \X Content /\ EdgesOut \subseteq Pair \X Kind
        /\ Out(NodesOut) \subseteq Node \X Content /\ Out(EdgesOut) \subseteq Pair \X Kind
    BY DEF NodesOut, NodeRows, EdgesOut, OfPairs, Touching, Out
  <2>2. nodeCount' \in Nat /\ edgeCount' \in Nat
    BY <1>4, <2>1, FiniteGraph DEF Apply, Recount
  <2>3. savedNodes' \in [Node -> Content \cup {Absent}]
    <3>1. ASSUME NEW n \in Upserted
          PROVE  (CHOOSE r \in delta.nodeUpserts : r[1] = n)[2] \in Content
      BY DEF Upserted
    <3>2. QED
      BY <1>4, <3>1 DEF Apply
  <2>4. savedEdges' \subseteq Pair \X Kind
    BY <1>4 DEF Apply, EdgesLeft, OfPairs, Touching
  <2>5. nodeFold' \subseteq Node \X Content /\ edgeFold' \subseteq Pair \X Kind
    BY <1>4, <2>1 DEF Apply, Xor
  <2>6. QED
    BY <1>4, <2>2, <2>3, <2>4, <2>5 DEF Apply
<1>5. CASE FailApply
  BY <1>5 DEF FailApply
<1>6. CASE ClearDelta
  BY <1>6 DEF ClearDelta
<1>7. CASE Publish \/ EndSave
  BY <1>7 DEF Publish, EndSave
<1>8. ASSUME NEW S \in Source, Heal(S) PROVE TypeOK'
  BY <1>8, <1>1 DEF Heal
<1>9. CASE Restart
  BY <1>9 DEF Restart
<1>10. QED
  BY <1>2, <1>3, <1>4, <1>5, <1>6, <1>7, <1>8, <1>9

(* The graph, what it owes, the rows, the index and the delta of a save    *)
(* are well typed, and only what exists is due to be written, also when    *)
(* mutations overlap a save.                                               *)
THEOREM TypeCorrect == Spec => []TypeOK
<1>1. TypeOK /\ [Next]_vars => TypeOK'
  <2>1. CASE UNCHANGED vars
    BY <2>1 DEF vars, graph, owed, feed, rows, saver, TypeOK, Held
  <2>2. QED
    BY <2>1, MutateType, SaveType DEF Next
<1>2. QED
  BY <1>1, InitType, PTL DEF Spec

-----------------------------------------------------------------------------
SerialInv == Owing /\ Saving /\ OwesWhatDiffers

\* Between two saves nothing is known of a delta.
LEMMA MutateSerial ==
  ASSUME ~Overlap, TypeOK, SerialInv,
         \/ \E n \in Node, c \in Content : AddNode(n, c)
         \/ \E p \in Pair, k \in Kind : AddEdge(p, k)
         \/ \E p \in Pair, k, l \in Kind : ChangeEdge(p, k, l)
         \/ \E S \in SUBSET Node : RemoveNodes(S)
         \/ \E p \in Pair, K \in SUBSET Kind : RemoveEdges(p, K)
  PROVE  SerialInv'
<1> USE GraphAssumption DEF TypeOK, Held, rows, saver, feed, Owing
<1>0. phase = "idle" /\ phase' = "idle" /\ UNCHANGED <<savedNodes, savedEdges>>
  BY DEF AddNode, AddEdge, ChangeEdge, RemoveNodes, RemoveEdges, MayMutate
<1>a. Saving'
  BY <1>0 DEF Saving
<1>b. /\ \A n \in Node : nodes[n] # savedNodes[n] => n \in pendingNodes \cup removedNodes
      /\ \A e \in Pair \X Kind : (e \in edges) # (e \in savedEdges) =>
           \/ e[1] \in pendingPairs \cup removedPairs
           \/ e[1][1] \in removedNodes \/ e[1][2] \in removedNodes
  BY DEF SerialInv, OwesWhatDiffers, Xor
<1> DEFINE Differs == /\ \A n \in Node : nodes'[n] # savedNodes[n] => n \in pendingNodes' \cup removedNodes'
                      /\ \A e \in Pair \X Kind : (e \in edges') # (e \in savedEdges) =>
                           \/ e[1] \in pendingPairs' \cup removedPairs'
                           \/ e[1][1] \in removedNodes' \/ e[1][2] \in removedNodes'
<1>c. Differs /\ edges' \subseteq Pair \X Kind => OwesWhatDiffers'
  BY <1>0 DEF OwesWhatDiffers, Xor
<1>d. \A p \in Pair : p[1] \in Node /\ p[2] \in Node
  OBVIOUS
<1>e. Owing
  BY DEF SerialInv
<1>1. ASSUME NEW n \in Node, NEW c \in Content, AddNode(n, c) PROVE Owing' /\ Differs
  BY <1>1, <1>b, <1>e DEF AddNode
<1>2. ASSUME NEW p \in Pair, NEW k \in Kind, AddEdge(p, k) PROVE Owing' /\ Differs
  <2>1. Owing'
    BY <1>2, <1>e DEF AddEdge, Owe
  <2>2. Differs
    BY <1>2, <1>b DEF AddEdge, Owe
  <2>3. QED
    BY <2>1, <2>2
<1>3. ASSUME NEW p \in Pair, NEW k \in Kind, NEW l \in Kind, ChangeEdge(p, k, l)
      PROVE  Owing' /\ Differs
  <2>1. Owing'
    BY <1>3, <1>e DEF ChangeEdge, Owe
  <2>2. Differs
    BY <1>3, <1>b DEF ChangeEdge, Owe
  <2>3. QED
    BY <2>1, <2>2
<1>4. ASSUME NEW S \in SUBSET Node, RemoveNodes(S) PROVE Owing' /\ Differs
  <2>1. \A e \in edges : e \in edges' <=> ~(e[1][1] \in S \/ e[1][2] \in S)
    BY <1>4 DEF RemoveNodes, Touching
  <2>2. edges' \subseteq edges
    BY <1>4 DEF RemoveNodes
  <2>3. \A e \in edges' : e[1] \in pendingPairs <=> e[1] \in pendingPairs'
    BY <1>4, <2>1, <2>2 DEF RemoveNodes, Touching
  <2>4. \A n \in Node : nodes'[n] = IF n \in S THEN Absent ELSE nodes[n]
    BY <1>4 DEF RemoveNodes
  <2>5. /\ pendingNodes' = pendingNodes \ S /\ removedPairs' = removedPairs
        /\ removedNodes' = removedNodes \cup S
    BY <1>4 DEF RemoveNodes
  <2>6. Owing'
    <3>1. \A n \in removedNodes' : n \notin pendingNodes' => nodes'[n] = Absent
      BY <2>4, <2>5, <1>e
    <3>2. \A e \in edges' : e[1] \notin removedPairs'
      BY <2>2, <2>5, <1>e
    <3>3. \A e \in edges' : {e[1][1], e[1][2]} \cap removedNodes' # {} => e[1] \in pendingPairs'
      BY <1>d, <1>e, <2>1, <2>2, <2>3, <2>5
    <3>4. QED
      BY <3>1, <3>2, <3>3
  <2>7. Differs
    <3>1. \A n \in Node : nodes'[n] # savedNodes[n] => n \in pendingNodes' \cup removedNodes'
      BY <2>4, <2>5, <1>b
    <3>2. ASSUME NEW e \in Pair \X Kind, (e \in edges') # (e \in savedEdges)
          PROVE  \/ e[1] \in pendingPairs' \cup removedPairs'
                 \/ e[1][1] \in removedNodes' \/ e[1][2] \in removedNodes'
      <4>1. CASE e \in edges /\ e \notin edges'
        BY <4>1, <2>1, <2>5, <1>e, <1>d
      <4>2. CASE e \in edges /\ e \in edges'
        BY <3>2, <4>2, <2>3, <2>5, <1>b
      <4>3. CASE e \notin edges
        <5>1. e \in savedEdges /\ e \notin edges'
          BY <3>2, <4>3, <2>2
        <5>2. e[1] \in pendingPairs \cup removedPairs \/ e[1][1] \in removedNodes \/ e[1][2] \in removedNodes
          BY <4>3, <5>1, <1>b
        <5>3. CASE e[1] \in pendingPairs /\ e[1] \notin pendingPairs'
          <6>1. PICK f \in Touching(edges, S) : f[1] = e[1]
            BY <1>4, <5>3 DEF RemoveNodes
          <6>2. QED
            BY <6>1, <2>5, <1>e DEF Touching
        <5>4. QED
          BY <5>2, <5>3, <2>5
      <4>4. QED
        BY <4>1, <4>2, <4>3
    <3>3. QED
      BY <3>1, <3>2
  <2>8. QED
    BY <2>6, <2>7
<1>5. ASSUME NEW p \in Pair, NEW K \in SUBSET Kind, RemoveEdges(p, K) PROVE Owing' /\ Differs
  <2>1. /\ edges' \subseteq edges /\ UNCHANGED <<nodes, pendingNodes, removedNodes>>
        /\ \A e \in edges \ edges' : e[1] = p
        /\ \A q \in Pair \ {p} : /\ q \in pendingPairs' <=> q \in pendingPairs
                                 /\ q \in removedPairs' <=> q \in removedPairs
        /\ p \in pendingPairs' \cup removedPairs'
    BY <1>5 DEF RemoveEdges, Owe
  <2>2. \A e \in edges' : e[1] = p => e[1] \in pendingPairs' /\ e[1] \notin removedPairs'
    BY <1>5 DEF RemoveEdges, Owe, Kinds, OfPairs
  <2>3. \A e \in edges' : e \in edges /\ e[1] \in Pair
    BY <2>1
  <2>4. Owing'
    <3>1. ASSUME NEW e \in edges'
          PROVE  /\ e[1] \notin removedPairs'
                 /\ {e[1][1], e[1][2]} \cap removedNodes # {} => e[1] \in pendingPairs'
      <4>1. CASE e[1] = p
        BY <2>2, <4>1
      <4>2. CASE e[1] # p
        <5>1. e \in edges /\ e[1] \in Pair \ {p}
          BY <2>3, <4>2
        <5>2. e[1] \notin removedPairs
              /\ ({e[1][1], e[1][2]} \cap removedNodes # {} => e[1] \in pendingPairs)
          BY <1>e, <5>1
        <5>3. QED
          BY <2>1, <5>1, <5>2
      <4>3. QED
        BY <4>1, <4>2
    <3>2. QED
      BY <1>e, <2>1, <2>3, <3>1
  <2>5. Differs
    <3>1. ASSUME NEW e \in Pair \X Kind, (e \in edges') # (e \in savedEdges), e[1] # p
          PROVE  \/ e[1] \in pendingPairs' \cup removedPairs'
                 \/ e[1][1] \in removedNodes' \/ e[1][2] \in removedNodes'
      <4>1. e \in edges' <=> e \in edges
        BY <2>1, <3>1
      <4>2. \/ e[1] \in pendingPairs \cup removedPairs
            \/ e[1][1] \in removedNodes \/ e[1][2] \in removedNodes
        BY <1>b, <3>1, <4>1
      <4>3. e[1] \in Pair \ {p}
        BY <3>1
      <4>4. QED
        BY <2>1, <4>2, <4>3
    <3>2. QED
      BY <1>b, <2>1, <3>1
  <2>6. QED
    BY <2>4, <2>5
<1>6. edges' \subseteq Pair \X Kind
  BY MutateType
<1>7. QED
  BY <1>a, <1>c, <1>1, <1>2, <1>3, <1>4, <1>5, <1>6 DEF SerialInv

\* The delta of the graph names the nodes that are due.
LEMMA UpsertedDue ==
  ASSUME delta.nodeUpserts = {<<n, nodes[n]>> : n \in pendingNodes}
  PROVE  Upserted = pendingNodes
<1>1. ASSUME NEW n \in pendingNodes PROVE n \in Upserted
  <2>1. <<n, nodes[n]>> \in delta.nodeUpserts /\ <<n, nodes[n]>>[1] = n
    OBVIOUS
  <2>2. QED
    BY <2>1 DEF Upserted
<1>2. ASSUME NEW n \in Upserted PROVE n \in pendingNodes
  <2>1. PICK r \in delta.nodeUpserts : n = r[1]
    BY DEF Upserted
  <2>2. QED
    BY <2>1
<1>3. QED
  BY <1>1, <1>2

(* With the delta of the graph as it is, the transaction writes the graph: *)
(* what it does not touch was the same already.                            *)
LEMMA ApplyWrites ==
  ASSUME TypeOK, SerialInv, FreshIsEmpty, Apply
  PROVE  savedNodes' = nodes /\ savedEdges' = edges
<1> USE GraphAssumption DEF TypeOK, Held
<1>0. /\ Owing /\ phase = "read"
      /\ delta.nodeUpserts = {<<n, nodes[n]>> : n \in pendingNodes}
      /\ delta.nodeRemovals = removedNodes
      /\ delta.edgeUpserts = OfPairs(edges, pendingPairs)
      /\ delta.edgeRemovals = pendingPairs \cup removedPairs
  BY DEF SerialInv, Saving, Apply
<1>1. Upserted = pendingNodes
  BY <1>0, UpsertedDue
<1>2. Replaced = pendingPairs \cup removedPairs
  BY <1>0 DEF Replaced, OfPairs
<1>3. ASSUME NEW n \in Node PROVE savedNodes'[n] = nodes[n]
  <2>1. CASE n \in pendingNodes
    <3>1. <<n, nodes[n]>> \in delta.nodeUpserts
          /\ \A r \in delta.nodeUpserts : r[1] = n => r = <<n, nodes[n]>>
      BY <1>0, <2>1
    <3>2. (CHOOSE r \in delta.nodeUpserts : r[1] = n) = <<n, nodes[n]>>
      BY <3>1
    <3>3. QED
      BY <1>1, <2>1, <3>2 DEF Apply
  <2>2. CASE n \notin pendingNodes /\ n \in removedNodes
    BY <1>0, <1>1, <2>2 DEF Apply, Owing, FreshIsEmpty
  <2>3. CASE n \notin pendingNodes /\ n \notin removedNodes
    BY <1>0, <1>1, <2>3 DEF Apply, SerialInv, OwesWhatDiffers
  <2>4. QED
    BY <2>1, <2>2, <2>3
<1>4. savedNodes' = nodes
  BY <1>3 DEF Apply
<1>5. ASSUME NEW e \in Pair \X Kind PROVE e \in savedEdges' <=> e \in edges
  <2>1. fresh => savedEdges = {}
    BY DEF FreshIsEmpty
  <2>2. e \in savedEdges' <=>
          \/ e \in edges /\ e[1] \in pendingPairs
          \/ /\ e \in savedEdges /\ e[1] \notin pendingPairs \cup removedPairs
             /\ e[1][1] \notin removedNodes /\ e[1][2] \notin removedNodes
    BY <1>0, <1>2, <2>1 DEF Apply, EdgesLeft, OfPairs, Touching
  <2>3. (e \in edges) # (e \in savedEdges) =>
          \/ e[1] \in pendingPairs \cup removedPairs
          \/ e[1][1] \in removedNodes \/ e[1][2] \in removedNodes
    BY DEF SerialInv, OwesWhatDiffers, Xor
  <2>4. e \in edges => /\ e[1] \notin removedPairs
                       /\ e[1][1] \in removedNodes \/ e[1][2] \in removedNodes => e[1] \in pendingPairs
    BY <1>0 DEF Owing
  <2>5. QED
    BY <2>2, <2>3, <2>4
<1>6. savedEdges' \subseteq Pair \X Kind
  BY SaveType
<1>7. savedEdges' = edges
  <2>1. \A e : e \in savedEdges' <=> e \in edges
    BY <1>5, <1>6
  <2>2. QED
    BY <2>1
<1>8. QED
  BY <1>4, <1>7

LEMMA SaveSerial ==
  ASSUME TypeOK, SerialInv, FreshIsEmpty,
         FlushIndex \/ ReadDelta \/ Apply \/ FailApply \/ ClearDelta \/ Publish
            \/ EndSave \/ (\E S \in Source : Heal(S)) \/ Restart
  PROVE  SerialInv' /\ FreshIsEmpty'
<1> USE GraphAssumption DEF TypeOK, Held, SerialInv, graph, owed, rows
<1>1. CASE FlushIndex \/ FailApply \/ EndSave
  <2>1. UNCHANGED <<graph, owed, rows>> /\ phase' \in {"idle", "flushed"}
    BY <1>1 DEF FlushIndex, FailApply, EndSave
  <2>2. QED
    BY <2>1 DEF Owing, Saving, OwesWhatDiffers, FreshIsEmpty
<1>2. CASE ReadDelta
  <2>1. UNCHANGED <<graph, owed, rows>> /\ phase' = "read"
        /\ delta' = [nodeUpserts  |-> {<<n, nodes[n]>> : n \in pendingNodes \cap Held(nodes)},
                     nodeRemovals |-> removedNodes,
                     edgeUpserts  |-> OfPairs(edges, pendingPairs),
                     edgeRemovals |-> pendingPairs \cup removedPairs]
    BY <1>2 DEF ReadDelta
  <2>2. pendingNodes \cap Held(nodes) = pendingNodes
    OBVIOUS
  <2>3. delta'.nodeUpserts = {<<n, nodes[n]>> : n \in pendingNodes}
    BY <2>1, <2>2
  <2>4. Saving'
    BY <2>1, <2>3 DEF Saving, OfPairs
  <2>5. QED
    BY <2>1, <2>4 DEF Owing, OwesWhatDiffers, FreshIsEmpty
<1>3. CASE Apply
  <2>1. UNCHANGED <<graph, owed, delta>> /\ phase = "read" /\ phase' = "applied"
    BY <1>3 DEF Apply
  <2>2. savedNodes' = nodes /\ savedEdges' = edges
    BY <1>3, ApplyWrites
  <2>a. fresh' = FALSE
    BY <1>3 DEF Apply
  <2>3. Owing' /\ OwesWhatDiffers' /\ FreshIsEmpty'
    BY <2>1, <2>2, <2>a DEF Owing, OwesWhatDiffers, FreshIsEmpty, Xor
  <2>4. Saving'
    BY <2>1, <2>2 DEF Saving, OfPairs
  <2>5. QED
    BY <2>3, <2>4
<1>4. CASE ClearDelta
  <2>1. UNCHANGED <<graph, rows>> /\ phase' = "cleared" /\ nodes = savedNodes /\ edges = savedEdges
    BY <1>4 DEF ClearDelta, Saving
  <2>2. pendingNodes' = {} /\ removedNodes' = {} /\ removedPairs' = {}
    <3>1. Upserted = pendingNodes
      BY <1>4, UpsertedDue DEF ClearDelta, Saving
    <3>2. QED
      BY <1>4, <3>1 DEF ClearDelta, Saving
  <2>3. QED
    BY <2>1, <2>2 DEF Owing, Saving, OwesWhatDiffers, FreshIsEmpty, Xor
<1>5. CASE Publish
  BY <1>5 DEF Publish, Owing, Saving, OwesWhatDiffers, FreshIsEmpty
<1>6. CASE Restart
  BY <1>6 DEF Restart, Owing, Saving, OwesWhatDiffers, FreshIsEmpty, Xor
<1>7. ASSUME NEW S \in Source, Heal(S) PROVE SerialInv' /\ FreshIsEmpty'
  <2>1. UNCHANGED <<graph, owed, rows, delta>> /\ phase' \in {"idle", phase}
    BY <1>7 DEF Heal
  <2>2. Saving'
    BY <2>1 DEF Saving, OfPairs
  <2>3. QED
    BY <2>1, <2>2 DEF Owing, OwesWhatDiffers, FreshIsEmpty
<1>8. QED
  BY <1>1, <1>2, <1>3, <1>4, <1>5, <1>6, <1>7

LEMMA SerialStep ==
  ASSUME ~Overlap
  PROVE  Spec => [](SerialInv /\ FreshIsEmpty)
<1>1. Init => SerialInv /\ FreshIsEmpty
  BY DEF Init, SerialInv, Owing, Saving, OwesWhatDiffers, FreshIsEmpty, Xor
<1>2. TypeOK /\ SerialInv /\ FreshIsEmpty /\ [Next]_vars => (SerialInv /\ FreshIsEmpty)'
  <2> SUFFICES ASSUME TypeOK, SerialInv, FreshIsEmpty, [Next]_vars
               PROVE  (SerialInv /\ FreshIsEmpty)'
    OBVIOUS
  <2>1. CASE UNCHANGED vars
    BY <2>1 DEF vars, graph, owed, rows, saver, SerialInv, Owing, Saving, OwesWhatDiffers,
       FreshIsEmpty, Held
  <2>2. ASSUME \/ \E n \in Node, c \in Content : AddNode(n, c)
               \/ \E p \in Pair, k \in Kind : AddEdge(p, k)
               \/ \E p \in Pair, k, l \in Kind : ChangeEdge(p, k, l)
               \/ \E S \in SUBSET Node : RemoveNodes(S)
               \/ \E p \in Pair, K \in SUBSET Kind : RemoveEdges(p, K)
        PROVE  SerialInv' /\ FreshIsEmpty'
    <3>1. UNCHANGED rows
      BY <2>2 DEF AddNode, AddEdge, ChangeEdge, RemoveNodes, RemoveEdges
    <3>2. QED
      BY <2>2, <3>1, MutateSerial DEF FreshIsEmpty, Held, rows
  <2>3. QED
    BY <2>1, <2>2, SaveSerial DEF Next
<1>3. QED
  BY <1>1, <1>2, TypeCorrect, PTL DEF Spec

(* A graph mutated only between saves owes the store all that differs from *)
(* its rows, whatever transaction fails and whenever the process dies: a   *)
(* row is in debt until the transaction that wrote it has committed.       *)
THEOREM NothingUnowed == ASSUME ~Overlap PROVE Spec => []OwesWhatDiffers
<1>1. SerialInv => OwesWhatDiffers
  BY DEF SerialInv
<1>2. QED
  BY <1>1, SerialStep, PTL

(* Once a pass has saved, the reconcile of a source, if it succeeds, leaves*)
(* the index with the source's nodes in the graph and no other id of the   *)
(* source, whatever an earlier flush lost or a killed process left in it.  *)
THEOREM IndexIsHealed == ASSUME ~Overlap PROVE Spec => IndexHeals
<1>1. TypeOK /\ SerialInv =>
        \A S \in Source : phase = "published" /\ Heal(S) => index' \cap S = Held(nodes) \cap S
  <2> SUFFICES ASSUME TypeOK, SerialInv, NEW S \in Source, phase = "published", Heal(S)
               PROVE  index' \cap S = Held(nodes) \cap S
    OBVIOUS
  <2>1. savedNodes = nodes
    BY DEF SerialInv, Saving
  <2>2. index' = (index \ ((index \ Held(nodes)) \cap S))
                    \cup ((Held(nodes) \ index) \cap S \cap Held(nodes))
    BY <2>1 DEF Heal, Indexed
  <2>3. QED
    BY <2>2
<1>2. QED
  BY <1>1, SerialStep, TypeCorrect, PTL DEF Spec, IndexHeals

-----------------------------------------------------------------------------
\* Folding rows out and in, and counting them, is exact when those that go
\* out are there and those that come in are not.
LEMMA FoldsAndCounts ==
  ASSUME NEW R, NEW O, NEW I, IsFiniteSet(R), IsFiniteSet(I), O \subseteq R, (R \ O) \cap I = {}
  PROVE  /\ Xor(Xor(R, O), I) = (R \ O) \cup I
         /\ Recount(Cardinality(R), I, O) = Cardinality((R \ O) \cup I)
<1>1. Xor(Xor(R, O), I) = (R \ O) \cup I
  BY DEF Xor
<1>2. /\ IsFiniteSet(O) /\ IsFiniteSet(R \ O)
      /\ Cardinality(O) \in Nat /\ Cardinality(R) \in Nat /\ Cardinality(I) \in Nat
      /\ Cardinality(R \ O) \in Nat
  BY FS_Subset, FS_CardinalityType
<1>3. Cardinality(R \ O) = Cardinality(R) - Cardinality(O)
  <2>1. R \cap O = O
    OBVIOUS
  <2>2. QED
    BY <1>2, <2>1, FS_Difference
<1>4. Cardinality((R \ O) \cup I) = Cardinality(R \ O) + Cardinality(I)
  <2>1. Cardinality((R \ O) \cap I) = 0
    BY FS_EmptySet
  <2>2. Cardinality((R \ O) \cup I)
          = Cardinality(R \ O) + Cardinality(I) - Cardinality((R \ O) \cap I)
    BY <1>2, FS_Union, Zenon
  <2>3. QED
    BY <1>2, <2>1, <2>2
<1>5. QED
  BY <1>1, <1>2, <1>3, <1>4 DEF Recount

LEMMA ApplyFolds ==
  ASSUME TypeOK, SerialInv, FreshIsEmpty, AggregatesExact, Apply
  PROVE  AggregatesExact'
<1> USE GraphAssumption DEF TypeOK
<1>0. /\ Owing /\ OwesWhatDiffers
      /\ delta.nodeUpserts = {<<n, nodes[n]>> : n \in pendingNodes}
      /\ delta.nodeRemovals = removedNodes
      /\ delta.edgeUpserts = OfPairs(edges, pendingPairs)
  BY DEF SerialInv, Saving, Apply
<1>1. Upserted = pendingNodes
  BY <1>0, UpsertedDue
<1>2. savedNodes' = nodes /\ savedEdges' = edges
  BY ApplyWrites
<1>3. fresh => NodeRows(savedNodes) = {} /\ savedEdges = {}
  BY DEF FreshIsEmpty, NodeRows, Held
<1>4. Out(NodesOut) = NodesOut /\ Out(EdgesOut) = EdgesOut
  BY <1>3 DEF Out, NodesOut, EdgesOut, OfPairs, Touching
<1>5. /\ NodeRows(savedNodes) \subseteq Node \X Content
      /\ delta.nodeUpserts \subseteq Node \X Content
      /\ savedEdges \subseteq Pair \X Kind /\ delta.edgeUpserts \subseteq Pair \X Kind
  BY DEF NodeRows, Held
<1>6. /\ IsFiniteSet(NodeRows(savedNodes)) /\ IsFiniteSet(delta.nodeUpserts)
      /\ IsFiniteSet(savedEdges) /\ IsFiniteSet(delta.edgeUpserts)
  BY <1>5, FiniteGraph
<1>7. /\ (NodeRows(savedNodes) \ NodesOut) \cup delta.nodeUpserts = NodeRows(nodes)
      /\ (NodeRows(savedNodes) \ NodesOut) \cap delta.nodeUpserts = {}
  <2>1. \A n \in Node : \A c : <<n, c>> \in NodeRows(savedNodes) \ NodesOut <=>
          savedNodes[n] = c /\ c # Absent /\ n \notin pendingNodes \cup removedNodes
    BY <1>0, <1>1 DEF NodesOut, NodeRows, Held
  <2>2. \A n \in Node : \A c : <<n, c>> \in delta.nodeUpserts <=> n \in pendingNodes /\ nodes[n] = c
    BY <1>0
  <2>3. \A n \in Node : \A c : <<n, c>> \in NodeRows(nodes) <=> nodes[n] = c /\ c # Absent
    BY DEF NodeRows, Held
  <2>4. \A n \in Node : /\ n \in pendingNodes => nodes[n] # Absent
                        /\ n \notin pendingNodes /\ n \in removedNodes => nodes[n] = Absent
                        /\ n \notin pendingNodes \cup removedNodes => savedNodes[n] = nodes[n]
    BY <1>0 DEF Owing, OwesWhatDiffers, Held
  <2>5. NodeRows(nodes) \subseteq Node \X Content
    BY DEF NodeRows, Held
  <2>6. ASSUME NEW r \in Node \X Content
        PROVE  /\ r \in (NodeRows(savedNodes) \ NodesOut) \cup delta.nodeUpserts <=> r \in NodeRows(nodes)
               /\ r \notin (NodeRows(savedNodes) \ NodesOut) \cap delta.nodeUpserts
    <3>1. PICK n \in Node, c \in Content : r = <<n, c>>
      OBVIOUS
    <3>2. /\ r \in NodeRows(savedNodes) \ NodesOut <=>
               savedNodes[n] = c /\ c # Absent /\ n \notin pendingNodes \cup removedNodes
          /\ r \in delta.nodeUpserts <=> n \in pendingNodes /\ nodes[n] = c
          /\ r \in NodeRows(nodes) <=> nodes[n] = c /\ c # Absent
      BY <3>1, <2>1, <2>2, <2>3
    <3>3. CASE n \in pendingNodes
      BY <3>2, <3>3, <2>4
    <3>4. CASE n \notin pendingNodes /\ n \in removedNodes
      BY <3>2, <3>4, <2>4
    <3>5. CASE n \notin pendingNodes \cup removedNodes
      BY <3>2, <3>5, <2>4
    <3>6. QED
      BY <3>3, <3>4, <3>5
  <2>7. QED
    BY <1>5, <2>5, <2>6
<1>8. /\ (savedEdges \ EdgesOut) \cup delta.edgeUpserts = edges
      /\ (savedEdges \ EdgesOut) \cap delta.edgeUpserts = {}
  <2>1. (IF fresh THEN savedEdges ELSE EdgesLeft) = savedEdges \ EdgesOut
    BY <1>3 DEF EdgesLeft, EdgesOut
  <2>2. (savedEdges \ EdgesOut) \cup delta.edgeUpserts = savedEdges'
    BY <2>1 DEF Apply
  <2>3. QED
    BY <1>2, <2>2 DEF EdgesOut, OfPairs, Replaced
<1>9. /\ nodeFold' = Xor(Xor(NodeRows(savedNodes), NodesOut), delta.nodeUpserts)
      /\ edgeFold' = Xor(Xor(savedEdges, EdgesOut), delta.edgeUpserts)
      /\ nodeCount' = Recount(Cardinality(NodeRows(savedNodes)), delta.nodeUpserts, NodesOut)
      /\ edgeCount' = Recount(Cardinality(savedEdges), delta.edgeUpserts, EdgesOut)
  BY <1>4 DEF Apply, AggregatesExact
<1>10. NodesOut \subseteq NodeRows(savedNodes) /\ EdgesOut \subseteq savedEdges
  BY DEF NodesOut, EdgesOut, OfPairs, Touching
<1>11. nodeFold' = NodeRows(nodes) /\ nodeCount' = Cardinality(NodeRows(nodes))
  <2>1. /\ Xor(Xor(NodeRows(savedNodes), NodesOut), delta.nodeUpserts)
             = (NodeRows(savedNodes) \ NodesOut) \cup delta.nodeUpserts
        /\ Recount(Cardinality(NodeRows(savedNodes)), delta.nodeUpserts, NodesOut)
             = Cardinality((NodeRows(savedNodes) \ NodesOut) \cup delta.nodeUpserts)
    BY <1>6, <1>7, <1>10, FoldsAndCounts
  <2>2. QED
    BY <2>1, <1>7, <1>9
<1>12. edgeFold' = edges /\ edgeCount' = Cardinality(edges)
  BY <1>6, <1>8, <1>9, <1>10, FoldsAndCounts
<1>13. NodeRows(nodes) = NodeRows(savedNodes')
  BY <1>2
<1>14. QED
  BY <1>2, <1>11, <1>12, <1>13 DEF AggregatesExact, NodeRows, Held

(* The published label is that of the rows: folds and counts, which no     *)
(* save recomputes, stay those of what is stored, since every row a delta  *)
(* replaces is folded out once and every row it brings was not there.      *)
THEOREM AggregatesStayExact == ASSUME ~Overlap PROVE Spec => []AggregatesExact
<1>1. Init => AggregatesExact
  <2>1. Cardinality({}) = 0
    BY FS_EmptySet
  <2>2. Init => NodeRows(savedNodes) = {}
    BY DEF Init, NodeRows, Held
  <2>3. QED
    BY <2>1, <2>2 DEF Init, AggregatesExact
<1>2. TypeOK /\ SerialInv /\ FreshIsEmpty /\ AggregatesExact /\ [Next]_vars => AggregatesExact'
  <2>1. UNCHANGED rows /\ AggregatesExact => AggregatesExact'
    BY DEF rows, AggregatesExact, NodeRows, Held
  <2>2. [Next]_vars => Apply \/ UNCHANGED rows
    BY DEF Next, vars, AddNode, AddEdge, ChangeEdge, RemoveNodes, RemoveEdges, FlushIndex, ReadDelta,
       FailApply, ClearDelta, Publish, EndSave, Heal, Restart
  <2>3. QED
    BY <2>1, <2>2, ApplyFolds
<1>3. QED
  BY <1>1, <1>2, SerialStep, TypeCorrect, PTL DEF Spec
-----------------------------------------------------------------------------
LEMMA GraphOf ==
  ASSUME NEW f \in [Node -> Content \cup {Absent}], NEW E \in SUBSET (Pair \X Kind)
  PROVE  AsGraph(NodeRows(f), E) \in Graphs
BY DEF AsGraph, Graphs

(* Saving the delta saves the graph; publishing names the rows, for the    *)
(* folds are theirs; the other steps write and publish nothing.            *)
LEMMA StoreStep ==
  ASSUME ~Overlap, TypeOK, SerialInv, FreshIsEmpty, AggregatesExact,
         TypeOK', SerialInv', [Next]_vars
  PROVE  [Store!Next]_(Store!vars)
<1> DEFINE held   == AsGraph(NodeRows(nodes), edges)
           stored == AsGraph(NodeRows(savedNodes), savedEdges)
           named  == AsGraph(generation.nodes, generation.edges)
<1>1. ASSUME UNCHANGED <<savedNodes, savedEdges, generation>>
      PROVE  [Store!Next]_(Store!vars)
  <2>1. held' \in Graphs
    <3>1. nodes' \in [Node -> Content \cup {Absent}] /\ edges' \in SUBSET (Pair \X Kind)
      BY DEF TypeOK
    <3>2. AsGraph(NodeRows(nodes'), edges') \in Graphs
      BY <3>1, GraphOf
    <3>3. QED
      BY <3>2 DEF AsGraph, NodeRows, Held
  <2>2. stored' = stored /\ named' = named
    BY <1>1 DEF NodeRows, Held
  <2>3. QED
    BY <2>1, <2>2 DEF Store!Next, Store!Change
<1>2. CASE Apply
  <2>1. savedNodes' = nodes /\ savedEdges' = edges
    BY <1>2, ApplyWrites
  <2>2. UNCHANGED <<nodes, edges, generation>>
    BY <1>2 DEF Apply, graph
  <2>3. stored' = held /\ held' = held /\ named' = named
    BY <2>1, <2>2 DEF NodeRows, Held
  <2>4. QED
    BY <2>3 DEF Store!Next, Store!Save
<1>3. CASE Publish
  <2>1. UNCHANGED <<nodes, edges, savedNodes, savedEdges>>
    BY <1>3 DEF Publish, graph, rows
  <2>2. generation'.nodes = NodeRows(savedNodes) /\ generation'.edges = savedEdges
    BY <1>3 DEF Publish, Label, AggregatesExact
  <2>3. named' = stored /\ held' = held /\ stored' = stored
    BY <2>1, <2>2 DEF NodeRows, Held
  <2>4. QED
    BY <2>3 DEF Store!Next, Store!Publish
<1>4. CASE FlushIndex \/ ReadDelta \/ FailApply \/ ClearDelta \/ EndSave
             \/ (\E S \in Source : Heal(S)) \/ Restart
  <2>1. UNCHANGED <<savedNodes, savedEdges, generation>>
    BY <1>4 DEF FlushIndex, ReadDelta, FailApply, ClearDelta, EndSave, Heal, Restart, rows
  <2>2. QED
    BY <1>1, <2>1
<1>5. CASE \/ \E n \in Node, c \in Content : AddNode(n, c)
           \/ \E p \in Pair, k \in Kind : AddEdge(p, k)
           \/ \E p \in Pair, k, l \in Kind : ChangeEdge(p, k, l)
           \/ \E S \in SUBSET Node : RemoveNodes(S)
           \/ \E p \in Pair, K \in SUBSET Kind : RemoveEdges(p, K)
  <2>1. UNCHANGED <<savedNodes, savedEdges, generation>>
    BY <1>5 DEF AddNode, AddEdge, ChangeEdge, RemoveNodes, RemoveEdges, rows
  <2>2. QED
    BY <1>1, <2>1
<1>6. CASE UNCHANGED vars
  <2>1. UNCHANGED <<savedNodes, savedEdges, generation>>
    BY <1>6 DEF vars, rows
  <2>2. QED
    BY <1>1, <2>1
<1>7. QED
  BY <1>2, <1>3, <1>4, <1>5, <1>6 DEF Next

(* Deltas, folds and cascades implement a store that is written whole:     *)
(* apply_delta leaves the graph in memory and nothing of an older one, and *)
(* publish names the rows there are, whatever failed or died before.       *)
THEOREM ImplementsStore == ASSUME ~Overlap PROVE Spec => StoresWholeGraphs
<1>1. Init => Store!Init
  BY DEF Init, Store!Init, NodeRows, Held, AsGraph, Label
<1>2. QED
  BY <1>1, StoreStep, TypeCorrect, SerialStep, AggregatesStayExact, PTL
     DEF Spec, StoresWholeGraphs, Store!Spec
=============================================================================
