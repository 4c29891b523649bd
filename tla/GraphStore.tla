----------------------------- MODULE GraphStore -----------------------------
(***************************************************************************)
(* What the passes take the persistence of the graph for: the store holds, *)
(* whole, a graph that the memory held, and the published generation names *)
(* one that the store held.  A save that fails or is killed changes        *)
(* nothing; there are no deltas, no rows and no aggregates here.           *)
(***************************************************************************)
CONSTANTS Graph,      \* the graphs there may be
          Empty       \* the one a new installation has

VARIABLES
    memory,     \* the graph of the process
    disk,       \* the graph a process would load
    published   \* the graph whose label is published

vars == <<memory, disk, published>>

Init == memory = Empty /\ disk = Empty /\ published = Empty

\* The engine changes the graph, or a new process loads the one on disk.
Change == memory' \in Graph /\ UNCHANGED <<disk, published>>

\* A save that succeeds: nothing of another graph is left.
Save == disk' = memory /\ UNCHANGED <<memory, published>>

\* publish(): readers are told of the graph on disk.
Publish == published' = disk /\ UNCHANGED <<memory, disk>>

Next == Change \/ Save \/ Publish

Spec == Init /\ [][Next]_vars
=============================================================================
