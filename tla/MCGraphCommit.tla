---------------------------- MODULE MCGraphCommit ----------------------------
(* An instance of GraphCommit for TLC: one linked pair of nodes,           *)
(* each of a source of its own.                                            *)
EXTENDS GraphCommit, TLC

CONSTANTS a, b
Link == {<<a, b>>}
OneEach == {{a}, {b}}

\* Contents and kinds are only compared; every property here is a safety property.
Alike == Permutations(Content) \cup Permutations(Kind)
=============================================================================
