---------------------------- MODULE MCLocalQueue ----------------------------
(* Instances of LocalQueue for TLC.                                        *)
EXTENDS LocalQueue, TLC

Symmetry == Permutations(Worker)
=============================================================================
