--------------------------- MODULE MCSyncPipeline ---------------------------
EXTENDS SyncPipeline, TLC

\* The files of a source are interchangeable.
Symmetry == Permutations(File)
=============================================================================
