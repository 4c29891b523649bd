----------------------------- MODULE MCNatsQueue -----------------------------
(* Instances of NatsQueue for TLC.                                         *)
EXTENDS NatsQueue
=============================================================================
