---------------------------- MODULE MCJobRegistry ----------------------------
(* An instance of JobRegistry for TLC: a process on schedule that may run  *)
(* both jobs, and a faulty one that may run one of them.                   *)
EXTENDS JobRegistry, TLC

CONSTANTS server, other, job1, job2
SharedId == (server :> {job1, job2} @@ other :> {job2})
=============================================================================
