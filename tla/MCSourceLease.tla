---------------------------- MODULE MCSourceLease ----------------------------
(* Instances of SourceLease for TLC: three processes with one lease each   *)
(* on two hosts, or two threads of one process and a third elsewhere.    *)
EXTENDS SourceLease

CONSTANTS a, b, c

OneLeaseEach == [l \in Lease |-> l]
SharedOwner  == [l \in Lease |-> IF l = b THEN a ELSE l]
OwnHost      == [o \in Owner |-> o]
TwoHosts     == [o \in Owner |-> IF o = b THEN a ELSE o]
=============================================================================
