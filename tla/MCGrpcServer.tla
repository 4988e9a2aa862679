------------------------------ MODULE MCGrpcServer ------------------------------
(* GrpcServer on a small instance. *)
EXTENDS GrpcServer

CONSTANT u1

\* All mail is for one user, so that its messages are interchangeable.
MCTo == [m \in Msgs |-> u1]
================================================================================
