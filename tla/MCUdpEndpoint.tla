----------------------------- MODULE MCUdpEndpoint -----------------------------
(* Instances of UdpEndpoint: a client and the server, or the server and two clients. *)
EXTENDS UdpEndpoint

CONSTANTS server, c1, c2, m1, m2, n1

\* n1 comes from client c1; the server sends m1 and, when there is one, m2.
MCFrom == [m \in Msgs |-> IF m = n1 THEN c1 ELSE server]
MCTo == [m \in Msgs |-> IF m = n1 THEN server ELSE IF c2 \in Endpoints THEN c2 ELSE c1]
================================================================================
