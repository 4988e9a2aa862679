--------------------------- MODULE MCAuthentification ---------------------------
(* Authentification on a small instance: the two predefined users, and a third whom the
   client knows and the server does not. *)
EXTENDS Authentification, TLC

CONSTANTS user1, user2

MCPredefined == <<user1, user2>>

Symmetry == Permutations(Handlers)
================================================================================
