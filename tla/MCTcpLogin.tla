------------------------------ MODULE MCTcpLogin ------------------------------
(* TcpLogin on small instances. *)
EXTENDS TcpLogin

CONSTANTS c1, c2, c3, alice, bob, h1, h2

\* alice and bob log in; the third client, which keeps silent, has no account.
MCAccount == [c \in Tasks |-> CASE c = c1 -> alice [] c = c2 -> bob [] c = c3 -> NoUser]
MCHost == [c \in Tasks |-> IF c = c1 THEN h1 ELSE h2]
MCRecipient == [m \in Mail |-> alice]
================================================================================
