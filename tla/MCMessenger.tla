------------------------------- MODULE MCMessenger -------------------------------
(* Messenger on a small instance: a client of alice's, which may be killed, and one
   that logs in as alice or as bob and writes to alice. *)
EXTENDS Messenger

CONSTANTS a1, a2, alice, bob, x, y

MCAccounts == [c \in Clients |-> IF c = a1 THEN {alice} ELSE {alice, bob}]
MCLimit == [c \in Clients |-> IF c = a1 THEN 0 ELSE 2]
MCHandlers == Clients \X {"unary", "stream"}
MCMsgs == UNION {{c} \X Contacts \X (1 .. Limit[c]) : c \in Clients}
MCTo == [m \in Msgs |-> m[2]]
MCExit == <<x>>
MCWords == {<<y, x>>, MCExit}
================================================================================
