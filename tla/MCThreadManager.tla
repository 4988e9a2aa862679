----------------------------- MODULE MCThreadManager -----------------------------
(* ThreadManager on a small instance. *)
EXTENDS ThreadManager
================================================================================
