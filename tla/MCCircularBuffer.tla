---------------------------- MODULE MCCircularBuffer ----------------------------
(* CircularBuffer on a small instance: threads are interchangeable, and so are
   items. *)
EXTENDS CircularBuffer, TLC

Symmetry == Permutations(Threads) \cup Permutations(Items)
================================================================================
