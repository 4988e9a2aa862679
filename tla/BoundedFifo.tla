------------------------------ MODULE BoundedFifo ------------------------------
(***************************************************************************)
(* What a CircularBuffer<T, Length> promises to the threads that share it: *)
(* a first-in first-out queue of at most Length items, on which every call *)
(* of push, pop, is_empty or is_full takes effect at one instant between   *)
(* its invocation and its return.                                          *)
(***************************************************************************)
EXTENDS Naturals, Sequences

CONSTANTS Threads,   \* the threads that call the queue
          Items,     \* the values of T
          Length     \* the capacity

VARIABLES q,         \* the queued items, oldest first
          phase,     \* phase[t]: no call, a call still to take effect, or an answer
          op,        \* op[t]: which operation t has called
          item,      \* item[t]: the argument of t's push, or the value its pop returned
          ok         \* ok[t]: the answer: pushed, popped, or what is_empty/is_full say

vars == <<q, phase, op, item, ok>>

Ops == {"push", "pop", "is_empty", "is_full"}

Init ==
  /\ q = <<>>
  /\ phase = [t \in Threads |-> "idle"]
  /\ op \in [Threads -> Ops]
  /\ item \in [Threads -> Items]
  /\ ok \in [Threads -> BOOLEAN]

Invoke(t) ==
  /\ phase[t] = "idle"
  /\ \E o \in Ops, x \in Items :
       /\ op' = [op EXCEPT ![t] = o]
       /\ item' = [item EXCEPT ![t] = x]
  /\ phase' = [phase EXCEPT ![t] = "called"]
  /\ UNCHANGED <<q, ok>>

Answer(t, b) ==
  /\ phase[t] = "called"
  /\ phase' = [phase EXCEPT ![t] = "done"]
  /\ ok' = [ok EXCEPT ![t] = b]
  /\ op' = op

Push(t) ==
  /\ op[t] = "push"
  /\ Len(q) < Length
  /\ Answer(t, TRUE)
  /\ q' = Append(q, item[t])
  /\ item' = item

PushFull(t) ==
  /\ op[t] = "push"
  /\ Len(q) = Length
  /\ Answer(t, FALSE)
  /\ UNCHANGED <<q, item>>

Pop(t) ==
  /\ op[t] = "pop"
  /\ q # <<>>
  /\ Answer(t, TRUE)
  /\ q' = Tail(q)
  /\ item' = [item EXCEPT ![t] = Head(q)]

PopEmpty(t) ==
  /\ op[t] = "pop"
  /\ q = <<>>
  /\ Answer(t, FALSE)
  /\ UNCHANGED <<q, item>>

Ask(t) ==
  /\ \/ op[t] = "is_empty" /\ Answer(t, q = <<>>)
     \/ op[t] = "is_full" /\ Answer(t, Len(q) = Length)
  /\ UNCHANGED <<q, item>>

Return(t) ==
  /\ phase[t] = "done"
  /\ phase' = [phase EXCEPT ![t] = "idle"]
  /\ UNCHANGED <<q, op, item, ok>>

Next ==
  \E t \in Threads :
    \/ Invoke(t) \/ Return(t)
    \/ Push(t) \/ PushFull(t)
    \/ Pop(t) \/ PopEmpty(t)
    \/ Ask(t)

Spec == Init /\ [][Next]_vars
================================================================================
