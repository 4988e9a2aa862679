----------------------------- MODULE CircularBuffer -----------------------------
(***************************************************************************)
(* common/utilities/CircularBuffer.hpp: the ring of Length slots behind    *)
(* the task queue, the UDP queues and the post boxes, called by several    *)
(* threads at once.  push and pop hold rw_mtx from their first statement   *)
(* to their return; is_empty and is_full hold ronly_mtx alone, so they can *)
(* read `size` between any two statements of a push or a pop.              *)
(*                                                                         *)
(* One action per statement another thread can tell apart.  ronly_mtx is   *)
(* held for a single read, always innermost, so the read is one step and   *)
(* the mutex is no variable.  The read of `size` that races with size++ or *)
(* size-- is of one aligned word: it returns the old or the new value.     *)
(* operator[], which nothing calls, is left out; what the move constructor *)
(* leaves behind is the subject of GrpcServer.                             *)
(***************************************************************************)
EXTENDS Naturals, Sequences

CONSTANTS Threads,    \* the threads that call the buffer
          Items,      \* the values of T
          Length,     \* the template argument `length`
          NoThread    \* "rw_mtx is free"

ASSUME LengthAssumption == Length \in Nat \ {0}
ASSUME ThreadsAssumption == NoThread \notin Threads

VARIABLES circ_buffer, begin_pos, end_pos, size,
          rw_mtx,     \* the thread that holds it, or NoThread
          pc,         \* pc[t]: the statement t executes next
          op,         \* op[t]: the member function t has called
          item,       \* item[t]: push's argument, or the value pop returned
          ok          \* ok[t]: what push, is_empty, is_full or pop's optional say

ring == <<circ_buffer, begin_pos, end_pos, size>>
vars == <<circ_buffer, begin_pos, end_pos, size, rw_mtx, pc, op, item, ok>>

Ops == {"push", "pop", "is_empty", "is_full"}

Positions == 0 .. Length - 1

Goto(t, at) == pc' = [pc EXCEPT ![t] = at]

\* The position after p: "end_pos++; if (end_pos == length) end_pos = 0".
SuccMutant(p) == p + 1
Succ(p) == IF p + 1 = Length THEN 0 ELSE p + 1

--------------------------------------------------------------------------------
(* The default constructor: indices at zero, slots whatever memory held. *)
Init ==
  /\ circ_buffer \in [Positions -> Items]
  /\ begin_pos = 0 /\ end_pos = 0 /\ size = 0
  /\ rw_mtx = NoThread
  /\ pc = [t \in Threads |-> "idle"]
  /\ op \in [Threads -> Ops]
  /\ item \in [Threads -> Items]
  /\ ok \in [Threads -> BOOLEAN]

CallPush(t) ==
  /\ pc[t] = "idle"
  /\ \E x \in Items : item' = [item EXCEPT ![t] = x]
  /\ op' = [op EXCEPT ![t] = "push"]
  /\ Goto(t, "lock")
  /\ UNCHANGED <<circ_buffer, begin_pos, end_pos, size, rw_mtx, ok>>

CallPop(t) ==
  /\ pc[t] = "idle"
  /\ op' = [op EXCEPT ![t] = "pop"]
  /\ Goto(t, "lock")
  /\ UNCHANGED <<circ_buffer, begin_pos, end_pos, size, rw_mtx, item, ok>>

CallAsk(t) ==
  /\ pc[t] = "idle"
  /\ \E o \in {"is_empty", "is_full"} : op' = [op EXCEPT ![t] = o]
  /\ Goto(t, "ask")
  /\ UNCHANGED <<circ_buffer, begin_pos, end_pos, size, rw_mtx, item, ok>>

\* std::unique_lock<std::mutex> lock(rw_mtx), first in push and in pop.
LockMutant(t) ==
  /\ pc[t] = "lock"
  /\ rw_mtx' = t
  /\ Goto(t, "check")
  /\ UNCHANGED <<circ_buffer, begin_pos, end_pos, size, op, item, ok>>
Lock(t) ==
  /\ pc[t] = "lock"
  /\ rw_mtx = NoThread
  /\ rw_mtx' = t
  /\ Goto(t, "check")
  /\ UNCHANGED <<circ_buffer, begin_pos, end_pos, size, op, item, ok>>

\* push's "if (not is_full())"; a full buffer makes it return false.
PushCheck(t) ==
  /\ pc[t] = "check" /\ op[t] = "push"
  /\ IF size = Length
     THEN ok' = [ok EXCEPT ![t] = FALSE] /\ Goto(t, "unlock")
     ELSE ok' = ok /\ Goto(t, "store")
  /\ UNCHANGED <<circ_buffer, begin_pos, end_pos, size, rw_mtx, op, item>>

PushStore(t) ==
  /\ pc[t] = "store"
  /\ circ_buffer' = [circ_buffer EXCEPT ![end_pos] = item[t]]
  /\ end_pos' = Succ(end_pos)
  /\ Goto(t, "count")
  /\ UNCHANGED <<begin_pos, size, rw_mtx, op, item, ok>>

PushCount(t) ==
  /\ pc[t] = "count"
  /\ size' = size + 1
  /\ ok' = [ok EXCEPT ![t] = TRUE]
  /\ Goto(t, "unlock")
  /\ UNCHANGED <<circ_buffer, begin_pos, end_pos, rw_mtx, op, item>>

\* pop's "if (is_empty()) return std::nullopt".
PopCheck(t) ==
  /\ pc[t] = "check" /\ op[t] = "pop"
  /\ IF size = 0
     THEN ok' = [ok EXCEPT ![t] = FALSE] /\ Goto(t, "unlock")
     ELSE ok' = ok /\ Goto(t, "take")
  /\ UNCHANGED <<circ_buffer, begin_pos, end_pos, size, rw_mtx, op, item>>

\* "T item = circ_buffer[begin_pos]; size--".
PopTakeMutant(t) ==
  /\ pc[t] = "take"
  /\ item' = [item EXCEPT ![t] = circ_buffer[size - 1]]
  /\ size' = size - 1
  /\ ok' = [ok EXCEPT ![t] = TRUE]
  /\ Goto(t, "advance")
  /\ UNCHANGED <<circ_buffer, begin_pos, end_pos, rw_mtx, op>>
PopTake(t) ==
  /\ pc[t] = "take"
  /\ item' = [item EXCEPT ![t] = circ_buffer[begin_pos]]
  /\ size' = size - 1
  /\ ok' = [ok EXCEPT ![t] = TRUE]
  /\ Goto(t, "advance")
  /\ UNCHANGED <<circ_buffer, begin_pos, end_pos, rw_mtx, op>>

PopAdvance(t) ==
  /\ pc[t] = "advance"
  /\ begin_pos' = Succ(begin_pos)
  /\ Goto(t, "unlock")
  /\ UNCHANGED <<circ_buffer, end_pos, size, rw_mtx, op, item, ok>>

\* The unique_lock's destructor, as push or pop returns.
Unlock(t) ==
  /\ pc[t] = "unlock"
  /\ rw_mtx' = NoThread
  /\ Goto(t, "idle")
  /\ UNCHANGED <<circ_buffer, begin_pos, end_pos, size, op, item, ok>>

\* is_empty and is_full, called from outside: one read of size, without rw_mtx.
Ask(t) ==
  /\ pc[t] = "ask"
  /\ ok' = [ok EXCEPT ![t] = IF op[t] = "is_empty" THEN size = 0 ELSE size = Length]
  /\ Goto(t, "return")
  /\ UNCHANGED <<circ_buffer, begin_pos, end_pos, size, rw_mtx, op, item>>

Return(t) ==
  /\ pc[t] = "return"
  /\ Goto(t, "idle")
  /\ UNCHANGED <<circ_buffer, begin_pos, end_pos, size, rw_mtx, op, item, ok>>

Next ==
  \E t \in Threads :
    \/ CallPush(t) \/ CallPop(t) \/ CallAsk(t)
    \/ Lock(t) \/ Unlock(t)
    \/ PushCheck(t) \/ PushStore(t) \/ PushCount(t)
    \/ PopCheck(t) \/ PopTake(t) \/ PopAdvance(t)
    \/ Ask(t) \/ Return(t)

Spec == Init /\ [][Next]_vars

--------------------------------------------------------------------------------
(* The queue the ring stands for. *)

\* A sum of two positions, folded back into the ring once.
Wrap(p) == IF p >= Length THEN p - Length ELSE p

\* The holder of rw_mtx is at statement s.
HolderAt(s) == rw_mtx # NoThread /\ pc[rw_mtx] = s

\* Between its size-- and its begin_pos++ a pop has already taken the oldest item.
First == IF HolderAt("advance") THEN Succ(begin_pos) ELSE begin_pos

Contents == [i \in 1 .. size |-> circ_buffer[Wrap(First + (i - 1))]]

Phase ==
  [t \in Threads |->
     IF pc[t] = "idle" THEN "idle"
     ELSE IF pc[t] \in {"advance", "unlock", "return"} THEN "done" ELSE "called"]

Fifo == INSTANCE BoundedFifo WITH q <- Contents, phase <- Phase

--------------------------------------------------------------------------------
(* Every variable has its type: the positions stay inside the array and the
   counter stays within its capacity (CircularBuffer.hpp:54-84). *)
TypeOK ==
  /\ circ_buffer \in [Positions -> Items]
  /\ begin_pos \in Positions
  /\ end_pos \in Positions
  /\ size \in 0 .. Length
  /\ rw_mtx \in Threads \cup {NoThread}
  /\ pc \in [Threads -> {"idle", "lock", "check", "store", "count", "take",
                         "advance", "unlock", "ask", "return"}]
  /\ op \in [Threads -> Ops]
  /\ item \in [Threads -> Items]
  /\ ok \in [Threads -> BOOLEAN]

Critical == {"check", "store", "count", "take", "advance", "unlock"}

\* The thread inside push or pop is the one that holds rw_mtx.
Exclusive == \A t \in Threads : (pc[t] \in Critical) <=> (rw_mtx = t)

\* A thread's statement belongs to the function it has called.
InFunction ==
  \A t \in Threads :
    /\ pc[t] \in {"store", "count"} => op[t] = "push"
    /\ pc[t] \in {"take", "advance"} => op[t] = "pop"
    /\ pc[t] \in {"lock", "check"} => op[t] \in {"push", "pop"}
    /\ pc[t] = "ask" => op[t] \in {"is_empty", "is_full"}

\* What push and pop have checked still holds when they act on it.
Room ==
  /\ HolderAt("store") \/ HolderAt("count") \/ HolderAt("advance") => size < Length
  /\ HolderAt("take") => size > 0

\* end_pos is size slots past begin_pos, or one more while one of them is out of step.
Spacing ==
  end_pos = IF HolderAt("count") \/ HolderAt("advance")
            THEN Wrap(begin_pos + size + 1)
            ELSE Wrap(begin_pos + size)

\* A stored item that is not counted yet waits in the slot it will be counted in.
Stored == HolderAt("count") => circ_buffer[Wrap(begin_pos + size)] = item[rw_mtx]

(* The ring is consistent at every statement of every thread: one thread in push
   or pop, positions and counter in step, the room a call found still there, so
   no push overwrites a queued item and no pop takes an empty slot. *)
RingConsistent == Exclusive /\ InFunction /\ Room /\ Spacing /\ Stored

(* Every call takes effect at one instant, on a first-in first-out queue of at
   most Length items (push, pop, is_empty and is_full, CircularBuffer.hpp:34-84). *)
Linearizable == Fifo!Spec
================================================================================
