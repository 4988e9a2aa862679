-------------------------- MODULE CircularBufferProofs --------------------------
(***************************************************************************)
(* For any set of threads, any items and any capacity, the CircularBuffer  *)
(* is consistent at every statement and implements BoundedFifo.            *)
(***************************************************************************)
EXTENDS CircularBuffer, TLAPS

(* Type correctness needs the ring's consistency: size stays within 0..Length
   only because what push and pop have checked still holds when they act. *)
IInv == TypeOK /\ RingConsistent

LEMMA InitIInv == ASSUME Init PROVE IInv
<1>1. TypeOK
  BY LengthAssumption DEF Init, TypeOK, Positions
<1>2. RingConsistent
  BY LengthAssumption, ThreadsAssumption
  DEF Init, RingConsistent, Exclusive, Critical, InFunction, Room, Spacing,
      Stored, HolderAt, Wrap
<1>3. QED  BY <1>1, <1>2 DEF IInv

(* A step of one thread keeps the ring consistent. *)
LEMMA StepIInv ==
  ASSUME IInv, [Next]_vars
  PROVE  IInv'
<1>. USE LengthAssumption, ThreadsAssumption
<1>. USE DEF IInv, TypeOK, RingConsistent, Exclusive, Critical, InFunction, Room,
             Spacing, Stored, HolderAt, Wrap, Positions, Ops, Goto
<1>1. ASSUME NEW t \in Threads, CallPush(t) PROVE IInv'
  BY <1>1 DEF CallPush
<1>2. ASSUME NEW t \in Threads, CallPop(t) PROVE IInv'
  BY <1>2 DEF CallPop
<1>3. ASSUME NEW t \in Threads, CallAsk(t) PROVE IInv'
  BY <1>3 DEF CallAsk
<1>4. ASSUME NEW t \in Threads, Lock(t) PROVE IInv'
  BY <1>4 DEF Lock
<1>5. ASSUME NEW t \in Threads, Unlock(t) PROVE IInv'
  BY <1>5 DEF Unlock
<1>6. ASSUME NEW t \in Threads, PushCheck(t) PROVE IInv'
  <2>1. CASE size = Length  BY <1>6, <2>1 DEF PushCheck
  <2>2. CASE ~(size = Length)  BY <1>6, <2>2 DEF PushCheck
  <2>3. QED  BY <2>1, <2>2
<1>7. ASSUME NEW t \in Threads, PushStore(t) PROVE IInv'
  BY <1>7 DEF PushStore, Succ
<1>8. ASSUME NEW t \in Threads, PushCount(t) PROVE IInv'
  BY <1>8 DEF PushCount
<1>9. ASSUME NEW t \in Threads, PopCheck(t) PROVE IInv'
  <2>1. CASE size = 0  BY <1>9, <2>1 DEF PopCheck
  <2>2. CASE ~(size = 0)  BY <1>9, <2>2 DEF PopCheck
  <2>3. QED  BY <2>1, <2>2
<1>10. ASSUME NEW t \in Threads, PopTake(t) PROVE IInv'
  BY <1>10 DEF PopTake
<1>11. ASSUME NEW t \in Threads, PopAdvance(t) PROVE IInv'
  BY <1>11 DEF PopAdvance, Succ
<1>12. ASSUME NEW t \in Threads, Ask(t) PROVE IInv'
  BY <1>12 DEF Ask
<1>13. ASSUME NEW t \in Threads, Return(t) PROVE IInv'
  BY <1>13 DEF Return
<1>14. CASE UNCHANGED vars
  BY <1>14 DEF vars
<1>15. QED
  BY <1>1, <1>2, <1>3, <1>4, <1>5, <1>6, <1>7, <1>8, <1>9, <1>10, <1>11, <1>12,
     <1>13, <1>14 DEF Next

(* The ring is consistent at every statement, with positions and counter in their
   ranges (CircularBuffer.hpp:54-84). *)
THEOREM RingIsConsistent == Spec => [](TypeOK /\ RingConsistent)
<1>1. Init => IInv
  BY InitIInv
<1>2. IInv /\ [Next]_vars => IInv'
  BY StepIInv
<1>3. QED
  BY <1>1, <1>2, PTL DEF Spec, IInv

(* The ring's positions and counter stay in their ranges, and the calls' locals have
   their types (CircularBuffer.hpp:54-84). *)
THEOREM RingTypes == Spec => []TypeOK
BY RingIsConsistent, PTL

--------------------------------------------------------------------------------
(* Refinement: the ring's contents, read as a sequence. *)

Slot(i) == circ_buffer[Wrap(First + (i - 1))]

LEMMA ContentsIsSequence ==
  ASSUME IInv
  PROVE  /\ Contents \in Seq(Items)
         /\ Len(Contents) = size
         /\ \A i \in 1 .. size : Contents[i] = Slot(i)
<1>1. \A i \in 1 .. size : Wrap(First + (i - 1)) \in Positions
  BY LengthAssumption
  DEF IInv, TypeOK, RingConsistent, Room, HolderAt, Positions, First, Succ, Wrap
<1>2. \A i \in 1 .. size : Slot(i) \in Items
  BY <1>1 DEF IInv, TypeOK, Slot
<1>3. size \in Nat
  BY LengthAssumption DEF IInv, TypeOK
<1>4. Contents = [i \in 1 .. size |-> Slot(i)]
  BY DEF Contents, Slot
<1>. HIDE DEF Contents, Slot
<1>5. QED  BY <1>2, <1>3, <1>4

(* The same of the next state. *)
LEMMA NextContentsIsSequence ==
  IInv' => (/\ Contents \in Seq(Items)
            /\ Len(Contents) = size
            /\ \A i \in 1 .. size : Contents[i] = Slot(i))'
<1>1. IInv => /\ Contents \in Seq(Items)
              /\ Len(Contents) = size
              /\ \A i \in 1 .. size : Contents[i] = Slot(i)
  BY ContentsIsSequence
<1>2. QED  BY <1>1, PTL

LEMMA InitRefines == ASSUME Init PROVE Fifo!Init
<1>1. IInv /\ size = 0
  BY InitIInv DEF Init
<1>2. Contents \in Seq(Items) /\ Len(Contents) = 0
  BY <1>1, ContentsIsSequence
<1>3. Contents = <<>>
  BY <1>2
<1>4. Phase = [t \in Threads |-> "idle"]
  BY DEF Init, Phase
<1>5. QED
  BY <1>3, <1>4 DEF Init, Fifo!Init, Ops, Fifo!Ops

(* While neither the counter, nor the place of the oldest item, nor a queued
   slot changes, the contents stay. *)
LEMMA SameContents ==
  ASSUME IInv, size' = size, First' = First,
         \A i \in 1 .. size : circ_buffer'[Wrap(First + (i - 1))] = Slot(i)
  PROVE  Contents' = Contents
BY DEF Contents, Slot, Wrap

LEMMA SameFirst ==
  ASSUME IInv, IInv', begin_pos' = begin_pos,
         ~HolderAt("advance"), ~HolderAt("advance")'
  PROVE  First' = First
BY DEF First

(* Steps that take no effect on the queue leave all of its state alone. *)
LEMMA QuietStep ==
  ASSUME IInv, IInv', NEW t \in Threads, Lock(t) \/ PushStore(t) \/ PopAdvance(t)
  PROVE  UNCHANGED Fifo!vars
<1>. USE DEF Goto, HolderAt
<1>1. CASE Lock(t)
  <2>1. Phase' = Phase
    BY <1>1 DEF Lock, Phase, IInv, TypeOK
  <2>2. First' = First
    BY <1>1, ThreadsAssumption
    DEF Lock, First, IInv, TypeOK, RingConsistent, Exclusive, Critical
  <2>3. Contents' = Contents
    BY <1>1, <2>2, SameContents DEF Lock, Slot
  <2>4. QED  BY <1>1, <2>1, <2>3 DEF Lock, Fifo!vars
<1>2. CASE PushStore(t)
  <2>1. Phase' = Phase
    BY <1>2 DEF PushStore, Phase, IInv, TypeOK
  <2>2. rw_mtx = t /\ rw_mtx # NoThread /\ size < Length
    BY <1>2, ThreadsAssumption
    DEF PushStore, IInv, RingConsistent, Exclusive, Critical, Room
  <2>3. First = begin_pos /\ First' = begin_pos
    BY <1>2, <2>2 DEF PushStore, First, IInv, TypeOK
  <2>4. end_pos = Wrap(begin_pos + size)
    BY <1>2, <2>2 DEF PushStore, IInv, RingConsistent, Spacing
  <2>5. \A i \in 1 .. size : circ_buffer'[Wrap(First + (i - 1))] = Slot(i)
    BY <1>2, <2>2, <2>3, <2>4, LengthAssumption
    DEF PushStore, Slot, Wrap, IInv, TypeOK, Positions
  <2>6. Contents' = Contents
    BY <1>2, <2>3, <2>5, SameContents DEF PushStore
  <2>7. QED  BY <1>2, <2>1, <2>6 DEF PushStore, Fifo!vars
<1>3. CASE PopAdvance(t)
  <2>1. Phase' = Phase
    BY <1>3 DEF PopAdvance, Phase, IInv, TypeOK
  <2>2. rw_mtx = t /\ rw_mtx # NoThread
    BY <1>3, ThreadsAssumption
    DEF PopAdvance, IInv, RingConsistent, Exclusive, Critical
  <2>3. First = Succ(begin_pos) /\ First' = Succ(begin_pos)
    BY <1>3, <2>2 DEF PopAdvance, First, IInv, TypeOK
  <2>4. Contents' = Contents
    BY <1>3, <2>3, SameContents DEF PopAdvance, Slot
  <2>5. QED  BY <1>3, <2>1, <2>4 DEF PopAdvance, Fifo!vars
<1>4. QED  BY <1>1, <1>2, <1>3

(* A call, a full push, an empty pop, a question and a return change no slot. *)
LEMMA StillContents ==
  ASSUME IInv, IInv', UNCHANGED ring, NEW t \in Threads,
         \/ CallPush(t) \/ CallPop(t) \/ CallAsk(t) \/ Unlock(t)
         \/ PushCheck(t) \/ PopCheck(t) \/ Ask(t) \/ Return(t)
  PROVE  Contents' = Contents
<1>1. ~HolderAt("advance")' <=> ~HolderAt("advance")
  BY ThreadsAssumption
  DEF CallPush, CallPop, CallAsk, Unlock, PushCheck, PopCheck, Ask, Return, Goto,
      HolderAt, IInv, TypeOK, RingConsistent, Exclusive, Critical
<1>2. First' = First
  BY <1>1 DEF First, ring, Succ
<1>3. QED
  BY <1>2, SameContents DEF ring, Slot

LEMMA CallRefines ==
  ASSUME IInv, IInv', NEW t \in Threads, CallPush(t) \/ CallPop(t) \/ CallAsk(t)
  PROVE  Fifo!Invoke(t)
<1>1. UNCHANGED ring
  BY DEF CallPush, CallPop, CallAsk, ring
<1>2. Contents' = Contents
  BY <1>1, StillContents
<1>3. Phase[t] = "idle" /\ Phase' = [Phase EXCEPT ![t] = "called"]
  BY DEF CallPush, CallPop, CallAsk, Goto, Phase, IInv, TypeOK
<1>4. \E o \in Ops, x \in Items :
        op' = [op EXCEPT ![t] = o] /\ item' = [item EXCEPT ![t] = x]
  <2>1. CASE CallPush(t)
    BY <2>1 DEF CallPush, Ops
  <2>2. CASE CallPop(t) \/ CallAsk(t)
    <3>1. item' = [item EXCEPT ![t] = item[t]] /\ item[t] \in Items
      BY <2>2 DEF CallPop, CallAsk, IInv, TypeOK
    <3>2. QED  BY <2>2, <3>1 DEF CallPop, CallAsk, Ops
  <2>3. QED  BY <2>1, <2>2
<1>5. ok' = ok
  BY DEF CallPush, CallPop, CallAsk
<1>6. QED
  BY <1>2, <1>3, <1>4, <1>5 DEF Fifo!Invoke, Ops, Fifo!Ops

LEMMA ReturnRefines ==
  ASSUME IInv, IInv', NEW t \in Threads, Unlock(t) \/ Return(t)
  PROVE  Fifo!Return(t)
<1>1. UNCHANGED ring
  BY DEF Unlock, Return, ring
<1>2. Contents' = Contents
  BY <1>1, StillContents
<1>3. Phase[t] = "done" /\ Phase' = [Phase EXCEPT ![t] = "idle"]
  BY DEF Unlock, Return, Goto, Phase, IInv, TypeOK
<1>4. QED
  BY <1>2, <1>3 DEF Fifo!Return, Unlock, Return

LEMMA AskRefines ==
  ASSUME IInv, IInv', NEW t \in Threads, Ask(t)
  PROVE  Fifo!Ask(t)
<1>1. Contents' = Contents
  BY StillContents DEF Ask, ring
<1>2. Phase[t] = "called" /\ Phase' = [Phase EXCEPT ![t] = "done"]
  BY DEF Ask, Goto, Phase, IInv, TypeOK
<1>3. (Contents = <<>> <=> size = 0) /\ Len(Contents) = size
  BY ContentsIsSequence
<1>4. CASE op[t] = "is_empty"
  <2>1. ok' = [ok EXCEPT ![t] = (Contents = <<>>)]
    BY <1>3, <1>4 DEF Ask
  <2>2. QED  BY <1>1, <1>2, <1>4, <2>1 DEF Ask, Fifo!Ask, Fifo!Answer
<1>5. CASE op[t] = "is_full"
  <2>1. ok' = [ok EXCEPT ![t] = (Len(Contents) = Length)]
    BY <1>3, <1>5 DEF Ask
  <2>2. QED  BY <1>1, <1>2, <1>5, <2>1 DEF Ask, Fifo!Ask, Fifo!Answer
<1>6. QED
  BY <1>4, <1>5 DEF Ask, IInv, RingConsistent, InFunction

LEMMA PushRefines ==
  ASSUME IInv, IInv', NEW t \in Threads, PushCount(t)
  PROVE  Fifo!Push(t)
<1>1. rw_mtx = t /\ rw_mtx # NoThread /\ size < Length /\ size \in Nat
  BY ThreadsAssumption, LengthAssumption
  DEF PushCount, IInv, TypeOK, RingConsistent, Exclusive, Critical, Room, HolderAt
<1>2. First = begin_pos /\ First' = begin_pos
  BY <1>1 DEF PushCount, Goto, First, HolderAt, IInv, TypeOK
<1>3. circ_buffer[Wrap(begin_pos + size)] = item[t]
  BY <1>1 DEF PushCount, IInv, RingConsistent, Stored, HolderAt
<1>4. /\ Contents \in Seq(Items) /\ Len(Contents) = size
      /\ \A i \in 1 .. size : Contents[i] = Slot(i)
  BY ContentsIsSequence
<1>5. /\ Contents' \in Seq(Items) /\ Len(Contents') = size + 1
      /\ \A i \in 1 .. size + 1 : Contents'[i] = Slot(i)'
  <2>1. size' = size + 1
    BY DEF PushCount
  <2>2. /\ Contents' \in Seq(Items) /\ Len(Contents') = size'
        /\ \A i \in 1 .. size' : Contents'[i] = Slot(i)'
    BY NextContentsIsSequence
  <2>3. QED  BY <2>1, <2>2
<1>6. \A i \in 1 .. size + 1 : Slot(i)' = Slot(i)
  BY <1>2 DEF PushCount, Slot, Wrap
<1>7. Slot(size + 1) = item[t]
  BY <1>1, <1>2, <1>3 DEF Slot, IInv, TypeOK, Positions
<1>8. item[t] \in Items
  BY DEF IInv, TypeOK
<1>9. Contents' = Append(Contents, item[t])
  BY <1>1, <1>4, <1>5, <1>6, <1>7, <1>8
<1>10. Phase[t] = "called" /\ Phase' = [Phase EXCEPT ![t] = "done"]
  BY DEF PushCount, Goto, Phase, IInv, TypeOK
<1>11. op[t] = "push"
  BY DEF PushCount, IInv, RingConsistent, InFunction
<1>12. QED
  BY <1>1, <1>4, <1>9, <1>10, <1>11 DEF PushCount, Fifo!Push, Fifo!Answer

LEMMA PopRefines ==
  ASSUME IInv, IInv', NEW t \in Threads, PopTake(t)
  PROVE  Fifo!Pop(t)
<1>1. rw_mtx = t /\ rw_mtx # NoThread /\ size > 0 /\ size \in Nat
  BY ThreadsAssumption, LengthAssumption
  DEF PopTake, IInv, TypeOK, RingConsistent, Exclusive, Critical, Room, HolderAt
<1>2. First = begin_pos /\ First' = Succ(begin_pos)
  BY <1>1 DEF PopTake, Goto, First, HolderAt, IInv, TypeOK
<1>3. /\ Contents \in Seq(Items) /\ Len(Contents) = size
      /\ \A i \in 1 .. size : Contents[i] = Slot(i)
  BY ContentsIsSequence
<1>4. /\ Contents' \in Seq(Items) /\ Len(Contents') = size - 1
      /\ \A i \in 1 .. size - 1 : Contents'[i] = Slot(i)'
  <2>1. size' = size - 1
    BY DEF PopTake
  <2>2. /\ Contents' \in Seq(Items) /\ Len(Contents') = size'
        /\ \A i \in 1 .. size' : Contents'[i] = Slot(i)'
    BY NextContentsIsSequence
  <2>3. QED  BY <2>1, <2>2
<1>5. \A i \in 1 .. size - 1 : Slot(i)' = Slot(i + 1)
  BY <1>1, <1>2, LengthAssumption
  DEF PopTake, Slot, Wrap, Succ, IInv, TypeOK, Positions
<1>6. Contents # <<>> /\ Contents' = Tail(Contents)
  BY <1>1, <1>3, <1>4, <1>5
<1>7. Head(Contents) = circ_buffer[begin_pos]
  <2>1. Slot(1) = circ_buffer[begin_pos]
    BY <1>2, LengthAssumption DEF Slot, Wrap, IInv, TypeOK, Positions
  <2>2. QED  BY <1>1, <1>3, <2>1
<1>8. Phase[t] = "called" /\ Phase' = [Phase EXCEPT ![t] = "done"]
  BY DEF PopTake, Goto, Phase, IInv, TypeOK
<1>9. op[t] = "pop"
  BY DEF PopTake, IInv, RingConsistent, InFunction
<1>10. QED
  BY <1>6, <1>7, <1>8, <1>9 DEF PopTake, Fifo!Pop, Fifo!Answer

LEMMA CheckRefines ==
  ASSUME IInv, IInv', NEW t \in Threads, PushCheck(t) \/ PopCheck(t)
  PROVE  UNCHANGED Fifo!vars \/ Fifo!PushFull(t) \/ Fifo!PopEmpty(t)
<1>1. Contents' = Contents
  BY StillContents DEF PushCheck, PopCheck, ring
<1>2. (Contents = <<>> <=> size = 0) /\ Len(Contents) = size
  BY ContentsIsSequence
<1>3. Phase[t] = "called"
  BY DEF PushCheck, PopCheck, Phase, IInv, TypeOK
<1>4. CASE pc'[t] = "unlock"
  <2>1. Phase' = [Phase EXCEPT ![t] = "done"]
    BY <1>4 DEF PushCheck, PopCheck, Goto, Phase, IInv, TypeOK
  <2>2. CASE PushCheck(t)
    <3>1. size = Length /\ ok' = [ok EXCEPT ![t] = FALSE]
      BY <1>4, <2>2 DEF PushCheck, Goto, IInv, TypeOK
    <3>2. QED
      BY <1>1, <1>2, <1>3, <2>1, <2>2, <3>1 DEF PushCheck, Fifo!PushFull, Fifo!Answer
  <2>3. CASE PopCheck(t)
    <3>1. size = 0 /\ ok' = [ok EXCEPT ![t] = FALSE]
      BY <1>4, <2>3 DEF PopCheck, Goto, IInv, TypeOK
    <3>2. QED
      BY <1>1, <1>2, <1>3, <2>1, <2>3, <3>1 DEF PopCheck, Fifo!PopEmpty, Fifo!Answer
  <2>4. QED  BY <2>2, <2>3
<1>5. CASE pc'[t] # "unlock"
  <2>1. Phase' = Phase
    BY <1>5 DEF PushCheck, PopCheck, Goto, Phase, IInv, TypeOK
  <2>2. ok' = ok
    BY <1>5 DEF PushCheck, PopCheck, Goto, IInv, TypeOK
  <2>3. QED  BY <1>1, <2>1, <2>2 DEF PushCheck, PopCheck, Fifo!vars
<1>6. QED  BY <1>4, <1>5

LEMMA StepRefines ==
  ASSUME IInv, IInv', [Next]_vars
  PROVE  [Fifo!Next]_(Fifo!vars)
<1>1. ASSUME NEW t \in Threads,
             \/ CallPush(t) \/ CallPop(t) \/ CallAsk(t)
             \/ Lock(t) \/ Unlock(t)
             \/ PushCheck(t) \/ PushStore(t) \/ PushCount(t)
             \/ PopCheck(t) \/ PopTake(t) \/ PopAdvance(t)
             \/ Ask(t) \/ Return(t)
      PROVE  Fifo!Next \/ UNCHANGED Fifo!vars
  BY <1>1, CallRefines, QuietStep, ReturnRefines, CheckRefines, PushRefines,
     PopRefines, AskRefines DEF Fifo!Next
<1>2. CASE UNCHANGED vars
  <2>1. First' = First
    BY <1>2 DEF vars, First, HolderAt, Succ
  <2>2. Contents' = Contents /\ Phase' = Phase
    BY <1>2, <2>1, SameContents DEF vars, Slot, Phase
  <2>3. QED  BY <1>2, <2>2 DEF vars, Fifo!vars
<1>3. QED
  BY <1>1, <1>2 DEF Next

(* Every call of push, pop, is_empty and is_full takes effect at one instant on a
   bounded first-in first-out queue, whatever the interleaving: the ring
   implements BoundedFifo (CircularBuffer.hpp:34-84). *)
THEOREM RingImplementsFifo == Spec => Linearizable
<1>1. Init => Fifo!Init
  BY InitRefines
<1>2. IInv /\ IInv' /\ [Next]_vars => [Fifo!Next]_(Fifo!vars)
  BY StepRefines
<1>3. Spec => []IInv
  <2>1. Init => IInv
    BY InitIInv
  <2>2. IInv /\ [Next]_vars => IInv'
    BY StepIInv
  <2>3. QED  BY <2>1, <2>2, PTL DEF Spec
<1>4. QED
  BY <1>1, <1>2, <1>3, PTL DEF Spec, Linearizable, Fifo!Spec
================================================================================
