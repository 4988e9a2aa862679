-------------------------- MODULE ThreadManagerProofs --------------------------
(***************************************************************************)
(* For any pool, callers, tasks and capacity: the queue keeps its capacity *)
(* and its order, no worker sleeps through work, and the destructor leaves *)
(* nothing undone.                                                         *)
(***************************************************************************)
EXTENDS ThreadManager, SequenceTheorems, TLAPS

(* A caller inside schedule_task has a task to schedule. *)
ArgsOK == \A c \in Callers : caller[c] # "idle" => arg[c] \in Tasks

(* A worker that runs has a task. *)
TaskOK == \A w \in Workers : worker[w] = "run" => task[w] \in Tasks

Types == TypeOK /\ ArgsOK /\ TaskOK

LEMMA InitTypes == ASSUME Init PROVE Types
BY CapacityAssumption DEF Init, Types, TypeOK, ArgsOK, TaskOK

LEMMA StepTypes ==
  ASSUME Types, [Next]_vars
  PROVE  Types'
<1>. USE CapacityAssumption DEF Types, TypeOK, ArgsOK, TaskOK
<1>1. ASSUME NEW c \in Callers, NEW t \in Tasks, ScheduleTask(c, t) PROVE Types'
  BY <1>1 DEF ScheduleTask
<1>2. ASSUME NEW c \in Callers, Retry(c) PROVE Types'
  BY <1>2 DEF Retry
<1>3. ASSUME NEW c \in Callers, WakeUp(c) PROVE Types'
  BY <1>3 DEF WakeUp
<1>4. ASSUME NEW c \in Callers, PushTask(c) PROVE Types'
  BY <1>4 DEF PushTask, HasRoom
<1>5. ASSUME NEW c \in Callers, Notify(c) PROVE Types'
  BY <1>5 DEF Notify, Notified
<1>6. ASSUME NEW w \in Workers, Wait(w) PROVE Types'
  BY <1>6 DEF Wait
<1>7. ASSUME NEW w \in Workers, WakeSpuriously(w) PROVE Types'
  BY <1>7 DEF WakeSpuriously
<1>8. ASSUME NEW w \in Workers, Take(w) PROVE Types'
  BY <1>8 DEF Take
<1>9. ASSUME NEW w \in Workers, Run(w) PROVE Types'
  BY <1>9 DEF Run
<1>10. ASSUME NEW w \in Workers, Exit(w) PROVE Types'
  BY <1>10 DEF Exit
<1>11. CASE Stop
  BY <1>11 DEF Stop
<1>12. CASE StopNotify
  BY <1>12 DEF StopNotify, Notified
<1>13. CASE Join
  BY <1>13 DEF Join
<1>14. CASE UNCHANGED vars
  BY <1>14 DEF vars
<1>15. QED
  BY <1>1, <1>2, <1>3, <1>4, <1>5, <1>6, <1>7, <1>8, <1>9, <1>10, <1>11, <1>12,
     <1>13, <1>14
  DEF Next, CallerStep, WorkerStep, DestructorStep, Terminated

--------------------------------------------------------------------------------
(* Sequences: where an element goes when it is added at one end, or moved across. *)

LEMMA ConcatAppend ==
  ASSUME NEW S, NEW s \in Seq(S), NEW t \in Seq(S), NEW e \in S
  PROVE  s \o Append(t, e) = Append(s \o t, e)
<1>1. /\ s \o Append(t, e) \in Seq(S) /\ Append(s \o t, e) \in Seq(S)
      /\ Len(s \o Append(t, e)) = Len(Append(s \o t, e))
  OBVIOUS
<1>2. ASSUME NEW i \in 1 .. Len(s \o Append(t, e))
      PROVE  (s \o Append(t, e))[i] = Append(s \o t, e)[i]
  OBVIOUS
<1>3. QED  BY <1>1, <1>2, SeqEqual

LEMMA ConcatMove ==
  ASSUME NEW S, NEW s \in Seq(S), NEW t \in Seq(S), t # <<>>
  PROVE  Append(s, Head(t)) \o Tail(t) = s \o t
<1>1. Head(t) \in S /\ Tail(t) \in Seq(S) /\ Len(Tail(t)) = Len(t) - 1
  OBVIOUS
<1>2. /\ Append(s, Head(t)) \o Tail(t) \in Seq(S) /\ s \o t \in Seq(S)
      /\ Len(Append(s, Head(t)) \o Tail(t)) = Len(s \o t)
  BY <1>1
<1>3. ASSUME NEW i \in 1 .. Len(s \o t)
      PROVE  (Append(s, Head(t)) \o Tail(t))[i] = (s \o t)[i]
  BY <1>1
<1>4. QED  BY <1>2, <1>3, SeqEqual

--------------------------------------------------------------------------------
(* What a started task that has not returned, an exited worker and the steps of the
   destructor say of the rest. *)
Accounted ==
  \A i \in 1 .. Len(started) :
    started[i] \in finished \/ \E w \in Workers : worker[w] = "run" /\ task[w] = started[i]

Shutdown ==
  /\ is_running <=> destructor = "uncalled"
  /\ ~is_running => \A c \in Callers : caller[c] = "idle"
  /\ \A w \in Workers : worker[w] = "exited" => ~is_running /\ task_queue = <<>>
  /\ destructor = "done" => \A w \in Workers : worker[w] = "exited"

Safe == StartedInOrder /\ NoLostWakeup /\ Accounted /\ Shutdown

LEMMA InitSafe == ASSUME Init PROVE Safe
BY WorkersAssumption
DEF Init, Safe, StartedInOrder, NoLostWakeup, Accounted, Shutdown

LEMMA StepStartedInOrder ==
  ASSUME Types, StartedInOrder, [Next]_vars
  PROVE  StartedInOrder'
<1>. USE DEF Types, TypeOK, ArgsOK, StartedInOrder
<1>1. ASSUME NEW c \in Callers, PushTask(c) PROVE StartedInOrder'
  <2>1. arg[c] \in Tasks /\ started \in Seq(Tasks) /\ task_queue \in Seq(Tasks)
    BY <1>1 DEF PushTask
  <2>2. started \o Append(task_queue, arg[c]) = Append(started \o task_queue, arg[c])
    BY ONLY <2>1, ConcatAppend
  <2>3. QED  BY <1>1, <2>2 DEF PushTask
<1>2. ASSUME NEW w \in Workers, Take(w) PROVE StartedInOrder'
  <2>1. Append(started, Head(task_queue)) \o Tail(task_queue) = started \o task_queue
    BY <1>2, ConcatMove DEF Take
  <2>2. QED  BY <1>2, <2>1 DEF Take
<1>3. CASE UNCHANGED <<started, task_queue, queued>>
  BY <1>3
<1>4. QED
  BY <1>1, <1>2, <1>3
  DEF Next, CallerStep, WorkerStep, DestructorStep, Terminated, ScheduleTask, Retry,
      WakeUp, Notify, Wait, WakeSpuriously, Run, Exit, Stop, StopNotify, Join, vars

LEMMA StepNoLostWakeup ==
  ASSUME Types, Shutdown, NoLostWakeup, [Next]_vars
  PROVE  NoLostWakeup'
<1>. USE DEF Types, TypeOK, NoLostWakeup
<1>1. ASSUME NEW c \in Callers, CallerStep(c) PROVE NoLostWakeup'
  <2>1. CASE Retry(c) \/ WakeUp(c)
    BY <2>1 DEF Retry, WakeUp
  <2>2. CASE PushTask(c)
    BY <2>2 DEF PushTask
  <2>3. CASE Notify(c)
    BY <2>3, WorkersAssumption DEF Notify, Notified
  <2>4. QED  BY <1>1, <2>1, <2>2, <2>3 DEF CallerStep
<1>2. ASSUME NEW w \in Workers, WorkerStep(w) \/ WakeSpuriously(w) PROVE NoLostWakeup'
  <2>1. CASE Wait(w)
    BY <2>1 DEF Wait
  <2>2. CASE Take(w)
    BY <2>2 DEF Take
  <2>3. CASE Run(w)
    BY <2>3 DEF Run
  <2>4. CASE Exit(w)
    BY <2>4 DEF Exit
  <2>5. CASE WakeSpuriously(w)
    BY <2>5 DEF WakeSpuriously
  <2>6. QED  BY <1>2, <2>1, <2>2, <2>3, <2>4, <2>5 DEF WorkerStep
<1>3. ASSUME NEW c \in Callers, NEW t \in Tasks, ScheduleTask(c, t) PROVE NoLostWakeup'
  BY <1>3 DEF ScheduleTask
<1>4. CASE Stop
  BY <1>4 DEF Stop
<1>5. CASE StopNotify
  BY <1>5, WorkersAssumption DEF StopNotify, Notified
<1>6. CASE Join
  BY <1>6, WorkersAssumption DEF Join
<1>7. CASE UNCHANGED vars
  BY <1>7 DEF vars
<1>8. QED
  BY <1>1, <1>2, <1>3, <1>4, <1>5, <1>6, <1>7 DEF Next, DestructorStep, Terminated

LEMMA StepAccounted ==
  ASSUME Types, Accounted, [Next]_vars
  PROVE  Accounted'
<1>. USE DEF Types, TypeOK, Accounted
<1>1. ASSUME NEW w \in Workers, Take(w) PROVE Accounted'
  <2>1. /\ \A i \in 1 .. Len(started) : started'[i] = started[i]
        /\ Len(started') = Len(started) + 1
        /\ started'[Len(started) + 1] = Head(task_queue)
        /\ Head(task_queue) \in Tasks
    BY <1>1 DEF Take
  <2>2. worker'[w] = "run" /\ task'[w] = Head(task_queue)
    BY <1>1 DEF Take
  <2>3. \A v \in Workers : worker[v] = "run" => worker'[v] = "run" /\ task'[v] = task[v]
    BY <1>1 DEF Take
  <2>4. finished' = finished
    BY <1>1 DEF Take
  <2>5. SUFFICES ASSUME NEW i \in 1 .. Len(started')
                 PROVE  started'[i] \in finished' \/
                        \E v \in Workers : worker'[v] = "run" /\ task'[v] = started'[i]
    OBVIOUS
  <2>6. CASE i = Len(started) + 1
    BY <2>1, <2>2, <2>6
  <2>7. CASE i \in 1 .. Len(started)
    <3>1. started'[i] = started[i]
      BY <2>1, <2>7
    <3>2. CASE started[i] \in finished
      BY <2>4, <3>1, <3>2
    <3>3. CASE \E v \in Workers : worker[v] = "run" /\ task[v] = started[i]
      BY <2>3, <3>1, <3>3
    <3>4. QED  BY <2>7, <3>2, <3>3
  <2>8. QED  BY <2>1, <2>6, <2>7
<1>2. ASSUME NEW w \in Workers, Run(w) PROVE Accounted'
  BY <1>2 DEF Run
<1>3. ASSUME NEW w \in Workers, Wait(w) \/ WakeSpuriously(w) \/ Exit(w) PROVE Accounted'
  BY <1>3 DEF Wait, WakeSpuriously, Exit
<1>4. ASSUME NEW c \in Callers, NEW t \in Tasks, ScheduleTask(c, t) PROVE Accounted'
  BY <1>4 DEF ScheduleTask
<1>5. ASSUME NEW c \in Callers, CallerStep(c) PROVE Accounted'
  <2>1. CASE Retry(c) \/ WakeUp(c) \/ PushTask(c)
    BY <2>1 DEF Retry, WakeUp, PushTask
  <2>2. CASE Notify(c)
    BY <2>2 DEF Notify, Notified
  <2>3. QED  BY <1>5, <2>1, <2>2 DEF CallerStep
<1>6. CASE StopNotify
  BY <1>6 DEF StopNotify, Notified
<1>7. CASE Stop \/ Join \/ UNCHANGED vars
  BY <1>7 DEF Stop, Join, vars
<1>8. QED
  BY <1>1, <1>2, <1>3, <1>4, <1>5, <1>6, <1>7
  DEF Next, WorkerStep, DestructorStep, Terminated

LEMMA StepShutdown ==
  ASSUME Types, Shutdown, [Next]_vars
  PROVE  Shutdown'
<1>. USE DEF Types, TypeOK, Shutdown
<1>1. ASSUME NEW c \in Callers, NEW t \in Tasks, ScheduleTask(c, t) PROVE Shutdown'
  BY <1>1 DEF ScheduleTask
<1>2. ASSUME NEW c \in Callers, CallerStep(c) PROVE Shutdown'
  <2>1. is_running
    BY <1>2 DEF CallerStep, Retry, WakeUp, PushTask, Notify
  <2>2. \A w \in Workers : worker[w] # "exited"
    BY <2>1
  <2>3. \A w \in Workers : worker'[w] # "exited"
    BY <1>2, <2>2 DEF CallerStep, Retry, WakeUp, PushTask, Notify, Notified
  <2>4. UNCHANGED <<is_running, destructor>>
    BY <1>2 DEF CallerStep, Retry, WakeUp, PushTask, Notify
  <2>5. QED  BY <2>1, <2>3, <2>4
<1>3. ASSUME NEW w \in Workers, Take(w) PROVE Shutdown'
  BY <1>3 DEF Take
<1>4. ASSUME NEW w \in Workers, Run(w) PROVE Shutdown'
  BY <1>4 DEF Run
<1>5. ASSUME NEW w \in Workers, Wait(w) \/ WakeSpuriously(w) PROVE Shutdown'
  BY <1>5 DEF Wait, WakeSpuriously
<1>6. ASSUME NEW w \in Workers, Exit(w) PROVE Shutdown'
  BY <1>6 DEF Exit
<1>7. CASE Stop
  BY <1>7 DEF Stop
<1>8. CASE StopNotify
  BY <1>8 DEF StopNotify, Notified
<1>9. CASE Join
  BY <1>9 DEF Join
<1>10. CASE UNCHANGED vars
  BY <1>10 DEF vars
<1>11. QED
  BY <1>1, <1>2, <1>3, <1>4, <1>5, <1>6, <1>7, <1>8, <1>9, <1>10
  DEF Next, WorkerStep, DestructorStep, Terminated

LEMMA SafeImpliesAllDone ==
  ASSUME Types, Safe
  PROVE  AllDoneAtEnd
<1>. SUFFICES ASSUME destructor = "done"
              PROVE  \A i \in 1 .. Len(queued) : queued[i] \in finished
  BY DEF AllDoneAtEnd
<1>1. \A w \in Workers : worker[w] = "exited"
  BY DEF Safe, Shutdown
<1>2. task_queue = <<>>
  BY <1>1, WorkersAssumption DEF Safe, Shutdown
<1>3. queued = started
  BY <1>2, ConcatEmptySeq DEF Safe, StartedInOrder, Types, TypeOK
<1>4. \A i \in 1 .. Len(started) : started[i] \in finished
  BY <1>1 DEF Safe, Accounted
<1>5. QED  BY <1>3, <1>4

(* The types, and the capacity of the queue, hold (ThreadManager.cpp:48-62). *)
THEOREM PoolTypes == Spec => []TypeOK
<1>1. Init => Types
  BY InitTypes
<1>2. Types /\ [Next]_vars => Types'
  BY StepTypes
<1>3. QED  BY <1>1, <1>2, PTL DEF Spec, Types

LEMMA SafeAlways == Spec => [](Types /\ Safe)
<1>1. Init => Types /\ Safe
  BY InitTypes, InitSafe
<1>2. Types /\ Safe /\ [Next]_vars => (Types /\ Safe)'
  <2>. SUFFICES ASSUME Types, Safe, [Next]_vars PROVE Types' /\ Safe'
    OBVIOUS
  <2>1. Types'
    BY StepTypes
  <2>2. StartedInOrder' /\ NoLostWakeup' /\ Accounted' /\ Shutdown'
    BY StepStartedInOrder, StepNoLostWakeup, StepAccounted, StepShutdown DEF Safe
  <2>3. QED  BY <2>1, <2>2 DEF Safe
<1>3. QED  BY <1>1, <1>2, PTL DEF Spec

(* Tasks are started in the order they were scheduled, once each, whatever the number
   of workers and callers (ThreadManager.cpp:12-27, 48-62). *)
THEOREM PoolStartsInOrder == Spec => []StartedInOrder
<1>1. Types /\ Safe => StartedInOrder
  BY DEF Safe
<1>2. QED  BY <1>1, SafeAlways, PTL

(* No worker sleeps while there is work and nobody about to say so
   (ThreadManager.cpp:16-18, 41, 60). *)
THEOREM PoolLosesNoWakeup == Spec => []NoLostWakeup
<1>1. Types /\ Safe => NoLostWakeup
  BY DEF Safe
<1>2. QED  BY <1>1, SafeAlways, PTL

(* The destructor leaves no scheduled task undone (ThreadManager.cpp:15-26, 36-46). *)
THEOREM PoolFinishesItsWork == Spec => []AllDoneAtEnd
<1>1. Types /\ Safe => AllDoneAtEnd
  BY SafeImpliesAllDone
<1>2. QED  BY <1>1, SafeAlways, PTL
--------------------------------------------------------------------------------
Queued(t) == \E i \in 1 .. Len(queued) : queued[i] = t
Started(t) == \E i \in 1 .. Len(started) : started[i] = t
Scheduling(c) == caller[c] \in {"lock", "sleep"}

(* A task is scheduled once, and so put in the queue once. *)
ScheduledOnce ==
  /\ \A i, j \in 1 .. Len(queued) : queued[i] = queued[j] => i = j
  /\ \A c \in Callers : Scheduling(c) => ~Queued(arg[c])
  /\ \A c, d \in Callers : Scheduling(c) /\ Scheduling(d) /\ arg[c] = arg[d] => c = d

(* What a worker runs has been started, and no other worker runs it. *)
RunOnce ==
  /\ \A w \in Workers : worker[w] = "run" => Started(task[w])
  /\ \A v, w \in Workers :
       worker[v] = "run" /\ worker[w] = "run" /\ task[v] = task[w] => v = w

LEMMA NewLast ==
  ASSUME NEW S, NEW s \in Seq(S), NEW e \in S, NEW t, t = Append(s, e)
  PROVE  /\ Len(t) = Len(s) + 1 /\ t[Len(s) + 1] = e
         /\ \A i \in 1 .. Len(s) : t[i] = s[i]
OBVIOUS

LEMMA StepScheduledOnce ==
  ASSUME Types, ScheduledOnce, [Next]_vars
  PROVE  ScheduledOnce'
<1>. USE DEF Types, TypeOK, ArgsOK, ScheduledOnce, Queued, Scheduling
<1>1. ASSUME NEW c \in Callers, NEW t \in Tasks, ScheduleTask(c, t) PROVE ScheduledOnce'
  <2>1. /\ caller' = [caller EXCEPT ![c] = "lock"] /\ arg' = [arg EXCEPT ![c] = t]
        /\ UNCHANGED queued
    BY <1>1 DEF ScheduleTask
  <2>2. /\ \A i \in 1 .. Len(queued) : queued[i] # t
        /\ \A d \in Callers : arg[d] # t
    BY <1>1 DEF ScheduleTask, Scheduled
  <2>3. QED  BY <2>1, <2>2
<1>2. ASSUME NEW c \in Callers, PushTask(c) PROVE ScheduledOnce'
  <2>1. /\ Scheduling(c) /\ arg[c] \in Tasks /\ UNCHANGED arg
        /\ queued' = Append(queued, arg[c]) /\ caller' = [caller EXCEPT ![c] = "notify"]
    BY <1>2 DEF PushTask
  <2>2. /\ Len(queued') = Len(queued) + 1 /\ queued'[Len(queued) + 1] = arg[c]
        /\ \A i \in 1 .. Len(queued) : queued'[i] = queued[i]
    BY <2>1, NewLast
  <2>3. \A i \in 1 .. Len(queued') : i \in 1 .. Len(queued) \/ i = Len(queued) + 1
    BY <2>2
  <2>4. ASSUME NEW d \in Callers, Scheduling(d)' PROVE Scheduling(d) /\ d # c
    BY <2>1, <2>4
  <2>5. \A i, j \in 1 .. Len(queued') : queued'[i] = queued'[j] => i = j
    BY <2>1, <2>2, <2>3
  <2>6. \A d \in Callers : Scheduling(d)' => ~Queued(arg[d])'
    BY <2>1, <2>2, <2>3, <2>4
  <2>7. QED  BY <2>1, <2>4, <2>5, <2>6
<1>3. ASSUME UNCHANGED queued,
             \A d \in Callers : Scheduling(d)' => Scheduling(d) /\ arg'[d] = arg[d]
      PROVE  ScheduledOnce'
  BY <1>3
<1>4. ASSUME NEW c \in Callers, Retry(c) \/ WakeUp(c) \/ Notify(c) PROVE ScheduledOnce'
  BY <1>3, <1>4 DEF Retry, WakeUp, Notify
<1>5. CASE UNCHANGED <<queued, caller, arg>>
  BY <1>3, <1>5
<1>6. QED
  BY <1>1, <1>2, <1>4, <1>5
  DEF Next, CallerStep, WorkerStep, DestructorStep, Terminated, Wait, WakeSpuriously, Take,
      Run, Exit, Stop, StopNotify, Join, vars

\* What is at the head of the queue has not been started.
LEMMA HeadIsNew ==
  ASSUME Types, StartedInOrder, ScheduledOnce, task_queue # <<>>
  PROVE  ~Started(Head(task_queue))
<1>. USE DEF Types, TypeOK, StartedInOrder
<1>1. /\ Len(started) + 1 \in 1 .. Len(queued)
      /\ queued[Len(started) + 1] = Head(task_queue)
  OBVIOUS
<1>2. \A i \in 1 .. Len(started) : i \in 1 .. Len(queued) /\ queued[i] = started[i]
  OBVIOUS
<1>3. QED  BY <1>1, <1>2 DEF ScheduledOnce, Started

LEMMA StepRunOnce ==
  ASSUME Types, StartedInOrder, ScheduledOnce, RunOnce, [Next]_vars
  PROVE  RunOnce'
<1>. USE DEF Types, TypeOK, RunOnce, Started
<1>1. ASSUME NEW w \in Workers, Take(w) PROVE RunOnce'
  <2>1. /\ task_queue # <<>> /\ Head(task_queue) \in Tasks
        /\ task' = [task EXCEPT ![w] = Head(task_queue)]
        /\ worker' = [worker EXCEPT ![w] = "run"]
        /\ started' = Append(started, Head(task_queue))
    BY <1>1 DEF Take
  <2>2. /\ Len(started') = Len(started) + 1 /\ started'[Len(started) + 1] = Head(task_queue)
        /\ \A i \in 1 .. Len(started) : started'[i] = started[i]
    BY <2>1, NewLast
  <2>3. ~Started(Head(task_queue))
    BY <2>1, HeadIsNew
  <2>4. \A v \in Workers \ {w} : worker'[v] = "run" =>
          worker[v] = "run" /\ task'[v] = task[v] /\ task[v] # Head(task_queue)
    BY <2>1, <2>3
  <2>5. ASSUME NEW v \in Workers, worker'[v] = "run"
        PROVE  \E i \in 1 .. Len(started') : started'[i] = task'[v]
    <3>1. CASE v = w
      <4>1. task'[v] = Head(task_queue)
        BY <2>1, <3>1
      <4>2. Len(started) + 1 \in 1 .. Len(started')
        BY <2>2
      <4>3. QED  BY <2>2, <4>1, <4>2
    <3>2. CASE v # w
      <4>1. PICK i \in 1 .. Len(started) : started[i] = task[v]
        BY <2>4, <2>5, <3>2
      <4>2. i \in 1 .. Len(started')
        BY <2>2
      <4>3. QED  BY <2>2, <2>4, <2>5, <3>2, <4>1, <4>2
    <3>3. QED  BY <3>1, <3>2
  <2>6. \A v, u \in Workers :
          worker'[v] = "run" /\ worker'[u] = "run" /\ task'[v] = task'[u] => v = u
    BY <2>1, <2>4
  <2>7. QED  BY <2>5, <2>6
<1>2. ASSUME UNCHANGED started,
             \A v \in Workers : worker'[v] = "run" => worker[v] = "run" /\ task'[v] = task[v]
      PROVE  RunOnce'
  BY <1>2
<1>3. ASSUME NEW w \in Workers, Wait(w) \/ WakeSpuriously(w) \/ Run(w) \/ Exit(w)
      PROVE  RunOnce'
  BY <1>2, <1>3 DEF Wait, WakeSpuriously, Run, Exit
<1>4. ASSUME NEW c \in Callers, CallerStep(c) PROVE RunOnce'
  BY <1>2, <1>4 DEF CallerStep, Retry, WakeUp, PushTask, Notify, Notified
<1>5. CASE StopNotify
  BY <1>2, <1>5 DEF StopNotify, Notified
<1>6. CASE UNCHANGED <<started, worker, task>>
  BY <1>2, <1>6
<1>7. QED
  BY <1>1, <1>3, <1>4, <1>5, <1>6
  DEF Next, WorkerStep, DestructorStep, Terminated, ScheduleTask, Stop, Join, vars

LEMMA OnceAlways == Spec => [](ScheduledOnce /\ RunOnce /\ StartedInOrder)
<1>. DEFINE I == ScheduledOnce /\ RunOnce
<1>1. Init => I
  BY DEF Init, ScheduledOnce, RunOnce, Queued, Scheduling
<1>2. Types /\ Safe /\ I /\ [Next]_vars => I'
  BY StepScheduledOnce, StepRunOnce DEF Safe
<1>3. QED  BY <1>1, <1>2, SafeAlways, PTL DEF Spec, Safe
================================================================================
