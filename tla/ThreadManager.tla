------------------------------ MODULE ThreadManager ------------------------------
(***************************************************************************)
(* common/thread_manager/ThreadManager: a pool of worker threads that take *)
(* tasks from a bounded queue, callers of schedule_task that add to it,    *)
(* and the destructor that stops the pool.                                 *)
(*                                                                         *)
(* Everything done under task_queue_mtx is one step.  A worker's wait on   *)
(* task_queue_cv gives the mutex up as it goes to sleep; only a notify_all *)
(* that comes later, or a spurious wakeup, makes it look again.  The queue *)
(* is the FIFO that module CircularBuffer shows the ring to implement.     *)
(*                                                                         *)
(* As the program does, nobody calls schedule_task once the destructor is  *)
(* called, and tasks schedule no tasks.                                    *)
(***************************************************************************)
EXTENDS Naturals, Sequences, FiniteSets

CONSTANTS Workers, Callers,  \* the pool; the threads that call schedule_task
          Tasks,             \* each is scheduled at most once
          Capacity,          \* task_queue_size
          NoTask

ASSUME CapacityAssumption == Capacity \in Nat \ {0}
ASSUME WorkersAssumption == Workers # {}
ASSUME TasksAssumption == NoTask \notin Tasks

VARIABLES task_queue, is_running,
          worker,     \* worker[w]: what w does next
          task,       \* task[w]: the task w has taken
          caller,     \* caller[c]: where c is in schedule_task
          arg,        \* arg[c]: the task it schedules
          destructor  \* where the destructor is

(* History: the tasks in the order they were put in the queue, in the order they
   were started, and those that have returned. *)
VARIABLES queued, started, finished

vars == <<task_queue, is_running, worker, task, caller, arg, destructor,
          queued, started, finished>>

Init ==
  /\ task_queue = <<>>
  /\ is_running = TRUE
  /\ worker = [w \in Workers |-> "look"]
  /\ task = [w \in Workers |-> NoTask]
  /\ caller = [c \in Callers |-> "idle"]
  /\ arg = [c \in Callers |-> NoTask]
  /\ destructor = "uncalled"
  /\ queued = <<>>
  /\ started = <<>>
  /\ finished = {}

Scheduled == {queued[i] : i \in 1 .. Len(queued)} \cup {arg[c] : c \in Callers}

\* notify_all: every waiting worker looks at the queue again.
Notified == [w \in Workers |-> IF worker[w] = "waiting" THEN "look" ELSE worker[w]]

--------------------------------------------------------------------------------
ScheduleTask(c, t) ==
  /\ destructor = "uncalled"
  /\ caller[c] = "idle"
  /\ t \notin Scheduled
  /\ caller' = [caller EXCEPT ![c] = "lock"]
  /\ arg' = [arg EXCEPT ![c] = t]
  /\ UNCHANGED <<task_queue, is_running, worker, task, destructor, queued, started, finished>>

\* A full queue: "let the queue to drain", for 10 ms without the mutex, and retry.
HasRoomMutant == TRUE
HasRoom == Len(task_queue) < Capacity

Retry(c) ==
  /\ caller[c] = "lock"
  /\ ~HasRoom
  /\ caller' = [caller EXCEPT ![c] = "sleep"]
  /\ UNCHANGED <<task_queue, is_running, worker, task, arg, destructor, queued, started, finished>>

WakeUp(c) ==
  /\ caller[c] = "sleep"
  /\ caller' = [caller EXCEPT ![c] = "lock"]
  /\ UNCHANGED <<task_queue, is_running, worker, task, arg, destructor, queued, started, finished>>

PushTask(c) ==
  /\ caller[c] = "lock"
  /\ HasRoom
  /\ task_queue' = Append(task_queue, arg[c])
  /\ queued' = Append(queued, arg[c])
  /\ caller' = [caller EXCEPT ![c] = "notify"]
  /\ UNCHANGED <<is_running, worker, task, arg, destructor, started, finished>>

NotifyMutant(c) ==
  /\ caller[c] = "notify"
  /\ caller' = [caller EXCEPT ![c] = "idle"]
  /\ arg' = [arg EXCEPT ![c] = NoTask]
  /\ UNCHANGED <<task_queue, is_running, worker, task, destructor, queued, started, finished>>
Notify(c) ==
  /\ caller[c] = "notify"
  /\ worker' = Notified
  /\ caller' = [caller EXCEPT ![c] = "idle"]
  /\ arg' = [arg EXCEPT ![c] = NoTask]
  /\ UNCHANGED <<task_queue, is_running, task, destructor, queued, started, finished>>

--------------------------------------------------------------------------------
\* The predicate of the wait does not hold: w sleeps, and gives the mutex up.
Wait(w) ==
  /\ worker[w] = "look"
  /\ task_queue = <<>> /\ is_running
  /\ worker' = [worker EXCEPT ![w] = "waiting"]
  /\ UNCHANGED <<task_queue, is_running, task, caller, arg, destructor, queued, started, finished>>

WakeSpuriously(w) ==
  /\ worker[w] = "waiting"
  /\ worker' = [worker EXCEPT ![w] = "look"]
  /\ UNCHANGED <<task_queue, is_running, task, caller, arg, destructor, queued, started, finished>>

TakeMutant(w) ==
  /\ worker[w] = "look"
  /\ task_queue # <<>>
  /\ task' = [task EXCEPT ![w] = task_queue[Len(task_queue)]]
  /\ task_queue' = SubSeq(task_queue, 1, Len(task_queue) - 1)
  /\ worker' = [worker EXCEPT ![w] = "run"]
  /\ started' = Append(started, task_queue[Len(task_queue)])
  /\ UNCHANGED <<is_running, caller, arg, destructor, queued, finished>>
Take(w) ==
  /\ worker[w] = "look"
  /\ task_queue # <<>>
  /\ task' = [task EXCEPT ![w] = Head(task_queue)]
  /\ task_queue' = Tail(task_queue)
  /\ worker' = [worker EXCEPT ![w] = "run"]
  /\ started' = Append(started, Head(task_queue))
  /\ UNCHANGED <<is_running, caller, arg, destructor, queued, finished>>

\* The task returns, and the worker looks for another.
Run(w) ==
  /\ worker[w] = "run"
  /\ finished' = finished \cup {task[w]}
  /\ task' = [task EXCEPT ![w] = NoTask]
  /\ worker' = [worker EXCEPT ![w] = "look"]
  /\ UNCHANGED <<task_queue, is_running, caller, arg, destructor, queued, started>>

\* "if (!is_running and task_queue.is_empty()) return".
ExitMutant(w) ==
  /\ worker[w] = "look"
  /\ ~is_running
  /\ worker' = [worker EXCEPT ![w] = "exited"]
  /\ UNCHANGED <<task_queue, is_running, task, caller, arg, destructor, queued, started, finished>>
Exit(w) ==
  /\ worker[w] = "look"
  /\ ~is_running /\ task_queue = <<>>
  /\ worker' = [worker EXCEPT ![w] = "exited"]
  /\ UNCHANGED <<task_queue, is_running, task, caller, arg, destructor, queued, started, finished>>

--------------------------------------------------------------------------------
Stop ==
  /\ destructor = "uncalled"
  /\ \A c \in Callers : caller[c] = "idle"
  /\ is_running' = FALSE
  /\ destructor' = "notify"
  /\ UNCHANGED <<task_queue, worker, task, caller, arg, queued, started, finished>>

StopNotifyMutant ==
  /\ destructor = "notify"
  /\ destructor' = "join"
  /\ UNCHANGED <<task_queue, is_running, worker, task, caller, arg, queued, started, finished>>
StopNotify ==
  /\ destructor = "notify"
  /\ worker' = Notified
  /\ destructor' = "join"
  /\ UNCHANGED <<task_queue, is_running, task, caller, arg, queued, started, finished>>

Join ==
  /\ destructor = "join"
  /\ \A w \in Workers : worker[w] = "exited"
  /\ destructor' = "done"
  /\ UNCHANGED <<task_queue, is_running, worker, task, caller, arg, queued, started, finished>>

CallerStep(c) == Retry(c) \/ WakeUp(c) \/ PushTask(c) \/ Notify(c)
WorkerStep(w) == Wait(w) \/ Take(w) \/ Run(w) \/ Exit(w)
DestructorStep == StopNotify \/ Join

Terminated == destructor = "done" /\ UNCHANGED vars

Next ==
  \/ \E c \in Callers : CallerStep(c) \/ \E t \in Tasks : ScheduleTask(c, t)
  \/ \E w \in Workers : WorkerStep(w) \/ WakeSpuriously(w)
  \/ Stop \/ DestructorStep
  \/ Terminated

Spec == Init /\ [][Next]_vars

(* Every thread runs, every sleep ends and every task returns.  Nothing promises a
   call of schedule_task or of the destructor, nor a spurious wakeup. *)
FairSpec ==
  /\ Spec
  /\ \A c \in Callers : WF_vars(CallerStep(c))
  /\ \A w \in Workers : WF_vars(WorkerStep(w))
  /\ WF_vars(DestructorStep)

--------------------------------------------------------------------------------
(* Every variable has its type, and the queue keeps its capacity: the result of its
   push is not looked at (ThreadManager.cpp:48-62). *)
TypeOK ==
  /\ task_queue \in Seq(Tasks) /\ Len(task_queue) <= Capacity
  /\ is_running \in BOOLEAN
  /\ worker \in [Workers -> {"look", "waiting", "run", "exited"}]
  /\ task \in [Workers -> Tasks \cup {NoTask}]
  /\ caller \in [Callers -> {"idle", "lock", "sleep", "notify"}]
  /\ arg \in [Callers -> Tasks \cup {NoTask}]
  /\ destructor \in {"uncalled", "notify", "join", "done"}
  /\ queued \in Seq(Tasks)
  /\ started \in Seq(Tasks)
  /\ finished \subseteq Tasks

(* Tasks are started in the order they were scheduled, each once and none left out;
   what waits in the queue is the rest (ThreadManager.cpp:12-27, 48-62). *)
StartedInOrder == started \o task_queue = queued

(* When the destructor returns every scheduled task has run to its end
   (ThreadManager.cpp:15-26, 36-46). *)
AllDoneAtEnd ==
  destructor = "done" => \A i \in 1 .. Len(queued) : queued[i] \in finished

(* A worker that sleeps misses no work: if there is a task or the pool is stopping,
   somebody is awake or about to notify (ThreadManager.cpp:16-18, 41, 60). *)
NoLostWakeup ==
  (task_queue # <<>> \/ ~is_running) /\ (\A w \in Workers : worker[w] = "waiting") =>
    destructor = "notify" \/ \E c \in Callers : caller[c] = "notify"

(* Every scheduled task is started, before or during the shutdown
   (ThreadManager.cpp:12-27). *)
TasksStart ==
  \A t \in Tasks :
    (\E i \in 1 .. Len(task_queue) : task_queue[i] = t) ~>
      (\E i \in 1 .. Len(started) : started[i] = t)

(* schedule_task returns, however full the queue was (ThreadManager.cpp:48-62). *)
SchedulingEnds == \A c \in Callers : caller[c] # "idle" ~> caller[c] = "idle"

(* The destructor returns: it waits for no worker that waits for it
   (ThreadManager.cpp:36-46). *)
ShutdownEnds == destructor # "uncalled" ~> destructor = "done"
================================================================================
