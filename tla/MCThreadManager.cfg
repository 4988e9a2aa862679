\* More tasks than the queue holds and than there are workers, two callers that have
\* to wait for room, and the destructor.  No symmetry: it would not be sound for the
\* liveness properties.
SPECIFICATION FairSpec
CONSTANTS
  Workers = {w1, w2}
  Callers = {c1, c2}
  Tasks = {t1, t2, t3, t4}
  Capacity = 2
  NoTask = NoTask
INVARIANTS
  TypeOK
  StartedInOrder
  AllDoneAtEnd
  NoLostWakeup
PROPERTIES
  TasksStart
  SchedulingEnds
  ShutdownEnds
