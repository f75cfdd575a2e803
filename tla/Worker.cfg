\* Two submitters and three jobs: a push can race another push, the drain loop
\* testing the queue, and the destructor.
CONSTANTS
  Submitters = {s1, s2}
  Job = {j1, j2, j3}
  WorkerThread = WorkerThread
  None = None
SPECIFICATION Spec
INVARIANTS
  TypeOK
  NoLostWakeup
  OnePlacePerJob
PROPERTIES
  ImplementsJobQueue
  DestructorReturns
\* A worker nobody submits to or destroys rests in its wait, and a destroyed
\* one has no further step.
CHECK_DEADLOCK FALSE
