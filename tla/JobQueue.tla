------------------------------ MODULE JobQueue ------------------------------
(***************************************************************************)
(* What a Worker promises its owner, without the mutex, the condition      *)
(* variable and the stop token that keep the promise: one job at a time,   *)
(* in the order submitted, and an end that comes only when nothing is      *)
(* queued.  Worker.tla implements this module; ScrobbleDriver.tla is       *)
(* written against it and implements it too.                               *)
(***************************************************************************)
EXTENDS Sequences

CONSTANTS
  Job,    \* the closures that may be submitted
  None    \* no job is running

VARIABLES
  pending,    \* _jobs: submitted, not yet taken
  running,    \* the job the thread is executing, or None
  phase       \* "open", "stopping" once the owner destroys it, "ended"

vars == <<pending, running, phase>>

TypeOK ==
  /\ pending \in Seq(Job)
  /\ running \in Job \union {None}
  /\ phase \in {"open", "stopping", "ended"}

Init ==
  /\ pending = <<>>
  /\ running = None
  /\ phase = "open"

-----------------------------------------------------------------------------
(* Worker::submit *)
Submit(job) ==
  /\ phase = "open"
  /\ pending' = Append(pending, job)
  /\ UNCHANGED <<running, phase>>

(* Worker::drain takes the oldest job; a stop request does not prevent it. *)
Start ==
  /\ phase # "ended"
  /\ running = None
  /\ pending # <<>>
  /\ running' = Head(pending)
  /\ pending' = Tail(pending)
  /\ UNCHANGED phase

Finish ==
  /\ running # None
  /\ running' = None
  /\ UNCHANGED <<pending, phase>>

(* Worker::~Worker *)
Stop ==
  /\ phase = "open"
  /\ phase' = "stopping"
  /\ UNCHANGED <<pending, running>>

(* Worker::drain returns: only once stopping, and with nothing left to run *)
End ==
  /\ phase = "stopping"
  /\ running = None
  /\ pending = <<>>
  /\ phase' = "ended"
  /\ UNCHANGED <<pending, running>>

Next ==
  \/ \E job \in Job : Submit(job)
  \/ Start
  \/ Finish
  \/ Stop
  \/ End

Spec == Init /\ [][Next]_vars

(* A queued job is taken, a job returns, and a stopped thread ends.        *)
FairSpec == Spec /\ WF_vars(Start) /\ WF_vars(Finish) /\ WF_vars(End)
=============================================================================
