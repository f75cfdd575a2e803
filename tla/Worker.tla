------------------------------- MODULE Worker -------------------------------
(***************************************************************************)
(* src/orchestrator/worker.cpp: one jthread that drains a deque of jobs    *)
(* under _mutex, sleeping on the condition_variable_any _queued until a    *)
(* job or a stop request arrives.                                          *)
(*                                                                         *)
(* The interruptible wait(lock, stop, pred) is modelled by what the        *)
(* standard says it does: evaluate pred holding the lock; if it is false,  *)
(* look at the stop token; if no stop was requested release the lock and   *)
(* block in one atomic step; when notified (or spuriously) take the lock   *)
(* and evaluate pred again.  request_stop() first sets the token and then  *)
(* runs the callback that wait() registered, which notifies.               *)
(***************************************************************************)
EXTENDS Naturals, Sequences, FiniteSets

CONSTANTS
  Submitters,   \* threads that call submit(); the program has one, the poll loop
  Job,          \* jobs, each submitted at most once
  WorkerThread, \* the jthread, as an owner of _mutex
  None          \* nobody, nothing

ASSUME DistinctNames ==
  /\ None \notin Job
  /\ None \notin Submitters
  /\ WorkerThread \notin Submitters \union {None}

VARIABLES
  jobs,        \* _jobs
  mutex,       \* who holds _mutex
  submitting,  \* [Submitters -> the job its submit() call is about, or None]
  spc,         \* [Submitters -> where the thread is in submit()]
  wpc,         \* where the thread is in drain()
  job,         \* the local variable job of drain()
  stop,        \* the jthread's stop token
  dtor,        \* where the owner is in ~Worker()
  unsent,      \* jobs nobody has submitted yet
  done         \* history: jobs that have returned

vars == <<jobs, mutex, submitting, spc, wpc, job, stop, dtor, unsent, done>>

(* A holder of _mutex is inside one of its critical sections and nobody    *)
(* else is: the lock is part of what a state of this program looks like.   *)
TypeOK ==
  /\ jobs \in Seq(Job)
  /\ mutex \in Submitters \union {WorkerThread, None}
  /\ submitting \in [Submitters -> Job \union {None}]
  /\ spc \in [Submitters -> {"out", "pushing", "notifying"}]
  /\ wpc \in {"locking", "testing", "stopCheck", "waiting", "running", "ended"}
  /\ job \in Job \union {None}
  /\ stop \in BOOLEAN
  /\ dtor \in {"alive", "notifying", "joining", "destroyed"}
  /\ unsent \subseteq Job /\ done \subseteq Job
  /\ \A s \in Submitters : (spc[s] = "pushing") <=> (mutex = s)
  /\ (wpc \in {"testing", "stopCheck"}) <=> (mutex = WorkerThread)
  /\ (wpc = "running") <=> (job # None)

Init ==
  /\ jobs = <<>>
  /\ mutex = None
  /\ submitting = [s \in Submitters |-> None]
  /\ spc = [s \in Submitters |-> "out"]
  /\ wpc = "locking"
  /\ job = None
  /\ stop = FALSE
  /\ dtor = "alive"
  /\ unsent = Job /\ done = {}

-----------------------------------------------------------------------------
(* Worker::submit.  Calling it on a Worker being destroyed is undefined,   *)
(* and the program never does: the poll loop has ended by then.            *)

SubmitLock(s, j) ==
  /\ dtor = "alive"
  /\ spc[s] = "out"
  /\ mutex = None
  /\ mutex' = s
  /\ spc' = [spc EXCEPT ![s] = "pushing"]
  /\ submitting' = [submitting EXCEPT ![s] = j]
  /\ unsent' = unsent \ {j}
  /\ UNCHANGED <<jobs, wpc, job, stop, dtor, done>>

SubmitPush(s) ==
  /\ spc[s] = "pushing"
  /\ jobs' = Append(jobs, submitting[s])
  /\ mutex' = None
  /\ spc' = [spc EXCEPT ![s] = "notifying"]
  /\ submitting' = [submitting EXCEPT ![s] = None]
  /\ UNCHANGED <<wpc, job, stop, dtor, unsent, done>>

(* A notification reaches the thread only if it is blocked by then.        *)
Notified == wpc' = IF wpc = "waiting" THEN "locking" ELSE wpc

SubmitNotify(s) ==
  /\ spc[s] = "notifying"
  /\ spc' = [spc EXCEPT ![s] = "out"]
  /\ Notified
  /\ UNCHANGED <<jobs, mutex, submitting, job, stop, dtor, unsent, done>>

-----------------------------------------------------------------------------
(* Worker::drain *)

DrainLock ==
  /\ wpc = "locking"
  /\ mutex = None
  /\ mutex' = WorkerThread
  /\ wpc' = "testing"
  /\ UNCHANGED <<jobs, submitting, spc, job, stop, dtor, unsent, done>>

(* Faulty variants, used only to show that a property can fail, are named  *)
(* Bad... and stand before the definition they would replace.              *)

BadTakeJobNewest ==                  \* back() and pop_back()
  /\ wpc = "testing"
  /\ jobs # <<>>
  /\ job' = jobs[Len(jobs)]
  /\ jobs' = SubSeq(jobs, 1, Len(jobs) - 1)
  /\ mutex' = None
  /\ wpc' = "running"
  /\ UNCHANGED <<submitting, spc, stop, dtor, unsent, done>>

TakeJob ==
  /\ wpc = "testing"
  /\ jobs # <<>>
  /\ job' = Head(jobs)
  /\ jobs' = Tail(jobs)
  /\ mutex' = None
  /\ wpc' = "running"
  /\ UNCHANGED <<submitting, spc, stop, dtor, unsent, done>>

BadNothingQueued ==                  \* _queued.wait(lock, pred), no stop token
  /\ wpc = "testing"
  /\ jobs = <<>>
  /\ wpc' = "waiting"
  /\ mutex' = None
  /\ UNCHANGED <<jobs, submitting, spc, job, stop, dtor, unsent, done>>

NothingQueued ==
  /\ wpc = "testing"
  /\ jobs = <<>>
  /\ wpc' = "stopCheck"
  /\ UNCHANGED <<jobs, mutex, submitting, spc, job, stop, dtor, unsent, done>>

BadBlock ==                          \* blocks without releasing the lock
  /\ wpc = "stopCheck"
  /\ ~stop
  /\ wpc' = "waiting"
  /\ UNCHANGED <<jobs, mutex, submitting, spc, job, stop, dtor, unsent, done>>

Block ==
  /\ wpc = "stopCheck"
  /\ ~stop
  /\ wpc' = "waiting"
  /\ mutex' = None
  /\ UNCHANGED <<jobs, submitting, spc, job, stop, dtor, unsent, done>>

DrainReturn ==
  /\ wpc = "stopCheck"
  /\ stop
  /\ wpc' = "ended"
  /\ mutex' = None
  /\ UNCHANGED <<jobs, submitting, spc, job, stop, dtor, unsent, done>>

SpuriousWakeup ==
  /\ wpc = "waiting"
  /\ wpc' = "locking"
  /\ UNCHANGED <<jobs, mutex, submitting, spc, job, stop, dtor, unsent, done>>

JobReturns ==
  /\ wpc = "running"
  /\ job' = None
  /\ done' = done \union {job}
  /\ wpc' = "locking"
  /\ UNCHANGED <<jobs, mutex, submitting, spc, stop, dtor, unsent>>

-----------------------------------------------------------------------------
(* Worker::~Worker: the jthread's destructor is request_stop() and join(). *)

BadRequestStop ==                    \* a stop that clears the queue
  /\ dtor = "alive"
  /\ \A s \in Submitters : spc[s] = "out"
  /\ stop' = TRUE
  /\ dtor' = "notifying"
  /\ jobs' = <<>>
  /\ UNCHANGED <<mutex, submitting, spc, wpc, job, unsent, done>>

RequestStop ==
  /\ dtor = "alive"
  /\ \A s \in Submitters : spc[s] = "out"
  /\ stop' = TRUE
  /\ dtor' = "notifying"
  /\ UNCHANGED <<jobs, mutex, submitting, spc, wpc, job, unsent, done>>

BadStopCallback ==                   \* a stop request that notifies nobody
  /\ dtor = "notifying"
  /\ dtor' = "joining"
  /\ UNCHANGED <<jobs, mutex, submitting, spc, wpc, job, stop, unsent, done>>

StopCallback ==
  /\ dtor = "notifying"
  /\ dtor' = "joining"
  /\ Notified
  /\ UNCHANGED <<jobs, mutex, submitting, spc, job, stop, unsent, done>>

Join ==
  /\ dtor = "joining"
  /\ wpc = "ended"
  /\ dtor' = "destroyed"
  /\ UNCHANGED <<jobs, mutex, submitting, spc, wpc, job, stop, unsent, done>>

-----------------------------------------------------------------------------
Drain ==
  \/ DrainLock
  \/ TakeJob
  \/ NothingQueued
  \/ Block
  \/ DrainReturn
  \/ JobReturns

Next ==
  \/ \E s \in Submitters, j \in unsent : SubmitLock(s, j)
  \/ \E s \in Submitters : SubmitPush(s) \/ SubmitNotify(s)
  \/ Drain
  \/ SpuriousWakeup
  \/ RequestStop
  \/ StopCallback
  \/ Join

(* A thread that can run does: weak fairness of the drain loop (jobs       *)
(* return: the curl calls they make time out), of a thread inside submit() *)
(* and of the destructor once it has been entered.  The submitters release *)
(* the mutex for good after finitely many jobs, so no fairness of the      *)
(* mutex is assumed.  Nobody is obliged to submit or to destroy, and no    *)
(* spurious wakeup may be counted on.                                      *)
Fairness ==
  /\ WF_vars(Drain)
  /\ \A s \in Submitters : WF_vars(SubmitPush(s) \/ SubmitNotify(s))
  /\ WF_vars(StopCallback)
  /\ WF_vars(Join)

Spec == Init /\ [][Next]_vars /\ Fairness

-----------------------------------------------------------------------------
(* No lost wakeup: while the thread is blocked on _queued, a queued job or *)
(* a stop request always has a notification still on its way.  submit()    *)
(* notifies after it has released the mutex, and the stop token is not     *)
(* guarded by the mutex at all; neither may strand the thread.             *)
NoLostWakeup ==
  wpc = "waiting" /\ (jobs # <<>> \/ stop) =>
    \/ \E s \in Submitters : spc[s] = "notifying"
    \/ dtor = "notifying"

(* A job is in exactly one place at any time: not yet submitted, with the  *)
(* thread submitting it, queued, running or returned.  None is dropped,    *)
(* doubled or queued again once it ran, whatever the submitters, the drain *)
(* loop and the destructor interleave.                                     *)
Where(j) ==
  {<<"submitting", s>> : s \in {t \in Submitters : submitting[t] = j}}
    \union {<<"queued", i>> : i \in {k \in DOMAIN jobs : jobs[k] = j}}
    \union (IF j \in unsent THEN {<<"unsent">>} ELSE {})
    \union (IF job = j THEN {<<"running">>} ELSE {})
    \union (IF j \in done THEN {<<"returned">>} ELSE {})

OnePlacePerJob == \A j \in Job : Cardinality(Where(j)) = 1

(* The worker with its locks is a JobQueue: jobs start in submission       *)
(* order, one at a time, every submitted job is started and returns        *)
(* (FairSpec), and the thread ends only after the queue has drained, which *)
(* is what ~Worker()'s comment promises.                                   *)
Abstract == INSTANCE JobQueue WITH
  pending <- jobs,
  running <- job,
  phase <- CASE wpc = "ended" -> "ended"
             [] wpc # "ended" /\ stop -> "stopping"
             [] OTHER -> "open"

ImplementsJobQueue == Abstract!FairSpec

(* Destroying the worker terminates, whatever was queued or blocked when   *)
(* the destructor was entered.                                             *)
DestructorReturns == (dtor # "alive") ~> (dtor = "destroyed")
=============================================================================
