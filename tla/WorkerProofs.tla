---------------------------- MODULE WorkerProofs ----------------------------
(***************************************************************************)
(* What TLAPS proves about the background worker, for any number of        *)
(* submitters and jobs.                                                    *)
(***************************************************************************)
EXTENDS Worker, FiniteSetTheorems, TLAPS

(* push_back: every element is an old one at its place or the new one.     *)
LEMMA Pushed ==
  ASSUME NEW S, NEW s \in Seq(S), NEW e \in S
  PROVE  /\ Append(s, e) # <<>>
         /\ \A i \in DOMAIN Append(s, e) :
              \/ i \in DOMAIN s /\ Append(s, e)[i] = s[i]
              \/ i = Len(s) + 1 /\ i \notin DOMAIN s /\ Append(s, e)[i] = e
  OBVIOUS

(* pop_front: the front was the first element, the others move up by one.  *)
LEMMA Popped ==
  ASSUME NEW S, NEW s \in Seq(S), s # <<>>
  PROVE  /\ 1 \in DOMAIN s /\ Head(s) = s[1] /\ Head(s) \in S
         /\ Tail(s) \in Seq(S)
         /\ \A i \in DOMAIN Tail(s) :
              i + 1 \in DOMAIN s /\ i + 1 # 1 /\ Tail(s)[i] = s[i + 1]
         /\ \A i, k \in DOMAIN Tail(s) : i + 1 = k + 1 => i = k
  OBVIOUS

-----------------------------------------------------------------------------
(* TypeOK needs one more fact to be inductive: what is pushed is a job.    *)
(* That the lock has one holder needs no more than the names being         *)
(* distinct.                                                               *)
PushingAJob == \A s \in Submitters : (spc[s] = "pushing") <=> (submitting[s] # None)

Typed == TypeOK /\ PushingAJob

LEMMA TypedInit == Init => Typed
<1> SUFFICES ASSUME Init PROVE Typed
  OBVIOUS
<1> USE DistinctNames DEF DistinctNames, Init
<1>1. /\ jobs \in Seq(Job)
      /\ submitting \in [Submitters -> Job \union {None}]
      /\ spc \in [Submitters -> {"out", "pushing", "notifying"}]
      /\ unsent \subseteq Job /\ done \subseteq Job
  OBVIOUS
<1>2. \A s \in Submitters :
        /\ (spc[s] = "pushing") <=> (mutex = s)
        /\ (spc[s] = "pushing") <=> (submitting[s] # None)
  OBVIOUS
<1>3. /\ (wpc \in {"testing", "stopCheck"}) <=> (mutex = WorkerThread)
      /\ (wpc = "running") <=> (job # None)
  OBVIOUS
<1> QED
  BY <1>1, <1>2, <1>3 DEF Typed, TypeOK, PushingAJob

LEMMA TypedStep == Typed /\ [Next]_vars => Typed'
<1> SUFFICES ASSUME Typed, [Next]_vars PROVE Typed'
  OBVIOUS
<1> USE DistinctNames DEF DistinctNames, Typed, TypeOK, PushingAJob
<1>1. ASSUME NEW s \in Submitters, NEW j \in unsent, SubmitLock(s, j) PROVE Typed'
  BY <1>1 DEF SubmitLock
<1>2. ASSUME NEW s \in Submitters, SubmitPush(s) PROVE Typed'
  <2>1. submitting[s] \in Job
    BY <1>2 DEF SubmitPush
  <2>2. Append(jobs, submitting[s]) \in Seq(Job)
    BY <2>1
  <2> QED
    BY <1>2, <2>1, <2>2 DEF SubmitPush
<1>3. ASSUME NEW s \in Submitters, SubmitNotify(s) PROVE Typed'
  BY <1>3 DEF SubmitNotify, Notified
<1>4. CASE DrainLock
  BY <1>4 DEF DrainLock
<1>5. CASE TakeJob
  <2>1. Head(jobs) \in Job /\ Tail(jobs) \in Seq(Job)
    BY <1>5, Popped DEF TakeJob
  <2> QED
    BY <1>5, <2>1 DEF TakeJob
<1>6. CASE NothingQueued
  BY <1>6 DEF NothingQueued
<1>7. CASE Block
  BY <1>7 DEF Block
<1>8. CASE DrainReturn
  BY <1>8 DEF DrainReturn
<1>9. CASE JobReturns
  BY <1>9 DEF JobReturns
<1>10. CASE SpuriousWakeup
  BY <1>10 DEF SpuriousWakeup
<1>11. CASE RequestStop
  BY <1>11 DEF RequestStop
<1>12. CASE StopCallback
  BY <1>12 DEF StopCallback, Notified
<1>13. CASE Join
  BY <1>13 DEF Join
<1>14. CASE UNCHANGED vars
  BY <1>14 DEF vars
<1> QED
  BY <1>1, <1>2, <1>3, <1>4, <1>5, <1>6, <1>7, <1>8, <1>9, <1>10, <1>11,
     <1>12, <1>13, <1>14 DEF Next, Drain

(* Whatever the threads do, the variables keep the values the code can     *)
(* give them, and the mutex has at most one holder, which is inside its    *)
(* critical section.                                                       *)
THEOREM TypeCorrect == Spec => []TypeOK
<1>1. Typed => TypeOK
  BY DEF Typed
<1> QED
  BY <1>1, TypedInit, TypedStep, PTL DEF Spec

-----------------------------------------------------------------------------
(* The thread looks at the stop token with the mutex held since it saw an  *)
(* empty queue, so a push cannot slip in between; a stop request can, and  *)
(* then its callback is still to come.                                     *)
SeenEmpty == wpc = "stopCheck" => jobs = <<>>

StopIsEntered ==
  /\ stop <=> dtor # "alive"
  /\ wpc = "ended" => stop
  /\ dtor # "alive" => \A s \in Submitters : spc[s] = "out"

Awake == SeenEmpty /\ StopIsEntered /\ NoLostWakeup

LEMMA AwakeInit == Init => Awake
  BY DEF Init, Awake, SeenEmpty, StopIsEntered, NoLostWakeup

LEMMA AwakeStep == Typed /\ Awake /\ [Next]_vars => Awake'
<1> SUFFICES ASSUME Typed, Awake, [Next]_vars PROVE Awake'
  OBVIOUS
<1> USE DistinctNames
    DEF DistinctNames, Typed, TypeOK, Awake, SeenEmpty, StopIsEntered, NoLostWakeup
<1>1. ASSUME NEW s \in Submitters, NEW j \in unsent, SubmitLock(s, j) PROVE Awake'
  BY <1>1 DEF SubmitLock
<1>2. ASSUME NEW s \in Submitters, SubmitPush(s) PROVE Awake'
  <2>1. wpc # "stopCheck" /\ wpc' = wpc
    BY <1>2 DEF SubmitPush
  <2>2. spc'[s] = "notifying"
    BY <1>2 DEF SubmitPush
  <2>3. dtor = "alive" /\ dtor' = dtor /\ stop' = stop
    BY <1>2 DEF SubmitPush
  <2> QED
    BY <2>1, <2>2, <2>3
<1>3. ASSUME NEW s \in Submitters, SubmitNotify(s) PROVE Awake'
  <2>1. wpc' # "waiting" /\ (wpc' = "stopCheck" => wpc = "stopCheck")
        /\ (wpc' = "ended" => wpc = "ended")
    BY <1>3 DEF SubmitNotify, Notified
  <2> QED
    BY <1>3, <2>1 DEF SubmitNotify
<1>4. CASE DrainLock
  BY <1>4 DEF DrainLock
<1>5. CASE TakeJob
  BY <1>5 DEF TakeJob
<1>6. CASE NothingQueued
  BY <1>6 DEF NothingQueued
<1>7. CASE Block
  BY <1>7 DEF Block
<1>8. CASE DrainReturn
  BY <1>8 DEF DrainReturn
<1>9. CASE JobReturns
  BY <1>9 DEF JobReturns
<1>10. CASE SpuriousWakeup
  BY <1>10 DEF SpuriousWakeup
<1>11. CASE RequestStop
  BY <1>11 DEF RequestStop
<1>12. CASE StopCallback
  BY <1>12 DEF StopCallback, Notified
<1>13. CASE Join
  BY <1>13 DEF Join
<1>14. CASE UNCHANGED vars
  BY <1>14 DEF vars
<1> QED
  BY <1>1, <1>2, <1>3, <1>4, <1>5, <1>6, <1>7, <1>8, <1>9, <1>10, <1>11,
     <1>12, <1>13, <1>14 DEF Next, Drain

LEMMA Invariance == Spec => [](Typed /\ Awake)
  BY TypedInit, TypedStep, AwakeInit, AwakeStep, PTL DEF Spec

(* A thread blocked on _queued while a job is queued or a stop was         *)
(* requested still has a notification coming: neither submit(), which      *)
(* notifies without the mutex, nor the stop token, which the mutex does    *)
(* not guard, can leave it asleep.                                         *)
THEOREM NoWakeupLost == Spec => []NoLostWakeup
<1>1. Awake => NoLostWakeup
  BY DEF Awake
<1> QED
  BY <1>1, Invariance, PTL

-----------------------------------------------------------------------------
(* Where a job can be: at most one thread has it in submit(), the queue    *)
(* holds it at most once, the five places exclude each other, and none is  *)
(* nowhere.                                                                *)
Carried(j) == \E s \in Submitters : submitting[s] = j
Queued(j) == \E i \in DOMAIN jobs : jobs[i] = j

OneCarrier ==
  \A s, t \in Submitters : submitting[s] # None /\ submitting[t] # None => s = t

QueuedOnce == \A i, k \in DOMAIN jobs : jobs[i] = jobs[k] => i = k

Apart ==
  \A j \in Job :
    /\ j \in unsent => ~Carried(j) /\ ~Queued(j) /\ job # j /\ j \notin done
    /\ Carried(j) => ~Queued(j) /\ job # j /\ j \notin done
    /\ Queued(j) => job # j /\ j \notin done
    /\ job = j => j \notin done

Somewhere ==
  \A j \in Job : j \in unsent \/ Carried(j) \/ Queued(j) \/ job = j \/ j \in done

Placed == OneCarrier /\ QueuedOnce /\ Apart /\ Somewhere

LEMMA PlacedInit == Init => Placed
  BY DistinctNames
  DEF DistinctNames, Init, Placed, OneCarrier, QueuedOnce, Apart, Somewhere, Carried, Queued

(* Two threads cannot both be pushing: each would hold the mutex.          *)
LEMMA Carrier == Typed => OneCarrier
  BY DEF Typed, TypeOK, PushingAJob, OneCarrier

(* A step that moves no job.                                               *)
LEMMA PlacedFrame ==
  Placed /\ UNCHANGED <<jobs, submitting, job, unsent, done>> => Placed'
  BY DEF Placed, OneCarrier, QueuedOnce, Apart, Somewhere, Carried, Queued

LEMMA PlacedSubmitLock ==
  ASSUME Typed, Placed, Typed', NEW s \in Submitters, NEW j \in unsent, SubmitLock(s, j)
  PROVE  Placed'
<1>1. OneCarrier'
  BY Carrier DEF Typed, TypeOK, PushingAJob, OneCarrier
<1>2. QueuedOnce'
  BY DEF SubmitLock, Placed, QueuedOnce
<1>3. j \in Job /\ j # None
  BY DistinctNames DEF DistinctNames, Typed, TypeOK
<1>4. \A k \in Job : /\ Queued(k)' <=> Queued(k)
                     /\ Carried(k)' => Carried(k) \/ k = j
  BY <1>3 DEF SubmitLock, Queued, Carried, Typed, TypeOK
<1>5. Apart'
  BY <1>3, <1>4 DEF SubmitLock, Placed, Apart
<1>6. \A k \in Job : Carried(k) \/ k = j => Carried(k)'
  <2>1. submitting' = [submitting EXCEPT ![s] = j] /\ submitting[s] = None
    BY DEF SubmitLock, Typed, TypeOK, PushingAJob
  <2> QED
    BY <2>1, DistinctNames DEF DistinctNames, Carried, Typed, TypeOK
<1>7. Somewhere'
  BY <1>4, <1>6 DEF SubmitLock, Placed, Somewhere
<1> QED
  BY <1>1, <1>2, <1>5, <1>7 DEF Placed

LEMMA PlacedSubmitPush ==
  ASSUME Typed, Placed, Typed', NEW s \in Submitters, SubmitPush(s)
  PROVE  Placed'
<1>0. PICK j : j = submitting[s]
  OBVIOUS
<1>1. j \in Job /\ j # None /\ Carried(j)
  BY <1>0, DistinctNames DEF DistinctNames, SubmitPush, Typed, TypeOK, PushingAJob, Carried
<1>2. \A i \in DOMAIN jobs' :
        \/ i \in DOMAIN jobs /\ jobs'[i] = jobs[i]
        \/ i = Len(jobs) + 1 /\ i \notin DOMAIN jobs /\ jobs'[i] = j
  <2>1. jobs \in Seq(Job) /\ jobs' = Append(jobs, j)
    BY <1>0 DEF SubmitPush, Typed, TypeOK
  <2>2. \A i \in DOMAIN Append(jobs, j) :
          \/ i \in DOMAIN jobs /\ Append(jobs, j)[i] = jobs[i]
          \/ i = Len(jobs) + 1 /\ i \notin DOMAIN jobs /\ Append(jobs, j)[i] = j
    BY <1>1, <2>1, Pushed
  <2> QED
    BY <2>1, <2>2, Zenon
<1>3. ~Queued(j) /\ job # j /\ j \notin unsent /\ j \notin done
  BY <1>1 DEF Placed, Apart
<1>4. OneCarrier'
  BY DEF SubmitPush, Typed, TypeOK, Placed, OneCarrier
<1>5. QueuedOnce'
  BY <1>2, <1>3 DEF Placed, QueuedOnce, Queued
<1>6. \A k \in Job : /\ Queued(k)' => Queued(k) \/ k = j
                     /\ Carried(k)' => Carried(k) /\ k # j
  <2> SUFFICES ASSUME NEW k \in Job
               PROVE  /\ Queued(k)' => Queued(k) \/ k = j
                      /\ Carried(k)' => Carried(k) /\ k # j
    OBVIOUS
  <2>1. Queued(k)' => Queued(k) \/ k = j
    BY <1>2 DEF Queued
  <2>2. k # None
    BY DistinctNames DEF DistinctNames
  <2>3. \A t \in Submitters : submitting'[t] = IF t = s THEN None ELSE submitting[t]
    BY DEF SubmitPush, Typed, TypeOK
  <2>4. \A t \in Submitters : submitting'[t] # None => FALSE
    BY <1>0, <1>1, <2>3 DEF Placed, OneCarrier
  <2> QED
    BY <2>1, <2>2, <2>4 DEF Carried
<1>7. Apart'
  BY <1>3, <1>6 DEF SubmitPush, Placed, Apart
<1>8. \A k \in Job : Carried(k) \/ Queued(k) => Queued(k)'
  <2>1. \A k \in Job : Carried(k) => k = j
    BY <1>0, <1>1, DistinctNames DEF DistinctNames, Placed, OneCarrier, Carried
  <2>2. Len(jobs) + 1 \in DOMAIN jobs' /\ jobs'[Len(jobs) + 1] = j
        /\ \A i \in DOMAIN jobs : i \in DOMAIN jobs' /\ jobs'[i] = jobs[i]
    BY <1>0, <1>1 DEF SubmitPush, Typed, TypeOK
  <2> QED
    BY <2>1, <2>2 DEF Queued
<1>9. Somewhere'
  BY <1>8 DEF SubmitPush, Placed, Somewhere
<1> QED
  BY <1>4, <1>5, <1>7, <1>9 DEF Placed

LEMMA PlacedTakeJob ==
  ASSUME Typed, Placed, TakeJob
  PROVE  Placed'
<1> DEFINE j == Head(jobs)
<1>1. /\ 1 \in DOMAIN jobs /\ j = jobs[1] /\ j \in Job
      /\ \A i \in DOMAIN jobs' : i + 1 \in DOMAIN jobs /\ i + 1 # 1 /\ jobs'[i] = jobs[i + 1]
      /\ \A i, k \in DOMAIN jobs' : i + 1 = k + 1 => i = k
  BY Popped DEF TakeJob, Typed, TypeOK
<1>2. OneCarrier'
  BY DEF TakeJob, Placed, OneCarrier
<1>3. QueuedOnce'
  BY <1>1 DEF Placed, QueuedOnce
<1>4. \A k \in Job : /\ Queued(k)' => Queued(k) /\ k # j
                     /\ Carried(k)' <=> Carried(k)
  <2>1. \A k \in Job : Queued(k)' => Queued(k) /\ k # j
    BY <1>1 DEF Queued, Placed, QueuedOnce
  <2> QED
    BY <2>1 DEF TakeJob, Carried
<1>5. Queued(j) /\ job' = j /\ unsent' = unsent /\ done' = done
  BY <1>1 DEF TakeJob, Queued
<1>6. Apart'
  BY <1>1, <1>4, <1>5 DEF Placed, Apart
<1>7. \A k \in Job : Queued(k) => Queued(k)' \/ k = j
  <2> SUFFICES ASSUME NEW i \in DOMAIN jobs, i # 1
               PROVE  i - 1 \in DOMAIN jobs' /\ jobs'[i - 1] = jobs[i]
    BY <1>1 DEF Queued
  <2> QED
    BY DEF TakeJob, Typed, TypeOK
<1>8. Somewhere'
  <2>1. \A k \in Job : job # k
    BY DistinctNames DEF DistinctNames, TakeJob, Typed, TypeOK
  <2>2. \A k \in Job : k \in unsent \/ Carried(k) \/ Queued(k) \/ k \in done
    BY <2>1 DEF Placed, Somewhere
  <2> HIDE DEF j
  <2> QED
    BY <1>4, <1>5, <1>7, <2>2 DEF Somewhere
<1> QED
  BY <1>2, <1>3, <1>6, <1>8 DEF Placed

LEMMA PlacedJobReturns ==
  ASSUME Placed, JobReturns
  PROVE  Placed'
<1>1. \A j \in Job : j # None
  BY DistinctNames DEF DistinctNames
<1> QED
  BY <1>1 DEF JobReturns, Placed, OneCarrier, QueuedOnce, Apart, Somewhere, Carried, Queued

LEMMA PlacedStep == Typed /\ Placed /\ [Next]_vars => Placed'
<1> SUFFICES ASSUME Typed, Placed, [Next]_vars PROVE Placed'
  OBVIOUS
<1>1. Typed'
  BY TypedStep
<1>2. ASSUME NEW s \in Submitters, NEW j \in unsent, SubmitLock(s, j) PROVE Placed'
  BY <1>1, <1>2, PlacedSubmitLock
<1>3. ASSUME NEW s \in Submitters, SubmitPush(s) PROVE Placed'
  BY <1>1, <1>3, PlacedSubmitPush
<1>4. CASE TakeJob
  BY <1>4, PlacedTakeJob
<1>5. CASE JobReturns
  BY <1>5, PlacedJobReturns
<1>6. ASSUME \/ \E s \in Submitters : SubmitNotify(s)
             \/ DrainLock \/ NothingQueued \/ Block \/ DrainReturn
             \/ SpuriousWakeup \/ RequestStop \/ StopCallback \/ Join
             \/ UNCHANGED vars
      PROVE  Placed'
  BY <1>6, PlacedFrame
  DEF SubmitNotify, DrainLock, NothingQueued, Block, DrainReturn, SpuriousWakeup,
      RequestStop, StopCallback, Join, vars
<1> QED
  BY <1>2, <1>3, <1>4, <1>5, <1>6 DEF Next, Drain

(* A set that has a member, and no two different ones, has exactly one.    *)
LEMMA ExactlyOne ==
  ASSUME NEW S, S # {}, \A x, y \in S : x = y
  PROVE  Cardinality(S) = 1
<1>1. PICK x \in S : S = {x}
  OBVIOUS
<1> QED
  BY <1>1, FS_Singleton

LEMMA OnePlace == Typed /\ Placed => OnePlacePerJob
<1> SUFFICES ASSUME Typed, Placed, NEW j \in Job PROVE Cardinality(Where(j)) = 1
  BY DEF OnePlacePerJob
<1>1. j # None
  BY DistinctNames DEF DistinctNames
<1>2. /\ \A x \in Where(j) :
           \/ \E s \in Submitters : submitting[s] = j /\ x = <<"submitting", s>>
           \/ \E i \in DOMAIN jobs : jobs[i] = j /\ x = <<"queued", i>>
           \/ j \in unsent /\ x = <<"unsent">>
           \/ job = j /\ x = <<"running">>
           \/ j \in done /\ x = <<"returned">>
      /\ \A s \in Submitters : submitting[s] = j => <<"submitting", s>> \in Where(j)
      /\ \A i \in DOMAIN jobs : jobs[i] = j => <<"queued", i>> \in Where(j)
      /\ j \in unsent => <<"unsent">> \in Where(j)
      /\ job = j => <<"running">> \in Where(j)
      /\ j \in done => <<"returned">> \in Where(j)
  BY Zenon DEF Where
<1>3. Where(j) # {}
  BY <1>2 DEF Placed, Somewhere, Carried, Queued
<1>4. \A x, y \in Where(j) : x = y
  BY <1>1, <1>2 DEF Placed, OneCarrier, QueuedOnce, Apart, Carried, Queued
<1> QED
  BY <1>3, <1>4, ExactlyOne

(* Every job is in exactly one place, before, on and after its way through *)
(* the worker: none is dropped, none runs twice and none is queued while   *)
(* or after it runs, whatever the interleaving of submitters.              *)
THEOREM EveryJobInOnePlace == Spec => []OnePlacePerJob
<1>1. Spec => []Placed
  BY Invariance, PlacedInit, PlacedStep, PTL DEF Spec
<1> QED
  BY <1>1, OnePlace, Invariance, PTL

-----------------------------------------------------------------------------
(* The safety half of the refinement; that jobs are taken and return is a  *)
(* matter of fairness.                                                     *)

LEMMA QueueInit == Init => Abstract!Init
  BY DEF Init, Abstract!Init

LEMMA QueueStep == Typed /\ Awake /\ [Next]_vars => [Abstract!Next]_(Abstract!vars)
<1> SUFFICES ASSUME Typed, Awake, [Next]_vars, ~UNCHANGED Abstract!vars
             PROVE  Abstract!Next
  OBVIOUS
<1> USE DEF Typed, TypeOK, Awake, SeenEmpty, StopIsEntered, Abstract!vars, Abstract!Next
<1>1. ASSUME NEW s \in Submitters, NEW j \in unsent, SubmitLock(s, j) PROVE FALSE
  BY <1>1 DEF SubmitLock
<1>2. ASSUME NEW s \in Submitters, SubmitPush(s) PROVE Abstract!Next
  <2>1. submitting[s] \in Job /\ dtor = "alive" /\ ~stop /\ wpc # "ended"
    BY <1>2 DEF SubmitPush, PushingAJob
  <2>2. Abstract!Submit(submitting[s])
    BY <1>2, <2>1 DEF SubmitPush, Abstract!Submit
  <2> QED
    BY <2>1, <2>2
<1>3. ASSUME NEW s \in Submitters, SubmitNotify(s) PROVE FALSE
  BY <1>3 DEF SubmitNotify, Notified
<1>4. CASE DrainLock
  BY <1>4 DEF DrainLock
<1>5. CASE TakeJob
  <2>1. Abstract!Start
    BY <1>5 DEF TakeJob, Abstract!Start
  <2> QED
    BY <2>1
<1>6. CASE NothingQueued
  BY <1>6 DEF NothingQueued
<1>7. CASE Block
  BY <1>7 DEF Block
<1>8. CASE DrainReturn
  <2>1. Abstract!End
    BY <1>8 DEF DrainReturn, Abstract!End
  <2> QED
    BY <2>1
<1>9. CASE JobReturns
  <2>1. Abstract!Finish
    BY <1>9 DEF JobReturns, Abstract!Finish
  <2> QED
    BY <2>1
<1>10. CASE SpuriousWakeup
  BY <1>10 DEF SpuriousWakeup
<1>11. CASE RequestStop
  <2>1. Abstract!Stop
    BY <1>11 DEF RequestStop, Abstract!Stop
  <2> QED
    BY <2>1
<1>12. CASE StopCallback
  BY <1>12 DEF StopCallback, Notified
<1>13. CASE Join
  BY <1>13 DEF Join
<1>14. CASE UNCHANGED vars
  BY <1>14 DEF vars
<1> QED
  BY <1>1, <1>2, <1>3, <1>4, <1>5, <1>6, <1>7, <1>8, <1>9, <1>10, <1>11,
     <1>12, <1>13, <1>14 DEF Next, Drain

(* Mutex, condition variable and stop token add up to a queue: jobs start  *)
(* in the order submitted and one at a time, and the thread ends only once *)
(* nothing is queued, for any number of submitters and jobs.               *)
THEOREM BehavesAsJobQueue == Spec => Abstract!Spec
<1>1. Typed /\ Awake /\ [Next]_vars => [Abstract!Next]_(Abstract!vars)
  BY QueueStep
<1> QED
  BY <1>1, QueueInit, Invariance, PTL DEF Spec, Abstract!Spec
=============================================================================
