------------------------ MODULE ScrobbleDriverProofs ------------------------
(***************************************************************************)
(* Theorems about ScrobbleDriver, for any number of scrobblers, attempts   *)
(* and plays.  The inductive invariant is built in three layers, each      *)
(* proved from the ones before:                                            *)
(*   Typed     types, the retry budget and where the threads are;          *)
(*   Tracked   every outstanding call is in one place, and the slots of    *)
(*             the current play are InFlight exactly for those;            *)
(*   Recorded  how an accepted scrobble is remembered until it is applied. *)
(***************************************************************************)
EXTENDS ScrobbleDriver, TLAPS

USE DEF Kinds, Phases, Deadlines

(* The facts about the constants the proofs rest on, so that the intervals *)
(* Targets and Plays need not be opened elsewhere.                         *)
LEMMA ConstantFacts ==
  /\ 1 \in Targets
  /\ 1 \in Plays
  /\ Plays \subseteq Nat
  /\ \A p \in Plays : p < MaxPlays => p + 1 \in Plays
  /\ \A t \in Targets : t < NumTargets => t + 1 \in Targets
  /\ NowPlayingAttempts \in Nat
  /\ 1 \in 0..NowPlayingAttempts
  /\ \A n \in 0..NowPlayingAttempts :
       n \in Nat /\ (n < NowPlayingAttempts => n + 1 \in 0..NowPlayingAttempts)
  BY NumTargetsAssumption, AttemptsAssumption, MaxPlaysAssumption DEF Targets, Plays

(* A call belongs to a job that passed its token test, and the destructor  *)
(* never finds the poll thread inside a tick.                              *)
Control ==
  /\ cleared => running # None
  /\ calling => cleared
  /\ pc # "idle" => alive

Typed == TypeOK /\ NowPlayingBudget /\ Control

(* The first tick finds every slot waiting, with its budget untouched.     *)
LEMMA TypedInit == Init => Typed
  <1> SUFFICES ASSUME Init PROVE Typed
    OBVIOUS
  <1> USE DEF Init, FreshPhase, FreshAttempts, FreshDeadlines
  <1>1. TypeOK
    <2>1. /\ phase \in [Targets -> [Kinds -> Phases]]
          /\ nextAttempt \in [Targets -> [Kinds -> Deadlines]]
      OBVIOUS
    <2>2. attempts \in [Targets -> 0..NowPlayingAttempts]
      BY AttemptsAssumption
    <2>3. queue \in Seq(Job) /\ results \in Seq(Result)
      OBVIOUS
    <2>4. scrobbled \in [Targets -> [Plays -> Nat]]
      OBVIOUS
    <2> QED
      BY <2>1, <2>2, <2>3, <2>4, ConstantFacts DEF TypeOK
  <1>2. NowPlayingBudget
    BY AttemptsAssumption DEF NowPlayingBudget
  <1>3. Control
    BY DEF Control
  <1> QED
    BY <1>1, <1>2, <1>3 DEF Typed

(* driveAttempts moves to another registered target or leaves the loop.    *)
LEMMA NextTargetTyped ==
  ASSUME cursor \in Targets, NextTarget
  PROVE  pc' \in Kinds \union {"idle"} /\ cursor' \in Targets
  BY ConstantFacts DEF NextTarget

(* drainResults keeps the types and the budget: a rejected update that has *)
(* no attempt left is settled, never left waiting.                         *)
LEMMA TypedTick ==
  ASSUME Typed, NEW playing \in BOOLEAN, NEW met \in BOOLEAN, Tick(playing, met)
  PROVE  Typed'
  <1>1. ASSUME NEW t \in Targets, NEW k \in Kinds
        PROVE  /\ phase'[t][k] \in Phases
               /\ nextAttempt'[t][k] \in Deadlines
    <2>1. phase[t][k] \in Phases /\ nextAttempt[t][k] \in Deadlines
      BY DEF Typed, TypeOK
    <2> QED
      BY <2>1 DEF Tick, DrainResults, PhaseAfter, DeadlineAfter
  <1>2. TypeOK'
    <2>1. /\ phase' \in [Targets -> [Kinds -> Phases]]
          /\ nextAttempt' \in [Targets -> [Kinds -> Deadlines]]
      BY <1>1 DEF Tick, DrainResults
    <2>2. /\ current' \in [playing : BOOLEAN, met : BOOLEAN]
          /\ cursor' \in Targets
          /\ results' = <<>>
          /\ attempts' = attempts
          /\ qualified' \in BOOLEAN
      BY ConstantFacts DEF Typed, TypeOK, Tick, DrainResults
    <2>3. /\ pc' = "NowPlaying"
          /\ UNCHANGED <<authed, play, alive, queue, running, cleared, calling, ended, scrobbled>>
      BY DEF Tick, worker
    <2> QED
      BY <2>1, <2>2, <2>3 DEF Typed, TypeOK
  <1>3. NowPlayingBudget'
    <2> SUFFICES ASSUME NEW t \in Targets
                 PROVE  /\ phase'[t]["NowPlaying"] = "Waiting" =>
                             attempts'[t] < NowPlayingAttempts
                        /\ nextAttempt'[t]["NowPlaying"] = "never" =>
                             /\ phase'[t]["NowPlaying"] = "Done"
                             /\ attempts'[t] = NowPlayingAttempts
      BY DEF NowPlayingBudget
    <2>1. attempts[t] \in 0..NowPlayingAttempts /\ attempts' = attempts
      BY DEF Typed, TypeOK, Tick, DrainResults
    <2>2. /\ phase[t]["NowPlaying"] = "Waiting" => attempts[t] < NowPlayingAttempts
          /\ nextAttempt[t]["NowPlaying"] = "never" =>
               /\ phase[t]["NowPlaying"] = "Done"
               /\ attempts[t] = NowPlayingAttempts
      BY DEF Typed, NowPlayingBudget
    <2>3. CASE AnswersTo(t, "NowPlaying") = {}
      <3>1. /\ phase'[t]["NowPlaying"] = phase[t]["NowPlaying"]
            /\ nextAttempt'[t]["NowPlaying"] = nextAttempt[t]["NowPlaying"]
        BY <2>3 DEF Tick, DrainResults
      <3> QED
        BY <3>1, <2>1, <2>2
    <2>4. CASE AnswersTo(t, "NowPlaying") # {}
      <3> DEFINE r == results[CHOOSE i \in AnswersTo(t, "NowPlaying") : TRUE]
      <3>1. /\ phase'[t]["NowPlaying"] = PhaseAfter(t, "NowPlaying", r)
            /\ nextAttempt'[t]["NowPlaying"] = DeadlineAfter(t, "NowPlaying", r)
        BY <2>4 DEF Tick, DrainResults
      <3> QED
        BY <3>1, <2>1, ConstantFacts DEF PhaseAfter, DeadlineAfter, OutOfAttempts
    <2> QED
      BY <2>3, <2>4
  <1>4. Control'
    BY DEF Tick, worker, Typed, Control
  <1> QED
    BY <1>2, <1>3, <1>4 DEF Typed

(* What Submit does to the types and to the budget, for either kind.       *)
LEMMA SubmitTyped ==
  ASSUME Typed, NEW kind \in Kinds, Submit(kind)
  PROVE  /\ phase' \in [Targets -> [Kinds -> Phases]]
         /\ nextAttempt' \in [Targets -> [Kinds -> Deadlines]]
         /\ queue' \in Seq(Job)
         /\ running' = running /\ cleared' = cleared /\ calling' = calling /\ ended' = ended
         /\ phase'[cursor][kind] = "InFlight"
         /\ \A t \in Targets, k \in Kinds :
              (t # cursor \/ k # kind) => phase'[t][k] = phase[t][k]
  <1>1. /\ phase \in [Targets -> [Kinds -> Phases]]
        /\ nextAttempt \in [Targets -> [Kinds -> Deadlines]]
        /\ queue \in Seq(Job)
        /\ cursor \in Targets
        /\ play \in Plays
    BY DEF Typed, TypeOK
  <1>2. phase' = [phase EXCEPT ![cursor][kind] = "InFlight"]
    BY DEF Submit
  <1>3. phase' \in [Targets -> [Kinds -> Phases]]
    BY <1>1, <1>2 DEF Phases
  <1>4. /\ phase'[cursor][kind] = "InFlight"
        /\ \A t \in Targets, k \in Kinds :
             (t # cursor \/ k # kind) => phase'[t][k] = phase[t][k]
    BY <1>1, <1>2
  <1>5. [play |-> play, target |-> cursor, kind |-> kind] \in Job
    BY <1>1 DEF Job
  <1>6. queue' \in Seq(Job)
    BY <1>1, <1>5 DEF Submit
  <1> QED
    BY <1>1, <1>3, <1>4, <1>6 DEF Submit

(* driveAttempts counts an attempt only for an update that had one left.   *)
LEMMA TypedDrive ==
  ASSUME Typed, Drive
  PROVE  Typed'
  <1> USE DEF Typed
  <1>0. cursor \in Targets
    BY DEF TypeOK
  <1>1. CASE SkipUnauthed
    BY <1>0, <1>1, NextTargetTyped
       DEF SkipUnauthed, slots, worker, history, TypeOK, NowPlayingBudget, Control
  <1>2. CASE DriveNowPlaying /\ NowPlayingDue
    <2>1. Submit("NowPlaying")
      BY <1>2 DEF DriveNowPlaying
    <2>2. /\ attempts' = [attempts EXCEPT ![cursor] =
               IF phase[cursor]["NowPlaying"] = "Done" THEN 1 ELSE @ + 1]
          /\ pc' = "Scrobble"
          /\ UNCHANGED <<authed, play, current, cursor, alive, results, qualified, scrobbled>>
      BY <1>2 DEF DriveNowPlaying, history
    <2>3. /\ attempts \in [Targets -> 0..NowPlayingAttempts]
          /\ phase[cursor]["NowPlaying"] = "Done"
               \/ attempts[cursor] < NowPlayingAttempts
      BY <1>0, <1>2 DEF TypeOK, NowPlayingBudget, NowPlayingDue
    <2>4. attempts' \in [Targets -> 0..NowPlayingAttempts]
      BY <1>0, <2>2, <2>3, ConstantFacts
    <2>5. TypeOK'
      BY <2>1, <2>2, <2>4, SubmitTyped DEF TypeOK
    <2>6. NowPlayingBudget'
      <3> SUFFICES ASSUME NEW t \in Targets
                   PROVE  /\ phase'[t]["NowPlaying"] = "Waiting" =>
                               attempts'[t] < NowPlayingAttempts
                          /\ nextAttempt'[t]["NowPlaying"] = "never" =>
                               /\ phase'[t]["NowPlaying"] = "Done"
                               /\ attempts'[t] = NowPlayingAttempts
        BY DEF NowPlayingBudget
      <3>1. nextAttempt' = nextAttempt
        BY <2>1 DEF Submit
      <3>2. CASE t = cursor
        BY <1>2, <2>1, <3>1, <3>2, SubmitTyped DEF NowPlayingDue
      <3>3. CASE t # cursor
        <4>1. phase'[t]["NowPlaying"] = phase[t]["NowPlaying"] /\ attempts'[t] = attempts[t]
          BY <2>1, <2>2, <2>3, <3>3, SubmitTyped
        <4> QED
          BY <3>1, <4>1 DEF NowPlayingBudget
      <3> QED
        BY <3>2, <3>3
    <2>7. Control'
      <3>1. alive
        BY <1>2 DEF DriveNowPlaying, Control
      <3> QED
        BY <2>1, <2>2, <3>1, SubmitTyped DEF Control
    <2> QED
      BY <2>5, <2>6, <2>7
  <1>3. CASE DriveNowPlaying /\ ~NowPlayingDue
    BY <1>3 DEF DriveNowPlaying, slots, worker, history, TypeOK, NowPlayingBudget,
                Control
  <1>4. CASE DriveScrobble /\ ScrobbleDue
    <2>1. Submit("Scrobble") /\ attempts' = attempts
      BY <1>4 DEF DriveScrobble
    <2>2. /\ pc' \in Kinds \union {"idle"} /\ cursor' \in Targets
          /\ UNCHANGED <<authed, play, current, alive, results, qualified, scrobbled>>
      BY <1>0, <1>4, NextTargetTyped DEF DriveScrobble, history
    <2>3. TypeOK'
      BY <2>1, <2>2, SubmitTyped DEF TypeOK
    <2>4. NowPlayingBudget'
      <3>1. \A t \in Targets : phase'[t]["NowPlaying"] = phase[t]["NowPlaying"]
        BY <2>1, SubmitTyped
      <3> QED
        BY <2>1, <3>1 DEF Submit, NowPlayingBudget
    <2>5. Control'
      <3>1. alive
        BY <1>4 DEF DriveScrobble, Control
      <3> QED
        BY <2>1, <2>2, <3>1, SubmitTyped DEF Control
    <2> QED
      BY <2>3, <2>4, <2>5
  <1>5. CASE DriveScrobble /\ ~ScrobbleDue
    <2>1. pc' \in Kinds \union {"idle"} /\ cursor' \in Targets
      BY <1>0, <1>5, NextTargetTyped DEF DriveScrobble
    <2> QED
      BY <1>5, <2>1 DEF DriveScrobble, slots, worker, history, TypeOK,
                        NowPlayingBudget, Control
  <1> QED
    BY <1>1, <1>2, <1>3, <1>4, <1>5 DEF Drive

(* The worker thread does not touch the slots.                             *)
LEMMA TypedWork ==
  ASSUME Typed, Work
  PROVE  Typed'
  <1> USE DEF Typed, slots, loop, history
  <1>1. CASE TakeJob
    BY <1>1, NoneAssumption DEF TakeJob, TypeOK, NowPlayingBudget, Control
  <1>2. CASE BailOut
    BY <1>2 DEF BailOut, TypeOK, NowPlayingBudget, Control
  <1>3. CASE PassTokenTest \/ BeginCall
    BY <1>3 DEF PassTokenTest, BeginCall, TypeOK, NowPlayingBudget, Control
  <1>4. ASSUME NEW accepted \in BOOLEAN, CallReturns(accepted)
        PROVE  Typed'
    <2> USE <1>4 DEF CallReturns
    <2>1. running \in Job
      BY DEF TypeOK, Control
    <2>2. results' \in Seq(Result)
      BY <2>1 DEF TypeOK, Job, Result
    <2>3. scrobbled' \in [Targets -> [Plays -> Nat]]
      <3>1. running.target \in Targets /\ running.play \in Plays
        BY <2>1 DEF Job
      <3>2. scrobbled \in [Targets -> [Plays -> Nat]]
        BY DEF TypeOK
      <3>3. \/ scrobbled' = scrobbled
            \/ scrobbled' = [scrobbled EXCEPT ![running.target][running.play] = @ + 1]
        OBVIOUS
      <3>4. scrobbled[running.target][running.play] \in Nat
        BY <3>1, <3>2
      <3> HIDE DEF CallReturns
      <3> QED
        BY <3>1, <3>2, <3>3, <3>4
    <2>4. TypeOK'
      BY <2>2, <2>3 DEF TypeOK
    <2>5. NowPlayingBudget' /\ Control'
      BY DEF NowPlayingBudget, Control
    <2> QED
      BY <2>4, <2>5
  <1>5. CASE WorkerEnds
    BY <1>5 DEF WorkerEnds, TypeOK, NowPlayingBudget, Control
  <1> QED
    BY <1>1, <1>2, <1>3, <1>4, <1>5 DEF Work, Call

(* Typed is inductive on its own.                                          *)
LEMMA TypedStep == Typed /\ [Next]_vars => Typed'
  <1> SUFFICES ASSUME Typed, [Next]_vars PROVE Typed'
    OBVIOUS
  <1>1. CASE Reset
    <2> USE <1>1 DEF Reset, Typed, FreshPhase, FreshAttempts, FreshDeadlines
    <2>1. TypeOK'
      <3>1. /\ phase' \in [Targets -> [Kinds -> Phases]]
            /\ nextAttempt' \in [Targets -> [Kinds -> Deadlines]]
        OBVIOUS
      <3>2. attempts' \in [Targets -> 0..NowPlayingAttempts]
        BY AttemptsAssumption
      <3>3. play' \in Plays
        BY ConstantFacts DEF TypeOK
      <3> QED
        BY <3>1, <3>2, <3>3 DEF TypeOK, loop, worker
    <2>2. NowPlayingBudget'
      BY AttemptsAssumption DEF NowPlayingBudget
    <2>3. Control'
      BY DEF Control, worker
    <2> QED
      BY <2>1, <2>2, <2>3
  <1>2. CASE Destroy
    BY <1>2 DEF Destroy, Typed, slots, loop, worker, history, TypeOK,
                NowPlayingBudget, Control
  <1>3. ASSUME NEW t \in Targets, NEW k \in Kinds, DeadlinePasses(t, k)
        PROVE  Typed'
    BY <1>3 DEF DeadlinePasses, Typed, loop, worker, history, TypeOK,
                NowPlayingBudget, Control
  <1>4. CASE UNCHANGED vars
    BY <1>4 DEF vars, Typed, slots, loop, worker, history, TypeOK,
                NowPlayingBudget, Control
  <1> QED
    BY <1>1, <1>2, <1>3, <1>4, TypedTick, TypedDrive, TypedWork DEF Next, AnyTick

(* Every variable keeps its type, an update has attempts left whenever it  *)
(* waits, and one given up stays settled: drainResults and driveAttempts   *)
(* agree on when the attempts are used up.                                 *)
THEOREM TypesAndBudget == Spec => [](TypeOK /\ NowPlayingBudget)
  <1>1. Spec => []Typed
    BY TypedInit, TypedStep, PTL DEF Spec
  <1>2. Typed => TypeOK /\ NowPlayingBudget
    BY DEF Typed
  <1> QED
    BY <1>1, <1>2, PTL

(* A now-playing update is never left waiting with no attempt to make, nor *)
(* tried again once it was given up.                                       *)
THEOREM BudgetKept == Spec => []NowPlayingBudget
  <1>1. TypeOK /\ NowPlayingBudget => NowPlayingBudget
    OBVIOUS
  <1> QED
    BY <1>1, TypesAndBudget, PTL

-----------------------------------------------------------------------------
(* Every outstanding call is in one place.                                 *)

(* push_back: where the elements of the longer sequence come from.         *)
LEMMA AppendElements ==
  ASSUME NEW S, NEW s \in Seq(S), NEW e \in S
  PROVE  /\ \A i \in DOMAIN Append(s, e) :
              \/ i \in DOMAIN s /\ Append(s, e)[i] = s[i]
              \/ i = Len(s) + 1 /\ Append(s, e)[i] = e
         /\ \A i \in DOMAIN s : i \in DOMAIN Append(s, e) /\ Append(s, e)[i] = s[i]
         /\ Len(s) + 1 \in DOMAIN Append(s, e) /\ Append(s, e)[Len(s) + 1] = e
  OBVIOUS

(* pop_front: where the elements of the shorter sequence come from.        *)
LEMMA TailElements ==
  ASSUME NEW S, NEW s \in Seq(S), s # <<>>
  PROVE  /\ 1 \in DOMAIN s /\ Head(s) = s[1]
         /\ \A i \in DOMAIN Tail(s) :
              i + 1 \in DOMAIN s /\ i + 1 # 1 /\ Tail(s)[i] = s[i + 1]
         /\ \A i \in DOMAIN s : i # 1 => i - 1 \in DOMAIN Tail(s) /\ Tail(s)[i - 1] = s[i]
         /\ \A i, j \in DOMAIN Tail(s) : i + 1 = j + 1 => i = j
  OBVIOUS

(* Nothing outstanding is about a play that has not begun.                 *)
PastOnly ==
  /\ \A i \in DOMAIN queue : queue[i].play <= play
  /\ running # None => running.play <= play
  /\ \A i \in DOMAIN results : results[i].play <= play

Tracked == AskedOneThingAtATime /\ PastOnly /\ InFlightMeansOutstanding

(* Nothing is outstanding before the first tick.                           *)
LEMMA TrackedInit == Init => Tracked
  BY DEF Init, Tracked, AskedOneThingAtATime, QueuedOnce, AnsweredOnce,
         QueuedNotAnswered, RunningNowhereElse, PastOnly, InFlightMeansOutstanding,
         Outstanding, Queued, IsRunning, Answered, FreshPhase

(* Applying the results frees exactly the slots they answer.               *)
LEMMA TrackedTick ==
  ASSUME Typed, Tracked, NEW playing \in BOOLEAN, NEW met \in BOOLEAN, Tick(playing, met)
  PROVE  Tracked'
  <1>1. /\ results' = <<>>
        /\ alive
        /\ UNCHANGED <<play, alive, queue, running>>
    BY DEF Tick, DrainResults, worker
  <1>2. AskedOneThingAtATime'
    BY <1>1 DEF Tracked, AskedOneThingAtATime, QueuedOnce, AnsweredOnce,
                QueuedNotAnswered, RunningNowhereElse, SameCall
  <1>3. PastOnly'
    BY <1>1 DEF Tracked, PastOnly
  <1>4. ASSUME NEW t \in Targets, NEW k \in Kinds
        PROVE  (phase'[t][k] = "InFlight") <=> Outstanding(play, t, k)'
    <2>1. Outstanding(play, t, k)' <=> Queued(play, t, k) \/ IsRunning(play, t, k)
      BY <1>1 DEF Outstanding, Queued, IsRunning, Answered, IsFor
    <2>2. (phase[t][k] = "InFlight") <=> Outstanding(play, t, k)
      BY <1>1 DEF Tracked, InFlightMeansOutstanding
    <2>3. AnswersTo(t, k) # {} <=> Answered(play, t, k)
      BY <1>1 DEF AnswersTo, Current, StopRequested, Answered, IsFor
    <2>4. CASE AnswersTo(t, k) = {}
      <3>1. phase'[t][k] = phase[t][k]
        BY <2>4 DEF Tick, DrainResults
      <3> QED
        BY <2>1, <2>2, <2>3, <2>4, <3>1 DEF Outstanding
    <2>5. CASE AnswersTo(t, k) # {}
      <3>1. phase'[t][k] # "InFlight"
        BY <2>5 DEF Tick, DrainResults, PhaseAfter
      <3>2. PICK i \in DOMAIN results : IsFor(results[i], play, t, k)
        BY <2>3, <2>5 DEF Answered
      <3>3. ~Queued(play, t, k)
        BY <3>2 DEF Tracked, AskedOneThingAtATime, QueuedNotAnswered, SameCall,
                    Queued, IsFor
      <3>4. ~IsRunning(play, t, k)
        BY <3>2 DEF Tracked, AskedOneThingAtATime, RunningNowhereElse, SameCall,
                    IsRunning, IsFor
      <3> QED
        BY <2>1, <3>1, <3>3, <3>4
    <2> QED
      BY <2>4, <2>5
  <1>5. InFlightMeansOutstanding'
    BY <1>4 DEF InFlightMeansOutstanding
  <1> QED
    BY <1>2, <1>3, <1>5 DEF Tracked

(* A slot that is free may be submitted: it becomes InFlight, and its call *)
(* is outstanding in the queue alone.                                      *)
LEMMA TrackedSubmit ==
  ASSUME Typed, Tracked, NEW kind \in Kinds, Submit(kind),
         alive, phase[cursor][kind] # "InFlight",
         UNCHANGED <<play, alive, results>>
  PROVE  Tracked'
  <1> DEFINE new == [play |-> play, target |-> cursor, kind |-> kind]
  <1>1. queue \in Seq(Job) /\ cursor \in Targets /\ play \in Nat /\ new \in Job
    BY ConstantFacts DEF Typed, TypeOK, Job
  <1>2. queue' = Append(queue, new)
    BY DEF Submit
  <1>3. ~Outstanding(play, cursor, kind)
    BY <1>1 DEF Tracked, InFlightMeansOutstanding
  <1>4. /\ \A i \in DOMAIN queue' :
             \/ i \in DOMAIN queue /\ queue'[i] = queue[i]
             \/ i = Len(queue) + 1 /\ queue'[i] = new
        /\ \A i \in DOMAIN queue : i \in DOMAIN queue' /\ queue'[i] = queue[i]
        /\ Len(queue) + 1 \in DOMAIN queue' /\ queue'[Len(queue) + 1] = new
    BY <1>1, <1>2, AppendElements
  <1>5. /\ \A i \in DOMAIN queue : ~SameCall(queue[i], new) /\ ~SameCall(new, queue[i])
        /\ running # None => ~SameCall(running, new)
        /\ \A i \in DOMAIN results : ~SameCall(new, results[i])
    BY <1>3 DEF Outstanding, Queued, IsRunning, Answered, IsFor, SameCall
  <1>6. running' = running
    BY DEF Submit
  <1> HIDE DEF new
  <1>7. AskedOneThingAtATime'
    <2>1. QueuedOnce'
      BY <1>4, <1>5 DEF Tracked, AskedOneThingAtATime, QueuedOnce, SameCall
    <2>2. AnsweredOnce'
      BY DEF Tracked, AskedOneThingAtATime, AnsweredOnce, SameCall
    <2>3. QueuedNotAnswered'
      BY <1>4, <1>5 DEF Tracked, AskedOneThingAtATime, QueuedNotAnswered, SameCall
    <2>4. RunningNowhereElse'
      BY <1>4, <1>5, <1>6 DEF Tracked, AskedOneThingAtATime, RunningNowhereElse, SameCall
    <2> QED
      BY <2>1, <2>2, <2>3, <2>4 DEF AskedOneThingAtATime
  <1>8. PastOnly'
    BY <1>1, <1>4, <1>6 DEF Tracked, PastOnly, new
  <1>9. InFlightMeansOutstanding'
    <2> SUFFICES ASSUME NEW t \in Targets, NEW k \in Kinds
                 PROVE  (phase'[t][k] = "InFlight") <=> Outstanding(play, t, k)'
      BY DEF InFlightMeansOutstanding
    <2>1. CASE t = cursor /\ k = kind
      <3>1. Queued(play, t, k)'
        BY <1>4, <2>1 DEF Queued, IsFor, new
      <3> QED
        BY <2>1, <3>1, SubmitTyped DEF Outstanding
    <2>2. CASE ~(t = cursor /\ k = kind)
      <3>1. ~IsFor(new, play, t, k)
        BY <2>2 DEF IsFor, new
      <3>2. Queued(play, t, k)' <=> Queued(play, t, k)
        BY <1>4, <3>1 DEF Queued, IsFor
      <3>3. Outstanding(play, t, k)' <=> Outstanding(play, t, k)
        BY <1>6, <3>2 DEF Outstanding, IsRunning, Answered, IsFor
      <3>4. phase'[t][k] = phase[t][k]
        BY <2>2, SubmitTyped
      <3> QED
        BY <3>3, <3>4 DEF Tracked, InFlightMeansOutstanding
    <2> QED
      BY <2>1, <2>2
  <1> QED
    BY <1>7, <1>8, <1>9 DEF Tracked

(* Taking a job moves its call from the queue to the thread.               *)
LEMMA TrackedTakeJob ==
  ASSUME Typed, Tracked, TakeJob
  PROVE  Tracked'
  <1>1. queue \in Seq(Job) /\ queue # <<>> /\ running = None
    BY DEF Typed, TypeOK, TakeJob
  <1>2. /\ running' = Head(queue)
        /\ queue' = Tail(queue)
        /\ UNCHANGED <<play, alive, phase, results>>
    BY DEF TakeJob, slots
  <1>3. /\ 1 \in DOMAIN queue /\ running' = queue[1]
        /\ \A i \in DOMAIN queue' : i + 1 \in DOMAIN queue /\ i + 1 # 1 /\ queue'[i] = queue[i + 1]
        /\ \A i \in DOMAIN queue :
             i # 1 => i - 1 \in DOMAIN queue' /\ queue'[i - 1] = queue[i]
        /\ \A i, j \in DOMAIN queue' : i + 1 = j + 1 => i = j
    BY <1>1, <1>2, TailElements
  <1>4. running' # None
    <2>1. queue[1] \in Job
      BY <1>1, <1>3
    <2> QED
      BY <1>3, <2>1, NoneAssumption
  <1>5. AskedOneThingAtATime'
    <2>1. QueuedOnce'
      BY <1>3 DEF Tracked, AskedOneThingAtATime, QueuedOnce, SameCall
    <2>2. AnsweredOnce'
      BY <1>2 DEF Tracked, AskedOneThingAtATime, AnsweredOnce, SameCall
    <2>3. QueuedNotAnswered'
      BY <1>2, <1>3 DEF Tracked, AskedOneThingAtATime, QueuedNotAnswered, SameCall
    <2>4. \A i \in DOMAIN queue' : ~SameCall(running', queue'[i])
      BY <1>3 DEF Tracked, AskedOneThingAtATime, QueuedOnce, SameCall
    <2>5. \A i \in DOMAIN results : ~SameCall(running', results[i])
      BY <1>3 DEF Tracked, AskedOneThingAtATime, QueuedNotAnswered, SameCall
    <2>6. RunningNowhereElse'
      BY <1>2, <2>4, <2>5 DEF RunningNowhereElse, SameCall
    <2> QED
      BY <2>1, <2>2, <2>3, <2>6 DEF AskedOneThingAtATime
  <1>6. PastOnly'
    BY <1>2, <1>3 DEF Tracked, PastOnly
  <1>7. InFlightMeansOutstanding'
    <2> SUFFICES ASSUME NEW t \in Targets, NEW k \in Kinds
                 PROVE  Outstanding(play, t, k)' <=> Outstanding(play, t, k)
      BY <1>2 DEF Tracked, InFlightMeansOutstanding
    <2>1. Queued(play, t, k) <=> IsRunning(play, t, k)' \/ Queued(play, t, k)'
      <3>1. ASSUME NEW i \in DOMAIN queue, IsFor(queue[i], play, t, k)
            PROVE  IsRunning(play, t, k)' \/ Queued(play, t, k)'
        <4>1. CASE i = 1
          BY <1>2, <1>3, <1>4, <3>1, <4>1 DEF IsRunning, IsFor
        <4>2. CASE i # 1
          <5>1. i - 1 \in DOMAIN queue' /\ queue'[i - 1] = queue[i]
            BY <1>3, <4>2
          <5> QED
            BY <1>2, <3>1, <5>1 DEF Queued, IsFor
        <4> QED
          BY <4>1, <4>2
      <3>2. Queued(play, t, k)' => Queued(play, t, k)
        BY <1>2, <1>3 DEF Queued, IsFor
      <3>3. IsRunning(play, t, k)' => Queued(play, t, k)
        BY <1>2, <1>3 DEF Queued, IsRunning, IsFor
      <3> QED
        BY <3>1, <3>2, <3>3 DEF Queued
    <2>2. ~IsRunning(play, t, k)
      BY <1>1 DEF IsRunning
    <2>3. Answered(play, t, k)' <=> Answered(play, t, k)
      BY <1>2 DEF Answered, IsFor
    <2> QED
      BY <2>1, <2>2, <2>3 DEF Outstanding
  <1> QED
    BY <1>5, <1>6, <1>7 DEF Tracked

(* Only a call of a retired play is dropped, and that play has no slots.   *)
LEMMA TrackedBailOut ==
  ASSUME Typed, Tracked, BailOut
  PROVE  Tracked'
  <1>1. /\ running # None /\ (running.play # play \/ ~alive)
        /\ running' = None
        /\ UNCHANGED <<play, alive, phase, results, queue>>
    BY DEF BailOut, StopRequested, slots
  <1>2. AskedOneThingAtATime'
    BY <1>1 DEF Tracked, AskedOneThingAtATime, QueuedOnce, AnsweredOnce,
                QueuedNotAnswered, RunningNowhereElse, SameCall
  <1>3. PastOnly'
    BY <1>1 DEF Tracked, PastOnly
  <1>4. ASSUME alive, NEW t \in Targets, NEW k \in Kinds
        PROVE  Outstanding(play, t, k)' <=> Outstanding(play, t, k)
    BY <1>1, <1>4 DEF Outstanding, Queued, IsRunning, Answered, IsFor
  <1>5. InFlightMeansOutstanding'
    BY <1>1, <1>4 DEF Tracked, InFlightMeansOutstanding
  <1> QED
    BY <1>2, <1>3, <1>5 DEF Tracked

(* A call that returns moves from the thread to the results.               *)
LEMMA TrackedCallReturns ==
  ASSUME Typed, Tracked, NEW accepted \in BOOLEAN, CallReturns(accepted)
  PROVE  Tracked'
  <1> DEFINE new == [play |-> running.play, target |-> running.target,
                     kind |-> running.kind, accepted |-> accepted]
  <1>1. running \in Job /\ running # None
    BY DEF Typed, TypeOK, Control, CallReturns
  <1>2. results \in Seq(Result) /\ new \in Result
    BY <1>1 DEF Typed, TypeOK, Job, Result
  <1>3. /\ running' = None
        /\ results' = Append(results, new)
        /\ UNCHANGED <<play, alive, phase, queue>>
    BY DEF CallReturns, slots
  <1>4. /\ \A i \in DOMAIN results' :
             \/ i \in DOMAIN results /\ results'[i] = results[i]
             \/ i = Len(results) + 1 /\ results'[i] = new
        /\ \A i \in DOMAIN results : i \in DOMAIN results' /\ results'[i] = results[i]
        /\ Len(results) + 1 \in DOMAIN results' /\ results'[Len(results) + 1] = new
    BY <1>2, <1>3, AppendElements
  <1>5. /\ \A x : SameCall(x, new) <=> SameCall(x, running)
        /\ \A x : SameCall(new, x) <=> SameCall(running, x)
        /\ \A p, t, k : IsFor(new, p, t, k) <=> IsFor(running, p, t, k)
        /\ new.play = running.play
    BY DEF SameCall, IsFor
  <1> HIDE DEF new
  <1>6. /\ \A i \in DOMAIN queue : ~SameCall(queue[i], new)
        /\ \A i \in DOMAIN results : ~SameCall(results[i], new) /\ ~SameCall(new, results[i])
    BY <1>1, <1>5 DEF Tracked, AskedOneThingAtATime, RunningNowhereElse, SameCall
  <1>7. AskedOneThingAtATime'
    <2>1. QueuedOnce'
      BY <1>3 DEF Tracked, AskedOneThingAtATime, QueuedOnce, SameCall
    <2>2. AnsweredOnce'
      BY <1>4, <1>6 DEF Tracked, AskedOneThingAtATime, AnsweredOnce, SameCall
    <2>3. QueuedNotAnswered'
      BY <1>3, <1>4, <1>6 DEF Tracked, AskedOneThingAtATime, QueuedNotAnswered, SameCall
    <2>4. RunningNowhereElse'
      BY <1>3 DEF RunningNowhereElse
    <2> QED
      BY <2>1, <2>2, <2>3, <2>4 DEF AskedOneThingAtATime
  <1>8. PastOnly'
    BY <1>1, <1>3, <1>4, <1>5 DEF Tracked, PastOnly
  <1>9. ASSUME NEW t \in Targets, NEW k \in Kinds
        PROVE  Outstanding(play, t, k)' <=> Outstanding(play, t, k)
    <2>1. Answered(play, t, k)' <=> Answered(play, t, k) \/ IsRunning(play, t, k)
      <3>1. Answered(play, t, k) => Answered(play, t, k)'
        BY <1>3, <1>4 DEF Answered, IsFor
      <3>2. IsFor(new, play, t, k) <=> IsRunning(play, t, k)
        BY <1>1, <1>5 DEF IsRunning
      <3>3. IsFor(new, play, t, k) => Answered(play, t, k)'
        BY <1>3, <1>4 DEF Answered, IsFor
      <3>4. Answered(play, t, k)' => Answered(play, t, k) \/ IsFor(new, play, t, k)
        BY <1>3, <1>4 DEF Answered, IsFor
      <3> QED
        BY <3>1, <3>2, <3>3, <3>4
    <2>2. ~IsRunning(play, t, k)'
      BY <1>3 DEF IsRunning
    <2>3. Queued(play, t, k)' <=> Queued(play, t, k)
      BY <1>3 DEF Queued, IsFor
    <2> QED
      BY <2>1, <2>2, <2>3 DEF Outstanding
  <1>10. InFlightMeansOutstanding'
    BY <1>3, <1>9 DEF Tracked, InFlightMeansOutstanding
  <1> QED
    BY <1>7, <1>8, <1>10 DEF Tracked

(* The steps that touch neither slots' phases nor anything outstanding.    *)
LEMMA TrackedFrame ==
  ASSUME Tracked, alive' => alive, UNCHANGED <<play, phase, queue, running, results>>
  PROVE  Tracked'
  BY DEF Tracked, AskedOneThingAtATime, QueuedOnce, AnsweredOnce, QueuedNotAnswered,
         RunningNowhereElse, PastOnly, InFlightMeansOutstanding, Outstanding, Queued,
         IsRunning, Answered, IsFor, SameCall

(* Tracked is inductive given Typed.                                       *)
LEMMA TrackedStep == Typed /\ Tracked /\ [Next]_vars => Tracked'
  <1> SUFFICES ASSUME Typed, Tracked, [Next]_vars PROVE Tracked'
    OBVIOUS
  <1>1. CASE Reset
    <2>1. /\ play' = play + 1 /\ play \in Nat
          /\ UNCHANGED <<queue, running, results>>
          /\ \A t \in Targets, k \in Kinds : phase'[t][k] = "Waiting"
      BY <1>1, ConstantFacts DEF Reset, worker, FreshPhase, Typed, TypeOK
    <2>2. AskedOneThingAtATime'
      BY <2>1 DEF Tracked, AskedOneThingAtATime, QueuedOnce, AnsweredOnce,
                  QueuedNotAnswered, RunningNowhereElse, SameCall
    <2>3. \A i \in DOMAIN queue : queue[i].play \in Nat
      <3>1. \A i \in DOMAIN queue : queue[i] \in Job
        BY DEF Typed, TypeOK
      <3> QED
        BY <3>1, ConstantFacts DEF Job
    <2>4. \A i \in DOMAIN results : results[i].play \in Nat
      <3>1. \A i \in DOMAIN results : results[i] \in Result
        BY DEF Typed, TypeOK
      <3> QED
        BY <3>1, ConstantFacts DEF Result
    <2>5. running # None => running.play \in Nat
      BY ConstantFacts DEF Typed, TypeOK, Job
    <2>6. PastOnly'
      BY <2>1, <2>3, <2>4, <2>5 DEF Tracked, PastOnly
    <2>7. \A t \in Targets, k \in Kinds : ~Outstanding(play', t, k)
      BY <2>1, <2>3, <2>4, <2>5
         DEF Tracked, PastOnly, Outstanding, Queued, IsRunning, Answered, IsFor
    <2>8. InFlightMeansOutstanding'
      BY <2>1, <2>7 DEF InFlightMeansOutstanding, Outstanding, Queued, IsRunning,
                        Answered, IsFor
    <2> QED
      BY <2>2, <2>6, <2>8 DEF Tracked
  <1>2. CASE AnyTick
    BY <1>2, TrackedTick DEF AnyTick
  <1>3. CASE SkipUnauthed
    BY <1>3, TrackedFrame DEF SkipUnauthed, slots, worker
  <1>4. CASE DriveNowPlaying
    <2>1. alive
      BY <1>4 DEF DriveNowPlaying, Typed, Control
    <2>2. CASE NowPlayingDue
      BY <1>4, <2>1, <2>2, TrackedSubmit DEF DriveNowPlaying, NowPlayingDue
    <2>3. CASE ~NowPlayingDue
      BY <1>4, <2>3, TrackedFrame DEF DriveNowPlaying, slots, worker
    <2> QED
      BY <2>2, <2>3
  <1>5. CASE DriveScrobble
    <2>1. alive
      BY <1>5 DEF DriveScrobble, Typed, Control
    <2>2. CASE ScrobbleDue
      BY <1>5, <2>1, <2>2, TrackedSubmit DEF DriveScrobble, ScrobbleDue
    <2>3. CASE ~ScrobbleDue
      BY <1>5, <2>3, TrackedFrame DEF DriveScrobble, slots, worker
    <2> QED
      BY <2>2, <2>3
  <1>6. CASE TakeJob
    BY <1>6, TrackedTakeJob
  <1>7. CASE BailOut
    BY <1>7, TrackedBailOut
  <1>8. CASE PassTokenTest \/ BeginCall
    BY <1>8, TrackedFrame DEF PassTokenTest, BeginCall, slots
  <1>9. ASSUME NEW accepted \in BOOLEAN, CallReturns(accepted)
        PROVE  Tracked'
    BY <1>9, TrackedCallReturns
  <1>10. CASE WorkerEnds
    BY <1>10, TrackedFrame DEF WorkerEnds, slots
  <1>11. CASE Destroy
    BY <1>11, TrackedFrame DEF Destroy, slots, worker
  <1>12. ASSUME NEW t \in Targets, NEW k \in Kinds, DeadlinePasses(t, k)
         PROVE  Tracked'
    BY <1>12, TrackedFrame DEF DeadlinePasses, worker
  <1>13. CASE UNCHANGED vars
    BY <1>13, TrackedFrame DEF vars, slots, worker
  <1> QED
    BY <1>1, <1>2, <1>3, <1>4, <1>5, <1>6, <1>7, <1>8, <1>9, <1>10, <1>11,
       <1>12, <1>13 DEF Next, Drive, Work, Call

(* For any number of scrobblers and plays: a call of a slot is never made  *)
(* while another of the same slot is outstanding, and a slot is InFlight   *)
(* exactly while its call is, so a late result of a retired play never     *)
(* frees a slot and no slot stays InFlight for good.                       *)
THEOREM OneThingAtATime == Spec => [](AskedOneThingAtATime /\ InFlightMeansOutstanding)
  <1>1. Spec => []Typed
    BY TypedInit, TypedStep, PTL DEF Spec
  <1>2. Spec => []Tracked
    BY <1>1, TrackedInit, TrackedStep, PTL DEF Spec
  <1>3. Tracked => AskedOneThingAtATime /\ InFlightMeansOutstanding
    BY DEF Tracked
  <1> QED
    BY <1>2, <1>3, PTL

(* No call of a slot is queued, made or unread while another of the same   *)
(* slot is: no two answers can race for one slot.                          *)
THEOREM NeverAskedTwice == Spec => []AskedOneThingAtATime
  <1>1. AskedOneThingAtATime /\ InFlightMeansOutstanding => AskedOneThingAtATime
    OBVIOUS
  <1> QED
    BY <1>1, OneThingAtATime, PTL

-----------------------------------------------------------------------------
(* An accepted scrobble is remembered until it is applied.                 *)

(* Once a scrobble of a play landed no other call of that slot waits, and  *)
(* until the next play the slot is Done or the acceptance is among the     *)
(* results; a rejection still to be applied belongs to a play that has not *)
(* been scrobbled.                                                         *)
Remembered(t, p) ==
  /\ scrobbled[t][p] <= 1
  /\ scrobbled[t][p] # 0 =>
       /\ p <= play
       /\ ~Queued(p, t, "Scrobble")
       /\ ~IsRunning(p, t, "Scrobble")
       /\ alive /\ p = play =>
            phase[t]["Scrobble"] = "Done" \/ Answered(p, t, "Scrobble")
  /\ \A i \in DOMAIN results :
       IsFor(results[i], p, t, "Scrobble") =>
         (results[i].accepted <=> scrobbled[t][p] # 0)

Recorded == \A t \in Targets, p \in Plays : Remembered(t, p)

(* Nothing has been accepted before the first tick.                        *)
LEMMA RecordedInit == Init => Recorded
  BY DEF Init, Recorded, Remembered, Queued, IsRunning

(* The steps after which nothing a scrobble is remembered by has changed.  *)
LEMMA RecordedFrame ==
  ASSUME Recorded, alive' => alive,
         \A t \in Targets : phase'[t]["Scrobble"] = phase[t]["Scrobble"],
         UNCHANGED <<play, queue, running, results, scrobbled>>
  PROVE  Recorded'
  BY DEF Recorded, Remembered, Queued, IsRunning, Answered, IsFor

(* Applying an accepted result settles its slot before the result is gone. *)
LEMMA RecordedTick ==
  ASSUME Typed, Tracked, Recorded,
         NEW playing \in BOOLEAN, NEW met \in BOOLEAN, Tick(playing, met)
  PROVE  Recorded'
  <1>1. /\ results' = <<>>
        /\ alive
        /\ UNCHANGED <<play, alive, queue, running, scrobbled>>
    BY DEF Tick, DrainResults, worker
  <1> SUFFICES ASSUME NEW t \in Targets, NEW p \in Plays PROVE Remembered(t, p)'
    BY DEF Recorded
  <1>2. Remembered(t, p)
    BY DEF Recorded
  <1>3. ASSUME p = play, scrobbled[t][p] # 0
        PROVE  phase'[t]["Scrobble"] = "Done"
    <2> DEFINE k == "Scrobble"
    <2>1. CASE AnswersTo(t, k) = {}
      <3>1. ~Answered(play, t, k)
        BY <1>1, <2>1 DEF AnswersTo, Current, StopRequested, Answered, IsFor
      <3>2. phase'[t][k] = phase[t][k]
        BY <2>1 DEF Tick, DrainResults
      <3> QED
        BY <1>1, <1>2, <1>3, <3>1, <3>2 DEF Remembered
    <2>2. CASE AnswersTo(t, k) # {}
      <3> DEFINE i == CHOOSE i \in AnswersTo(t, k) : TRUE
      <3>1. i \in AnswersTo(t, k)
        BY <2>2
      <3>2. i \in DOMAIN results /\ IsFor(results[i], p, t, k)
        BY <1>1, <1>3, <3>1 DEF AnswersTo, Current, StopRequested, IsFor
      <3>3. results[i].accepted
        BY <1>2, <1>3, <3>2 DEF Remembered
      <3>4. phase'[t][k] = PhaseAfter(t, k, results[i])
        BY <2>2 DEF Tick, DrainResults
      <3> QED
        BY <3>3, <3>4 DEF PhaseAfter
    <2> QED
      BY <2>1, <2>2
  <1> QED
    BY <1>1, <1>2, <1>3 DEF Remembered, Queued, IsRunning, IsFor

(* A slot submits only if nothing of its play has been accepted.           *)
LEMMA RecordedSubmit ==
  ASSUME Typed, Tracked, Recorded, NEW kind \in Kinds, Submit(kind), alive,
         phase[cursor][kind] # "InFlight",
         kind = "Scrobble" => phase[cursor][kind] = "Waiting",
         UNCHANGED <<play, alive, results, scrobbled>>
  PROVE  Recorded'
  <1> DEFINE new == [play |-> play, target |-> cursor, kind |-> kind]
  <1>1. queue \in Seq(Job) /\ cursor \in Targets /\ play \in Plays /\ new \in Job
    BY DEF Typed, TypeOK, Job
  <1>2. queue' = Append(queue, new) /\ running' = running
    BY DEF Submit
  <1>3. \A i \in DOMAIN queue' :
             \/ i \in DOMAIN queue /\ queue'[i] = queue[i]
             \/ i = Len(queue) + 1 /\ queue'[i] = new
    BY <1>1, <1>2, AppendElements
  <1>4. ~Outstanding(play, cursor, kind)
    BY <1>1 DEF Tracked, InFlightMeansOutstanding
  <1> SUFFICES ASSUME NEW t \in Targets, NEW p \in Plays PROVE Remembered(t, p)'
    BY DEF Recorded
  <1>5. Remembered(t, p)
    BY DEF Recorded
  <1>6. CASE kind = "Scrobble" /\ t = cursor /\ p = play
    <2>1. scrobbled[t][p] = 0
      BY <1>4, <1>5, <1>6 DEF Remembered, Outstanding
    <2> QED
      BY <1>5, <2>1 DEF Remembered, IsFor
  <1>7. CASE ~(kind = "Scrobble" /\ t = cursor /\ p = play)
    <2>1. ~IsFor(new, p, t, "Scrobble")
      BY <1>7 DEF IsFor
    <2>2. Queued(p, t, "Scrobble")' => Queued(p, t, "Scrobble")
      BY <1>3, <2>1 DEF Queued, IsFor
    <2>3. p = play => phase'[t]["Scrobble"] = phase[t]["Scrobble"]
      BY <1>7, SubmitTyped
    <2> QED
      BY <1>2, <1>5, <2>2, <2>3 DEF Remembered, IsRunning, Answered, IsFor
  <1> QED
    BY <1>6, <1>7

(* Taking a job accepts nothing.                                           *)
LEMMA RecordedTakeJob ==
  ASSUME Typed, Recorded, TakeJob
  PROVE  Recorded'
  <1>1. queue \in Seq(Job) /\ queue # <<>>
    BY DEF Typed, TypeOK, TakeJob
  <1>2. /\ running' = Head(queue)
        /\ queue' = Tail(queue)
        /\ UNCHANGED <<play, alive, phase, results, scrobbled>>
    BY DEF TakeJob, slots, history
  <1>3. /\ 1 \in DOMAIN queue /\ running' = queue[1]
        /\ \A i \in DOMAIN queue' : i + 1 \in DOMAIN queue /\ queue'[i] = queue[i + 1]
    BY <1>1, <1>2, TailElements
  <1> SUFFICES ASSUME NEW t \in Targets, NEW p \in Plays PROVE Remembered(t, p)'
    BY DEF Recorded
  <1>4. Remembered(t, p)
    BY DEF Recorded
  <1>5. /\ Queued(p, t, "Scrobble")' => Queued(p, t, "Scrobble")
        /\ IsRunning(p, t, "Scrobble")' => Queued(p, t, "Scrobble")
    BY <1>3 DEF Queued, IsRunning, IsFor
  <1> QED
    BY <1>2, <1>4, <1>5 DEF Remembered, Answered, IsFor

(* Dropping a job accepts nothing.                                         *)
LEMMA RecordedBailOut ==
  ASSUME Recorded, BailOut
  PROVE  Recorded'
  BY DEF BailOut, slots, history, Recorded, Remembered, Queued, IsRunning, Answered, IsFor

(* An accepted call is remembered by its result until that is applied.     *)
LEMMA RecordedCallReturns ==
  ASSUME Typed, Tracked, Recorded, NEW accepted \in BOOLEAN, CallReturns(accepted)
  PROVE  Recorded'
  <1> DEFINE new == [play |-> running.play, target |-> running.target,
                     kind |-> running.kind, accepted |-> accepted]
  <1>1. running \in Job /\ running # None
    BY DEF Typed, TypeOK, Control, CallReturns
  <1>2. results \in Seq(Result) /\ new \in Result
    BY <1>1 DEF Typed, TypeOK, Job, Result
  <1>3. /\ running' = None
        /\ results' = Append(results, new)
        /\ UNCHANGED <<play, alive, phase, queue>>
    BY DEF CallReturns, slots
  <1>4. /\ \A i \in DOMAIN results' :
             \/ i \in DOMAIN results /\ results'[i] = results[i]
             \/ i = Len(results) + 1 /\ results'[i] = new
        /\ \A i \in DOMAIN results : i \in DOMAIN results' /\ results'[i] = results[i]
        /\ Len(results) + 1 \in DOMAIN results' /\ results'[Len(results) + 1] = new
    BY <1>2, <1>3, AppendElements
  <1>5. /\ \A p, t, k : IsFor(new, p, t, k) <=> IsFor(running, p, t, k)
        /\ new.accepted = accepted
    BY DEF IsFor
  <1> HIDE DEF new
  <1> SUFFICES ASSUME NEW t \in Targets, NEW p \in Plays PROVE Remembered(t, p)'
    BY DEF Recorded
  <1>6. Remembered(t, p)
    BY DEF Recorded
  <1>7. scrobbled \in [Targets -> [Plays -> Nat]]
    BY DEF Typed, TypeOK
  <1>8. ~IsRunning(p, t, "Scrobble")' /\ (Queued(p, t, "Scrobble")' <=> Queued(p, t, "Scrobble"))
    BY <1>3 DEF IsRunning, Queued, IsFor
  <1>9. CASE IsFor(running, p, t, "Scrobble")
    <2>1. scrobbled[t][p] = 0
      BY <1>1, <1>6, <1>9 DEF Remembered, IsRunning
    <2>2. scrobbled'[t][p] = IF accepted THEN 1 ELSE 0
      <3>1. running.target = t /\ running.play = p /\ running.kind = "Scrobble"
        BY <1>9 DEF IsFor
      <3> QED
        BY <1>7, <2>1, <3>1 DEF CallReturns
    <2>3. p <= play
      BY <1>1, <1>9 DEF Tracked, PastOnly, IsFor
    <2>4. /\ \A i \in DOMAIN queue : ~IsFor(queue[i], p, t, "Scrobble")
          /\ \A i \in DOMAIN results : ~IsFor(results[i], p, t, "Scrobble")
      BY <1>1, <1>9 DEF Tracked, AskedOneThingAtATime, RunningNowhereElse, SameCall, IsFor
    <2>5. Answered(p, t, "Scrobble")'
      BY <1>4, <1>5, <1>9 DEF Answered, IsFor
    <2>6. \A i \in DOMAIN results' :
            IsFor(results'[i], p, t, "Scrobble") => results'[i].accepted = accepted
      BY <1>4, <1>5, <2>4
    <2>7. ~Queued(p, t, "Scrobble")'
      BY <1>8, <2>4 DEF Queued
    <2> QED
      BY <1>3, <1>8, <2>2, <2>3, <2>5, <2>6, <2>7 DEF Remembered, IsFor
  <1>10. CASE ~IsFor(running, p, t, "Scrobble")
    <2>1. scrobbled'[t][p] = scrobbled[t][p]
      <3>1. running.target \in Targets /\ running.play \in Plays
        BY <1>1 DEF Job
      <3> QED
        BY <1>7, <1>10, <3>1 DEF CallReturns, IsFor
    <2>2. Answered(p, t, "Scrobble") => Answered(p, t, "Scrobble")'
      BY <1>3, <1>4 DEF Answered, IsFor
    <2>3. \A i \in DOMAIN results' :
            IsFor(results'[i], p, t, "Scrobble") =>
              i \in DOMAIN results /\ results'[i] = results[i]
      BY <1>4, <1>5, <1>10
    <2>4. \A i \in DOMAIN results' :
            IsFor(results'[i], p, t, "Scrobble") =>
              (results'[i].accepted <=> scrobbled'[t][p] # 0)
      BY <1>6, <2>1, <2>3 DEF Remembered
    <2> QED
      BY <1>3, <1>6, <1>8, <2>1, <2>2, <2>4 DEF Remembered, IsFor
  <1> QED
    BY <1>9, <1>10

(* The new play has nothing outstanding and nothing accepted.              *)
LEMMA RecordedReset ==
  ASSUME Typed, Recorded, Reset
  PROVE  Recorded'
  <1>1. /\ play' = play + 1 /\ play \in Nat
        /\ UNCHANGED <<alive, queue, running, results, scrobbled>>
    BY ConstantFacts DEF Reset, worker, Typed, TypeOK
  <1> SUFFICES ASSUME NEW t \in Targets, NEW p \in Plays PROVE Remembered(t, p)'
    BY DEF Recorded
  <1>2. Remembered(t, p) /\ p \in Nat
    BY ConstantFacts DEF Recorded
  <1>3. p <= play => p <= play' /\ p # play'
    BY <1>1, <1>2
  <1> QED
    BY <1>1, <1>2, <1>3 DEF Remembered, Queued, IsRunning, Answered, IsFor

(* Recorded is inductive given Typed and Tracked.                          *)
LEMMA RecordedStep == Typed /\ Tracked /\ Recorded /\ [Next]_vars => Recorded'
  <1> SUFFICES ASSUME Typed, Tracked, Recorded, [Next]_vars PROVE Recorded'
    OBVIOUS
  <1>1. CASE Reset
    BY <1>1, RecordedReset
  <1>2. CASE AnyTick
    BY <1>2, RecordedTick DEF AnyTick
  <1>3. CASE SkipUnauthed
    BY <1>3, RecordedFrame DEF SkipUnauthed, slots, worker, history
  <1>4. CASE DriveNowPlaying
    <2>1. alive
      BY <1>4 DEF DriveNowPlaying, Typed, Control
    <2>2. CASE NowPlayingDue
      BY <1>4, <2>1, <2>2, RecordedSubmit DEF DriveNowPlaying, NowPlayingDue, history
    <2>3. CASE ~NowPlayingDue
      BY <1>4, <2>3, RecordedFrame DEF DriveNowPlaying, slots, worker, history
    <2> QED
      BY <2>2, <2>3
  <1>5. CASE DriveScrobble
    <2>1. alive
      BY <1>5 DEF DriveScrobble, Typed, Control
    <2>2. CASE ScrobbleDue
      BY <1>5, <2>1, <2>2, RecordedSubmit DEF DriveScrobble, ScrobbleDue, history
    <2>3. CASE ~ScrobbleDue
      BY <1>5, <2>3, RecordedFrame DEF DriveScrobble, slots, worker, history
    <2> QED
      BY <2>2, <2>3
  <1>6. CASE TakeJob
    BY <1>6, RecordedTakeJob
  <1>7. CASE BailOut
    BY <1>7, RecordedBailOut
  <1>8. CASE PassTokenTest \/ BeginCall
    BY <1>8, RecordedFrame DEF PassTokenTest, BeginCall, slots, history
  <1>9. ASSUME NEW accepted \in BOOLEAN, CallReturns(accepted)
        PROVE  Recorded'
    BY <1>9, RecordedCallReturns
  <1>10. CASE WorkerEnds
    BY <1>10, RecordedFrame DEF WorkerEnds, slots, history
  <1>11. CASE Destroy
    BY <1>11, RecordedFrame DEF Destroy, slots, worker, history
  <1>12. ASSUME NEW t \in Targets, NEW k \in Kinds, DeadlinePasses(t, k)
         PROVE  Recorded'
    BY <1>12, RecordedFrame DEF DeadlinePasses, worker, history
  <1>13. CASE UNCHANGED vars
    BY <1>13, RecordedFrame DEF vars, slots, worker, history
  <1> QED
    BY <1>1, <1>2, <1>3, <1>4, <1>5, <1>6, <1>7, <1>8, <1>9, <1>10, <1>11,
       <1>12, <1>13 DEF Next, Drive, Work, Call

(* The three layers together are an invariant of the driver.               *)
LEMMA Invariance == Spec => [](Typed /\ Tracked /\ Recorded)
  <1>1. Init => Typed /\ Tracked /\ Recorded
    BY TypedInit, TrackedInit, RecordedInit
  <1>2. Typed /\ Tracked /\ Recorded /\ [Next]_vars => (Typed /\ Tracked /\ Recorded)'
    BY TypedStep, TrackedStep, RecordedStep
  <1> QED
    BY <1>1, <1>2, PTL DEF Spec

(* For any number of scrobblers, attempts and plays, no service accepts    *)
(* the scrobble of a play twice.                                           *)
THEOREM AcceptedOnce == Spec => []AtMostOneScrobble
  <1>1. Recorded => AtMostOneScrobble
    BY DEF Recorded, Remembered, AtMostOneScrobble
  <1> QED
    BY <1>1, Invariance, PTL

-----------------------------------------------------------------------------
(* The driver implements the ledger.                                       *)

(* A scrobble that waits to be asked for the current play was earned: some *)
(* tick of this play met the threshold.                                    *)
Earned ==
  /\ pc # "idle" /\ current.met => qualified
  /\ \A i \in DOMAIN queue :
       queue[i].kind = "Scrobble" /\ queue[i].play = play => qualified
  /\ running # None /\ running.kind = "Scrobble" /\ running.play = play => qualified

(* Nothing waits to be asked before the first tick.                        *)
LEMMA EarnedInit == Init => Earned
  BY DEF Init, Earned

(* driveAttempts submits a scrobble only in a tick that met the threshold. *)
LEMMA EarnedStep == Typed /\ Tracked /\ Earned /\ [Next]_vars => Earned'
  <1> SUFFICES ASSUME Typed, Tracked, Earned, [Next]_vars PROVE Earned'
    OBVIOUS
  <1>1. CASE Reset
    <2>1. /\ play' = play + 1 /\ play \in Nat /\ pc' = "idle"
          /\ UNCHANGED <<queue, running>>
      BY <1>1, ConstantFacts DEF Reset, worker, loop, Typed, TypeOK
    <2>2. \A i \in DOMAIN queue : queue[i] \in Job
      BY DEF Typed, TypeOK
    <2>3. /\ \A i \in DOMAIN queue : queue[i].play # play'
          /\ running # None => running.play # play'
      BY <2>1, <2>2, ConstantFacts DEF Tracked, PastOnly, Typed, TypeOK, Job
    <2> QED
      BY <2>1, <2>3 DEF Earned
  <1>2. ASSUME NEW playing \in BOOLEAN, NEW met \in BOOLEAN, Tick(playing, met)
        PROVE  Earned'
    <2>1. /\ current'.met = met
          /\ qualified' = (qualified \/ met)
          /\ UNCHANGED <<play, queue, running>>
      BY <1>2 DEF Tick, worker
    <2> QED
      BY <2>1 DEF Earned
  <1>3. CASE SkipUnauthed
    BY <1>3 DEF SkipUnauthed, worker, history, Earned
  <1>4. ASSUME NEW kind \in Kinds, Submit(kind), kind = "Scrobble" => current.met,
               pc # "idle", UNCHANGED <<play, current, qualified>>
        PROVE  Earned'
    <2> DEFINE new == [play |-> play, target |-> cursor, kind |-> kind]
    <2>1. queue \in Seq(Job) /\ new \in Job
      BY DEF Typed, TypeOK, Job
    <2>2. queue' = Append(queue, new) /\ running' = running
      BY <1>4 DEF Submit
    <2>3. \A i \in DOMAIN queue' :
            \/ i \in DOMAIN queue /\ queue'[i] = queue[i]
            \/ queue'[i] = new
      BY <2>1, <2>2, AppendElements
    <2>4. new.kind = "Scrobble" => qualified
      BY <1>4 DEF Earned
    <2> QED
      BY <1>4, <2>2, <2>3, <2>4 DEF Earned
  <1>5. CASE DriveNowPlaying
    <2>1. CASE NowPlayingDue
      BY <1>4, <1>5, <2>1 DEF DriveNowPlaying, history
    <2>2. CASE ~NowPlayingDue
      BY <1>5, <2>2 DEF DriveNowPlaying, worker, history, Earned
    <2> QED
      BY <2>1, <2>2
  <1>6. CASE DriveScrobble
    <2>1. CASE ScrobbleDue
      BY <1>4, <1>6, <2>1 DEF DriveScrobble, ScrobbleDue, history
    <2>2. CASE ~ScrobbleDue
      BY <1>6, <2>2 DEF DriveScrobble, worker, history, Earned
    <2> QED
      BY <2>1, <2>2
  <1>7. CASE TakeJob
    <2>1. queue \in Seq(Job) /\ queue # <<>>
      BY <1>7 DEF Typed, TypeOK, TakeJob
    <2>2. /\ running' = Head(queue)
          /\ queue' = Tail(queue)
          /\ UNCHANGED <<play, pc, current, qualified>>
      BY <1>7 DEF TakeJob, loop, history
    <2>3. /\ 1 \in DOMAIN queue /\ running' = queue[1]
          /\ \A i \in DOMAIN queue' : i + 1 \in DOMAIN queue /\ queue'[i] = queue[i + 1]
      BY <2>1, <2>2, TailElements
    <2> QED
      BY <2>2, <2>3 DEF Earned
  <1>8. CASE BailOut
    BY <1>8 DEF BailOut, loop, history, Earned
  <1>9. CASE PassTokenTest \/ BeginCall
    BY <1>9 DEF PassTokenTest, BeginCall, loop, history, Earned
  <1>10. ASSUME NEW accepted \in BOOLEAN, CallReturns(accepted)
         PROVE  Earned'
    BY <1>10 DEF CallReturns, loop, Earned
  <1>11. CASE WorkerEnds
    BY <1>11 DEF WorkerEnds, loop, history, Earned
  <1>12. CASE Destroy
    BY <1>12 DEF Destroy, loop, worker, history, Earned
  <1>13. ASSUME NEW t \in Targets, NEW k \in Kinds, DeadlinePasses(t, k)
         PROVE  Earned'
    BY <1>13 DEF DeadlinePasses, loop, worker, history, Earned
  <1>14. CASE UNCHANGED vars
    BY <1>14 DEF vars, loop, worker, history, Earned
  <1> QED
    BY <1>1, <1>2, <1>3, <1>5, <1>6, <1>7, <1>8, <1>9, <1>10, <1>11, <1>12,
       <1>13, <1>14 DEF Next, AnyTick, Drive, Work, Call

Landed == {tp \in Targets \X Plays : scrobbled[tp[1]][tp[2]] > 0}
Chosen == IF cleared THEN running ELSE None

(* The driver starts with an empty ledger.                                 *)
LEMMA LedgerInit == Init => Ledger!Init
  <1> SUFFICES ASSUME Init PROVE Ledger!Init
    OBVIOUS
  <1>1. Landed = {}
    BY DEF Landed, Init
  <1> QED
    BY <1>1 DEF Init, Landed, Ledger!Init

(* The steps the ledger does not see.                                      *)
LEMMA LedgerStutter ==
  ASSUME UNCHANGED <<play, qualified, alive, scrobbled, calling>>, Chosen' = Chosen
  PROVE  UNCHANGED Ledger!vars
  BY DEF Chosen, Ledger!vars

(* A call is decided upon as the ledger allows: for the current play, and  *)
(* a scrobble only if it was earned and is not yet in the ledger.          *)
LEMMA LedgerPassTokenTest ==
  ASSUME Typed, Recorded, Earned, PassTokenTest
  PROVE  Ledger!Choose(running)
  <1>1. /\ running \in Job /\ running # None
        /\ alive /\ running.play = play
        /\ ~cleared /\ cleared' /\ running' = running
        /\ UNCHANGED <<play, qualified, alive, scrobbled, calling>>
    BY DEF PassTokenTest, StopRequested, Typed, TypeOK, slots, loop, history
  <1>2. ASSUME running.kind = "Scrobble"
        PROVE  qualified /\ <<running.target, running.play>> \notin Landed
    <2>1. running.target \in Targets /\ running.play \in Plays
      BY <1>1 DEF Job
    <2>2. IsRunning(running.play, running.target, "Scrobble")
      BY <1>1, <1>2 DEF IsRunning, IsFor
    <2>3. scrobbled[running.target][running.play] = 0
      BY <2>1, <2>2 DEF Recorded, Remembered
    <2> QED
      BY <1>1, <1>2, <2>3 DEF Earned, Landed
  <1> QED
    BY <1>1, <1>2 DEF Ledger!Choose, Landed

(* It is the call decided upon that is begun, its play over or not.        *)
LEMMA LedgerBeginCall ==
  ASSUME Typed, BeginCall
  PROVE  Ledger!Ask
  <1>1. /\ running # None /\ cleared /\ ~calling /\ calling' = TRUE
        /\ UNCHANGED <<running, cleared, play, qualified, alive, scrobbled>>
    BY DEF BeginCall, Typed, Control, history
  <1> QED
    BY <1>1 DEF Ledger!Ask

(* An accepted scrobble is entered in the ledger, nothing else is.         *)
LEMMA LedgerCallReturns ==
  ASSUME Typed, NEW accepted \in BOOLEAN, CallReturns(accepted)
  PROVE  Ledger!Answer(accepted)
  <1>1. /\ running \in Job /\ running # None
        /\ cleared /\ ~cleared' /\ calling /\ calling' = FALSE /\ running' = None
        /\ UNCHANGED <<play, qualified, alive>>
    BY DEF CallReturns, Typed, TypeOK, Control, slots, loop
  <1>2. running.target \in Targets /\ running.play \in Plays
    BY <1>1 DEF Job
  <1>3. scrobbled \in [Targets -> [Plays -> Nat]]
    BY DEF Typed, TypeOK
  <1>4. CASE accepted /\ running.kind = "Scrobble"
    <2>1. scrobbled' = [scrobbled EXCEPT ![running.target][running.play] = @ + 1]
      BY <1>4 DEF CallReturns
    <2>2. \A t \in Targets, p \in Plays :
            scrobbled'[t][p] > 0 <=>
              scrobbled[t][p] > 0 \/ (t = running.target /\ p = running.play)
      BY <1>2, <1>3, <2>1
    <2>3. Landed' = Landed \union {<<running.target, running.play>>}
      BY <1>2, <2>2 DEF Landed
    <2> QED
      BY <1>1, <1>4, <2>3 DEF Ledger!Answer, Landed
  <1>5. CASE ~(accepted /\ running.kind = "Scrobble")
    <2>1. scrobbled' = scrobbled
      BY <1>5 DEF CallReturns
    <2> QED
      BY <1>1, <1>5, <2>1 DEF Ledger!Answer
  <1> QED
    BY <1>4, <1>5

(* Every step of the driver is a step of the ledger or leaves it unchanged. *)
LEMMA LedgerStep ==
  Typed /\ Recorded /\ Earned /\ [Next]_vars => [Ledger!Next]_(Ledger!vars)
  <1> SUFFICES ASSUME Typed, Recorded, Earned, [Next]_vars
               PROVE  Ledger!Next \/ UNCHANGED Ledger!vars
    OBVIOUS
  <1>1. CASE Reset
    <2>1. Ledger!NextPlay
      BY <1>1 DEF Reset, worker, Ledger!NextPlay
    <2> QED
      BY <2>1 DEF Ledger!Next
  <1>2. ASSUME NEW playing \in BOOLEAN, NEW met \in BOOLEAN, Tick(playing, met)
        PROVE  Ledger!Next \/ UNCHANGED Ledger!vars
    <2>1. /\ alive /\ qualified' = (qualified \/ met)
          /\ UNCHANGED <<play, alive, running, cleared, calling, scrobbled>>
      BY <1>2 DEF Tick, worker
    <2>2. CASE met
      BY <2>1, <2>2 DEF Ledger!Next, Ledger!Qualify
    <2>3. CASE ~met
      <3>1. qualified' = qualified
        BY <2>1, <2>3 DEF Typed, TypeOK
      <3> QED
        BY <2>1, <3>1, LedgerStutter DEF Chosen
    <2> QED
      BY <2>2, <2>3
  <1>3. CASE SkipUnauthed
    BY <1>3, LedgerStutter DEF SkipUnauthed, worker, history, Chosen
  <1>4. CASE DriveNowPlaying
    BY <1>4, LedgerStutter DEF DriveNowPlaying, Submit, worker, history, Chosen
  <1>5. CASE DriveScrobble
    BY <1>5, LedgerStutter DEF DriveScrobble, Submit, worker, history, Chosen
  <1>6. CASE TakeJob
    BY <1>6, LedgerStutter DEF TakeJob, history, Chosen, Typed, Control
  <1>7. CASE BailOut
    BY <1>7, LedgerStutter DEF BailOut, history, Chosen
  <1>8. CASE PassTokenTest \/ BeginCall
    <2>1. CASE PassTokenTest
      <3>1. running \in Job
        BY <2>1 DEF PassTokenTest, Typed, TypeOK
      <3> QED
        BY <2>1, <3>1, LedgerPassTokenTest DEF Ledger!Next
    <2>2. CASE BeginCall
      BY <2>2, LedgerBeginCall DEF Ledger!Next
    <2> QED
      BY <1>8, <2>1, <2>2
  <1>9. ASSUME NEW accepted \in BOOLEAN, CallReturns(accepted)
        PROVE  Ledger!Next
    BY <1>9, LedgerCallReturns DEF Ledger!Next
  <1>10. CASE WorkerEnds
    BY <1>10, LedgerStutter DEF WorkerEnds, history, Chosen
  <1>11. CASE Destroy
    <2>1. Ledger!Close
      BY <1>11 DEF Destroy, worker, history, Ledger!Close
    <2> QED
      BY <2>1 DEF Ledger!Next
  <1>12. ASSUME NEW t \in Targets, NEW k \in Kinds, DeadlinePasses(t, k)
         PROVE  UNCHANGED Ledger!vars
    BY <1>12, LedgerStutter DEF DeadlinePasses, worker, history, Chosen
  <1>13. CASE UNCHANGED vars
    BY <1>13, LedgerStutter DEF vars, worker, history, Chosen
  <1> QED
    BY <1>1, <1>2, <1>3, <1>4, <1>5, <1>6, <1>7, <1>8, <1>9, <1>10, <1>11,
       <1>12, <1>13 DEF Next, AnyTick, Drive, Work, Call

(* For any number of scrobblers, attempts and plays the driver implements  *)
(* ScrobbleLedger: a call is decided upon only for the play then current,  *)
(* one at a time, a scrobble only once that play qualified and never again *)
(* after it landed.  A play that ends leaves at most the one call already  *)
(* decided upon to be made.                                                *)
THEOREM LedgerImplemented == Spec => ImplementsLedger
  <1>1. Spec => []Earned
    BY Invariance, EarnedInit, EarnedStep, PTL DEF Spec
  <1>2. Init => Ledger!Init
    BY LedgerInit
  <1>3. Typed /\ Recorded /\ Earned /\ [Next]_vars => [Ledger!Next]_(Ledger!vars)
    BY LedgerStep
  <1> QED
    BY <1>1, <1>2, <1>3, Invariance, PTL DEF Spec, ImplementsLedger, Ledger!Spec

-----------------------------------------------------------------------------
(* The driver as a user of its worker.  That it never submits to a worker  *)
(* whose destruction has begun rests on Control (the destructor does not   *)
(* find the poll thread inside a tick); that nothing is left behind by one *)
(* that has ended rests on the next formula.                               *)
EndedEmpty == ended => ~alive /\ queue = <<>> /\ running = None

LEMMA EndedEmptyInit == Init => EndedEmpty
  BY DEF Init, EndedEmpty

LEMMA QueueInit == Init => JobQueue!Init
  BY DEF Init, JobQueue!Init

(* An attempt driveAttempts submits is a submission to an open queue.      *)
LEMMA QueueSubmit ==
  ASSUME Typed, EndedEmpty, NEW kind \in Kinds, Submit(kind), pc # "idle",
         alive' = alive
  PROVE  JobQueue!Next /\ EndedEmpty'
  <1> DEFINE job == [play |-> play, target |-> cursor, kind |-> kind]
  <1>1. alive /\ ~ended
    BY DEF Typed, Control, EndedEmpty
  <1>2. job \in Job
    BY DEF Typed, TypeOK, Job
  <1>3. queue' = Append(queue, job) /\ running' = running /\ ended' = ended
    BY DEF Submit
  <1>4. JobQueue!Submit(job)
    BY <1>1, <1>3 DEF JobQueue!Submit
  <1>5. JobQueue!Next
    BY <1>2, <1>4 DEF JobQueue!Next
  <1> QED
    BY <1>1, <1>3, <1>5 DEF EndedEmpty

LEMMA QueueStep ==
  Typed /\ EndedEmpty /\ [Next]_vars => [JobQueue!Next]_(JobQueue!vars) /\ EndedEmpty'
  <1> SUFFICES ASSUME Typed, EndedEmpty, [Next]_vars
               PROVE  [JobQueue!Next]_(JobQueue!vars) /\ EndedEmpty'
    OBVIOUS
  <1> USE DEF JobQueue!vars
  <1>1. ASSUME UNCHANGED <<alive, queue, running, ended>>
        PROVE  UNCHANGED JobQueue!vars /\ EndedEmpty'
    BY <1>1 DEF EndedEmpty
  <1>2. CASE Reset \/ AnyTick \/ UNCHANGED vars
    BY <1>1, <1>2 DEF Reset, AnyTick, Tick, vars, worker
  <1>3. CASE \E t \in Targets, k \in Kinds : DeadlinePasses(t, k)
    BY <1>1, <1>3 DEF DeadlinePasses, worker
  <1>4. CASE Drive
    <2>1. CASE SkipUnauthed
      BY <1>1, <2>1 DEF SkipUnauthed, worker
    <2>2. CASE DriveNowPlaying
      <3>1. pc # "idle" /\ alive' = alive
        BY <2>2 DEF DriveNowPlaying
      <3>2. CASE NowPlayingDue
        BY <2>2, <3>1, <3>2, QueueSubmit DEF DriveNowPlaying
      <3>3. CASE ~NowPlayingDue
        BY <1>1, <2>2, <3>3 DEF DriveNowPlaying, worker
      <3> QED
        BY <3>2, <3>3
    <2>3. CASE DriveScrobble
      <3>1. pc # "idle" /\ alive' = alive
        BY <2>3 DEF DriveScrobble
      <3>2. CASE ScrobbleDue
        BY <2>3, <3>1, <3>2, QueueSubmit DEF DriveScrobble
      <3>3. CASE ~ScrobbleDue
        BY <1>1, <2>3, <3>3 DEF DriveScrobble, worker
      <3> QED
        BY <3>2, <3>3
    <2> QED
      BY <1>4, <2>1, <2>2, <2>3 DEF Drive
  <1>5. CASE TakeJob
    <2>1. JobQueue!Start /\ EndedEmpty'
      BY <1>5 DEF TakeJob, JobQueue!Start, EndedEmpty
    <2> QED
      BY <2>1 DEF JobQueue!Next
  <1>6. ASSUME running # None, running' = None, UNCHANGED <<alive, queue, ended>>
        PROVE  JobQueue!Next /\ EndedEmpty'
    <2>1. JobQueue!Finish /\ EndedEmpty'
      BY <1>6 DEF JobQueue!Finish, EndedEmpty
    <2> QED
      BY <2>1 DEF JobQueue!Next
  <1>7. CASE BailOut
    BY <1>6, <1>7 DEF BailOut
  <1>8. CASE PassTokenTest \/ BeginCall
    BY <1>1, <1>8 DEF PassTokenTest, BeginCall
  <1>9. CASE \E accepted \in BOOLEAN : CallReturns(accepted)
    BY <1>6, <1>9 DEF CallReturns, Typed, Control
  <1>10. CASE WorkerEnds
    <2>1. JobQueue!End /\ EndedEmpty'
      BY <1>10 DEF WorkerEnds, JobQueue!End, EndedEmpty
    <2> QED
      BY <2>1 DEF JobQueue!Next
  <1>11. CASE Destroy
    <2>1. ~ended
      BY <1>11 DEF Destroy, EndedEmpty
    <2>2. JobQueue!Stop /\ EndedEmpty'
      BY <1>11, <2>1 DEF Destroy, worker, JobQueue!Stop, EndedEmpty
    <2> QED
      BY <2>2 DEF JobQueue!Next
  <1> QED
    BY <1>2, <1>3, <1>4, <1>5, <1>7, <1>8, <1>9, <1>10, <1>11 DEF Next, Work, Call

(* The driver's calls to its worker are those of a job queue's owner: one  *)
(* at a time, in the order submitted, none once destruction has begun, and *)
(* none left when the worker's thread has returned.  Worker's theorem says *)
(* that the worker keeps its side.                                         *)
THEOREM UsesWorkerAsQueue == Spec => JobQueue!Spec
  <1> QED
    BY QueueInit, QueueStep, EndedEmptyInit, TypedInit, TypedStep, PTL
       DEF Spec, JobQueue!Spec
=============================================================================
