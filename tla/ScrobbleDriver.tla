--------------------------- MODULE ScrobbleDriver ---------------------------
(***************************************************************************)
(* src/orchestrator/scrobble_driver.cpp: the calls one play owes every     *)
(* registered scrobbler, decided on the poll thread and made on the        *)
(* Worker's thread.                                                        *)
(*                                                                         *)
(* The two threads share only the job queue, the list of results and the   *)
(* play's stop token.  The poll thread runs reset() and tick(); a tick     *)
(* first applies the results posted so far (one step: nothing it touches   *)
(* but _results is shared) and then walks the targets, one step per slot,  *)
(* so that the worker may run between any two submissions.  The worker     *)
(* takes a job, looks at its play's token, begins the call and posts the   *)
(* result in separate steps: a reset() or the destructor may come between  *)
(* any two of them.                                                        *)
(*                                                                         *)
(* Data abstracted: a play is a number, its stop token is stopped as soon  *)
(* as the number is no longer the current one; a deadline is "due", yet to *)
(* come ("later", and time makes it due) or time_point::max ("never"); the *)
(* polled track is whether it is Playing and whether its position meets    *)
(* the scrobble threshold.  The attempt count of a scrobble is written but *)
(* never read by the code and is left out.                                 *)
(***************************************************************************)
EXTENDS Naturals, Sequences

CONSTANTS
  NumTargets,          \* scrobblers registered before the first poll
  NowPlayingAttempts,  \* ScrobbleSchedule::nowPlayingAttempts
  MaxPlays,            \* bound: plays begun in a behaviour
  None                 \* the worker has no job

ASSUME NumTargetsAssumption == NumTargets \in Nat \ {0}
ASSUME AttemptsAssumption == NowPlayingAttempts \in Nat \ {0}
ASSUME MaxPlaysAssumption == MaxPlays \in Nat \ {0}

Targets == 1..NumTargets
Plays == 1..MaxPlays
Kinds == {"NowPlaying", "Scrobble"}
Phases == {"Waiting", "InFlight", "Done"}
Deadlines == {"due", "later", "never"}

Job == [play : Plays, target : Targets, kind : Kinds]
Result == [play : Plays, target : Targets, kind : Kinds, accepted : BOOLEAN]

ASSUME NoneAssumption == None \notin Job

VARIABLES
  authed,       \* targets whose scrobbler holds a session, settled before polling
  play,         \* _play: number of the play being scrobbled
  phase,        \* Pending::phase per target and kind
  attempts,     \* Pending::attempts of each target's now-playing slot
  nextAttempt,  \* Pending::nextAttempt per target and kind
  current,      \* the track handed to the tick, reduced to [playing, met]
  pc,           \* poll thread: "idle", or the kind of slot the drive loop is at
  cursor,       \* poll thread: target the drive loop is at
  alive,        \* FALSE once the destructor has begun
  queue,        \* Worker::_jobs
  running,      \* the job the worker has taken, or None
  cleared,      \* the running job has found its play's token not stopped
  calling,      \* it is inside setPlaying() or scrobble()
  results,      \* _results
  ended,        \* the worker thread has returned
  qualified,    \* history: this play has met the threshold at some tick
  scrobbled     \* history: scrobbles accepted, per target and play

slots == <<phase, attempts, nextAttempt>>
loop == <<current, pc, cursor>>
worker == <<queue, running, cleared, calling, ended>>
history == <<qualified, scrobbled>>
vars == <<authed, play, slots, loop, alive, worker, results, history>>

TypeOK ==
  /\ authed \subseteq Targets
  /\ play \in Plays
  /\ phase \in [Targets -> [Kinds -> Phases]]
  /\ attempts \in [Targets -> 0..NowPlayingAttempts]
  /\ nextAttempt \in [Targets -> [Kinds -> Deadlines]]
  /\ current \in [playing : BOOLEAN, met : BOOLEAN]
  /\ pc \in Kinds \union {"idle"}
  /\ cursor \in Targets
  /\ alive \in BOOLEAN
  /\ queue \in Seq(Job)
  /\ running \in Job \union {None}
  /\ cleared \in BOOLEAN
  /\ calling \in BOOLEAN
  /\ results \in Seq(Result)
  /\ ended \in BOOLEAN
  /\ qualified \in BOOLEAN
  /\ scrobbled \in [Targets -> [Plays -> Nat]]

FreshPhase == [t \in Targets |-> [k \in Kinds |-> "Waiting"]]
FreshAttempts == [t \in Targets |-> 0]
FreshDeadlines == [t \in Targets |-> [k \in Kinds |-> "due"]]

Init ==
  /\ authed \in SUBSET Targets
  /\ play = 1
  /\ phase = FreshPhase
  /\ attempts = FreshAttempts
  /\ nextAttempt = FreshDeadlines
  /\ current = [playing |-> FALSE, met |-> FALSE]
  /\ pc = "idle"
  /\ cursor = 1
  /\ alive = TRUE
  /\ queue = <<>>
  /\ running = None
  /\ cleared = FALSE
  /\ calling = FALSE
  /\ results = <<>>
  /\ ended = FALSE
  /\ qualified = FALSE
  /\ scrobbled = [t \in Targets |-> [p \in Plays |-> 0]]

(* Faulty variants, used only to show that a property can fail, are named  *)
(* Bad... and stand before the definition they would replace.              *)

(* play.stop_requested() of a token captured for play p *)
StopRequested(p) == p # play \/ ~alive

-----------------------------------------------------------------------------
BadReset ==                          \* a reset that forgets the slots
  /\ pc = "idle"
  /\ alive
  /\ play < MaxPlays
  /\ play' = play + 1
  /\ qualified' = FALSE
  /\ UNCHANGED <<authed, slots, loop, alive, worker, results, scrobbled>>

(* ScrobbleDriver::reset *)
Reset ==
  /\ pc = "idle"
  /\ alive
  /\ play < MaxPlays
  /\ play' = play + 1
  /\ phase' = FreshPhase
  /\ attempts' = FreshAttempts
  /\ nextAttempt' = FreshDeadlines
  /\ qualified' = FALSE
  /\ UNCHANGED <<authed, loop, alive, worker, results, scrobbled>>

BadOutOfAttempts(t, k) == k = "NowPlaying" /\ attempts[t] > NowPlayingAttempts

OutOfAttempts(t, k) == k = "NowPlaying" /\ attempts[t] >= NowPlayingAttempts

(* applyResult: r answers slot (t, k).  An accepted call is done; so is a  *)
(* now-playing update rejected for the last time; any other waits.         *)
PhaseAfter(t, k, r) ==
  IF r.accepted \/ OutOfAttempts(t, k) THEN "Done" ELSE "Waiting"

DeadlineAfter(t, k, r) ==
  IF r.accepted
    THEN IF k = "NowPlaying" THEN "later" ELSE nextAttempt[t][k]
    ELSE IF OutOfAttempts(t, k) THEN "never" ELSE "later"

BadCurrent(r) == alive               \* a late result applied to the new play

(* drainResults: results of retired plays change nothing *)
Current(r) == ~StopRequested(r.play)

AnswersTo(t, k) ==
  {i \in DOMAIN results :
     Current(results[i]) /\ results[i].target = t /\ results[i].kind = k}

DrainResults ==
  LET Answer(t, k) == results[CHOOSE i \in AnswersTo(t, k) : TRUE] IN
  /\ results' = <<>>
  /\ phase' = [t \in Targets |-> [k \in Kinds |->
       IF AnswersTo(t, k) = {} THEN phase[t][k]
                               ELSE PhaseAfter(t, k, Answer(t, k))]]
  /\ nextAttempt' = [t \in Targets |-> [k \in Kinds |->
       IF AnswersTo(t, k) = {} THEN nextAttempt[t][k]
                               ELSE DeadlineAfter(t, k, Answer(t, k))]]
  /\ UNCHANGED attempts

(* ScrobbleDriver::tick, up to the drive loop *)
Tick(playing, met) ==
  /\ pc = "idle"
  /\ alive
  /\ current' = [playing |-> playing, met |-> met]
  /\ DrainResults
  /\ pc' = "NowPlaying"
  /\ cursor' = 1
  /\ qualified' = (qualified \/ met)
  /\ UNCHANGED <<authed, play, alive, worker, scrobbled>>

-----------------------------------------------------------------------------
(* driveAttempts, one slot at a time: NowPlaying, then Scrobble, per target *)

NextTarget ==
  IF cursor < NumTargets
    THEN pc' = "NowPlaying" /\ cursor' = cursor + 1
    ELSE pc' = "idle" /\ cursor' = 1

SkipUnauthed ==
  /\ pc = "NowPlaying"
  /\ cursor \notin authed
  /\ NextTarget
  /\ UNCHANGED <<authed, play, slots, current, alive, worker, results, history>>

(* A settled update whose refresh fell due is armed again, but only while  *)
(* playing; like a first or retried one it then goes out in the same pass. *)
NowPlayingDue ==
  /\ nextAttempt[cursor]["NowPlaying"] = "due"
  /\ phase[cursor]["NowPlaying"] \in {"Waiting", "Done"}
  /\ current.playing

BadScrobbleDue ==                    \* resubmitted while in flight
  /\ nextAttempt[cursor]["Scrobble"] = "due"
  /\ phase[cursor]["Scrobble"] # "Done"
  /\ current.met

BadScrobbleDueAgain ==               \* re-armed like a now-playing update
  /\ nextAttempt[cursor]["Scrobble"] = "due"
  /\ phase[cursor]["Scrobble"] # "InFlight"
  /\ current.met

ScrobbleDue ==
  /\ nextAttempt[cursor]["Scrobble"] = "due"
  /\ phase[cursor]["Scrobble"] = "Waiting"
  /\ current.met

BadSubmit(kind) ==                   \* the newest attempt jumps the queue
  /\ phase' = [phase EXCEPT ![cursor][kind] = "InFlight"]
  /\ queue' = <<[play |-> play, target |-> cursor, kind |-> kind]>> \o queue
  /\ UNCHANGED <<nextAttempt, running, cleared, calling, ended>>

(* submitAttempt *)
Submit(kind) ==
  /\ phase' = [phase EXCEPT ![cursor][kind] = "InFlight"]
  /\ queue' = Append(queue, [play |-> play, target |-> cursor, kind |-> kind])
  /\ UNCHANGED <<nextAttempt, running, cleared, calling, ended>>

DriveNowPlaying ==
  /\ pc = "NowPlaying"
  /\ cursor \in authed
  /\ pc' = "Scrobble"
  /\ IF NowPlayingDue
       THEN /\ Submit("NowPlaying")
            /\ attempts' = [attempts EXCEPT ![cursor] =
                 IF phase[cursor]["NowPlaying"] = "Done" THEN 1 ELSE @ + 1]
       ELSE UNCHANGED <<slots, worker>>
  /\ UNCHANGED <<authed, play, current, cursor, alive, results, history>>

DriveScrobble ==
  /\ pc = "Scrobble"
  /\ NextTarget
  /\ IF ScrobbleDue
       THEN Submit("Scrobble") /\ UNCHANGED attempts
       ELSE UNCHANGED <<slots, worker>>
  /\ UNCHANGED <<authed, play, current, alive, results, history>>

-----------------------------------------------------------------------------
(* The job submitAttempt queues, run by Worker::drain *)

TakeJob ==
  /\ ~ended
  /\ running = None
  /\ queue # <<>>
  /\ running' = Head(queue)
  /\ queue' = Tail(queue)
  /\ UNCHANGED <<authed, play, slots, loop, alive, cleared, calling, results, ended, history>>

BailOut ==
  /\ running # None
  /\ ~cleared
  /\ StopRequested(running.play)
  /\ running' = None
  /\ UNCHANGED <<authed, play, slots, loop, alive, queue, cleared, calling, results, ended, history>>

BadPassTokenTest ==                  \* begins the call whatever the token says
  /\ running # None
  /\ ~cleared
  /\ cleared' = TRUE
  /\ UNCHANGED <<authed, play, slots, loop, alive, queue, running, calling, results, ended, history>>

PassTokenTest ==
  /\ running # None
  /\ ~cleared
  /\ ~StopRequested(running.play)
  /\ cleared' = TRUE
  /\ UNCHANGED <<authed, play, slots, loop, alive, queue, running, calling, results, ended, history>>

(* The token is not looked at again: the play may be over by now.          *)
BeginCall ==
  /\ cleared
  /\ ~calling
  /\ calling' = TRUE
  /\ UNCHANGED <<authed, play, slots, loop, alive, queue, running, cleared, results, ended, history>>

CallReturns(accepted) ==
  /\ calling
  /\ calling' = FALSE
  /\ cleared' = FALSE
  /\ running' = None
  /\ results' = Append(results,
       [play |-> running.play, target |-> running.target,
        kind |-> running.kind, accepted |-> accepted])
  /\ IF accepted /\ running.kind = "Scrobble"
       THEN scrobbled' = [scrobbled EXCEPT ![running.target][running.play] = @ + 1]
       ELSE UNCHANGED scrobbled
  /\ UNCHANGED <<authed, play, slots, loop, alive, queue, ended, qualified>>

(* ~ScrobbleDriver retires the play, then ~Worker lets the queue drain.    *)
(* The poll loop has ended by then.                                        *)
Destroy ==
  /\ pc = "idle"
  /\ alive
  /\ alive' = FALSE
  /\ UNCHANGED <<authed, play, slots, loop, worker, results, history>>

WorkerEnds ==
  /\ ~alive
  /\ ~ended
  /\ running = None
  /\ queue = <<>>
  /\ ended' = TRUE
  /\ UNCHANGED <<authed, play, slots, loop, alive, queue, running, cleared, calling, results, history>>

(* steady_clock reaches a deadline *)
DeadlinePasses(t, k) ==
  /\ alive
  /\ nextAttempt[t][k] = "later"
  /\ nextAttempt' = [nextAttempt EXCEPT ![t][k] = "due"]
  /\ UNCHANGED <<authed, play, phase, attempts, loop, alive, worker, results, history>>

-----------------------------------------------------------------------------
AnyTick == \E playing, met \in BOOLEAN : Tick(playing, met)
Drive == SkipUnauthed \/ DriveNowPlaying \/ DriveScrobble
Call == BeginCall \/ (\E accepted \in BOOLEAN : CallReturns(accepted))
Work == TakeJob \/ BailOut \/ PassTokenTest \/ Call \/ WorkerEnds

Next ==
  \/ Reset
  \/ AnyTick
  \/ Drive
  \/ Work
  \/ Destroy
  \/ \E t \in Targets, k \in Kinds : DeadlinePasses(t, k)

Spec == Init /\ [][Next]_vars

(* The poll loop runs every five seconds until shutdown and run() returns; *)
(* the worker thread is scheduled and a call returns (curl times out after *)
(* five seconds); time passes.  No track need ever change, and no service  *)
(* need ever accept.                                                       *)
Fairness ==
  /\ WF_vars(AnyTick)
  /\ WF_vars(Drive)
  /\ WF_vars(Work)
  /\ \A t \in Targets, k \in Kinds : WF_vars(DeadlinePasses(t, k))

FairSpec == Spec /\ Fairness

-----------------------------------------------------------------------------
SameCall(x, y) == x.play = y.play /\ x.target = y.target /\ x.kind = y.kind

IsFor(x, p, t, k) == x.play = p /\ x.target = t /\ x.kind = k

QueuedOnce ==
  \A i, j \in DOMAIN queue : SameCall(queue[i], queue[j]) => i = j

AnsweredOnce ==
  \A i, j \in DOMAIN results : SameCall(results[i], results[j]) => i = j

QueuedNotAnswered ==
  \A i \in DOMAIN queue, j \in DOMAIN results : ~SameCall(queue[i], results[j])

RunningNowhereElse ==
  running # None =>
    /\ \A i \in DOMAIN queue : ~SameCall(running, queue[i])
    /\ \A i \in DOMAIN results : ~SameCall(running, results[i])

(* "An attempt already in flight is not submitted again": over all plays,  *)
(* retired ones included, a slot's call is queued, running or answered at  *)
(* most once at any time, and in one of the three places only.             *)
AskedOneThingAtATime ==
  /\ QueuedOnce
  /\ AnsweredOnce
  /\ QueuedNotAnswered
  /\ RunningNowhereElse

Queued(p, t, k) == \E i \in DOMAIN queue : IsFor(queue[i], p, t, k)
IsRunning(p, t, k) == running # None /\ IsFor(running, p, t, k)
Answered(p, t, k) == \E i \in DOMAIN results : IsFor(results[i], p, t, k)

Outstanding(p, t, k) == Queued(p, t, k) \/ IsRunning(p, t, k) \/ Answered(p, t, k)

(* A slot of the current play is InFlight exactly while its call is with   *)
(* the worker or its result waits to be applied: no result of an earlier   *)
(* play frees a slot, and no slot is left InFlight with nothing to free it *)
(* (a slot that would never be called again).                              *)
InFlightMeansOutstanding ==
  alive => \A t \in Targets, k \in Kinds :
             (phase[t][k] = "InFlight") <=> Outstanding(play, t, k)

(* A service accepts at most one scrobble per play, whatever retries,      *)
(* restarts of the track and late results of retired plays come between.   *)
AtMostOneScrobble == \A t \in Targets, p \in Plays : scrobbled[t][p] <= 1

(* A now-playing update is offered at most NowPlayingAttempts times before *)
(* it is accepted or given up, and one given up stays settled for good.    *)
NowPlayingBudget ==
  \A t \in Targets :
    /\ phase[t]["NowPlaying"] = "Waiting" => attempts[t] < NowPlayingAttempts
    /\ nextAttempt[t]["NowPlaying"] = "never" =>
         /\ phase[t]["NowPlaying"] = "Done"
         /\ attempts[t] = NowPlayingAttempts

-----------------------------------------------------------------------------
(* The driver keeps the ledger's promise; the ledger sees only the calls.  *)
(* A job that passed its token test is decided upon: if reset() or the     *)
(* destructor comes before its call, the call is still made, but only that *)
(* one, and whatever else is queued for the ended play bails out.          *)
Ledger == INSTANCE ScrobbleLedger WITH
  Call <- Job,
  chosen <- IF cleared THEN running ELSE None,
  asking <- calling,
  landed <- {tp \in Targets \X Plays : scrobbled[tp[1]][tp[2]] > 0},
  open <- alive

ImplementsLedger == Ledger!Spec

(* The driver uses its worker as the job queue Worker.tla implements.      *)
JobQueue == INSTANCE JobQueue WITH
  pending <- queue,
  phase <- CASE ended -> "ended"
             [] ~ended /\ ~alive -> "stopping"
             [] OTHER -> "open"

ImplementsJobQueue == JobQueue!FairSpec

-----------------------------------------------------------------------------
Asked(t, k) == calling /\ IsFor(running, play, t, k)

(* A play that stays current and past its threshold is scrobbled, or the   *)
(* service is asked again and again until it is: no lost result, full      *)
(* queue or call left over from an earlier play may stop the retries.      *)
ScrobbleNeverForgotten ==
  \A t \in Targets :
    <>[](alive /\ t \in authed /\ current.met) =>
      []<>(Asked(t, "Scrobble") \/ scrobbled[t][play] = 1)

(* While a track keeps playing its now-playing slot keeps reaching Done:   *)
(* accepted or given up, and settled again after every refresh, even when  *)
(* the track before it ended with a call still in flight.                  *)
NowPlayingSettles ==
  \A t \in Targets :
    <>[](alive /\ t \in authed /\ current.playing) =>
      []<>(phase[t]["NowPlaying"] = "Done")

(* Destroying the driver terminates: queued attempts bail out.             *)
DestructorReturns == ~alive ~> ended
=============================================================================
