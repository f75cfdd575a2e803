--------------------------- MODULE ScrobbleWindow ---------------------------
(***************************************************************************)
(* When a play is scrobbled: the driver's threshold                        *)
(* (ScrobbleDriver::scrobbleThresholdMet, and its retries) against the     *)
(* rule LastFm::scrobble applies again when the call is made.  One song    *)
(* after another is played, paused and skipped; the poll loop ticks the    *)
(* driver about every five seconds and its worker calls Last.fm a little   *)
(* later, with the timing of the tick that asked.  Nothing is sought while *)
(* it is polled, but a song may be first seen anywhere in it, paused too.  *)
(*                                                                         *)
(* Time is in seconds.  A position or an age of n stands for any instant   *)
(* strictly between n and n + 1, so "at least half" and "more than half"   *)
(* read the same.  A Track's current() is the time since its start, so it  *)
(* grows while a new song is enriched, between its poll and its first      *)
(* tick, and while an attempt is queued, even when the player is paused.   *)
(*                                                                         *)
(* Abstracted: one scrobbler, logged in, which accepts what its own rule   *)
(* lets through; the now-playing slot is the delay it may cause in the     *)
(* queue.  ScrobbleDriver models what is left out here.                    *)
(***************************************************************************)
EXTENDS Integers

CONSTANTS
  Lengths,        \* lengths of the songs played
  Sleep,          \* the poll loop's pause between two ticks, 5 s
  CycleTime,      \* what a cycle itself may take
  EnrichTime,     \* longest enrichment of a new song, three curl limits, 15 s
  FirstSeen,      \* bound: the positions at which a poll first finds a song
  QueueDelay,     \* longest wait in the worker's queue, two curl limits: a
                  \* call left over from the last play and a now-playing one
  CallTime,       \* longest call, the curl limit, 5 s
  MinLength,      \* kScrobbleMinLength, 30 s
  PlayCap,        \* kScrobblePlayCap, 240 s
  ScrobbleRetry,  \* kScrobbleRetry, 30 s
  GateLength      \* LastFm's kTrackLengthForScrobble, 30 s

ASSUME LengthsAssumption == Lengths \subseteq Nat \ {0}
ASSUME TimesAssumption ==
  /\ Sleep \in Nat /\ CycleTime \in Nat /\ EnrichTime \in Nat /\ QueueDelay \in Nat
  /\ FirstSeen \subseteq Nat /\ CallTime \in Nat /\ ScrobbleRetry \in Nat
ASSUME RulesAssumption == MinLength \in Nat /\ PlayCap \in Nat /\ GateLength \in Nat

(* The delays are short against the rules: an attempt that is due reaches  *)
(* the service within half of the shortest song they speak of, be it first *)
(* made after an enrichment or after a cycle; a refused one is repeated    *)
(* within half of the shortest song that is ever refused.                  *)
ASSUME DelaysAssumption ==
  /\ MinLength <= 2 * GateLength
  /\ EnrichTime + QueueDelay <= GateLength
  /\ Sleep + CycleTime + QueueDelay <= GateLength
  /\ EnrichTime + 2 * (Sleep + CycleTime) + ScrobbleRetry + QueueDelay <= PlayCap

VARIABLES
  length,     \* of the song being played
  pos,        \* how far it has been played
  playing,    \* or paused
  over,       \* the player has left the song, and its play is not reset yet
  enriching,  \* the poll loop is enriching the song it found after it
  sinceTick,  \* age of the last tick, or of the enrichment
  from,       \* history: where the song was when a poll first found it
  phase,      \* the scrobble's Pending::phase
  wait,       \* time left to its nextAttempt
  job,        \* where the attempt is: "none", "queued", "calling", "answered"
  curr,       \* timing.current() of the track the attempt carries
  age,        \* how long the job has been where it is
  accepted    \* what Last.fm said: of the play's latest attempt

player == <<length, pos, playing, over>>
attempt == <<phase, wait, job, curr, age, accepted>>
vars == <<player, enriching, sinceTick, from, attempt>>

TypeOK ==
  /\ length \in Lengths
  /\ pos \in 0..length
  /\ playing \in BOOLEAN
  /\ over \in BOOLEAN
  /\ enriching \in BOOLEAN
  /\ sinceTick \in 0..(IF enriching THEN EnrichTime ELSE Sleep + CycleTime)
  /\ from \in 0..pos
  /\ phase \in {"Waiting", "InFlight", "Done"}
  /\ wait \in 0..ScrobbleRetry
  /\ job \in {"none", "queued", "calling", "answered"}
  /\ curr \in Nat
  /\ age \in Nat
  /\ accepted \in BOOLEAN
  /\ phase = "InFlight" <=> job # "none"
  /\ phase = "Done" => accepted

(* Nothing has been played yet, and the next cycle will see a song.        *)
Init ==
  /\ length \in Lengths
  /\ pos = 0 /\ playing = FALSE /\ over = TRUE
  /\ enriching = FALSE /\ sinceTick = Sleep /\ from = 0
  /\ phase = "Waiting" /\ wait = 0
  /\ job = "none" /\ curr = 0 /\ age = 0
  /\ accepted = FALSE

-----------------------------------------------------------------------------
(* The two rules, of a song of length len at position p.  Faulty variants, *)
(* used only to show that a property can fail, are named Bad...            *)

BadThresholdMet(p, len) == len > MinLength            \* leaves it to Last.fm
BadThresholdMetLater(p, len) ==                       \* max for min
  /\ len > MinLength
  /\ 2 * p >= len /\ p >= PlayCap

(* ScrobbleDriver::scrobbleThresholdMet                                    *)
ThresholdMet(p, len) ==
  /\ len > MinLength
  /\ 2 * p >= len \/ p >= PlayCap

BadGatePasses(p, len) ==                              \* nearly to the end
  /\ p >= GateLength
  /\ 10 * p >= 9 * len

(* LastFm::scrobble, before it calls: past thirty seconds, and either past *)
(* the end or more than half way.                                          *)
GatePasses(p, len) ==
  /\ p >= GateLength
  /\ p >= len \/ 2 * p >= len

-----------------------------------------------------------------------------
(* A second goes by.  The poll loop and the worker keep their limits.      *)
Second ==
  /\ sinceTick < IF enriching THEN EnrichTime ELSE Sleep + CycleTime
  /\ job = "queued" => age < QueueDelay
  /\ job = "calling" => age < CallTime
  /\ sinceTick' = sinceTick + 1
  /\ pos' = IF playing /\ ~over /\ pos < length THEN pos + 1 ELSE pos
  /\ over' = (over \/ (playing /\ pos = length))
  /\ wait' = IF wait > 0 THEN wait - 1 ELSE 0
  /\ age' = IF job \in {"queued", "calling"} THEN age + 1 ELSE age
  /\ curr' = IF job = "queued" THEN curr + 1 ELSE curr
  /\ UNCHANGED <<length, playing, enriching, from, phase, job, accepted>>

Pause ==
  /\ ~over
  /\ playing' = ~playing
  /\ UNCHANGED <<length, pos, over, enriching, sinceTick, from, attempt>>

Skip ==
  /\ ~over
  /\ over' = TRUE
  /\ UNCHANGED <<length, pos, playing, enriching, sinceTick, from, attempt>>

Drained == phase = "InFlight" /\ job = "answered"

(* ScrobbleDriver::submitAttempt for the song as it stands at p.           *)
Submit(p) ==
  /\ phase' = "InFlight"
  /\ wait' = 0
  /\ job' = "queued" /\ curr' = p /\ age' = 0
  /\ accepted' = FALSE

BadNoJob == UNCHANGED job /\ curr' = 0 /\ age' = 0    \* drains nothing

NoJob == job' = "none" /\ curr' = 0 /\ age' = 0

Due == phase = "Waiting" /\ wait = 0 /\ ThresholdMet(pos, length)

(* The driver's tick for the song being played: an answer is drained, then *)
(* the scrobble is submitted if it is due.                                 *)
Tick ==
  /\ sinceTick >= Sleep
  /\ ~over /\ ~enriching
  /\ sinceTick' = 0
  /\ UNCHANGED <<player, enriching, from>>
  /\ \/ /\ Drained
        /\ phase' = IF accepted THEN "Done" ELSE "Waiting"
        /\ wait' = IF accepted THEN 0 ELSE ScrobbleRetry
        /\ NoJob
        /\ UNCHANGED accepted
     \/ Due /\ Submit(pos)
     \/ ~Drained /\ ~Due /\ UNCHANGED attempt

(* The cycle that finds the player on the next song begins to enrich it;   *)
(* the old play's attempt goes its way meanwhile.                          *)
PollNext ==
  /\ sinceTick >= Sleep
  /\ over
  /\ ~enriching
  /\ enriching' = TRUE /\ sinceTick' = 0
  /\ UNCHANGED <<player, from, attempt>>

(* Once enriched, the song resets the driver, which retires the old play's *)
(* attempt wherever it is, and is handed to its first tick.  It was polled *)
(* at p, playing or paused, and has been played for some of the time since *)
(* (that the player has left it, Skip says); its current() has run on      *)
(* regardless.                                                             *)
NextPlay ==
  /\ enriching
  /\ enriching' = FALSE /\ sinceTick' = 0
  /\ \E len \in Lengths, p \in FirstSeen, played \in 0..sinceTick :
       /\ p < len /\ p + played <= len
       /\ length' = len /\ from' = p /\ pos' = p + played
       /\ playing' \in BOOLEAN /\ over' = FALSE
       /\ IF ThresholdMet(p + sinceTick, len)
            THEN Submit(p + sinceTick)
            ELSE phase' = "Waiting" /\ wait' = 0 /\ NoJob /\ accepted' = FALSE

(* The worker reaches the job: LastFm::scrobble.                           *)
Call ==
  /\ job = "queued"
  /\ job' = IF GatePasses(curr, length) THEN "calling" ELSE "answered"
  /\ accepted' = GatePasses(curr, length)
  /\ age' = 0 /\ curr' = 0
  /\ UNCHANGED <<player, enriching, sinceTick, from, phase, wait>>

Answer ==
  /\ job = "calling"
  /\ job' = "answered"
  /\ age' = 0
  /\ UNCHANGED <<player, enriching, sinceTick, from, phase, wait, curr, accepted>>

Next == Second \/ Pause \/ Skip \/ Tick \/ PollNext \/ NextPlay \/ Call \/ Answer

Spec == Init /\ [][Next]_vars

-----------------------------------------------------------------------------
(* The scrobble "warranted" by the driver's rule, of a song played to p.   *)
Warranted(p) == length > MinLength /\ (2 * p >= length \/ p >= PlayCap)

(* No song is scrobbled that was not played half through or to the cap,    *)
(* but for what an enrichment can add: one first polled less than          *)
(* EnrichTime before its threshold, paused then or meanwhile, is scrobbled *)
(* though it may never be played there.  No retry, and no time spent       *)
(* paused later or in the queue, makes up for playing.                     *)
NotBeforeThreshold == accepted => Warranted(pos) \/ Warranted(from + EnrichTime)

(* Between a minute and eight minutes the two rules agree: Last.fm's never *)
(* refuses what the driver asks, so nothing waits for a retry.             *)
AgreeingLength == length > 2 * GateLength /\ length <= 2 * PlayCap

FirstAskPasses ==
  AgreeingLength => wait = 0 /\ (job = "answered" => accepted)

(* A song longer than a minute that is found in its first half and played  *)
(* to its end is scrobbled before the next one is found.                   *)
PlayedThroughIsScrobbled ==
  [][PollNext /\ pos = length /\ length > 2 * GateLength /\ 2 * from < length => accepted]_vars

(* scrobble_driver.hpp: "A play qualifies to be scrobbled once it has been *)
(* played past this, or past half the track's length, whichever comes      *)
(* first": a call made for a qualified play passes.                        *)
ThresholdIsEnough ==
  [][Call /\ (2 * pos >= length \/ pos >= PlayCap) => accepted']_vars
=============================================================================
