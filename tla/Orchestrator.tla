---------------------------- MODULE Orchestrator ----------------------------
(***************************************************************************)
(* src/orchestrator/orchestrator.cpp, Orchestrator::run: one cycle of the  *)
(* poll loop turns what the player reports into plays for the scrobble     *)
(* driver and into a presence, while the player goes on playing, seeking   *)
(* and changing songs.                                                     *)
(*                                                                         *)
(* Time is counted in units of the constants below.  It passes while the   *)
(* loop sleeps and while a new song is enriched (the web sources and the   *)
(* uploader, each a curl call with a time limit); the other steps of a     *)
(* cycle take none.  A poll reads the song before its timeline             *)
(* (AmWin::poll), so the player may move on between the two.  A song's     *)
(* timing is stored as the instant it started, so its current() grows with *)
(* the clock even while the player is paused.                              *)
(*                                                                         *)
(* Data abstracted: the driver is what reset() and tick() tell it, as the  *)
(* songs ticked since the last reset; the enrichment of a song is left to  *)
(* the enricher; a pause instant is "now" when it was taken at this very   *)
(* instant and "held" once time has passed.  Status Unknown is treated     *)
(* like Stopped by this code.  Of the activity that Discord is sent        *)
(* (src/discord/rp.cpp) the song and its timestamps are kept: the start    *)
(* stamp of a progress bar as how far the clock is past it.                *)
(***************************************************************************)
EXTENDS Naturals, FiniteSets

CONSTANTS
  Songs,             \* track identities
  Length,            \* [Songs -> the length of each]
  NoSong,            \* the empty identity: no player, or nothing it plays
  PollInterval,      \* the sleep between two cycles, 5 s
  EnrichLimit,       \* what enriching a song may take, 15 s
  RestartThreshold   \* kRestartThreshold, 30 s

ASSUME NoSongAssumption == NoSong \notin Songs
ASSUME LengthAssumption == Length \in [Songs -> Nat \ {0}]
ASSUME PollAssumption == PollInterval \in Nat \ {0}
ASSUME ThresholdAssumption == RestartThreshold \in Nat

(* Two sources and an uploader, five seconds each, stay below half a       *)
(* minute: the time it takes to enrich a song cannot look like a restart.  *)
ASSUME EnrichAssumption == EnrichLimit \in Nat /\ EnrichLimit <= RestartThreshold

Statuses == {"Playing", "Paused", "Stopped"}
Steps == {"sleeping", "polling", "enriching", "terminated"}
Happenings == {"back", "touched", "repeated"}

VARIABLES
  song, pos, status,   \* the player: what it plays, where, and how
  pc,                  \* where the poll thread is
  timer,               \* time the thread has spent sleeping or enriching
  polled,              \* the track of this poll: [song, status, pos]
  current,             \* _current.track: [song, status]
  pause,               \* _current.pause.since
  position,            \* _position
  shown,               \* what Discord renders: [song, line, bar, pause]
  ticked,              \* songs the driver was ticked with since its reset
  newPlay,             \* history: the step just taken reset the driver
  happened             \* history: what the player did since its last poll

player == <<song, pos, status>>
thread == <<pc, timer, polled>>
orchestrator == <<current, pause, position, shown, ticked, newPlay>>
vars == <<player, thread, orchestrator, happened>>

SongOrNone == Songs \union {NoSong}
NoTrack == [song |-> NoSong, status |-> "Stopped"]
NoPoll == [song |-> NoSong, status |-> "Stopped", pos |-> 0]
NoPresence == [song |-> NoSong, line |-> "none", bar |-> 0, pause |-> "none"]
Presences ==
  [song : SongOrNone, line : {"progress", "elapsed", "none"}, bar : Nat,
   pause : {"none", "now", "held"}]

(* The last conjunct: a cleared orchestrator is like a new one.            *)
TypeOK ==
  /\ song \in SongOrNone
  /\ pos \in Nat
  /\ status \in Statuses
  /\ pc \in Steps
  /\ timer \in Nat
  /\ polled \in [song : SongOrNone, status : Statuses, pos : Nat]
  /\ current \in [song : SongOrNone, status : Statuses]
  /\ pause \in {"none", "now", "held"}
  /\ position \in Nat
  /\ shown \in Presences
  /\ ticked \subseteq Songs
  /\ newPlay \in BOOLEAN
  /\ happened \subseteq Happenings
  /\ current.song = NoSong =>
       current = NoTrack /\ position = 0 /\ pause = "none" /\ ticked = {}

Init ==
  /\ song = NoSong
  /\ pos = 0
  /\ status = "Stopped"
  /\ pc = "sleeping"
  /\ timer = PollInterval
  /\ polled = NoPoll
  /\ current = NoTrack
  /\ pause = "none"
  /\ position = 0
  /\ shown = NoPresence
  /\ ticked = {}
  /\ newPlay = FALSE
  /\ happened = {}

-----------------------------------------------------------------------------
(* The player: Apple Music and its user.                                   *)

ChangeSong(s) ==
  /\ song' = s
  /\ pos' = 0
  /\ status' \in Statuses
  /\ happened' = happened \union {"back", "touched"}
  /\ UNCHANGED <<thread, current, pause, position, shown, ticked>>
  /\ newPlay' = FALSE

Close ==
  /\ song # NoSong
  /\ song' = NoSong
  /\ pos' = 0
  /\ status' = "Stopped"
  /\ happened' = happened \union {"back", "touched"}
  /\ UNCHANGED <<thread, current, pause, position, shown, ticked>>
  /\ newPlay' = FALSE

Seek(p) ==
  /\ song # NoSong
  /\ p < Length[song]
  /\ pos' = p
  /\ happened' = happened \union {"touched"} \union (IF p < pos THEN {"back"} ELSE {})
  /\ UNCHANGED <<song, status, thread, current, pause, position, shown, ticked>>
  /\ newPlay' = FALSE

SetStatus(st) ==
  /\ song # NoSong
  /\ status # st
  /\ status' = st
  /\ happened' = happened \union {"touched"}
  /\ UNCHANGED <<song, pos, thread, current, pause, position, shown, ticked>>
  /\ newPlay' = FALSE

(* A song left alone at its end is played again (repeat one).              *)
Plays ==
  IF song # NoSong /\ status = "Playing"
    THEN IF pos + 1 < Length[song]
           THEN pos' = pos + 1 /\ UNCHANGED happened
           ELSE pos' = 0 /\ happened' = happened \union {"back", "repeated"}
    ELSE UNCHANGED <<pos, happened>>

TimePasses ==
  /\ \/ pc = "sleeping" /\ timer < PollInterval
     \/ pc = "enriching" /\ timer < EnrichLimit
  /\ timer' = timer + 1
  /\ Plays
  /\ newPlay' = FALSE
  /\ pause' = IF pause = "now" THEN "held" ELSE pause
  /\ shown' = [shown EXCEPT !.pause = IF @ = "now" THEN "held" ELSE @,
                            !.bar = IF shown.line = "progress" THEN @ + 1 ELSE @]
  /\ UNCHANGED <<song, status, pc, polled, current, position, ticked>>

-----------------------------------------------------------------------------
(* Faulty variants, used only to show that a property can fail, are named  *)
(* Bad... and stand before the definition they would replace.              *)

Sleep == pc' = "sleeping" /\ timer' = 0 /\ polled' = NoPoll

(* Orchestrator::clearTrack *)
BadClearTrack ==                     \* leaves the presence up
  IF current.song = NoSong
    THEN newPlay' = FALSE /\ UNCHANGED <<current, pause, position, shown, ticked>>
    ELSE /\ current' = NoTrack
         /\ pause' = "none"
         /\ position' = 0
         /\ ticked' = {}
         /\ newPlay' = TRUE
         /\ UNCHANGED shown

BadClearTrackPosition ==             \* forgets _position
  IF current.song = NoSong
    THEN newPlay' = FALSE /\ UNCHANGED <<current, pause, position, shown, ticked>>
    ELSE /\ current' = NoTrack
         /\ pause' = "none"
         /\ ticked' = {}
         /\ newPlay' = TRUE
         /\ shown' = NoPresence
         /\ UNCHANGED position

ClearTrack ==
  IF current.song = NoSong
    THEN newPlay' = FALSE /\ UNCHANGED <<current, pause, position, shown, ticked>>
    ELSE /\ current' = NoTrack
         /\ pause' = "none"
         /\ position' = 0
         /\ ticked' = {}
         /\ newPlay' = TRUE
         /\ shown' = NoPresence

(* AmWin::poll finds no session, or a station: the cycle ends here.        *)
PollNothing ==
  /\ pc = "sleeping"
  /\ timer = PollInterval
  /\ song = NoSong
  /\ happened' = {}
  /\ Sleep
  /\ ClearTrack
  /\ UNCHANGED player

(* AmWin::poll has the song's properties and asks for its timeline next.   *)
PollSong ==
  /\ pc = "sleeping"
  /\ timer = PollInterval
  /\ song # NoSong
  /\ pc' = "polling"
  /\ polled' = [NoPoll EXCEPT !.song = song]
  /\ newPlay' = FALSE
  /\ UNCHANGED <<player, timer, current, pause, position, shown, ticked, happened>>

(* Orchestrator::updatePauseDetails *)
BadPauseAfter(st, since) == IF st # "Paused" THEN "none" ELSE "now"

PauseAfter(st, since) ==
  IF st # "Paused" THEN "none" ELSE IF since = "none" THEN "now" ELSE since

(* setTimeline: the start of the pause, or the song's start and end.       *)
Timeline(st, since) ==
  IF since # "none" THEN "elapsed" ELSE IF st = "Playing" THEN "progress" ELSE "none"

(* TrackTiming::start as wall time: the clock is p past it.                *)
BarStart(st, p, since) == IF Timeline(st, since) = "progress" THEN p ELSE 0

(* RichPresence::setPresence of song s, now at p                           *)
SetPresence(s, st, p, since) ==
  shown' = [song |-> s, line |-> Timeline(st, since), pause |-> since, bar |-> BarStart(st, p, since)]

(* The tail of Orchestrator::run for song s, now at p, whose pause instant *)
(* so far is since: _position, updatePauseDetails, tick and setPresence.   *)
Present(s, st, p, since) ==
  /\ current' = [song |-> s, status |-> st]
  /\ position' = p
  /\ pause' = PauseAfter(st, since)
  /\ SetPresence(s, st, p, PauseAfter(st, since))

(* operator== of two timings, the presented one and the one before it: the *)
(* song started at the same instant.                                       *)
BadSameTiming == position' = position              \* compares positions

SameTiming == position' = position + PollInterval

(* main.cpp announces the song with a toast when nowPlaying() differs from *)
(* what it announced last, which is what the cycle before presented.       *)
Announces == ~(current' = current /\ pause' = pause /\ SameTiming)

(* Orchestrator::isRestart, of the position just polled *)
BadIsRestart(p) == p < position                       \* without the threshold
BadIsRestartForward(p) == position + RestartThreshold < p

IsRestart(p) == p + RestartThreshold < position

ContinueSong ==
  /\ pc = "polling"
  /\ song # NoSong
  /\ polled.song = current.song
  /\ happened' = {}
  /\ newPlay' = IsRestart(pos)
  /\ ticked' = IF IsRestart(pos) THEN {polled.song} ELSE ticked \union {polled.song}
  /\ Present(polled.song, status, pos, IF IsRestart(pos) THEN "none" ELSE pause)
  /\ Sleep
  /\ UNCHANGED player

StartEnriching ==
  /\ pc = "polling"
  /\ song # NoSong
  /\ polled.song # current.song
  /\ polled' = [polled EXCEPT !.status = status, !.pos = pos]
  /\ happened' = {}
  /\ pc' = "enriching"
  /\ timer' = 0
  /\ UNCHANGED <<player, orchestrator>>

BadEnriched ==                       \* without _scrobbles.reset()
  /\ pc = "enriching"
  /\ newPlay' = TRUE
  /\ ticked' = ticked \union {polled.song}
  /\ Present(polled.song, polled.status, polled.pos + timer, "none")
  /\ Sleep
  /\ UNCHANGED <<player, happened>>

BadEnrichedLate ==                   \* as if the song had not gone on meanwhile
  /\ pc = "enriching"
  /\ newPlay' = TRUE
  /\ ticked' = {polled.song}
  /\ Present(polled.song, polled.status, polled.pos, "none")
  /\ Sleep
  /\ UNCHANGED <<player, happened>>

Enriched ==
  /\ pc = "enriching"
  /\ newPlay' = TRUE
  /\ ticked' = {polled.song}
  /\ Present(polled.song, polled.status, polled.pos + timer, "none")
  /\ Sleep
  /\ UNCHANGED <<player, happened>>

(* The player closed between the two reads of a poll: WinRT throws, nobody *)
(* catches it, and the exception leaves the thread.                        *)
PollThrows ==
  /\ pc = "polling"
  /\ song = NoSong
  /\ pc' = "terminated"
  /\ UNCHANGED <<player, timer, polled, orchestrator, happened>>

-----------------------------------------------------------------------------
Player ==
  \/ \E s \in Songs : ChangeSong(s) \/ (\E p \in 0..Length[s] : song = s /\ Seek(p))
  \/ \E st \in Statuses : SetStatus(st)
  \/ Close

Run == PollNothing \/ PollSong \/ ContinueSong \/ StartEnriching \/ Enriched \/ PollThrows

Next == Player \/ TimePasses \/ Run

Spec == Init /\ [][Next]_vars

(* The clock runs, and the poll thread takes its steps.  The user owes     *)
(* nothing.                                                                *)
FairSpec == Spec /\ WF_vars(TimePasses) /\ WF_vars(Run)

-----------------------------------------------------------------------------
(* The driver never sees two songs within one play: what it retries, posts *)
(* or holds in flight since its last reset is about a single track.        *)
OneSongPerPlay == Cardinality(ticked) <= 1

(* "Ordinary progress is not mistaken for a restart" (a test's name): a    *)
(* play of the same song is begun again only if the player really went     *)
(* back, however long the song took to enrich or the user paused it.       *)
NoFalseRestart ==
  [][ContinueSong /\ newPlay' => "back" \in happened]_vars

Repeated == ContinueSong /\ "repeated" \in happened /\ "touched" \notin happened

(* A song that repeats by itself is a new play, if it is longer than the   *)
(* restart threshold and a poll interval together.                         *)
RepeatIsNewPlay ==
  [][Repeated /\ Length[song] > RestartThreshold + PollInterval => newPlay']_vars

(* orchestrator.cpp: "The same track played again is a new play: it is     *)
(* scrobbled again", of every song longer than the threshold.              *)
EveryRepeatIsNewPlay ==
  [][Repeated /\ Length[song] > RestartThreshold => newPlay']_vars

(* rp.cpp: "A playing track carries a start/end pair, which Discord        *)
(* renders as a progress bar. A paused track carries only the instant the  *)
(* pause began [...]. Anything else carries no timestamps at all."         *)
Rendered == [Playing |-> "progress", Paused |-> "elapsed", Stopped |-> "none"]

(* "A pause holds the instant it began across cycles": a cycle that finds  *)
(* the same play still paused keeps the instant on show.                   *)
PauseStampKept ==
  [][ContinueSong /\ ~newPlay' /\ shown.line = "elapsed" /\ shown'.line = "elapsed"
       => shown'.pause = shown.pause]_vars

(* What Discord shows is the truth until the user touches the player: the  *)
(* bar runs with the song, however long it took to enrich.                 *)
PresenceIsTrue ==
  happened = {} /\ pc # "enriching" /\ song # NoSong /\ shown.song = song =>
    /\ shown.line = Rendered[status]
    /\ status = "Playing" => shown.bar = pos

(* A song that is left playing is announced once: no cycle that finds it   *)
(* as it was shows another toast.                                          *)
ToastMeansChange ==
  [][ContinueSong /\ Announces => happened # {} \/ status # "Playing"]_vars

(* Discord catches up: whatever the user did before, a player left with    *)
(* one song and status is shown so, and a closed player is not shown.      *)
PresenceCatchesUp ==
  \A s \in SongOrNone, st \in Statuses :
    <>[](song = s /\ status = st /\ pc # "terminated") =>
      <>[](shown.song = s /\ (s # NoSong => shown.line = Rendered[st]))
=============================================================================
