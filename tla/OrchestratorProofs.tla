------------------------- MODULE OrchestratorProofs -------------------------
(***************************************************************************)
(* Theorems about Orchestrator, for any songs of any lengths and any       *)
(* timing within the assumptions.  The inductive invariant relates the     *)
(* position kept from the last cycle to where the player is now:           *)
(*   InBounds   the timer and the player's position stay in range;         *)
(*   NotBack    a player that did not go back is at most the time it took  *)
(*              to enrich the song behind that position;                   *)
(*   Untouched  a player left alone is ahead of it by the time passed,     *)
(*              less one length of the song once it repeated;              *)
(*   StatusHeld an untouched player has the status that was polled.        *)
(***************************************************************************)
EXTENDS Orchestrator, FiniteSetTheorems, TLAPS

(* Time since what is shown was presented.                                 *)
Since == IF pc = "enriching" THEN PollInterval + timer ELSE timer

(* What is shown is what is kept, and a pause has an instant.              *)
ShownIsCurrent ==
  /\ shown.song = current.song
  /\ shown.pause = pause
  /\ shown.line = Timeline(current.status, pause)
  /\ shown.line = "progress" => shown.bar = position + Since
  /\ current.status = "Paused" <=> pause # "none"
  /\ ticked \subseteq {current.song}

(* The position that the next cycle, or the end of this one, starts from.  *)
Base == IF pc = "enriching" THEN polled.pos ELSE position

InBounds ==
  /\ timer <= IF pc = "enriching" THEN EnrichLimit ELSE PollInterval
  /\ pc = "polling" => timer = PollInterval
  /\ pc \in {"polling", "enriching"} => polled.song # NoSong
  /\ song = NoSong => pos = 0 /\ status = "Stopped"
  /\ song # NoSong => pos < Length[song]
  /\ "repeated" \in happened => "back" \in happened

NotBack ==
  "back" \notin happened =>
    /\ pc = "polling" => song = polled.song
    /\ pc = "enriching" => polled.pos <= pos
    /\ pc # "enriching" => position <= pos + EnrichLimit

Untouched ==
  song # NoSong /\ status = "Playing" /\ "touched" \notin happened =>
    /\ pc = "enriching" => polled.pos < Length[song]
    /\ pc # "enriching" => position < Length[song] + EnrichLimit
    /\ "repeated" \notin happened => pos = Base + timer
    /\ "repeated" \in happened /\ Length[song] > RestartThreshold + PollInterval =>
         pos + Length[song] = Base + timer

RepeatsArePlayed ==
  "repeated" \in happened /\ "touched" \notin happened => song # NoSong /\ status = "Playing"

StatusHeld ==
  "touched" \notin happened =>
    /\ pc = "enriching" => polled.status = status
    /\ pc # "enriching" => current.status = status

IInv ==
  TypeOK /\ ShownIsCurrent /\ InBounds /\ NotBack /\ Untouched /\ RepeatsArePlayed /\ StatusHeld

(* The lengths and limits are numbers.                                     *)
LEMMA ConstantFacts ==
  /\ \A s \in Songs : Length[s] \in Nat /\ Length[s] > 0 /\ s # NoSong
  /\ PollInterval \in Nat /\ PollInterval > 0
  /\ EnrichLimit \in Nat /\ EnrichLimit <= RestartThreshold
  /\ RestartThreshold \in Nat
  BY NoSongAssumption, LengthAssumption, PollAssumption, ThresholdAssumption, EnrichAssumption

(* A new orchestrator and a closed player.                                 *)
LEMMA InvInit == Init => IInv
  <1> SUFFICES ASSUME Init PROVE IInv
    OBVIOUS
  <1>1. TypeOK
    BY ConstantFacts DEF Init, TypeOK, NoPoll, NoTrack, NoPresence, Presences, SongOrNone, Statuses,
       Steps
  <1>2. ShownIsCurrent
    BY DEF Init, ShownIsCurrent, NoPresence, NoTrack, Timeline
  <1>3. InBounds /\ NotBack /\ Untouched /\ RepeatsArePlayed /\ StatusHeld
    BY ConstantFacts DEF Init, NoTrack, InBounds, NotBack, Untouched, RepeatsArePlayed, StatusHeld
  <1> QED
    BY <1>1, <1>2, <1>3 DEF IInv

(* Whatever the user does is noted, so only the bounds remain to be kept.  *)
LEMMA PlayerStep == IInv /\ Player => IInv'
  <1> SUFFICES ASSUME IInv, Player PROVE IInv'
    OBVIOUS
  <1> USE DEF thread
  <1>1. ASSUME NEW s \in Songs, ChangeSong(s) PROVE IInv'
    BY <1>1, ConstantFacts DEF ChangeSong, IInv, TypeOK, ShownIsCurrent, Since, InBounds, NotBack,
       Untouched, RepeatsArePlayed, StatusHeld, SongOrNone, Happenings
  <1>2. ASSUME NEW s \in Songs, NEW p \in 0..Length[s], song = s, Seek(p) PROVE IInv'
    <2>1. p \in Nat
      BY ConstantFacts
    <2>2. TypeOK' /\ ShownIsCurrent'
      BY <1>2, <2>1 DEF Seek, IInv, TypeOK, ShownIsCurrent, Since, Happenings
    <2>3. InBounds' /\ NotBack'
      BY <1>2, <2>1, ConstantFacts DEF Seek, IInv, TypeOK, InBounds, NotBack
    <2>4. Untouched' /\ RepeatsArePlayed' /\ StatusHeld'
      BY <1>2 DEF Seek, Untouched, RepeatsArePlayed, StatusHeld
    <2> QED
      BY <2>2, <2>3, <2>4 DEF IInv
  <1>3. ASSUME NEW st \in Statuses, SetStatus(st) PROVE IInv'
    BY <1>3, ConstantFacts DEF SetStatus, IInv, TypeOK, ShownIsCurrent, Since, InBounds, NotBack,
       Untouched, RepeatsArePlayed, StatusHeld, Happenings
  <1>4. CASE Close
    <2>1. TypeOK' /\ ShownIsCurrent'
      BY <1>4 DEF Close, IInv, TypeOK, ShownIsCurrent, Since, SongOrNone, Statuses, Happenings
    <2>2. InBounds' /\ NotBack'
      BY <1>4, ConstantFacts DEF Close, IInv, TypeOK, InBounds, NotBack
    <2>3. Untouched' /\ RepeatsArePlayed' /\ StatusHeld'
      BY <1>4 DEF Close, IInv, TypeOK, Untouched, RepeatsArePlayed, StatusHeld
    <2> QED
      BY <2>1, <2>2, <2>3 DEF IInv
  <1> QED
    BY <1>1, <1>2, <1>3, <1>4 DEF Player

(* Time moves a playing song on, or back to its start at its end; at most  *)
(* once within one enrichment and one sleep if the song is long enough.    *)
LEMMA TimeStep == IInv /\ TimePasses => IInv'
  <1> SUFFICES ASSUME IInv, TimePasses PROVE IInv'
    OBVIOUS
  <1>1. /\ timer \in Nat /\ timer' = timer + 1
        /\ pc' = pc /\ song' = song /\ status' = status /\ polled' = polled
        /\ position' = position /\ current' = current /\ ticked' = ticked
        /\ pos \in Nat /\ position \in Nat /\ polled.pos \in Nat
    BY DEF TimePasses, IInv, TypeOK
  <1>2. TypeOK'
    <2>1. pos' \in Nat /\ happened' \subseteq Happenings
      BY DEF TimePasses, Plays, IInv, TypeOK, Happenings
    <2>2. timer' \in Nat /\ newPlay' \in BOOLEAN /\ pause' \in {"none", "now", "held"}
      <3>1. pause' = "held" \/ pause' = pause
        BY DEF TimePasses
      <3>2. newPlay' = FALSE
        BY DEF TimePasses
      <3>3. timer' \in Nat
        BY <1>1
      <3>4. pause' \in {"none", "now", "held"}
        BY <3>1 DEF IInv, TypeOK
      <3> QED
        BY <3>2, <3>3, <3>4
    <2>3. shown' \in Presences
      <3>1. shown \in Presences
        BY DEF IInv, TypeOK
      <3>2. /\ shown'.song = shown.song /\ shown'.line = shown.line
            /\ shown'.pause \in {"none", "now", "held"} /\ shown'.bar \in Nat
        BY <3>1 DEF TimePasses, Presences
      <3> QED
        BY <3>1, <3>2 DEF TimePasses, Presences
    <2>4. current.song = NoSong =>
            current = NoTrack /\ position = 0 /\ pause' = "none" /\ ticked = {}
      BY DEF TimePasses, IInv, TypeOK
    <2> QED
      BY <1>1, <2>1, <2>2, <2>3, <2>4 DEF IInv, TypeOK
  <1>3. ShownIsCurrent' /\ StatusHeld'
    <2>1. shown \in Presences /\ current.status \in Statuses /\ PollInterval \in Nat
      BY ConstantFacts DEF IInv, TypeOK
    <2>2. /\ shown'.song = shown.song /\ shown'.line = shown.line /\ shown'.pause = pause'
          /\ shown.line = "progress" => shown'.bar = shown.bar + 1
      BY <2>1 DEF TimePasses, Presences, IInv, ShownIsCurrent
    <2>3. pause' = "none" <=> pause = "none"
      BY DEF TimePasses
    <2>4. Since' = Since + 1 /\ Since \in Nat
      BY <1>1, <2>1 DEF Since
    <2>5. shown'.line = Timeline(current.status, pause')
      BY <2>2, <2>3 DEF IInv, ShownIsCurrent, Timeline
    <2>6. StatusHeld'
      BY <1>1 DEF IInv, StatusHeld, TimePasses, Plays
    <2> QED
      BY <1>1, <2>2, <2>3, <2>4, <2>5, <2>6 DEF IInv, ShownIsCurrent
  <1>4. CASE song # NoSong /\ status = "Playing" /\ pos + 1 < Length[song]
    <2>1. pos' = pos + 1 /\ happened' = happened
      BY <1>4 DEF TimePasses, Plays
    <2>2. Length[song] \in Nat
      BY <1>4, ConstantFacts DEF IInv, TypeOK, SongOrNone
    <2>3. InBounds' /\ NotBack' /\ RepeatsArePlayed'
      BY <1>1, <1>4, <2>1, <2>2, ConstantFacts
         DEF TimePasses, IInv, InBounds, NotBack, RepeatsArePlayed
    <2>4. Untouched'
      BY <1>1, <1>4, <2>1, <2>2, ConstantFacts DEF IInv, Untouched, Base
    <2> QED
      BY <1>2, <1>3, <2>3, <2>4 DEF IInv
  <1>5. CASE song # NoSong /\ status = "Playing" /\ ~(pos + 1 < Length[song])
    <2>1. pos' = 0 /\ happened' = happened \union {"back", "repeated"}
      BY <1>5 DEF TimePasses, Plays
    <2>2. Length[song] \in Nat /\ Length[song] > 0 /\ pos + 1 = Length[song]
      BY <1>5, <1>1, ConstantFacts DEF IInv, TypeOK, SongOrNone, InBounds
    <2>3. InBounds' /\ NotBack' /\ RepeatsArePlayed'
      BY <1>1, <1>5, <2>1, <2>2, ConstantFacts
         DEF TimePasses, IInv, InBounds, NotBack, RepeatsArePlayed
    <2>4. Untouched'
      <3> SUFFICES ASSUME "touched" \notin happened
                   PROVE  /\ pc = "enriching" => polled.pos < Length[song]
                          /\ pc # "enriching" => position < Length[song] + EnrichLimit
                          /\ Length[song] > RestartThreshold + PollInterval =>
                               Length[song] = Base + timer + 1
        BY <1>1, <1>5, <2>1, <2>2 DEF Untouched, Base
      <3>1. /\ pc = "enriching" => polled.pos < Length[song]
            /\ pc # "enriching" => position < Length[song] + EnrichLimit
            /\ "repeated" \notin happened => pos = Base + timer
            /\ "repeated" \in happened /\ Length[song] > RestartThreshold + PollInterval =>
                 pos + Length[song] = Base + timer
        BY <1>5 DEF IInv, Untouched
      <3>2. CASE "repeated" \notin happened
        BY <3>1, <3>2, <2>2, <1>1 DEF Base
      <3>3. CASE "repeated" \in happened /\ Length[song] > RestartThreshold + PollInterval
        <4>1. Base + timer = Length[song] + Length[song] - 1
          BY <3>1, <3>3, <2>2, <1>1 DEF Base
        <4>2. Base + timer < Length[song] + RestartThreshold + PollInterval
          BY <3>1, <1>1, <2>2, ConstantFacts DEF TimePasses, Base
        <4> QED
          BY <4>1, <4>2, <3>3, <2>2, <1>1, ConstantFacts DEF Base
      <3> QED
        BY <3>1, <3>2, <3>3
    <2> QED
      BY <1>2, <1>3, <2>3, <2>4 DEF IInv
  <1>6. CASE ~(song # NoSong /\ status = "Playing")
    <2>1. pos' = pos /\ happened' = happened
      BY <1>6 DEF TimePasses, Plays
    <2>2. InBounds' /\ NotBack' /\ Untouched' /\ RepeatsArePlayed'
      BY <1>1, <1>6, <2>1, ConstantFacts
         DEF TimePasses, IInv, InBounds, NotBack, Untouched, RepeatsArePlayed
    <2> QED
      BY <1>2, <1>3, <2>2 DEF IInv
  <1> QED
    BY <1>4, <1>5, <1>6

(* The tail of run() shows what it keeps.                                  *)
LEMMA PresentShows ==
  ASSUME NEW s \in Songs, NEW st \in Statuses, NEW p \in Nat,
         NEW since \in {"none", "now", "held"}, Present(s, st, p, since), ticked' \subseteq {s},
         timer' = 0, pc' = "sleeping"
  PROVE  /\ ShownIsCurrent'
         /\ current' \in [song : SongOrNone, status : Statuses]
         /\ shown' \in Presences
         /\ pause' \in {"none", "now", "held"}
         /\ position' = p
         /\ current'.song = s /\ s # NoSong
         /\ current'.status = st
  <1> DEFINE held == PauseAfter(st, since)
  <1>1. held \in {"none", "now", "held"} /\ (st = "Paused" <=> held # "none")
    BY DEF PauseAfter
  <1>2. /\ current' = [song |-> s, status |-> st] /\ position' = p /\ pause' = held
        /\ shown' = [song |-> s, line |-> Timeline(st, held), pause |-> held,
                     bar |-> IF Timeline(st, held) = "progress" THEN p ELSE 0]
    BY DEF Present, SetPresence, BarStart
  <1>3. Timeline(st, held) \in {"progress", "elapsed", "none"}
    BY DEF Timeline
  <1> HIDE DEF held
  <1>4. ShownIsCurrent'
    BY <1>1, <1>2 DEF ShownIsCurrent, Since
  <1> QED
    BY <1>1, <1>2, <1>3, <1>4, ConstantFacts DEF Presences, SongOrNone

(* A cycle keeps the position it polled, plus the time it took; one that   *)
(* finds nothing leaves a cleared orchestrator.                            *)
LEMMA RunStep == IInv /\ Run => IInv'
  <1> SUFFICES ASSUME IInv, Run PROVE IInv'
    OBVIOUS
  <1>0. /\ timer \in Nat /\ pos \in Nat /\ position \in Nat /\ polled.pos \in Nat
        /\ polled.song \in SongOrNone /\ polled.status \in Statuses
        /\ song # NoSong => song \in Songs /\ Length[song] \in Nat /\ pos < Length[song]
    BY ConstantFacts DEF IInv, TypeOK, SongOrNone, InBounds
  <1>1. CASE PollNothing
    <2>1. TypeOK' /\ ShownIsCurrent' /\ position' = 0
      <3>1. /\ pc' = "sleeping" /\ timer' = 0 /\ polled' = NoPoll /\ happened' = {}
            /\ UNCHANGED player
        BY <1>1 DEF PollNothing, Sleep
      <3>2. CASE current.song = NoSong
        <4>1. newPlay' = FALSE /\ UNCHANGED <<current, pause, position, shown, ticked>>
          BY <1>1, <3>2 DEF PollNothing, ClearTrack
        <4>2. current.status = "Stopped" /\ pause = "none"
          BY <3>2 DEF IInv, TypeOK, NoTrack
        <4>3. shown.line = "none"
          BY <4>2 DEF IInv, ShownIsCurrent, Timeline
        <4> QED
          BY <3>1, <3>2, <4>1, <4>2, <4>3 DEF IInv, TypeOK, ShownIsCurrent, NoPoll, SongOrNone,
             Statuses, Steps, player
      <3>3. CASE current.song # NoSong
        <4>1. /\ current' = NoTrack /\ pause' = "none" /\ position' = 0 /\ ticked' = {}
              /\ newPlay' = TRUE /\ shown' = NoPresence
          BY <1>1, <3>3 DEF PollNothing, ClearTrack
        <4> QED
          BY <3>1, <4>1 DEF IInv, TypeOK, ShownIsCurrent, Timeline, NoPoll, NoTrack, NoPresence,
             Presences, SongOrNone, Statuses, Steps, player
      <3> QED
        BY <3>2, <3>3
    <2>2. InBounds' /\ NotBack' /\ Untouched' /\ RepeatsArePlayed'
      BY <1>0, <1>1, <2>1, ConstantFacts DEF PollNothing, Sleep, IInv, InBounds, NotBack, Untouched,
         RepeatsArePlayed, player
    <2>3. StatusHeld'
      <3>1. pc' = "sleeping" /\ status' = "Stopped"
        BY <1>1 DEF PollNothing, Sleep, player, IInv, InBounds
      <3>2. current'.status = "Stopped"
        BY <1>1 DEF PollNothing, ClearTrack, NoTrack, IInv, TypeOK
      <3> QED
        BY <3>1, <3>2 DEF StatusHeld
    <2> QED
      BY <2>1, <2>2, <2>3 DEF IInv
  <1>2. CASE PollSong
    <2>1. TypeOK' /\ ShownIsCurrent'
      BY <1>2 DEF PollSong, IInv, TypeOK, ShownIsCurrent, Since, NoPoll, Steps, SongOrNone, Statuses,
         player
    <2>2. InBounds' /\ NotBack' /\ Untouched' /\ RepeatsArePlayed' /\ StatusHeld'
      BY <1>0, <1>2 DEF PollSong, NoPoll, IInv, InBounds, NotBack, Untouched, RepeatsArePlayed, Base,
         StatusHeld, player
    <2> QED
      BY <2>1, <2>2 DEF IInv
  <1>3. CASE ContinueSong
    <2> DEFINE since == IF IsRestart(pos) THEN "none" ELSE pause
    <2>1. /\ polled.song \in Songs /\ status \in Statuses
          /\ since \in {"none", "now", "held"}
          /\ ticked' \subseteq {polled.song}
      BY <1>0, <1>3 DEF ContinueSong, IInv, TypeOK, ShownIsCurrent, InBounds, SongOrNone
    <2>2. Present(polled.song, status, pos, since)
      BY <1>3 DEF ContinueSong
    <2>3. pc' = "sleeping" /\ timer' = 0 /\ happened' = {} /\ UNCHANGED player
      BY <1>3 DEF ContinueSong, Sleep
    <2>6. /\ ShownIsCurrent'
          /\ current' \in [song : SongOrNone, status : Statuses]
          /\ shown' \in Presences
          /\ pause' \in {"none", "now", "held"}
          /\ position' = pos
          /\ current'.song # NoSong
          /\ current'.status = status
      BY <2>1, <2>2, <2>3, <1>0, PresentShows
    <2>4. TypeOK'
      <3>1. newPlay' \in BOOLEAN
        BY <1>3 DEF ContinueSong, IsRestart
      <3>2. /\ pc' = "sleeping" /\ timer' = 0 /\ polled' = NoPoll
            /\ happened' = {} /\ UNCHANGED player
        BY <1>3 DEF ContinueSong, Sleep
      <3> QED
        BY <1>0, <2>1, <2>6, <3>1, <3>2 DEF IInv, TypeOK, NoPoll, Steps, player, SongOrNone, Statuses
    <2>5. InBounds' /\ NotBack' /\ Untouched' /\ RepeatsArePlayed' /\ StatusHeld'
      BY <1>0, <1>3, <2>3, <2>6, ConstantFacts DEF ContinueSong, Sleep, NoPoll, IInv, InBounds,
         NotBack, Untouched, RepeatsArePlayed, StatusHeld, Base, player
    <2> QED
      BY <2>6, <2>4, <2>5 DEF IInv
  <1>4. CASE StartEnriching
    <2>1. TypeOK'
      BY <1>0, <1>4 DEF StartEnriching, IInv, TypeOK, Steps, player, orchestrator
    <2>3. Since' = Since
      BY <1>0, <1>4, ConstantFacts DEF StartEnriching, IInv, InBounds, Since
    <2>4. ShownIsCurrent'
      BY <1>4, <2>3 DEF StartEnriching, IInv, ShownIsCurrent, player, orchestrator
    <2>2. InBounds' /\ NotBack' /\ Untouched' /\ RepeatsArePlayed' /\ StatusHeld'
      BY <1>0, <1>4, ConstantFacts DEF StartEnriching, IInv, TypeOK, InBounds, NotBack, Untouched,
         RepeatsArePlayed, StatusHeld, Base, player
    <2> QED
      BY <2>1, <2>2, <2>4 DEF IInv
  <1>5. CASE Enriched
    <2>1. polled.song \in Songs /\ polled.pos + timer \in Nat /\ ticked' \subseteq {polled.song}
      BY <1>0, <1>5 DEF Enriched, IInv, InBounds, SongOrNone
    <2>2. Present(polled.song, polled.status, polled.pos + timer, "none")
      BY <1>5 DEF Enriched
    <2>4. /\ pc' = "sleeping" /\ timer' = 0 /\ polled' = NoPoll /\ newPlay' = TRUE
          /\ UNCHANGED <<player, happened>>
      BY <1>5 DEF Enriched, Sleep
    <2>3. /\ ShownIsCurrent'
          /\ current' \in [song : SongOrNone, status : Statuses]
          /\ shown' \in Presences
          /\ pause' \in {"none", "now", "held"}
          /\ position' = polled.pos + timer
          /\ current'.song # NoSong
          /\ current'.status = polled.status
      BY <2>1, <2>2, <2>4, <1>0, PresentShows
    <2>5. TypeOK'
      BY <1>0, <2>1, <2>3, <2>4 DEF IInv, TypeOK, NoPoll, Steps, player, SongOrNone, Statuses
    <2>6. InBounds' /\ RepeatsArePlayed'
      BY <1>0, <2>4, ConstantFacts DEF IInv, InBounds, RepeatsArePlayed, player
    <2>7. NotBack'
      BY <1>0, <1>5, <2>3, <2>4, ConstantFacts DEF Enriched, IInv, InBounds, NotBack, player
    <2>8. Untouched'
      BY <1>0, <1>5, <2>3, <2>4, ConstantFacts DEF Enriched, IInv, InBounds, Untouched, Base, player
    <2>9. StatusHeld'
      BY <1>5, <2>3, <2>4 DEF Enriched, IInv, StatusHeld, player
    <2> QED
      BY <2>3, <2>5, <2>6, <2>7, <2>8, <2>9 DEF IInv
  <1>6. CASE PollThrows
    <2>1. TypeOK' /\ ShownIsCurrent'
      BY <1>6 DEF PollThrows, IInv, TypeOK, ShownIsCurrent, Since, Steps, player, orchestrator
    <2>2. InBounds' /\ NotBack' /\ Untouched' /\ RepeatsArePlayed' /\ StatusHeld'
      BY <1>0, <1>6 DEF PollThrows, IInv, InBounds, NotBack, Untouched, RepeatsArePlayed, StatusHeld,
         player, orchestrator
    <2> QED
      BY <2>1, <2>2 DEF IInv
  <1> QED
    BY <1>1, <1>2, <1>3, <1>4, <1>5, <1>6 DEF Run

(* The invariant holds in every reachable state.                           *)
LEMMA Invariance == Spec => []IInv
  <1>1. IInv /\ UNCHANGED vars => IInv'
    BY DEF IInv, TypeOK, ShownIsCurrent, Since, InBounds, NotBack, Untouched, RepeatsArePlayed,
       StatusHeld, Base, vars, player, thread, orchestrator
  <1>2. IInv /\ [Next]_vars => IInv'
    BY <1>1, PlayerStep, TimeStep, RunStep DEF Next
  <1> QED
    BY <1>2, InvInit, PTL DEF Spec

(* Every variable keeps its type, and a cleared orchestrator is as new.    *)
THEOREM TypeCorrect == Spec => []TypeOK
  <1>1. IInv => TypeOK
    BY DEF IInv
  <1> QED
    BY <1>1, Invariance, PTL

(* Between two resets the driver is ticked with one song only.             *)
THEOREM OneSong == Spec => []OneSongPerPlay
  <1>1. IInv => OneSongPerPlay
    <2> SUFFICES ASSUME IInv PROVE Cardinality(ticked) <= 1
      BY DEF OneSongPerPlay
    <2>1. ticked \subseteq {current.song}
      BY DEF IInv, ShownIsCurrent
    <2>2. IsFiniteSet({current.song}) /\ Cardinality({current.song}) = 1
      BY FS_Singleton
    <2>3. Cardinality(ticked) <= Cardinality({current.song})
      BY <2>1, <2>2, FS_Subset
    <2> QED
      BY <2>2, <2>3
  <1> QED
    BY <1>1, Invariance, PTL

(* However long a song takes to enrich and whenever the user pauses it, a  *)
(* play is begun again only after the player went back.                    *)
THEOREM RestartIsReal == Spec => NoFalseRestart
  <1>1. ASSUME IInv, ContinueSong, newPlay', "back" \notin happened PROVE FALSE
    <2>1. position <= pos + EnrichLimit
      BY <1>1 DEF ContinueSong, IInv, NotBack
    <2>2. pos + RestartThreshold < position
      BY <1>1 DEF ContinueSong, IsRestart
    <2>3. pos \in Nat /\ position \in Nat
      BY <1>1 DEF IInv, TypeOK
    <2> QED
      BY <2>1, <2>2, <2>3, ConstantFacts
  <1>2. IInv => [ContinueSong /\ newPlay' => "back" \in happened]_vars
    BY <1>1
  <1> QED
    BY <1>2, Invariance, PTL DEF NoFalseRestart

(* A song left to repeat is seen as a new play at the first poll after it  *)
(* starts over, if it outlasts the threshold and a poll interval.          *)
THEOREM RepeatIsSeen == Spec => RepeatIsNewPlay
  <1>1. ASSUME IInv, Repeated, Length[song] > RestartThreshold + PollInterval PROVE newPlay'
    <2>1. pos + Length[song] = position + PollInterval
      BY <1>1 DEF Repeated, ContinueSong, IInv, InBounds, Untouched, RepeatsArePlayed, Base
    <2>2. pos \in Nat /\ position \in Nat /\ Length[song] \in Nat
      BY <1>1, ConstantFacts DEF Repeated, ContinueSong, IInv, TypeOK, SongOrNone
    <2>3. IsRestart(pos)
      BY <1>1, <2>1, <2>2, ConstantFacts DEF IsRestart
    <2> QED
      BY <1>1, <2>3 DEF Repeated, ContinueSong
  <1>2. IInv =>
          [Repeated /\ Length[song] > RestartThreshold + PollInterval => newPlay']_vars
    BY <1>1
  <1> QED
    BY <1>2, Invariance, PTL DEF RepeatIsNewPlay

(* A play that is shown paused, and is found paused, keeps its instant.    *)
THEOREM StampKept == Spec => PauseStampKept
  <1>1. ASSUME IInv, ContinueSong, ~newPlay', shown.line = "elapsed", shown'.line = "elapsed"
        PROVE  shown'.pause = shown.pause
    <2>1. shown.pause = pause /\ pause # "none"
      BY <1>1 DEF IInv, ShownIsCurrent, Timeline
    <2>2. /\ shown'.line = Timeline(status, PauseAfter(status, pause))
          /\ shown'.pause = PauseAfter(status, pause)
      BY <1>1 DEF ContinueSong, Present, SetPresence, BarStart
    <2>3. PauseAfter(status, pause) # "none"
      BY <1>1, <2>2 DEF Timeline
    <2> QED
      BY <2>1, <2>2, <2>3 DEF PauseAfter
  <1>2. IInv => [ContinueSong /\ ~newPlay' /\ shown.line = "elapsed" /\ shown'.line = "elapsed"
                   => shown'.pause = shown.pause]_vars
    BY <1>1
  <1> QED
    BY <1>2, Invariance, PTL DEF PauseStampKept

(* Until the user touches the player, Discord's bar runs with the song and *)
(* its timestamps fit the player's status.                                 *)
THEOREM ShownIsTrue == Spec => []PresenceIsTrue
  <1>1. ASSUME IInv, happened = {}, pc # "enriching", song # NoSong, shown.song = song
        PROVE  shown.line = Rendered[status] /\ (status = "Playing" => shown.bar = pos)
    <2>1. current.status = status /\ status \in Statuses
      BY <1>1 DEF IInv, TypeOK, StatusHeld
    <2>2. shown.line = Rendered[status]
      BY <1>1, <2>1 DEF IInv, ShownIsCurrent, Timeline, Rendered, Statuses
    <2>3. ASSUME status = "Playing" PROVE shown.bar = pos
      <3>1. pos = position + timer
        BY <1>1, <2>3 DEF IInv, Untouched, Base
      <3>2. shown.line = "progress"
        BY <2>2, <2>3 DEF Rendered
      <3> QED
        BY <1>1, <3>1, <3>2 DEF IInv, ShownIsCurrent, Since
    <2> QED
      BY <2>2, <2>3
  <1>2. IInv => PresenceIsTrue
    BY <1>1 DEF PresenceIsTrue
  <1> QED
    BY <1>2, Invariance, PTL

(* No cycle that finds a playing song as it left it announces it again.    *)
THEOREM ToastsAreNews == Spec => ToastMeansChange
  <1>1. ASSUME IInv, ContinueSong, Announces, happened = {}, status = "Playing" PROVE FALSE
    <2>1. current.status = "Playing" /\ pause = "none"
      BY <1>1 DEF ContinueSong, IInv, StatusHeld, ShownIsCurrent
    <2>2. pos = position + PollInterval
      BY <1>1 DEF ContinueSong, IInv, Untouched, InBounds, Base
    <2>3. pause' = "none" /\ position' = pos
      BY <1>1 DEF ContinueSong, Present, PauseAfter
    <2>4. current' = current
      BY <1>1, <2>1 DEF ContinueSong, Present, IInv, TypeOK
    <2> QED
      BY <1>1, <2>1, <2>2, <2>3, <2>4 DEF Announces, SameTiming
  <1>2. IInv => [ContinueSong /\ Announces => happened # {} \/ status # "Playing"]_vars
    BY <1>1
  <1> QED
    BY <1>2, Invariance, PTL DEF ToastMeansChange
=============================================================================
