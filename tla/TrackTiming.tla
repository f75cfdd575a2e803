---------------------------- MODULE TrackTiming -----------------------------
(***************************************************************************)
(* src/types/track.cpp, class TrackTiming: a song's start and end as       *)
(* stamps of a clock that cannot jump, and what the rest of the program is *)
(* told of them.  Module Orchestrator relies on what is stated below: that *)
(* a position grows with the clock, and that two polls of one play give    *)
(* equal timings.                                                          *)
(*                                                                         *)
(* A stamp is a signed number of ticks (nanoseconds in the code) of a      *)
(* fixed width, in which a sum that does not fit comes back wrapped.       *)
(***************************************************************************)
EXTENDS Integers

CONSTANTS
  Limit,        \* stamps are -Limit .. Limit - 1
  SecondTicks,  \* ticks in a second
  Lag           \* ticks that may pass between two readings of a clock

ASSUME LimitAssumption == Limit \in Nat \ {0}
ASSUME SecondAssumption == SecondTicks \in Nat \ {0} /\ Lag \in 0..SecondTicks

MinStamp == -Limit
MaxStamp == Limit - 1
Wrap(n) == ((n + Limit) % (2 * Limit)) - Limit

(* The default constructor, and AmWin's parseTimeline.                     *)
Unset == [start |-> MinStamp, end |-> MaxStamp]

parseTimeline(played, endTime, now) ==
  [start |-> Wrap(now - played), end |-> Wrap(now - played + endTime)]

Current(t, now) ==
  IF t.start = MinStamp \/ t.start > now \/ t.start = 0 THEN 0 ELSE Wrap(now - t.start)

total(t) ==
  IF t.start = MinStamp \/ t.end = MaxStamp \/ t.end < t.start THEN 0 ELSE Wrap(t.end - t.start)

remaining(t, now) ==
  IF t.start = MinStamp \/ t.end = MaxStamp \/ now >= t.end THEN 0
  ELSE IF now < t.start THEN total(t)
  ELSE Wrap(t.end - now)

-----------------------------------------------------------------------------
(* Wall time.  The two clocks are read one after the other, at each call.  *)
steadyToSystem(stamp, clocks) == Wrap(clocks.system + Wrap(stamp - clocks.steady))

(* duration_cast to seconds, of an instant after the epoch                 *)
WallSeconds(stamp, clocks) == steadyToSystem(stamp, clocks) \div SecondTicks

start(t, clocks) == IF t.start = MinStamp THEN 0 ELSE WallSeconds(t.start, clocks)
end(t, clocks) == IF t.end = MaxStamp THEN 0 ELSE WallSeconds(t.end, clocks)

(* Faulty: without the second of slack.                                    *)
BadWithinSlack(m, n) == m = n

WithinSlack(m, n) == m - n \in -1..1

(* operator==, each of whose four calls reads the clocks for itself        *)
EqualTimings(l, r, clocks) ==
  /\ WithinSlack(start(l, clocks[1]), start(r, clocks[2]))
  /\ WithinSlack(end(l, clocks[3]), end(r, clocks[4]))

-----------------------------------------------------------------------------
(* What a timing of a song means, at any time: however far it is played,   *)
(* the parts add up, and one that was never set is a song of no length.    *)
(* A start on the steady clock's origin is taken for one that was not set. *)
PartsAddUp(timings, instants) ==
  \A now \in instants :
    /\ Current(Unset, now) = 0 /\ remaining(Unset, now) = 0 /\ total(Unset) = 0
    /\ \A t \in timings :
         /\ total(t) = t.end - t.start
         /\ t.start # 0 /\ t.start <= now => Current(t, now) = now - t.start
         /\ t.start # 0 /\ now \in t.start..t.end => Current(t, now) + remaining(t, now) = total(t)
         /\ remaining(t, now) \in 0..total(t)

Clocks(now, offset) ==
  [1..4 -> {[steady |-> now, system |-> now + offset + lag] : lag \in 0..Lag}]

Later(t, ticks) == [start |-> t.start + ticks, end |-> t.end + ticks]

(* Two timings are equal as long as what the player reported for one and   *)
(* the delay between reading the clocks differ by no more than a second    *)
(* together, whatever the wall clock says; not when the song moved by more *)
(* than two.  A timing that was never set reads as the unix epoch, and     *)
(* equals only itself.                                                     *)
EqualWhenNear(timings, now, offsets, shifts) ==
  \A offset \in offsets : \A clocks \in Clocks(now, offset) :
    /\ start(Unset, clocks[1]) = 0 /\ end(Unset, clocks[1]) = 0
    /\ EqualTimings(Unset, Unset, clocks)
    /\ \A t \in timings :
         /\ ~EqualTimings(t, Unset, clocks)
         /\ \A ticks \in shifts :
              /\ ticks + Lag <= SecondTicks => EqualTimings(t, Later(t, ticks), clocks)
              /\ ticks >= 2 * SecondTicks + Lag => ~EqualTimings(t, Later(t, ticks), clocks)
=============================================================================
