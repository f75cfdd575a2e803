--------------------------- MODULE MCOrchestrator ---------------------------
(* Two songs: one just long enough for its repeats to be seen, one shorter *)
(* than a poll interval past the threshold.                                *)
EXTENDS Orchestrator, TrackTiming

CONSTANT
  MaxTicks      \* how long a song is, and how far one moves, at most

(* Stamps are wide enough for the longest song on a wall clock, which is   *)
(* past its first second.                                                  *)
ASSUME MaxTicksAssumption ==
  /\ MaxTicks \in Nat
  /\ SecondTicks <= MaxTicks
  /\ 5 * MaxTicks + Lag + 1 < Limit

Lengths == [s \in Songs |-> IF s = 1 THEN RestartThreshold + PollInterval + 1
                                     ELSE RestartThreshold + 1]

-----------------------------------------------------------------------------
(* The stamps behind the orchestrator's positions, as a poll reads them.   *)
Ticks == 0..MaxTicks
Timings == {parseTimeline(p, p + rest, now) : p \in Ticks, rest \in Ticks, now \in Ticks}

TimingsChecked ==
  /\ PartsAddUp(Timings, 0..(3 * MaxTicks))
  /\ EqualWhenNear(Timings, MaxTicks, {2 * MaxTicks, 2 * MaxTicks + 1}, Ticks)

(* A position read from a timing is the poll's and grows with the clock,   *)
(* no part of it overflows, also of one that was never set, and timings    *)
(* derived anew from the same play compare equal whenever the clocks are   *)
(* read: what this module's positions and its SameTiming stand on.         *)
TimingsAgree == pc = "polling" => TimingsChecked
=============================================================================
