------------------------- MODULE TrackTimingProofs --------------------------
(***************************************************************************)
(* Theorems about TrackTiming, for stamps of any width, seconds of any     *)
(* number of ticks and any timings the width leaves room for; then about   *)
(* the timings MCOrchestrator takes for a poll's.                          *)
(***************************************************************************)
EXTENDS MCOrchestrator, TLAPS

LEMMA TickFacts ==
  /\ Limit \in Nat /\ Limit > 0
  /\ SecondTicks \in Nat /\ SecondTicks > 0
  /\ Lag \in Nat /\ Lag <= SecondTicks
  /\ MaxTicks \in Nat /\ SecondTicks <= MaxTicks /\ 5 * MaxTicks + Lag + 1 < Limit
  BY LimitAssumption, SecondAssumption, MaxTicksAssumption

(* What fits the width is not wrapped.                                     *)
LEMMA WrapFits ==
  ASSUME NEW n \in Int, -Limit <= n, n < Limit
  PROVE  Wrap(n) = n
  <1>1. n + Limit \in 0..(2 * Limit - 1) /\ 2 * Limit \in Nat \ {0}
    BY TickFacts
  <1>2. \A a \in Nat, b \in Nat \ {0} : a < b => a % b = a
    OBVIOUS
  <1>3. (n + Limit) % (2 * Limit) = n + Limit
    BY <1>1, <1>2, TickFacts
  <1> QED
    BY <1>3, TickFacts DEF Wrap

(* Whole seconds, and what of an instant is beyond them.                   *)
LEMMA WholeSeconds ==
  ASSUME NEW a \in Nat
  PROVE  /\ a \div SecondTicks \in Nat
         /\ SecondTicks * (a \div SecondTicks) <= a
         /\ a < SecondTicks * (a \div SecondTicks) + SecondTicks
  BY TickFacts

LEMMA TimesGrows ==
  ASSUME NEW d \in Nat, NEW q \in Nat, NEW r \in Nat, NEW k \in Nat, q + k <= r
  PROVE  d * q + d * k <= d * r
  <1>1. r - q - k \in Nat
    OBVIOUS
  <1>2. d * (r - q - k) >= 0
    BY <1>1
  <1>3. d * r = d * q + d * k + d * (r - q - k)
    OBVIOUS
  <1> QED
    BY <1>2, <1>3

(* Instants no more than a second apart are in the same second or in       *)
(* neighbouring ones; two seconds apart they never are.                    *)
LEMMA SecondsApart ==
  ASSUME NEW a \in Nat, NEW b \in Nat
  PROVE  /\ a <= b + SecondTicks /\ b <= a + SecondTicks =>
              WithinSlack(a \div SecondTicks, b \div SecondTicks)
         /\ a + 2 * SecondTicks <= b =>
              ~WithinSlack(a \div SecondTicks, b \div SecondTicks)
  <1> DEFINE d == SecondTicks
             q == a \div SecondTicks
             r == b \div SecondTicks
  <1>1. /\ d \in Nat /\ d > 0
        /\ q \in Nat /\ d * q <= a /\ a < d * q + d
        /\ r \in Nat /\ d * r <= b /\ b < d * r + d
    BY WholeSeconds, TickFacts
  <1> HIDE DEF d, q, r
  <1>2. a <= b + d => q - r <= 1
    <2>1. q - r >= 2 => d * r + d * 2 <= d * q
      BY <1>1, TimesGrows
    <2> QED
      BY <1>1, <2>1
  <1>3. b <= a + d => r - q <= 1
    <2>1. r - q >= 2 => d * q + d * 2 <= d * r
      BY <1>1, TimesGrows
    <2> QED
      BY <1>1, <2>1
  <1>4. a + 2 * d <= b => r - q >= 2
    <2>1. r <= q + 1 => d * r <= d * q + d
      <3> SUFFICES ASSUME r <= q + 1 PROVE d * r <= d * q + d
        OBVIOUS
      <3>1. d * r + d * 0 <= d * (q + 1)
        BY <1>1, TimesGrows
      <3> QED
        BY <1>1, <3>1
    <2> QED
      BY <1>1, <2>1
  <1>5. /\ a <= b + d /\ b <= a + d => WithinSlack(q, r)
        /\ a + 2 * d <= b => ~WithinSlack(q, r)
    BY <1>1, <1>2, <1>3, <1>4 DEF WithinSlack
  <1> QED
    BY <1>5 DEF d, q, r

-----------------------------------------------------------------------------
(* A timing that was set, of a song that fits the width.                   *)
Fits(t) ==
  /\ t.start \in Int /\ t.end \in Int
  /\ t.start <= t.end /\ t.end - t.start < Limit
  /\ t.start # MinStamp /\ t.end # MaxStamp

(* Its distances from an instant fit.                                      *)
Reaches(now, t) == now - t.start < Limit /\ t.end - now < Limit

(* At every instant within reach the parts of a song add up, and none of   *)
(* them is a difference that does not fit.                                 *)
THEOREM PartsAlwaysAddUp ==
  ASSUME NEW timings, NEW instants, instants \subseteq Int, \A t \in timings : Fits(t),
         \A t \in timings, now \in instants : Reaches(now, t)
  PROVE  PartsAddUp(timings, instants)
  <1> SUFFICES ASSUME NEW now \in instants
               PROVE  /\ Current(Unset, now) = 0 /\ remaining(Unset, now) = 0 /\ total(Unset) = 0
                      /\ \A t \in timings :
                           /\ total(t) = t.end - t.start
                           /\ t.start # 0 /\ t.start <= now => Current(t, now) = now - t.start
                           /\ t.start # 0 /\ now \in t.start..t.end =>
                                Current(t, now) + remaining(t, now) = total(t)
                           /\ remaining(t, now) \in 0..total(t)
    BY DEF PartsAddUp
  <1>1. Current(Unset, now) = 0 /\ remaining(Unset, now) = 0 /\ total(Unset) = 0
    BY DEF Current, remaining, total, Unset
  <1>2. ASSUME NEW t \in timings
        PROVE  /\ total(t) = t.end - t.start
               /\ t.start # 0 /\ t.start <= now => Current(t, now) = now - t.start
               /\ t.start # 0 /\ now \in t.start..t.end =>
                    Current(t, now) + remaining(t, now) = total(t)
               /\ remaining(t, now) \in 0..total(t)
    <2>1. /\ t.start \in Int /\ t.end \in Int /\ now \in Int /\ t.start <= t.end
          /\ t.end - t.start < Limit /\ now - t.start < Limit /\ t.end - now < Limit
          /\ t.start # MinStamp /\ t.end # MaxStamp
      BY DEF Fits, Reaches
    <2>2. total(t) = t.end - t.start
      <3>1. Wrap(t.end - t.start) = t.end - t.start
        BY <2>1, TickFacts, WrapFits
      <3> QED
        BY <2>1, <3>1 DEF total
    <2>3. t.start # 0 /\ t.start <= now => Current(t, now) = now - t.start
      <3>1. t.start <= now => Wrap(now - t.start) = now - t.start
        BY <2>1, TickFacts, WrapFits
      <3> QED
        BY <2>1, <3>1 DEF Current
    <2>4. remaining(t, now) = IF now >= t.end THEN 0
                              ELSE IF now < t.start THEN t.end - t.start ELSE t.end - now
      <3>1. now < t.end => Wrap(t.end - now) = t.end - now
        BY <2>1, TickFacts, WrapFits
      <3> QED
        BY <2>1, <2>2, <3>1 DEF remaining
    <2> QED
      BY <2>1, <2>2, <2>3, <2>4
  <1> QED
    BY <1>1, <1>2

-----------------------------------------------------------------------------
(* The wall clock is ahead of the steady clock by offset, and what it says *)
(* of a stamp is after the epoch and fits the width.                       *)
OnWall(stamp, now, offset) ==
  /\ stamp \in Int /\ offset \in Int
  /\ -Limit <= stamp - now /\ stamp - now < Limit
  /\ 0 <= stamp + offset /\ stamp + offset + Lag < Limit

(* A stamp on the wall: moved by the offset, and by how late the second    *)
(* clock was read.                                                         *)
LEMMA StampOnTheWall ==
  ASSUME NEW now \in Int, NEW offset, NEW clocks \in Clocks(now, offset), NEW i \in 1..4,
         NEW stamp, OnWall(stamp, now, offset)
  PROVE  \E lag \in 0..Lag : /\ stamp + offset + lag \in Nat
                             /\ WallSeconds(stamp, clocks[i]) = (stamp + offset + lag) \div SecondTicks
  <1>1. PICK lag \in 0..Lag : clocks[i] = [steady |-> now, system |-> now + offset + lag]
    BY DEF Clocks
  <1>2. /\ offset \in Int /\ stamp \in Int /\ lag \in Nat /\ lag <= Lag
        /\ -Limit <= stamp - now /\ stamp - now < Limit
        /\ 0 <= stamp + offset /\ stamp + offset + Lag < Limit
    BY TickFacts DEF OnWall
  <1>3. Wrap(stamp - now) = stamp - now
    BY <1>2, WrapFits
  <1>4. Wrap((now + offset + lag) + (stamp - now)) = stamp + offset + lag
    <2>1. (now + offset + lag) + (stamp - now) = stamp + offset + lag
      BY <1>2
    <2>2. stamp + offset + lag \in Int /\ -Limit <= stamp + offset + lag
          /\ stamp + offset + lag < Limit
      BY <1>2, TickFacts
    <2> QED
      BY <2>1, <2>2, WrapFits
  <1>5. WallSeconds(stamp, clocks[i]) = (stamp + offset + lag) \div SecondTicks
    BY <1>1, <1>3, <1>4 DEF WallSeconds, steadyToSystem
  <1>6. stamp + offset + lag \in Nat
    BY <1>2
  <1> QED
    BY <1>5, <1>6

(* Two stamps, each read with clocks of its own.                           *)
LEMMA StampsOnTheWall ==
  ASSUME NEW now \in Int, NEW offset, NEW clocks \in Clocks(now, offset),
         NEW i \in 1..4, NEW j \in 1..4, NEW ticks \in Nat, NEW stamp,
         OnWall(stamp, now, offset), OnWall(stamp + ticks, now, offset)
  PROVE  /\ ticks + Lag <= SecondTicks =>
              WithinSlack(WallSeconds(stamp, clocks[i]), WallSeconds(stamp + ticks, clocks[j]))
         /\ ticks >= 2 * SecondTicks + Lag =>
              ~WithinSlack(WallSeconds(stamp, clocks[i]), WallSeconds(stamp + ticks, clocks[j]))
  <1>1. PICK l \in 0..Lag :
          /\ stamp + offset + l \in Nat
          /\ WallSeconds(stamp, clocks[i]) = (stamp + offset + l) \div SecondTicks
    BY StampOnTheWall
  <1>2. PICK r \in 0..Lag :
          /\ stamp + ticks + offset + r \in Nat
          /\ WallSeconds(stamp + ticks, clocks[j]) = (stamp + ticks + offset + r) \div SecondTicks
    BY StampOnTheWall
  <1>3. l \in Nat /\ r \in Nat /\ l <= Lag /\ r <= Lag /\ offset \in Int /\ stamp \in Int
    BY TickFacts DEF OnWall
  <1> DEFINE a == stamp + offset + l
             b == stamp + ticks + offset + r
  <1>4. /\ ticks + Lag <= SecondTicks => a <= b + SecondTicks /\ b <= a + SecondTicks
        /\ ticks >= 2 * SecondTicks + Lag => a + 2 * SecondTicks <= b
    BY <1>3, TickFacts
  <1>5. a \in Nat /\ b \in Nat
    BY <1>1, <1>2
  <1> HIDE DEF a, b
  <1>6. /\ ticks + Lag <= SecondTicks => WithinSlack(a \div SecondTicks, b \div SecondTicks)
        /\ ticks >= 2 * SecondTicks + Lag => ~WithinSlack(a \div SecondTicks, b \div SecondTicks)
    BY <1>4, <1>5, SecondsApart
  <1> QED
    BY <1>1, <1>2, <1>6 DEF a, b

(* The wall clock can show a timing, which ends two seconds or more after  *)
(* the epoch.                                                              *)
Shows(t, now, offset) ==
  /\ OnWall(t.start, now, offset) /\ OnWall(t.end, now, offset)
  /\ 2 * SecondTicks <= t.end + offset

(* A timing that was never set reads as the epoch, which no song is near.  *)
LEMMA SetIsNotUnset ==
  ASSUME NEW now \in Int, NEW offset, NEW clocks \in Clocks(now, offset), NEW t, Fits(t),
         Shows(t, now, offset)
  PROVE  ~EqualTimings(t, Unset, clocks)
  <1>1. t.end # MaxStamp /\ OnWall(t.end, now, offset)
    BY DEF Fits, Shows
  <1>2. PICK lag \in 0..Lag :
          /\ t.end + offset + lag \in Nat
          /\ WallSeconds(t.end, clocks[3]) = (t.end + offset + lag) \div SecondTicks
    BY <1>1, StampOnTheWall
  <1>3. 0 + 2 * SecondTicks <= t.end + offset + lag
    BY <1>1, TickFacts DEF Shows, OnWall
  <1>4. ~WithinSlack(0 \div SecondTicks, (t.end + offset + lag) \div SecondTicks)
    BY <1>2, <1>3, SecondsApart
  <1>5. 0 \div SecondTicks = 0 /\ (t.end + offset + lag) \div SecondTicks \in Nat
    BY <1>2, TickFacts, WholeSeconds
  <1>6. ~WithinSlack(end(t, clocks[3]), 0)
    BY <1>1, <1>2, <1>4, <1>5 DEF end, WithinSlack
  <1> QED
    BY <1>6 DEF EqualTimings, Unset, end

(* Whatever the wall clock says, and whenever the clocks are read, timings *)
(* derived anew from the same play are equal as long as jitter and lag     *)
(* stay within a second, and those of a song that moved by two seconds and *)
(* a lag or more are not.                                                  *)
THEOREM NearTimingsAreEqual ==
  ASSUME NEW timings, NEW now \in Int, NEW offsets, NEW shifts, shifts \subseteq Nat,
         \A t \in timings : Fits(t),
         \A t \in timings, offset \in offsets : Shows(t, now, offset),
         \A t \in timings, offset \in offsets, ticks \in shifts :
           Fits(Later(t, ticks)) /\ Shows(Later(t, ticks), now, offset)
  PROVE  EqualWhenNear(timings, now, offsets, shifts)
  <1> SUFFICES ASSUME NEW offset \in offsets, NEW clocks \in Clocks(now, offset)
               PROVE  /\ start(Unset, clocks[1]) = 0 /\ end(Unset, clocks[1]) = 0
                      /\ EqualTimings(Unset, Unset, clocks)
                      /\ \A t \in timings :
                           /\ ~EqualTimings(t, Unset, clocks)
                           /\ \A ticks \in shifts :
                                /\ ticks + Lag <= SecondTicks => EqualTimings(t, Later(t, ticks), clocks)
                                /\ ticks >= 2 * SecondTicks + Lag =>
                                     ~EqualTimings(t, Later(t, ticks), clocks)
    BY DEF EqualWhenNear
  <1>1. /\ start(Unset, clocks[1]) = 0 /\ end(Unset, clocks[1]) = 0
        /\ EqualTimings(Unset, Unset, clocks)
    BY DEF start, end, Unset, EqualTimings, WithinSlack
  <1>2. ASSUME NEW t \in timings, NEW ticks \in shifts
        PROVE  /\ ticks + Lag <= SecondTicks => EqualTimings(t, Later(t, ticks), clocks)
               /\ ticks >= 2 * SecondTicks + Lag => ~EqualTimings(t, Later(t, ticks), clocks)
    <2>1. /\ ticks \in Nat
          /\ OnWall(t.start, now, offset) /\ OnWall(t.start + ticks, now, offset)
          /\ OnWall(t.end, now, offset) /\ OnWall(t.end + ticks, now, offset)
      BY DEF Shows, Later
    <2>2. /\ t.start # MinStamp /\ t.end # MaxStamp
          /\ t.start + ticks # MinStamp /\ t.end + ticks # MaxStamp
      BY DEF Fits, Later
    <2>3. /\ start(t, clocks[1]) = WallSeconds(t.start, clocks[1])
          /\ start(Later(t, ticks), clocks[2]) = WallSeconds(t.start + ticks, clocks[2])
          /\ end(t, clocks[3]) = WallSeconds(t.end, clocks[3])
          /\ end(Later(t, ticks), clocks[4]) = WallSeconds(t.end + ticks, clocks[4])
      BY <2>2 DEF start, end, Later
    <2>4. /\ ticks + Lag <= SecondTicks =>
               WithinSlack(WallSeconds(t.start, clocks[1]), WallSeconds(t.start + ticks, clocks[2]))
          /\ ticks >= 2 * SecondTicks + Lag =>
               ~WithinSlack(WallSeconds(t.start, clocks[1]), WallSeconds(t.start + ticks, clocks[2]))
      BY <2>1, StampsOnTheWall
    <2>5. ticks + Lag <= SecondTicks =>
            WithinSlack(WallSeconds(t.end, clocks[3]), WallSeconds(t.end + ticks, clocks[4]))
      BY <2>1, StampsOnTheWall
    <2> QED
      BY <2>3, <2>4, <2>5 DEF EqualTimings
  <1>3. ASSUME NEW t \in timings
        PROVE  ~EqualTimings(t, Unset, clocks)
    BY SetIsNotUnset
  <1> QED
    BY <1>1, <1>2, <1>3

-----------------------------------------------------------------------------
(* A timing parseTimeline makes: a song of any position and any rest.      *)
LEMMA TimingsAreBounded ==
  ASSUME NEW t \in Timings
  PROVE  /\ t.start \in Int /\ t.end \in Int
         /\ t.start <= t.end
         /\ -MaxTicks <= t.start /\ t.start <= MaxTicks
         /\ 0 <= t.end /\ t.end <= 2 * MaxTicks
  <1>1. PICK p \in Ticks, rest \in Ticks, now \in Ticks : t = parseTimeline(p, p + rest, now)
    BY DEF Timings
  <1>2. /\ p \in Nat /\ rest \in Nat /\ now \in Nat
        /\ p <= MaxTicks /\ rest <= MaxTicks /\ now <= MaxTicks
    BY TickFacts DEF Ticks
  <1>3. now - p \in Int /\ -Limit <= now - p /\ now - p < Limit
    BY <1>2, TickFacts
  <1>4. now - p + (p + rest) = now + rest /\ now + rest \in Int
        /\ -Limit <= now + rest /\ now + rest < Limit
    BY <1>2, TickFacts
  <1>5. Wrap(now - p) = now - p /\ Wrap(now - p + (p + rest)) = now + rest
    BY <1>3, <1>4, WrapFits
  <1>6. t.start = now - p /\ t.end = now + rest
    BY <1>1, <1>5 DEF parseTimeline
  <1> QED
    BY <1>2, <1>6, TickFacts

LEMMA TimingsFit ==
  ASSUME NEW t \in Timings, NEW ticks \in Ticks
  PROVE  Fits(t) /\ Fits(Later(t, ticks))
  BY TimingsAreBounded, TickFacts DEF Fits, Later, Ticks, MinStamp, MaxStamp

LEMMA PartsOfTimings == PartsAddUp(Timings, 0..(3 * MaxTicks))
  <1> DEFINE instants == 0..(3 * MaxTicks)
  <1>1. instants \subseteq Int
    BY TickFacts
  <1>2. \A t \in Timings : Fits(t)
    <2>1. 0 \in Ticks
      BY TickFacts DEF Ticks
    <2> QED
      BY <2>1, TimingsFit
  <1>3. \A t \in Timings, now \in instants : Reaches(now, t)
    BY TimingsAreBounded, TickFacts DEF Reaches
  <1> HIDE DEF instants
  <1>4. PartsAddUp(Timings, instants)
    BY <1>1, <1>2, <1>3, PartsAlwaysAddUp
  <1> QED
    BY <1>4 DEF instants

(* The instants a poll's wall clock may be ahead of its steady clock.      *)
Offsets == {2 * MaxTicks, 2 * MaxTicks + 1}

LEMMA TimingsNear == EqualWhenNear(Timings, MaxTicks, Offsets, Ticks)
  <1>1. MaxTicks \in Int /\ Ticks \subseteq Nat /\ 0 \in Ticks
    BY TickFacts DEF Ticks
  <1>2. \A t \in Timings : Fits(t)
    BY <1>1, TimingsFit
  <1>3. ASSUME NEW t \in Timings, NEW offset \in Offsets, NEW ticks \in Ticks
        PROVE  Shows(t, MaxTicks, offset) /\ Shows(Later(t, ticks), MaxTicks, offset)
    <2>1. ticks \in Nat /\ ticks <= MaxTicks
      BY TickFacts DEF Ticks
    <2>2. offset \in Nat /\ 2 * MaxTicks <= offset /\ offset <= 2 * MaxTicks + 1
      BY TickFacts DEF Offsets
    <2> QED
      BY <2>1, <2>2, TimingsAreBounded, TickFacts DEF Shows, OnWall, Later
  <1>4. \A t \in Timings, offset \in Offsets : Shows(t, MaxTicks, offset)
    BY <1>1, <1>3
  <1>5. \A t \in Timings, offset \in Offsets, ticks \in Ticks :
          Fits(Later(t, ticks)) /\ Shows(Later(t, ticks), MaxTicks, offset)
    BY <1>3, TimingsFit
  <1> QED
    BY <1>1, <1>2, <1>4, <1>5, NearTimingsAreEqual

(* Wherever the orchestrator polls, a position read from a song's stamps   *)
(* grows with the clock, no part of it overflows, and timings derived anew *)
(* from one play compare equal: what its positions and restarts stand on.  *)
THEOREM PartsFitAndAgree == Spec => []TimingsAgree
  <1>1. TimingsAgree
    BY PartsOfTimings, TimingsNear DEF TimingsAgree, TimingsChecked, Offsets
  <1> QED
    BY <1>1, PTL
=============================================================================
