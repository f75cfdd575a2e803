------------------------ MODULE ScrobbleWindowProofs ------------------------
(***************************************************************************)
(* Theorems about ScrobbleWindow, for songs of any lengths and rules and   *)
(* delays of any size.  The invariant carries the driver's threshold to    *)
(* the moment of the call: a queued attempt was asked at or past it by the *)
(* track's own clock, which only an enrichment lets run ahead of the       *)
(* player, and neither of the two runs backwards.                          *)
(***************************************************************************)
EXTENDS ScrobbleWindow, TLAPS

(* By the player, or by what an enrichment can have added.                 *)
Earned == Warranted(pos) \/ Warranted(from + EnrichTime)

QueuedPastThreshold == job = "queued" => ThresholdMet(curr, length) /\ Earned

CallingIsAccepted == job = "calling" => accepted

IInv == TypeOK /\ QueuedPastThreshold /\ CallingIsAccepted /\ NotBeforeThreshold

LEMMA ConstantFacts ==
  /\ Lengths \subseteq Nat
  /\ \A len \in Lengths : len > 0
  /\ Sleep \in Nat /\ CycleTime \in Nat /\ EnrichTime \in Nat /\ QueueDelay \in Nat
  /\ FirstSeen \subseteq Nat /\ CallTime \in Nat /\ ScrobbleRetry \in Nat
  /\ MinLength \in Nat /\ PlayCap \in Nat /\ GateLength \in Nat
  BY LengthsAssumption, TimesAssumption, RulesAssumption

(* Where the two rules agree, what passes the driver's passes Last.fm's.   *)
LEMMA RulesAgree ==
  ASSUME NEW len \in Nat, NEW p \in Nat, 2 * GateLength < len, len <= 2 * PlayCap,
         ThresholdMet(p, len)
  PROVE  GatePasses(p, len)
  BY ConstantFacts DEF ThresholdMet, GatePasses

(* A song still at or past the threshold a second later.                   *)
LEMMA ThresholdMonotone ==
  ASSUME NEW len \in Nat, NEW p \in Nat, NEW q \in Nat, p <= q, ThresholdMet(p, len)
  PROVE  ThresholdMet(q, len)
  BY ConstantFacts DEF ThresholdMet

(* What the driver's rule lets through at a position is warranted there.   *)
LEMMA MetIsWarranted ==
  ASSUME NEW p, ThresholdMet(p, length)
  PROVE  Warranted(p)
  BY DEF ThresholdMet, Warranted

LEMMA WarrantedMonotone ==
  ASSUME length \in Nat, NEW p \in Nat, NEW q \in Nat, p <= q, Warranted(p)
  PROVE  Warranted(q)
  BY ConstantFacts DEF Warranted

LEMMA InvInit == Init => IInv
  <1> SUFFICES ASSUME Init PROVE IInv
    OBVIOUS
  <1>1. TypeOK
    <2>1. playing \in BOOLEAN /\ over \in BOOLEAN /\ accepted \in BOOLEAN /\ enriching \in BOOLEAN
      BY DEF Init
    <2>2. length \in Lengths /\ length \in Nat /\ pos \in 0..length /\ from \in 0..pos
      BY ConstantFacts DEF Init
    <2>3. wait \in 0..ScrobbleRetry
          /\ sinceTick \in 0..(IF enriching THEN EnrichTime ELSE Sleep + CycleTime)
      BY ConstantFacts DEF Init
    <2> QED
      BY <2>1, <2>2, <2>3 DEF Init, TypeOK
  <1>2. QueuedPastThreshold /\ CallingIsAccepted /\ NotBeforeThreshold
    BY DEF Init, QueuedPastThreshold, CallingIsAccepted, NotBeforeThreshold
  <1> QED
    BY <1>1, <1>2 DEF IInv

(* The player after a step, of a song of length len found at p.            *)
PlayerTyped(len, p) ==
  /\ length' = len /\ len \in Lengths
  /\ from' = p /\ p \in Nat
  /\ pos' \in Nat /\ p <= pos' /\ pos' <= len
  /\ playing' \in BOOLEAN /\ over' \in BOOLEAN
  /\ enriching' = FALSE /\ sinceTick' = 0

LEMMA PlayerTypes ==
  ASSUME NEW len, NEW p, PlayerTyped(len, p)
  PROVE  /\ length' \in Lengths /\ length' \in Nat /\ pos' \in 0..length' /\ from' \in 0..pos'
         /\ playing' \in BOOLEAN /\ over' \in BOOLEAN /\ enriching' \in BOOLEAN
         /\ sinceTick' \in 0..(IF enriching' THEN EnrichTime ELSE Sleep + CycleTime)
  <1>1. /\ length' = len /\ len \in Lengths /\ len \in Nat /\ from' = p /\ p \in Nat
        /\ pos' \in Nat /\ p <= pos' /\ pos' <= len /\ sinceTick' = 0
    BY ConstantFacts DEF PlayerTyped
  <1>2. playing' \in BOOLEAN /\ over' \in BOOLEAN /\ enriching' \in BOOLEAN
    BY DEF PlayerTyped
  <1>3. pos' \in 0..length' /\ from' \in 0..pos'
    BY <1>1
  <1>4. 0 \in 0..EnrichTime /\ 0 \in 0..(Sleep + CycleTime)
    BY ConstantFacts
  <1> QED
    BY <1>1, <1>2, <1>3, <1>4

(* An attempt submitted at curr c keeps the invariant.                     *)
LEMMA SubmitKeeps ==
  ASSUME NEW len, NEW p, NEW c \in Nat, PlayerTyped(len, p), ThresholdMet(c, len), Submit(c),
         c = pos' \/ c <= p + EnrichTime
  PROVE  IInv'
  <1>1. /\ phase' = "InFlight" /\ wait' = 0 /\ job' = "queued" /\ curr' = c
        /\ age' = 0 /\ accepted' = FALSE
    BY DEF Submit
  <1>2. TypeOK'
    <2>1. accepted' \in BOOLEAN
      BY <1>1
    <2>2. wait' \in 0..ScrobbleRetry /\ age' \in Nat /\ curr' \in Nat
      BY <1>1, ConstantFacts
    <2> QED
      BY <1>1, <2>1, <2>2, PlayerTypes DEF TypeOK
  <1>3. Earned'
    <2>1. /\ length' = len /\ len \in Nat /\ from' = p /\ p \in Nat /\ pos' \in Nat
      BY ConstantFacts DEF PlayerTyped
    <2>2. len > MinLength /\ (2 * c >= len \/ c >= PlayCap)
      BY DEF ThresholdMet
    <2>3. CASE c = pos'
      BY <2>1, <2>2, <2>3 DEF Earned, Warranted
    <2>4. CASE c <= p + EnrichTime
      <3>1. p + EnrichTime \in Nat /\ (2 * c >= len => 2 * (p + EnrichTime) >= len)
            /\ (c >= PlayCap => p + EnrichTime >= PlayCap)
        BY <2>1, <2>4, ConstantFacts
      <3>2. Warranted(from + EnrichTime)'
        BY <2>1, <2>2, <3>1 DEF Warranted
      <3> QED
        BY <3>2 DEF Earned
    <2> QED
      BY <2>3, <2>4
  <1>4. QueuedPastThreshold' /\ CallingIsAccepted' /\ NotBeforeThreshold'
    <2>1. ThresholdMet(curr, length)'
      BY <1>1 DEF ThresholdMet, PlayerTyped
    <2> QED
      BY <1>1, <1>3, <2>1 DEF QueuedPastThreshold, CallingIsAccepted, NotBeforeThreshold
  <1> QED
    BY <1>2, <1>4 DEF IInv

(* What holds of the attempt goes on holding while the song plays on.      *)
LEMMA EarnedKeeps ==
  ASSUME IInv, length' = length, from' = from, pos' \in Nat, pos <= pos', Earned
  PROVE  Earned'
  <1>1. length \in Nat /\ pos \in Nat
    BY ConstantFacts DEF IInv, TypeOK
  <1>2. Warranted(pos) => Warranted(pos')
    BY <1>1, WarrantedMonotone
  <1> QED
    BY <1>2 DEF Earned, Warranted

LEMMA InvSecond ==
  ASSUME IInv, Second
  PROVE  IInv'
  <1>0. /\ length \in Nat /\ pos \in Nat /\ curr \in Nat /\ length \in Lengths
        /\ pos \in 0..length /\ from \in 0..pos /\ wait \in Nat /\ age \in Nat
        /\ sinceTick \in Nat
    BY ConstantFacts DEF IInv, TypeOK
  <1>1. pos' \in Nat /\ pos <= pos' /\ pos' <= length /\ length' = length /\ from' = from
    BY <1>0 DEF Second
  <1>2. TypeOK'
    <2>1. pos' \in 0..length' /\ from' \in 0..pos'
      BY <1>0, <1>1
    <2>2. sinceTick' \in 0..(IF enriching' THEN EnrichTime ELSE Sleep + CycleTime)
      BY <1>0, ConstantFacts DEF Second
    <2>3. wait' \in 0..ScrobbleRetry /\ age' \in Nat /\ curr' \in Nat
      BY <1>0, ConstantFacts DEF Second, IInv, TypeOK
    <2> QED
      BY <1>1, <2>1, <2>2, <2>3 DEF Second, IInv, TypeOK
  <1>3. Earned => Earned'
    BY <1>1, EarnedKeeps
  <1>4. QueuedPastThreshold'
    <2> SUFFICES ASSUME job = "queued" PROVE ThresholdMet(curr, length)' /\ Earned'
      BY DEF Second, QueuedPastThreshold
    <2>1. ThresholdMet(curr, length) /\ Earned
      BY DEF IInv, QueuedPastThreshold
    <2>2. curr' \in Nat /\ curr <= curr'
      BY <1>0 DEF Second
    <2>3. ThresholdMet(curr', length)
      BY <1>0, <2>1, <2>2, ThresholdMonotone
    <2> QED
      BY <1>1, <1>3, <2>1, <2>3 DEF ThresholdMet
  <1>5. CallingIsAccepted' /\ NotBeforeThreshold'
    BY <1>3 DEF Second, IInv, CallingIsAccepted, NotBeforeThreshold, Earned
  <1> QED
    BY <1>2, <1>4, <1>5 DEF IInv

LEMMA InvTick ==
  ASSUME IInv, Tick
  PROVE  IInv'
  <1>1. /\ sinceTick' = 0 /\ enriching' = FALSE /\ from' = from
        /\ length' = length /\ pos' = pos /\ playing' = playing /\ over' = over
    BY DEF Tick, player, IInv, TypeOK
  <1>2. PlayerTyped(length, from)
    BY <1>1, ConstantFacts DEF PlayerTyped, IInv, TypeOK
  <1>3. CASE Drained /\ NoJob /\ UNCHANGED accepted
             /\ phase' = (IF accepted THEN "Done" ELSE "Waiting")
             /\ wait' = (IF accepted THEN 0 ELSE ScrobbleRetry)
    <2>1. TypeOK'
      <3>1. wait' \in 0..ScrobbleRetry
        BY <1>3, ConstantFacts
      <3> QED
        BY <1>2, <1>3, <3>1, PlayerTypes DEF IInv, TypeOK, NoJob
    <2>2. QueuedPastThreshold' /\ CallingIsAccepted' /\ NotBeforeThreshold'
      BY <1>1, <1>3 DEF IInv, QueuedPastThreshold, CallingIsAccepted, NotBeforeThreshold,
         Warranted, NoJob
    <2> QED
      BY <2>1, <2>2 DEF IInv
  <1>4. CASE Due /\ Submit(pos)
    <2>1. pos \in Nat /\ pos' = pos
      BY <1>1, ConstantFacts DEF IInv, TypeOK
    <2> QED
      BY <1>2, <1>4, <2>1, SubmitKeeps DEF Due
  <1>5. CASE UNCHANGED attempt
    <2>1. TypeOK'
      BY <1>2, <1>5, PlayerTypes DEF attempt, IInv, TypeOK
    <2>2. QueuedPastThreshold' /\ CallingIsAccepted' /\ NotBeforeThreshold'
      BY <1>1, <1>5 DEF attempt, IInv, QueuedPastThreshold, CallingIsAccepted,
         NotBeforeThreshold, ThresholdMet, Earned, Warranted
    <2> QED
      BY <2>1, <2>2 DEF IInv
  <1> QED
    BY <1>3, <1>4, <1>5 DEF Tick

(* What NextPlay chose.                                                    *)
FirstTick(len, p, played) ==
  /\ p < len /\ p + played <= len
  /\ length' = len /\ from' = p /\ pos' = p + played
  /\ playing' \in BOOLEAN /\ over' = FALSE
  /\ IF ThresholdMet(p + sinceTick, len)
       THEN Submit(p + sinceTick)
       ELSE phase' = "Waiting" /\ wait' = 0 /\ NoJob /\ accepted' = FALSE

LEMMA NextPlayChoice ==
  ASSUME IInv, NextPlay
  PROVE  /\ enriching /\ enriching' = FALSE /\ sinceTick' = 0
         /\ sinceTick \in Nat /\ sinceTick <= EnrichTime
         /\ \E len \in Lengths, p \in FirstSeen, played \in 0..sinceTick :
              FirstTick(len, p, played) /\ PlayerTyped(len, p)
  <1>1. PICK len \in Lengths, p \in FirstSeen, played \in 0..sinceTick : FirstTick(len, p, played)
    BY DEF NextPlay, FirstTick
  <1>2. enriching /\ enriching' = FALSE /\ sinceTick' = 0
    BY DEF NextPlay
  <1>3. sinceTick \in Nat /\ sinceTick <= EnrichTime
    BY <1>2, ConstantFacts DEF IInv, TypeOK
  <1>4. PlayerTyped(len, p)
    <2>1. /\ p \in Nat /\ len \in Nat /\ played \in Nat
      BY <1>1, <1>3, ConstantFacts
    <2>2. /\ length' = len /\ from' = p /\ pos' = p + played /\ p + played <= len
          /\ playing' \in BOOLEAN /\ over' = FALSE
      BY <1>1 DEF FirstTick
    <2>3. pos' \in Nat /\ p <= pos' /\ pos' <= len
      BY <2>1, <2>2
    <2> QED
      BY <1>1, <1>2, <2>1, <2>2, <2>3 DEF PlayerTyped
  <1> QED
    BY <1>1, <1>2, <1>3, <1>4

LEMMA InvNextPlay ==
  ASSUME IInv, NextPlay
  PROVE  IInv'
  <1>1. PICK len \in Lengths, p \in FirstSeen, played \in 0..sinceTick :
          FirstTick(len, p, played) /\ PlayerTyped(len, p)
    BY NextPlayChoice
  <1>2. p \in Nat /\ sinceTick \in Nat /\ sinceTick <= EnrichTime
    BY <1>1, NextPlayChoice DEF PlayerTyped
  <1>3. CASE ThresholdMet(p + sinceTick, len)
    <2>1. p + sinceTick \in Nat /\ p + sinceTick <= p + EnrichTime
      BY <1>2, ConstantFacts
    <2>2. Submit(p + sinceTick)
      BY <1>1, <1>3 DEF FirstTick
    <2> QED
      BY <1>1, <1>3, <2>1, <2>2, SubmitKeeps
  <1>4. CASE ~ThresholdMet(p + sinceTick, len)
    <2>1. /\ phase' = "Waiting" /\ wait' = 0 /\ job' = "none" /\ curr' = 0 /\ age' = 0
          /\ accepted' = FALSE
      BY <1>1, <1>4 DEF FirstTick, NoJob
    <2>2. wait' \in 0..ScrobbleRetry /\ curr' \in Nat /\ age' \in Nat
      BY <2>1, ConstantFacts
    <2>3. accepted' \in BOOLEAN
      BY <2>1
    <2>5. TypeOK'
      BY <1>1, <2>1, <2>2, <2>3, PlayerTypes DEF TypeOK
    <2>4. QueuedPastThreshold' /\ CallingIsAccepted' /\ NotBeforeThreshold'
      BY <2>1 DEF QueuedPastThreshold, CallingIsAccepted, NotBeforeThreshold
    <2> QED
      BY <2>4, <2>5 DEF IInv
  <1> QED
    BY <1>3, <1>4

LEMMA InvStep == IInv /\ [Next]_vars => IInv'
  <1> SUFFICES ASSUME IInv, [Next]_vars PROVE IInv'
    OBVIOUS
  <1> USE DEF QueuedPastThreshold, CallingIsAccepted, NotBeforeThreshold, ThresholdMet, Earned,
              Warranted
  <1>1. CASE Pause
    BY <1>1 DEF Pause, attempt, IInv, TypeOK
  <1>2. CASE Skip
    BY <1>2 DEF Skip, attempt, IInv, TypeOK
  <1>3. CASE PollNext
    <2>1. sinceTick' \in 0..(IF enriching' THEN EnrichTime ELSE Sleep + CycleTime)
      BY <1>3, ConstantFacts DEF PollNext
    <2> QED
      BY <1>3, <2>1 DEF PollNext, player, attempt, IInv, TypeOK
  <1>4. CASE Call
    <2>1. /\ job = "queued" /\ job' \in {"calling", "answered"} /\ accepted' \in BOOLEAN
          /\ curr' = 0 /\ age' = 0
          /\ UNCHANGED <<length, pos, playing, over, enriching, sinceTick, from, phase, wait>>
      BY <1>4 DEF Call, player, GatePasses
    <2>2. TypeOK'
      BY <2>1 DEF IInv, TypeOK
    <2>3. QueuedPastThreshold' /\ CallingIsAccepted' /\ NotBeforeThreshold'
      BY <1>4, <2>1 DEF Call, IInv
    <2> QED
      BY <2>2, <2>3 DEF IInv
  <1>5. CASE Answer
    BY <1>5 DEF Answer, player, IInv, TypeOK
  <1>6. CASE UNCHANGED vars
    BY <1>6 DEF vars, player, attempt, IInv, TypeOK
  <1> QED
    BY <1>1, <1>2, <1>3, <1>4, <1>5, <1>6, InvSecond, InvTick, InvNextPlay DEF Next

(* Every variable keeps its type; an InFlight slot has exactly one attempt *)
(* outstanding, and a Done one was accepted.                               *)
THEOREM WindowTypes == Spec => []TypeOK
  <1>1. IInv => TypeOK
    BY DEF IInv
  <1> QED
    BY <1>1, InvInit, InvStep, PTL DEF Spec

(* Nothing is scrobbled that was not played to the driver's threshold, but *)
(* for a song found less than an enrichment before it: for every set of    *)
(* songs, of positions they are found at and of delays, with the player    *)
(* paused or playing during the enrichment, in the queue and between.      *)
THEOREM QualifiedOnly == Spec => []NotBeforeThreshold
  <1>1. IInv => NotBeforeThreshold
    BY DEF IInv
  <1> QED
    BY <1>1, InvInit, InvStep, PTL DEF Spec

(* Where the lengths of the two rules agree, Last.fm's never refuses what  *)
(* the driver's lets through.                                              *)
THEOREM NeverRefused == Spec => []FirstAskPasses
  <1>1. Init => FirstAskPasses
    BY DEF Init, FirstAskPasses
  <1>2. IInv /\ FirstAskPasses /\ [Next]_vars => FirstAskPasses'
    <2> SUFFICES ASSUME IInv, FirstAskPasses, [Next]_vars, AgreeingLength'
                 PROVE  wait' = 0 /\ (job' = "answered" => accepted')
      BY DEF FirstAskPasses
    <2>1. CASE NextPlay
      BY <2>1 DEF NextPlay, Submit, NoJob
    <2>2. CASE length' = length
      <3>1. /\ AgreeingLength /\ wait = 0 /\ (job = "answered" => accepted)
            /\ length \in Nat /\ curr \in Nat
        BY <2>2, ConstantFacts DEF AgreeingLength, FirstAskPasses, IInv, TypeOK
      <3>2. CASE Tick
        BY <3>1, <3>2 DEF Tick, Drained, Submit, NoJob, attempt
      <3>3. CASE Call
        <4>1. GatePasses(curr, length)
          BY <3>1, <3>3, RulesAgree DEF Call, IInv, QueuedPastThreshold, AgreeingLength
        <4> QED
          BY <3>1, <3>3, <4>1 DEF Call
      <3>4. CASE Answer
        BY <3>1, <3>4 DEF Answer, IInv, CallingIsAccepted
      <3>5. CASE Second
        BY <3>1, <3>5 DEF Second
      <3>6. CASE Pause \/ Skip \/ PollNext \/ UNCHANGED vars
        BY <3>1, <3>6 DEF Pause, Skip, PollNext, vars, attempt
      <3> QED
        BY <2>2, <3>2, <3>3, <3>4, <3>5, <3>6, <2>1 DEF Next
    <2> QED
      BY <2>1, <2>2 DEF Next, Second, Pause, Skip, Tick, PollNext, Call, Answer, player, vars
  <1> QED
    BY <1>1, <1>2, InvInit, InvStep, PTL DEF Spec

-----------------------------------------------------------------------------
(* How far a song found in its first half is played without its attempt    *)
(* being accepted.  A tick comes at least every Sleep + CycleTime, and the *)
(* first one an enrichment after the song was found, so a first attempt is *)
(* late by no more than the longer of the two; one that follows a refusal  *)
(* is late by the refusal's own tick and the retry as well, and only a     *)
(* song longer than twice the cap is ever refused.                         *)
TickGap == Sleep + CycleTime

FirstGap == IF EnrichTime > TickGap THEN EnrichTime ELSE TickGap

Refusable == length > 2 * PlayCap

Late == IF Refusable THEN TickGap + ScrobbleRetry ELSE 0

(* The song had not reached its half the given seconds ago.                *)
BeforeHalf(ago) == 2 * (pos - ago) < length

Punctual ==
  /\ job = "queued" =>
       age <= QueueDelay /\ pos <= curr /\ BeforeHalf(FirstGap + Late + age)
  /\ job = "answered" /\ ~accepted => Refusable /\ BeforeHalf(sinceTick)
  /\ phase = "Waiting" /\ wait = 0 => BeforeHalf(sinceTick + Late)
  /\ phase = "Waiting" /\ wait > 0 =>
       Refusable /\ BeforeHalf(TickGap + ScrobbleRetry - wait)

LongPunctual == ~enriching /\ length > 2 * GateLength /\ 2 * from < length => Punctual

LEMMA LateFacts ==
  /\ Late \in Nat /\ Late <= TickGap + ScrobbleRetry
  /\ TickGap \in Nat /\ FirstGap \in Nat /\ TickGap <= FirstGap /\ EnrichTime <= FirstGap
  /\ EnrichTime \in Nat
  BY ConstantFacts DEF Late, TickGap, FirstGap

(* A song not yet qualified by the driver's rule is before its half.       *)
LEMMA NotMetIsBeforeHalf ==
  ASSUME NEW len \in Nat, NEW p \in Nat, len > 2 * GateLength, ~ThresholdMet(p, len)
  PROVE  2 * p < len
  BY ConstantFacts, DelaysAssumption DEF ThresholdMet

(* What Last.fm refuses is a song of more than twice the cap, before its   *)
(* half.                                                                   *)
LEMMA RefusedIsBeforeHalf ==
  ASSUME NEW len \in Nat, NEW p \in Nat, len > 2 * GateLength, ThresholdMet(p, len),
         ~GatePasses(p, len)
  PROVE  2 * p < len /\ len > 2 * PlayCap
  BY ConstantFacts DEF ThresholdMet, GatePasses

LEMMA PunctualInit == Init => LongPunctual
  <1> SUFFICES ASSUME Init, length > 2 * GateLength, 2 * from < length PROVE Punctual
    BY DEF LongPunctual
  <1>1. length \in Nat /\ length > 0 /\ pos = 0 /\ sinceTick \in Nat
    BY ConstantFacts DEF Init
  <1>2. BeforeHalf(sinceTick + Late)
    BY <1>1, LateFacts DEF BeforeHalf
  <1> QED
    BY <1>2 DEF Init, Punctual

(* One step of a song that goes on being the one played.                   *)
LEMMA PunctualSameSong ==
  ASSUME IInv, LongPunctual, [Next]_vars, length' = length, length > 2 * GateLength,
         from' = from, 2 * from < length, ~enriching, ~enriching'
  PROVE  NextPlay \/ Punctual'
  <1>0. /\ length \in Nat /\ pos \in Nat /\ curr \in Nat /\ wait \in Nat /\ age \in Nat
        /\ sinceTick \in Nat /\ sinceTick <= TickGap /\ wait <= ScrobbleRetry
        /\ job \in {"none", "queued", "calling", "answered"} /\ accepted \in BOOLEAN
        /\ (phase = "InFlight" <=> job # "none")
        /\ Late \in Nat /\ TickGap \in Nat /\ Late <= TickGap + ScrobbleRetry
        /\ FirstGap \in Nat /\ TickGap <= FirstGap /\ ScrobbleRetry \in Nat
    BY ConstantFacts, LateFacts DEF IInv, TypeOK, TickGap
  <1>1. Punctual
    BY DEF LongPunctual
  <1>2. Late' = Late /\ (Refusable' <=> Refusable) /\ (Refusable => Late = TickGap + ScrobbleRetry)
    BY DEF Late, Refusable
  <1>3. CASE Second
    <2>1. /\ sinceTick' = sinceTick + 1 /\ (pos' = pos \/ pos' = pos + 1)
          /\ (job = "queued" => age < QueueDelay /\ age' = age + 1 /\ curr' = curr + 1)
          /\ job' = job /\ phase' = phase /\ accepted' = accepted
          /\ wait' = (IF wait > 0 THEN wait - 1 ELSE 0)
      BY <1>3 DEF Second
    <2>2. job' = "queued" =>
            age' <= QueueDelay /\ pos' <= curr' /\ BeforeHalf(FirstGap + Late + age)'
      BY <1>0, <1>1, <1>2, <2>1, ConstantFacts DEF Punctual, BeforeHalf
    <2>3. job' = "answered" /\ ~accepted' => Refusable' /\ BeforeHalf(sinceTick)'
      BY <1>0, <1>1, <1>2, <2>1 DEF Punctual, BeforeHalf
    <2>4. phase' = "Waiting" /\ wait' = 0 => BeforeHalf(sinceTick + Late)'
      BY <1>0, <1>1, <1>2, <2>1 DEF Punctual, BeforeHalf
    <2>5. phase' = "Waiting" /\ wait' > 0 =>
            Refusable' /\ BeforeHalf(TickGap + ScrobbleRetry - wait)'
      BY <1>0, <1>1, <1>2, <2>1 DEF Punctual, BeforeHalf, TickGap
    <2> QED
      BY <2>2, <2>3, <2>4, <2>5 DEF Punctual
  <1>4. CASE Tick
    <2>1. sinceTick' = 0 /\ pos' = pos
      BY <1>4 DEF Tick, player
    <2>2. CASE Drained /\ NoJob /\ accepted' = accepted
               /\ phase' = (IF accepted THEN "Done" ELSE "Waiting")
               /\ wait' = (IF accepted THEN 0 ELSE ScrobbleRetry)
      <3>1. job' = "none" /\ job = "answered"
        BY <2>2 DEF NoJob, Drained
      <3>2. CASE accepted
        BY <2>2, <3>1, <3>2 DEF Punctual
      <3>3. CASE ~accepted
        <4>1. Refusable /\ BeforeHalf(sinceTick)
          BY <1>1, <3>1, <3>3 DEF Punctual
        <4>2. 2 * (pos - TickGap) < length
          BY <1>0, <4>1 DEF BeforeHalf
        <4>3. wait' = ScrobbleRetry /\ phase' = "Waiting"
          BY <2>2, <3>3
        <4>4. BeforeHalf(TickGap + ScrobbleRetry - wait)'
          BY <1>0, <2>1, <4>2, <4>3 DEF BeforeHalf, TickGap
        <4>5. wait' = 0 => BeforeHalf(sinceTick + Late)'
          BY <1>0, <1>2, <2>1, <4>1, <4>2 DEF BeforeHalf
        <4> QED
          BY <1>2, <3>1, <4>1, <4>4, <4>5 DEF Punctual
      <3> QED
        BY <3>2, <3>3
    <2>3. CASE Due /\ Submit(pos)
      <3>1. /\ job' = "queued" /\ phase' = "InFlight" /\ curr' = pos /\ age' = 0
            /\ phase = "Waiting" /\ wait = 0
        BY <2>3 DEF Due, Submit
      <3>2. BeforeHalf(FirstGap + Late + age)'
        BY <1>0, <1>1, <1>2, <2>1, <3>1 DEF Punctual, BeforeHalf
      <3> QED
        BY <1>0, <2>1, <3>1, <3>2, ConstantFacts DEF Punctual
    <2>4. CASE ~Drained /\ ~Due /\ UNCHANGED attempt
      <3>1. UNCHANGED <<phase, wait, job, curr, age, accepted>> /\ job # "answered"
        BY <1>0, <2>4 DEF attempt, Drained
      <3>2. phase' = "Waiting" /\ wait' = 0 => BeforeHalf(sinceTick + Late)'
        <4> SUFFICES ASSUME phase = "Waiting", wait = 0 PROVE BeforeHalf(sinceTick + Late)'
          BY <3>1
        <4>1. 2 * pos < length
          BY <1>0, <2>4, NotMetIsBeforeHalf DEF Due
        <4> QED
          BY <1>0, <1>2, <2>1, <4>1 DEF BeforeHalf
      <3> QED
        BY <1>0, <1>1, <1>2, <2>1, <3>1, <3>2 DEF Punctual, BeforeHalf
    <2> QED
      BY <1>4, <2>2, <2>3, <2>4 DEF Tick
  <1>5. CASE Call
    <2>1. /\ job = "queued" /\ phase = "InFlight" /\ UNCHANGED <<pos, sinceTick, phase, wait>>
          /\ job' = (IF GatePasses(curr, length) THEN "calling" ELSE "answered")
          /\ accepted' = GatePasses(curr, length)
      BY <1>0, <1>5 DEF Call, player
    <2>2. CASE GatePasses(curr, length)
      BY <2>1, <2>2 DEF Punctual
    <2>3. CASE ~GatePasses(curr, length)
      <3>1. 2 * curr < length /\ length > 2 * PlayCap
        BY <1>0, <2>1, <2>3, RefusedIsBeforeHalf DEF IInv, QueuedPastThreshold
      <3>2. Refusable' /\ BeforeHalf(sinceTick)'
        BY <1>0, <1>1, <1>2, <2>1, <3>1 DEF Punctual, BeforeHalf, Refusable
      <3> QED
        BY <2>1, <2>3, <3>2 DEF Punctual
    <2> QED
      BY <2>2, <2>3
  <1>6. CASE Answer
    BY <1>6 DEF Answer, player, IInv, TypeOK, CallingIsAccepted, Punctual
  <1>7. CASE Pause \/ Skip \/ PollNext \/ UNCHANGED vars
    BY <1>1, <1>2, <1>7 DEF PollNext, Pause, Skip, vars, player, attempt, Punctual, BeforeHalf, TickGap
  <1> QED
    BY <1>3, <1>4, <1>5, <1>6, <1>7 DEF Next

(* The first tick of a song that was found before its half.                *)
LEMMA PunctualNextPlay ==
  ASSUME IInv, NextPlay, length' > 2 * GateLength, 2 * from' < length'
  PROVE  Punctual'
  <1>1. PICK len \in Lengths, p \in FirstSeen, played \in 0..sinceTick :
          FirstTick(len, p, played) /\ PlayerTyped(len, p)
    BY NextPlayChoice
  <1>2. /\ sinceTick' = 0 /\ sinceTick \in Nat /\ sinceTick <= EnrichTime
        /\ len \in Nat /\ p \in Nat /\ played \in Nat /\ played <= sinceTick
        /\ 2 * p < len /\ length' = len /\ pos' = p + played
    BY <1>1, NextPlayChoice, ConstantFacts DEF FirstTick, PlayerTyped
  <1>3. PICK late \in Nat : Late' = late
    BY ConstantFacts DEF Late, TickGap
  <1>4. CASE ThresholdMet(p + sinceTick, len)
    <2>1. phase' = "InFlight" /\ job' = "queued" /\ curr' = p + sinceTick /\ age' = 0
      BY <1>1, <1>4 DEF FirstTick, Submit
    <2>2. BeforeHalf(FirstGap + Late + age)'
      <3>1. FirstGap' = FirstGap
        BY DEF FirstGap, TickGap
      <3> QED
        BY <1>2, <1>3, <2>1, <3>1, LateFacts DEF BeforeHalf
    <2>3. age' <= QueueDelay /\ pos' <= curr'
      BY <1>2, <2>1, ConstantFacts
    <2> QED
      BY <2>1, <2>2, <2>3 DEF Punctual
  <1>5. CASE ~ThresholdMet(p + sinceTick, len)
    <2>1. phase' = "Waiting" /\ wait' = 0 /\ job' = "none"
      BY <1>1, <1>5 DEF FirstTick, NoJob
    <2>2. BeforeHalf(sinceTick + Late)'
      <3>1. p + sinceTick \in Nat /\ len > 2 * GateLength
        BY <1>2
      <3>2. 2 * (p + sinceTick) < len
        BY <1>2, <1>5, <3>1, NotMetIsBeforeHalf
      <3>3. p + played \in Nat /\ 2 * (p + played) < len
        BY <1>2, <3>2
      <3> QED
        BY <1>2, <1>3, <3>3 DEF BeforeHalf
    <2> QED
      BY <2>1, <2>2 DEF Punctual
  <1> QED
    BY <1>4, <1>5

LEMMA PunctualStep == IInv /\ LongPunctual /\ [Next]_vars => LongPunctual'
  <1> SUFFICES ASSUME IInv, LongPunctual, [Next]_vars, ~enriching',
                      length' > 2 * GateLength, 2 * from' < length'
               PROVE  Punctual'
    BY DEF LongPunctual
  <1>1. CASE NextPlay
    BY <1>1, PunctualNextPlay
  <1>2. CASE ~NextPlay
    <2>1. length' = length /\ from' = from /\ enriching' = enriching
      BY <1>2 DEF Next, Second, Pause, Skip, Tick, PollNext, Call, Answer, player, vars
    <2> QED
      BY <1>2, <2>1, PunctualSameSong
  <1> QED
    BY <1>1, <1>2

(* None of the ways an attempt can be late lasts to the end of the song.   *)
LEMMA PlayedOutIsAccepted ==
  ASSUME IInv, LongPunctual, ~enriching, pos = length, length > 2 * GateLength,
         2 * from < length
  PROVE  accepted
  <1> SUFFICES ASSUME ~accepted PROVE FALSE
    OBVIOUS
  <1>0. /\ length \in Nat /\ wait \in Nat /\ age \in Nat /\ sinceTick \in Nat
        /\ sinceTick <= TickGap /\ TickGap \in Nat /\ FirstGap \in Nat /\ TickGap <= FirstGap
        /\ ScrobbleRetry \in Nat /\ PlayCap \in Nat /\ GateLength \in Nat /\ QueueDelay \in Nat
    BY ConstantFacts, LateFacts DEF IInv, TypeOK, TickGap
  <1>1. Punctual
    BY DEF LongPunctual
  <1>2. /\ FirstGap + QueueDelay <= GateLength
        /\ FirstGap + TickGap + ScrobbleRetry + QueueDelay <= PlayCap
    BY ConstantFacts, DelaysAssumption DEF TickGap, FirstGap
  <1>3. /\ Refusable => length > 2 * PlayCap /\ Late = TickGap + ScrobbleRetry
        /\ ~Refusable => Late = 0
    BY DEF Refusable, Late
  <1>4. CASE phase = "Waiting" /\ wait = 0
    BY <1>0, <1>1, <1>2, <1>3, <1>4 DEF Punctual, BeforeHalf
  <1>5. CASE phase = "Waiting" /\ wait > 0
    BY <1>0, <1>1, <1>2, <1>3, <1>5 DEF Punctual, BeforeHalf
  <1>6. CASE job = "queued"
    BY <1>0, <1>1, <1>2, <1>3, <1>6 DEF Punctual, BeforeHalf
  <1>7. CASE job = "answered"
    BY <1>0, <1>1, <1>2, <1>3, <1>7 DEF Punctual, BeforeHalf
  <1> QED
    BY <1>0, <1>4, <1>5, <1>6, <1>7 DEF IInv, TypeOK, CallingIsAccepted

(* A song longer than a minute that is found in its first half and played  *)
(* to its end is scrobbled, for any delays that are short against the      *)
(* rules, however long it was paused.                                      *)
THEOREM PlayedThrough == Spec => PlayedThroughIsScrobbled
  <1>1. IInv /\ LongPunctual /\ [Next]_vars =>
          [PollNext /\ pos = length /\ length > 2 * GateLength /\ 2 * from < length
             => accepted]_vars
    BY PlayedOutIsAccepted DEF PollNext
  <1> QED
    BY <1>1, InvInit, InvStep, PunctualInit, PunctualStep, PTL
       DEF Spec, PlayedThroughIsScrobbled
=============================================================================
