-------------------------- MODULE HeartbeatProofs --------------------------
(***************************************************************************)
(* A heart beats at most once per period, proved for every period, window, *)
(* width of the clock and length of ticks.  The invariant is strengthened  *)
(* by Armed: once the heart has beaten, can_jump is set again only past    *)
(* the window, and from there the clock does not get back into the window  *)
(* of the same period.                                                     *)
(***************************************************************************)
EXTENDS Heartbeat, TLAPS

Armed == beats = 1 /\ can_jump => elapsed >= 0 /\ ~InWindow(elapsed)

HeartInv == HeartTypeOK /\ OneBeatPerPeriod /\ Armed

-----------------------------------------------------------------------------
(***************************************************************************)
(* Adding less than a turn of the clock stays within its width.            *)
(***************************************************************************)
LEMMA AddStays ==
  ASSUME NEW e \in -Half..(Half - 1), NEW d \in 0..MaxTick
  PROVE  Add(e, d) \in -Half..(Half - 1)
  BY HeartAssumption DEF Add

(***************************************************************************)
(* The clock does not go back within a period: past the window of a period *)
(* it does not enter it again before the next one.                         *)
(***************************************************************************)
LEMMA WindowIsPast ==
  ASSUME NEW e \in -Half..(Half - 1), NEW d \in 0..MaxTick,
         e >= 0, ~InWindow(e), Period(Add(e, d)) = Period(e)
  PROVE  Add(e, d) >= 0 /\ ~InWindow(Add(e, d))
<1> DEFINE f == Add(e, d)
           start == HB_TIME * (e \div HB_TIME)
<1>1. f \in Int /\ e \in Int /\ HB_TIME \in Int /\ HB_TIME > 0
  BY AddStays, HeartAssumption
<1>2. e \div HB_TIME >= 0
  BY <1>1
<1>3. f >= 0 /\ f \div HB_TIME = e \div HB_TIME
  BY <1>1, <1>2 DEF Period
<1>4. f >= e
  BY <1>3, HeartAssumption DEF Add
<1>5. /\ e = start + (e % HB_TIME)
      /\ f = start + (f % HB_TIME)
      /\ start \in Int
  BY <1>1, <1>3
<1>6. f % HB_TIME >= e % HB_TIME
  <2> HIDE DEF start, f
  <2>1. e % HB_TIME \in Int /\ f % HB_TIME \in Int
    BY <1>1
  <2> QED BY <1>1, <1>4, <1>5, <2>1
<1>7. ~(e % HB_TIME < Window)
  BY DEF InWindow, Remainder
<1>8. e % HB_TIME \in Int /\ f % HB_TIME \in Int /\ Window \in Int
  BY <1>1, HeartAssumption
<1> HIDE DEF f
<1>9. ~(f % HB_TIME < Window)
  BY <1>6, <1>7, <1>8
<1> QED BY <1>3, <1>9 DEF InWindow, Remainder, f

LEMMA InitInv == HeartInit => HeartInv
  BY HeartAssumption DEF HeartInit, HeartInv, HeartTypeOK, OneBeatPerPeriod, Armed

(***************************************************************************)
(* One look keeps the invariant: a heart that beats has not beaten in this *)
(* period, and one that does not is armed only outside of the window.      *)
(***************************************************************************)
LEMMA LookInv ==
  ASSUME HeartInv, NEW d \in 0..MaxTick, Look(d)
  PROVE  HeartInv'
<1> DEFINE e == Add(elapsed, d)
           before == IF Period(e) = Period(elapsed) THEN beats ELSE 0
<1> USE DEF HeartInv
<1>1. elapsed \in -Half..(Half - 1) /\ e \in -Half..(Half - 1) /\ elapsed' = e
  BY AddStays DEF HeartTypeOK, Look
<1>2. before \in {0, 1} /\ beats \in {0, 1}
  BY DEF HeartTypeOK, OneBeatPerPeriod
<1>3. before = 1 /\ can_jump => e >= 0 /\ ~InWindow(e)
  BY <1>1, WindowIsPast DEF Armed
<1>4. ASSUME NEW x \in Int, x < 0
      PROVE  InWindow(x)
  <2>1. Remainder(x, HB_TIME) = -((-x) % HB_TIME)
    BY <1>4 DEF Remainder
  <2>2. (-x) % HB_TIME >= 0 /\ (-x) % HB_TIME \in Int
    BY HeartAssumption
  <2> QED BY <2>1, <2>2, HeartAssumption DEF InWindow
<1>5. CASE have_hb(e) /\ beats' = before + 1
  <2>1. before = 0
    BY <1>2, <1>3, <1>5 DEF have_hb
  <2>2. can_jump' = FALSE /\ beats' = 1
    BY <1>5, <2>1 DEF have_hb
  <2>3. Armed'
    BY <2>2 DEF Armed
  <2>4. elapsed' \in -Half..(Half - 1) /\ beats' \in Nat /\ beats' <= 1
    BY <1>1, <2>2
  <2>5. can_jump' \in BOOLEAN
    BY <2>2
  <2> QED BY <2>3, <2>4, <2>5 DEF HeartTypeOK, OneBeatPerPeriod
<1>6. CASE no_hb(e) /\ beats' = before
  <2>1. can_jump' = (can_jump \/ ~InWindow(e)) /\ ~(InWindow(e) /\ can_jump)
    BY <1>6 DEF no_hb
  <2>2. can_jump' => ~InWindow(elapsed')
    BY <1>1, <2>1
  <2>3. can_jump' => elapsed' >= 0
    BY <1>1, <1>4, <2>2
  <2>4. can_jump' \in BOOLEAN
    BY <2>1
  <2>5. Armed'
    BY <2>2, <2>3 DEF Armed, InWindow
  <2> QED BY <1>1, <1>2, <1>6, <2>4, <2>5 DEF HeartTypeOK, OneBeatPerPeriod
<1> QED BY <1>5, <1>6 DEF Look

LEMMA Invariance == HeartSpec => []HeartInv
<1>1. HeartInv /\ [HeartNext]_heartVars => HeartInv'
  <2> SUFFICES ASSUME HeartInv, [HeartNext]_heartVars
               PROVE  HeartInv'
    OBVIOUS
  <2>1. CASE HeartNext
    BY <2>1, LookInv DEF HeartNext
  <2>2. CASE UNCHANGED heartVars
    BY <2>2 DEF heartVars, HeartInv, HeartTypeOK, OneBeatPerPeriod, Armed, InWindow
  <2> QED BY <2>1, <2>2
<1> QED BY InitInv, <1>1, PTL DEF HeartSpec

-----------------------------------------------------------------------------
(***************************************************************************)
(* The difference of the clocks stays within its width.                    *)
(***************************************************************************)
THEOREM TypeCorrect == HeartSpec => []HeartTypeOK
  BY Invariance, PTL DEF HeartInv

(***************************************************************************)
(* No period has two beats, and neither has the negative half: two blows   *)
(* of one player are never dealt in one period.                            *)
(***************************************************************************)
THEOREM AtMostOneBeat == HeartSpec => []OneBeatPerPeriod
  BY Invariance, PTL DEF HeartInv

-----------------------------------------------------------------------------
(***************************************************************************)
(* No beat is lost where ticks are at most as long as the window and the   *)
(* window is at most half of a period.  Ready: a look past the window arms *)
(* the heart, so that it beats at the first look of the next period.       *)
(***************************************************************************)
Ready == elapsed >= 0 /\ ~InWindow(elapsed) => can_jump

SteadyInv == HeartInv /\ Ready /\ NoBeatLost

LEMMA Multiples ==
  ASSUME NEW h \in Nat \ {0}, NEW p \in Int, NEW q \in Int, p >= q + 1
  PROVE  h * p >= h * q + h
<1>1. h * (p - (q + 1)) >= 0
  BY SMT
<1>2. h * (p - (q + 1)) = h * p - (h * q + h)
  BY SMT
<1>3. h * p \in Int /\ h * q \in Int
  OBVIOUS
<1> QED BY <1>1, <1>2, <1>3

LEMMA Division ==
  ASSUME NEW h \in Nat \ {0}, NEW x \in Int
  PROVE  /\ x \div h \in Int
         /\ x % h \in 0..(h - 1)
         /\ x = h * (x \div h) + (x % h)
<1>1. x \div h \in Int
  OBVIOUS
<1>2. x % h \in 0..(h - 1)
  OBVIOUS
<1>3. x = h * (x \div h) + (x % h)
  OBVIOUS
<1> QED BY <1>1, <1>2, <1>3

(***************************************************************************)
(* Two instants no further apart than half a period, in different periods: *)
(* the first is late in its own, the second early.                         *)
(***************************************************************************)
LEMMA Neighbours ==
  ASSUME NEW h \in Nat \ {0}, NEW w \in Int, 2 * w <= h,
         NEW e \in Int, NEW f \in Int, e <= f, f <= e + w,
         NEW q \in Int, NEW p \in Int, p # q,
         NEW er \in 0..(h - 1), NEW fr \in 0..(h - 1),
         e = h * q + er, f = h * p + fr
  PROVE  er >= w /\ fr < w
<1>1. h * p \in Int /\ h * q \in Int
  OBVIOUS
<1> DEFINE hp == h * p
           hq == h * q
<1>2. e = hq + er /\ f = hp + fr /\ hp \in Int /\ hq \in Int
  BY <1>1
<1>3. q >= p + 1 => hq >= hp + h
  BY Multiples
<1>4. p >= q + 1 => hp >= hq + h
  BY Multiples
<1> HIDE DEF hp, hq
<1>5. p >= q + 1
  BY <1>2, <1>3
<1> QED BY <1>2, <1>4, <1>5

(***************************************************************************)
(* A short tick from one period to another starts past the window of the   *)
(* first and ends in the window of the second.                             *)
(***************************************************************************)
LEMMA NextWindow ==
  ASSUME MaxTick <= Window, 2 * Window <= HB_TIME,
         NEW e \in -Half..(Half - 1), NEW d \in 0..MaxTick,
         NEW f, f = Add(e, d),
         Period(f) >= 1, Period(f) # Period(e)
  PROVE  e >= 0 /\ ~InWindow(e) /\ InWindow(f)
<1>1. f \in Int /\ e \in Int /\ HB_TIME \in Nat \ {0} /\ Window \in Int
  BY AddStays, HeartAssumption
<1>2. f >= 0 /\ f \div HB_TIME >= 1
  BY DEF Period
<1>3. f >= HB_TIME
  <2>1. PICK p \in Int, fr \in 0..(HB_TIME - 1) : f = HB_TIME * p + fr /\ p >= 1
    BY <1>1, <1>2, Division
  <2>2. HB_TIME * p >= HB_TIME
    BY <1>1, <2>1, Multiples
  <2> QED BY <1>1, <2>1, <2>2
<1>4. f = e + d
  BY <1>1, <1>2, HeartAssumption DEF Add
<1>5. e >= 0
  BY <1>1, <1>3, <1>4, HeartAssumption
<1>6. f \div HB_TIME # e \div HB_TIME
  BY <1>2, <1>5 DEF Period
<1>7. e <= f /\ f <= e + Window
  BY <1>1, <1>4, HeartAssumption
<1>8. /\ e \div HB_TIME \in Int /\ f \div HB_TIME \in Int
      /\ e % HB_TIME \in 0..(HB_TIME - 1) /\ f % HB_TIME \in 0..(HB_TIME - 1)
      /\ e = HB_TIME * (e \div HB_TIME) + (e % HB_TIME)
      /\ f = HB_TIME * (f \div HB_TIME) + (f % HB_TIME)
  BY <1>1, Division
<1>9. e % HB_TIME >= Window /\ f % HB_TIME < Window
  BY <1>1, <1>6, <1>7, <1>8, Neighbours
<1>10. ~(e % HB_TIME < Window)
  BY <1>1, <1>8, <1>9
<1> QED BY <1>2, <1>5, <1>9, <1>10 DEF InWindow, Remainder

LEMMA SteadyLook ==
  ASSUME MaxTick <= Window, 2 * Window <= HB_TIME,
         SteadyInv, NEW d \in 0..MaxTick, Look(d)
  PROVE  SteadyInv'
<1> DEFINE e == Add(elapsed, d)
           before == IF Period(e) = Period(elapsed) THEN beats ELSE 0
<1>1. elapsed \in -Half..(Half - 1) /\ elapsed' = e /\ beats \in {0, 1}
  BY DEF SteadyInv, HeartInv, HeartTypeOK, OneBeatPerPeriod, Look
<1>2. HeartInv'
  BY LookInv DEF SteadyInv
<1>3. Ready'
  <2>1. CASE have_hb(e)
    BY <1>1, <2>1 DEF have_hb, Ready
  <2>2. CASE no_hb(e)
    <3>1. can_jump' = (can_jump \/ ~InWindow(elapsed'))
      BY <1>1, <2>2 DEF no_hb
    <3> QED BY <3>1 DEF Ready, InWindow
  <2> QED BY <2>1, <2>2 DEF Look
<1>4. Period(e) >= 1 => beats' = 1
  <2> SUFFICES ASSUME Period(e) >= 1
               PROVE  beats' = 1
    OBVIOUS
  <2>1. \/ have_hb(e) /\ beats' = before + 1
        \/ no_hb(e) /\ beats' = before
    BY DEF Look
  <2>2. CASE Period(e) = Period(elapsed)
    <3>1. before = 1
      BY <2>2 DEF SteadyInv, NoBeatLost
    <3>2. beats' \in Nat /\ beats' <= 1
      BY <1>2 DEF HeartInv, HeartTypeOK, OneBeatPerPeriod
    <3> QED BY <2>1, <3>1, <3>2
  <2>3. CASE Period(e) # Period(elapsed)
    <3>1. elapsed >= 0 /\ ~InWindow(elapsed) /\ InWindow(e)
      BY <1>1, <2>3, NextWindow
    <3>2. can_jump
      BY <3>1 DEF SteadyInv, Ready
    <3>3. ~no_hb(e)
      BY <3>1, <3>2 DEF no_hb
    <3>4. beats' = before + 1 /\ before = 0
      BY <2>1, <2>3, <3>3
    <3> QED BY <3>4
  <2> QED BY <2>2, <2>3
<1>5. NoBeatLost'
  BY <1>1, <1>4 DEF NoBeatLost, Period
<1> QED BY <1>2, <1>3, <1>5 DEF SteadyInv

(***************************************************************************)
(* With ticks no longer than the window a heart beats in every period but  *)
(* the first of a turn of the clock.                                       *)
(***************************************************************************)
THEOREM SteadyHeart ==
  ASSUME MaxTick <= Window, 2 * Window <= HB_TIME
  PROVE  HeartSpec => []NoBeatLost
<1>1. HeartInit => SteadyInv
  <2> SUFFICES ASSUME HeartInit
               PROVE  SteadyInv
    OBVIOUS
  <2>1. 0 % HB_TIME = 0 /\ 0 \div HB_TIME = 0
    BY HeartAssumption
  <2> QED BY <2>1, InitInv DEF HeartInit, SteadyInv, Ready, NoBeatLost, Period
<1>2. SteadyInv /\ [HeartNext]_heartVars => SteadyInv'
  <2> SUFFICES ASSUME SteadyInv, [HeartNext]_heartVars
               PROVE  SteadyInv'
    OBVIOUS
  <2>1. CASE HeartNext
    BY <2>1, SteadyLook DEF HeartNext
  <2>2. CASE UNCHANGED heartVars
    BY <2>2 DEF heartVars, SteadyInv, HeartInv, HeartTypeOK, OneBeatPerPeriod,
                Armed, Ready, NoBeatLost, InWindow, Period
  <2> QED BY <2>1, <2>2
<1>3. SteadyInv => NoBeatLost
  BY DEF SteadyInv
<1> QED BY <1>1, <1>2, <1>3, PTL DEF HeartSpec

=============================================================================
