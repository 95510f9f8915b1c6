----------------------------- MODULE Heartbeat -----------------------------
(***************************************************************************)
(* The heart of a player: Player::have_hb(), looked at once per tick.      *)
(*                                                                         *)
(* A heart should beat once per period of HB_TIME.  No timer is kept: the  *)
(* difference of the processor clock to its value at the birth of the      *)
(* player is reduced modulo HB_TIME, and the heart may beat while that is  *)
(* below 2% of a period; can_jump holds back a second beat of one window   *)
(* and is set again by a look outside of it.                               *)
(*                                                                         *)
(* clock_t and int have 32 bits: the difference runs from 0 to 2^31 - 1,   *)
(* on to -2^31 and up to 0 again, and % truncates towards zero.  In the    *)
(* negative half every remainder is below the window.                      *)
(***************************************************************************)
EXTENDS Integers

CONSTANTS
    HB_TIME,    \* the period, 3100000 microseconds
    Window,     \* 2% of it
    Half,       \* 2^31: differences are in -Half..Half-1
    MaxTick     \* longest time from one look to the next

ASSUME HeartAssumption == /\ HB_TIME \in Nat \ {0}
                          /\ Window \in 1..HB_TIME
                          /\ Half \in Nat \ {0}
                          /\ MaxTick \in 1..Half

VARIABLES
    elapsed,    \* clock() - hb_token at the last look
    can_jump,
    beats       \* history: beats in the present period

heartVars == <<elapsed, can_jump, beats>>

\* The first look is in the tick of the birth or later, so the clock is that
\* of the birth; a new player has not beaten yet.
HeartInit == elapsed = 0 /\ can_jump = TRUE /\ beats = 0

-----------------------------------------------------------------------------
\* Time d passes: 32-bit addition.
Add(e, d) == IF e + d < Half THEN e + d ELSE e + d - 2 * Half

\* The remainder of C++, which has the sign of the dividend.
Remainder(a, b) == IF a >= 0 THEN a % b ELSE -((-a) % b)

\* Faulty variant: the window is a single instant.
InWindowStrict(e) == Remainder(e, HB_TIME) = 0

InWindow(e) == Remainder(e, HB_TIME) < Window

\* The periods of a positive difference, and the negative half as one.
Period(e) == IF e >= 0 THEN e \div HB_TIME ELSE -1

\* Faulty variant: can_jump is not asked for.
have_hb_always(e) == InWindow(e) /\ can_jump' = FALSE

have_hb(e) == InWindow(e) /\ can_jump /\ can_jump' = FALSE

\* Faulty variant: can_jump stays as it is.
no_hb_forgetful(e) == ~(InWindow(e) /\ can_jump) /\ UNCHANGED can_jump

no_hb(e) == /\ ~(InWindow(e) /\ can_jump)
            /\ can_jump' = (can_jump \/ ~InWindow(e))

\* Time passes and the heart is looked at.
Look(d) ==
    LET e == Add(elapsed, d)
        before == IF Period(e) = Period(elapsed) THEN beats ELSE 0
    IN  /\ elapsed' = e
        /\ \/ have_hb(e) /\ beats' = before + 1
           \/ no_hb(e) /\ beats' = before

HeartNext == \E d \in 0..MaxTick : Look(d)

HeartSpec == HeartInit /\ [][HeartNext]_heartVars

\* The loop looks again and again, and uses processor time.
FairHeartSpec == HeartSpec /\ WF_heartVars(\E d \in 1..MaxTick : Look(d))

-----------------------------------------------------------------------------
(***************************************************************************)
(* Properties.                                                             *)
(***************************************************************************)

(***************************************************************************)
(* The type invariant: the difference never leaves its 32 bits.            *)
(***************************************************************************)
HeartTypeOK == /\ elapsed \in -Half..(Half - 1)
               /\ can_jump \in BOOLEAN
               /\ beats \in Nat

(***************************************************************************)
(* A heart beats at most once per period, however often and however late   *)
(* it is looked at; the whole negative half counts as one period, in which *)
(* the heart stands still for 2^31 microseconds of processor time.         *)
(***************************************************************************)
OneBeatPerPeriod == beats <= 1

(***************************************************************************)
(* Where no tick is longer than the window, no beat is lost: the heart has *)
(* beaten in every period but the first, which it misses when the clock    *)
(* has come round.                                                         *)
(***************************************************************************)
NoBeatLost == Period(elapsed) >= 1 => beats = 1

(***************************************************************************)
(* Nor does the heart ever stop for good then, although it stands still    *)
(* for half of every turn of the clock.                                    *)
(***************************************************************************)
KeepsBeating == []<><<can_jump /\ ~can_jump'>>_heartVars

=============================================================================
