------------------------------- MODULE Fights -------------------------------
(***************************************************************************)
(* What the combat of the game promises, with nothing of how it is kept:   *)
(* fighters live and die, and a fight is a pair of living fighters that    *)
(* nothing but a death ends.  There is no flight, no truce and no leaving  *)
(* the game in the middle of a fight.  Combat implements this module.      *)
(***************************************************************************)

CONSTANT Fighter

VARIABLES
    living,     \* the fighters that are alive
    fights      \* the fights under way, each the set of its two fighters

fightVars == <<living, fights>>

Pairs == {f \in SUBSET Fighter : \E a, b \in Fighter : a # b /\ f = {a, b}}

FightsTypeOK == /\ living \subseteq Fighter
                /\ fights \subseteq Pairs

Fighting(a) == \E f \in fights : a \in f

FightsInit == /\ living = {}
              /\ fights = {}

Enter(a) == /\ a \notin living
            /\ living' = living \cup {a}
            /\ UNCHANGED fights

Leave(a) == /\ a \in living
            /\ ~Fighting(a)
            /\ living' = living \ {a}
            /\ UNCHANGED fights

Challenge(a, b) == /\ {a, b} \subseteq living
                   /\ a # b
                   /\ fights' = fights \cup {{a, b}}
                   /\ UNCHANGED living

\* A death ends every fight of the fallen at once.
Death(a) == /\ a \in living
            /\ Fighting(a)
            /\ living' = living \ {a}
            /\ fights' = {f \in fights : a \notin f}

FightsNext == \E a \in Fighter : \/ Enter(a)
                                 \/ Leave(a)
                                 \/ Death(a)
                                 \/ \E b \in Fighter : Challenge(a, b)

FightsSpec == FightsInit /\ [][FightsNext]_fightVars

=============================================================================
