------------------------------ MODULE MCCombat ------------------------------
(***************************************************************************)
(* Combat for TLC.  Four characters make fights of one against several and *)
(* chains of fights.  The blows are the lightest, 9, and the heaviest, 17; *)
(* two blows of 9 bring a life of 18 exactly to the boundary 0, and the    *)
(* next one below it.                                                      *)
(***************************************************************************)
EXTENDS Combat

=============================================================================
