------------------------------ MODULE MCSkills ------------------------------
(***************************************************************************)
(* Skills for TLC: words that tell the tables apart, the name registered   *)
(* twice, the HBSkill, the one that makes a player leave and one that is   *)
(* no command; as many addresses as there can be copies, a glance and a    *)
(* line for every player.                                                  *)
(***************************************************************************)
EXTENDS Skills

CONSTANTS Players, Words

MCPlayerId == 1..Players

MCCopy == 1..(2 * Players)

=============================================================================
