------------------------------ MODULE MCHandoff ------------------------------
(***************************************************************************)
(* Handoff for TLC: as many descriptors as players and one for the login   *)
(* over a live connection, a connection more than that, so that the socket *)
(* fills up while everybody plays.                                         *)
(***************************************************************************)
EXTENDS Handoff

CONSTANT Players    \* how many players there are

MCPlayerId == 1..Players

MCFd == 5..(5 + Players)

=============================================================================
