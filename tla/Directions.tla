------------------------------ MODULE Directions ------------------------------
(***************************************************************************)
(* The eight directions of src/domain/types.cpp: numbers 0 to 7 clockwise  *)
(* from the north, the names players and the data base use for them, and   *)
(* the words other players read.                                           *)
(***************************************************************************)
EXTENDS Integers, Sequences

Dir == 0..7

NORTH == 0
NORTHEAST == 1
EAST == 2
SOUTHEAST == 3
SOUTH == 4
SOUTHWEST == 5
WEST == 6
NORTHWEST == 7

\* The names, in the order of the columns of the table of rooms.
Column == <<"n", "ne", "e", "se", "s", "so", "o", "no">>

Name == {Column[i] : i \in 1..8}

Compass == [n |-> NORTH, ne |-> NORTHEAST, e |-> EAST, se |-> SOUTHEAST,
            s |-> SOUTH, so |-> SOUTHWEST, o |-> WEST, no |-> NORTHWEST]

\* Faulty variant: one of the eight tests is missing.
str2cardNoSo(e) == IF e \in Name \ {"so"} THEN Compass[e] ELSE NORTH

\* What is not a name ends in "return 0", which converts to the north.
str2card(e) == IF e \in Name THEN Compass[e] ELSE NORTH

\* Faulty variant: one pair is not turned round.
reverseHalf(d) ==
    <<SOUTH, SOUTHWEST, WEST, NORTHEAST, NORTH, NORTHEAST, EAST, SOUTHEAST>>[d + 1]

reverse(d) ==
    <<SOUTH, SOUTHWEST, WEST, NORTHWEST, NORTH, NORTHEAST, EAST, SOUTHEAST>>[d + 1]

\* The word after "se va hacia el" and after "llega del".
description(d) ==
    <<"norte", "noreste", "este", "sudeste",
      "sur", "suroeste", "oeste", "noroeste">>[d + 1]

Word == {description(d) : d \in Dir}
=============================================================================
