------------------------------ MODULE MCServer ------------------------------
(***************************************************************************)
(* Server for TLC: a world of two rooms, north and south of each other.    *)
(* There are more addresses than players, for the objects of players that  *)
(* are replaced, and one descriptor more than there are players.           *)
(***************************************************************************)
EXTENDS Server

CONSTANT Objects    \* how many Player objects fit in memory

MCAddr == 1..Objects

MCFd == 5..(5 + Cardinality(PlayerId))

MCRoom == {"square", "tavern"}

MCDir == {"n"}

MCexits == [e \in MCRoom \X MCDir |-> IF e[1] = "square" THEN "tavern" ELSE "square"]

MCHomeRoom == [id \in PlayerId |-> "square"]

Brawl == [name : {"salir"}] \cup [name : {"move"}, dir : MCDir]
         \cup [name : {"matar"}, target : PlayerId]

Everything == Command \ {Glance}

\* The players are alike: ids are only compared.
Symmetry == Permutations(PlayerId)

=============================================================================
