------------------------------- MODULE MCWorld -------------------------------
(* Three rooms, every data base with at most two exits (to a room that is  *)
(* there, or to one that is not) and one room possibly without its zone.    *)
EXTENDS World

MCAddress == [r \in RoomId |-> 100 + 4 * r]

\* Row 5 would lie in a bucket of its own behind the rooms, row 8 in front of
\* room 1, where the walk over the table does not meet it any more.
Targets == RoomId \cup {5, 8}
Exits == {[r \in RoomId |-> [c \in Name |->
              IF <<r, c>> = e THEN t ELSE IF <<r, c>> = f THEN u ELSE 0]] :
          e, f \in RoomId \X Name, t, u \in Targets}
Zones == {[r \in RoomId |-> 1], [r \in RoomId |-> IF r = 2 THEN 2 ELSE 1]}
MCMaps == [exit : Exits, zone : Zones]

SmallSizes == <<2, 7>>
FullSizes == <<3, 7>>
=============================================================================
