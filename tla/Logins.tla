------------------------------- MODULE Logins -------------------------------
(***************************************************************************)
(* What the hand-over of logins promises: one queue of logins, each a      *)
(* connection together with the player that logged in on it.  Players      *)
(* enter the game in the order in which they were let in, one connection   *)
(* each; a login over a live connection takes its place.                   *)
(***************************************************************************)
EXTENDS Sequences

CONSTANTS Conn, PlayerId

VARIABLES
    queue,      \* logins on their way to the game
    playing     \* logins in the game

Session == [conn : Conn, player : PlayerId]

LoginsInit == queue = <<>> /\ playing = {}

LetIn(s) == queue' = Append(queue, s) /\ UNCHANGED playing

Enter == /\ queue # <<>>
         /\ playing' = {s \in playing : s.player # Head(queue).player}
                       \cup {Head(queue)}
         /\ queue' = Tail(queue)

Leave(s) == /\ s \in playing
            /\ playing' = playing \ {s}
            /\ UNCHANGED queue

LoginsNext == \/ \E s \in Session : LetIn(s) \/ Leave(s)
              \/ Enter

LoginsSpec == LoginsInit /\ [][LoginsNext]_<<queue, playing>>

=============================================================================
