------------------------------- MODULE Outbox -------------------------------
(***************************************************************************)
(* What the game says, on its way to the clients: Player::write, the two   *)
(* states of a player (player.cpp), PlayersController::write and           *)
(* ClientManager::send_to_client (clientManager.cpp).                      *)
(*                                                                         *)
(* A message is put into the queue of everybody it is for as soon as it is *)
(* said; the last phase of a tick writes every queue to its socket.  The   *)
(* sockets do not block and nobody looks at the result of write(): what    *)
(* finds no room is gone, and a peer that is gone is not noticed.          *)
(*                                                                         *)
(* The module has the phases of a tick that say something or change who    *)
(* is connected: accept, hangups (the end of read_clients), game (commands *)
(* and heartbeats, then remove_players) and write.  Who is in which room,  *)
(* and so who hears what, is left open.  A message is a number of parts,   *)
(* the chunks in which a socket may take it; log numbers all parts.        *)
(*                                                                         *)
(* Of the kernel: a socket holds SockBuf parts, in order.  A client that   *)
(* goes away closes the connection, or resets it if it has not read all;   *)
(* what is sent to it later resets it as well.  A reset is reported once,  *)
(* by the next call, unless the end of the data was reported first; the    *)
(* connection is broken then, and writing to it raises SIGPIPE, which the  *)
(* program does not handle.                                                *)
(***************************************************************************)
EXTENDS Naturals, FiniteSets, Sequences, SequencesExt

CONSTANTS
    Player,     \* the players
    SockBuf,    \* how many parts a socket holds
    MaxLen,     \* parts of the longest message
    MaxLog      \* how many parts are said: the bound of the model

ASSUME OutboxAssumption == /\ IsFiniteSet(Player)
                           /\ SockBuf \in Nat \ {0}
                           /\ MaxLen \in Nat \ {0}
                           /\ MaxLog \in Nat

VARIABLES
    log,            \* history: whom each part said was for
    phase,          \* where the loop of main() is
    todo,           \* the players the walk of write() has still to visit
    state,          \* player |-> "out", "Normal", "Disconnected" or "leaving"
    msg_to_write,   \* player |-> its queue, each message its first and last part
    wire,           \* player |-> the parts in its socket and not yet read
    peer,           \* player |-> its client: "open", "closed", "reset", "broken"
    shown,          \* history: the last part its client read, or when it joined
    cut,            \* history: the players whose socket once lacked room
    status          \* "running", "aborted", or "killed" by SIGPIPE

queueVars == <<log, msg_to_write>>

netVars == <<wire, peer, shown, cut>>

outboxVars == <<queueVars, netVars, phase, todo, state, status>>

OutboxInit == /\ log = <<>>
              /\ phase = "accept"
              /\ todo = <<>>
              /\ state = [p \in Player |-> "out"]
              /\ msg_to_write = [p \in Player |-> <<>>]
              /\ wire = [p \in Player |-> <<>>]
              /\ peer = [p \in Player |-> "closed"]
              /\ shown = [p \in Player |-> 0]
              /\ cut = {}
              /\ status = "running"

-----------------------------------------------------------------------------
(***************************************************************************)
(* Saying something.                                                       *)
(***************************************************************************)
In(ph) == phase = ph /\ status = "running"

InGame == {p \in Player : state[p] # "out"}

Fits(k) == Len(log) + k <= MaxLog

Said(S, k) == log' = log \o [i \in 1..k |-> S]

\* StatePlayerDisconnected::write does nothing.  A player that is leaving is
\* still in the normal state: it has its prompt coming.
Writes(p) == state[p] \in {"Normal", "leaving"}

\* The message of k parts for the players of S.
write(S, k) ==
    /\ Fits(k)
    /\ Said(S, k)
    /\ msg_to_write' = [p \in Player |->
          IF p \in S /\ Writes(p)
          THEN Append(msg_to_write[p], [first |-> Len(log) + 1, last |-> Len(log) + k])
          ELSE msg_to_write[p]]

\* A broadcast to those of S; to nobody, when nobody else is in the room.
broadcast(S) == IF S = {} THEN UNCHANGED queueVars
                          ELSE \E k \in 1..MaxLen : write(S, k)

\* A command or a blow says something: an answer, a tell, a broadcast.
Tell(S) == /\ In("game")
           /\ S # {}
           /\ broadcast(S)
           /\ UNCHANGED <<netVars, phase, todo, state, status>>

-----------------------------------------------------------------------------
(***************************************************************************)
(* accept: a new Player has an empty queue.  A login over a live           *)
(* connection keeps the object and its queue; both clients are told past   *)
(* the queue, straight to their sockets.                                   *)
(***************************************************************************)
\* What becomes of the process when it writes to the socket of p.
outcome(p) == IF peer[p] = "broken" THEN "killed" ELSE "running"

NobodyArrives == /\ In("accept")
                 /\ phase' = "hangups"
                 /\ UNCHANGED <<queueVars, netVars, todo, state, status>>

Login(p) ==
    /\ In("accept")
    /\ state[p] # "Normal"
    /\ state' = [state EXCEPT ![p] = "Normal"]
    /\ msg_to_write' = [msg_to_write EXCEPT ![p] = <<>>]
    /\ wire' = [wire EXCEPT ![p] = <<>>]
    /\ peer' = [peer EXCEPT ![p] = "open"]
    /\ shown' = [shown EXCEPT ![p] = Len(log)]
    /\ cut' = cut \ {p}
    /\ phase' = "hangups"
    /\ UNCHANGED <<log, todo, status>>

Reconnect(p) ==
    /\ In("accept")
    /\ state[p] = "Normal"
    /\ Fits(1)
    /\ Said({p}, 1)
    /\ wire' = [wire EXCEPT ![p] = <<Len(log) + 1>>]
    /\ peer' = [peer EXCEPT ![p] = "open"]
    /\ shown' = [shown EXCEPT ![p] = Len(log)]
    /\ cut' = cut \ {p}
    /\ status' = outcome(p)
    /\ phase' = "hangups"
    /\ UNCHANGED <<msg_to_write, todo, state>>

-----------------------------------------------------------------------------
(***************************************************************************)
(* Leaving.  The connection is closed at once, the object goes at the end  *)
(* of the game phase, before anything is sent.                             *)
(***************************************************************************)
disconnect_client(p) == /\ wire' = [wire EXCEPT ![p] = <<>>]
                        /\ peer' = [peer EXCEPT ![p] = "closed"]
                        /\ UNCHANGED <<shown, cut>>

remove_player(p) == /\ state' = [state EXCEPT ![p] = "leaving"]
                    /\ \E S \in SUBSET (InGame \ {p}) : broadcast(S)
                    /\ disconnect_client(p)

become_statue(p) == /\ state' = [state EXCEPT ![p] = "Disconnected"]
                    /\ disconnect_client(p)
                    /\ UNCHANGED queueVars

\* The read of 0 bytes.
HangUp(p) == /\ In("hangups")
             /\ state[p] = "Normal" /\ peer[p] \in {"closed", "broken"}
             /\ remove_player(p) \/ become_statue(p)
             /\ UNCHANGED <<phase, todo, status>>

\* The read of -1, which nobody catches (see ReadError of module Server).
ReadError(p) == /\ In("hangups")
                /\ state[p] = "Normal" /\ peer[p] = "reset"
                /\ status' = "aborted"
                /\ UNCHANGED <<queueVars, netVars, phase, todo, state>>

AllHungUp == /\ In("hangups")
             /\ phase' = "game"
             /\ UNCHANGED <<queueVars, netVars, todo, state, status>>

Salir(p) == /\ In("game")
            /\ state[p] = "Normal"
            /\ remove_player(p)
            /\ UNCHANGED <<phase, todo, status>>

\* Faulty variant: those that leave are removed, all queues with them.
remove_players_and_queues ==
    /\ In("game")
    /\ state' = [p \in Player |-> IF state[p] = "leaving" THEN "out" ELSE state[p]]
    /\ msg_to_write' = [p \in Player |-> <<>>]
    /\ phase' = "write"
    /\ todo' \in SetToSeqs(InGame')
    /\ UNCHANGED <<log, netVars, status>>

remove_players ==
    /\ In("game")
    /\ state' = [p \in Player |-> IF state[p] = "leaving" THEN "out" ELSE state[p]]
    /\ msg_to_write' = [p \in Player |->
                           IF state[p] = "leaving" THEN <<>> ELSE msg_to_write[p]]
    /\ phase' = "write"
    /\ todo' \in SetToSeqs(InGame')
    /\ UNCHANGED <<log, netVars, status>>

-----------------------------------------------------------------------------
(***************************************************************************)
(* write: PlayersController::write goes through the players in any order.  *)
(* StatePlayerNormal::send_info takes message after message off the queue, *)
(* whatever became of the write; the send_info of a statue does nothing.   *)
(***************************************************************************)
Visiting(p) == In("write") /\ todo # <<>> /\ p = Head(todo)

length(m) == m.last + 1 - m.first

\* Faulty variant: what finds no room is kept for the socket.
taken_whole(p, m) == [i \in 1..length(m) |-> m.first + i - 1]

\* What the socket still takes of message m.
taken(p, m) == LET free == SockBuf - Len(wire[p])
               IN  [i \in 1..(IF length(m) <= free THEN length(m) ELSE free)
                      |-> m.first + i - 1]

\* Faulty variant: one message per player and tick.
SendOne(p) ==
    LET m == Head(msg_to_write[p]) IN
    /\ Visiting(p) /\ state[p] = "Normal" /\ msg_to_write[p] # <<>>
    /\ msg_to_write' = [msg_to_write EXCEPT ![p] = Tail(@)]
    /\ status' = outcome(p)
    /\ peer' = [peer EXCEPT ![p] = IF @ = "reset" THEN "broken" ELSE @]
    /\ IF peer[p] \in {"reset", "broken"} THEN UNCHANGED <<wire, cut>>
       ELSE /\ wire' = [wire EXCEPT ![p] = @ \o taken(p, m)]
            /\ cut' = IF Len(taken(p, m)) = length(m) THEN cut ELSE cut \cup {p}
    /\ todo' = Tail(todo)
    /\ UNCHANGED <<log, phase, state, shown>>

send_to_client(p) ==
    LET m == Head(msg_to_write[p]) IN
    /\ Visiting(p) /\ state[p] = "Normal" /\ msg_to_write[p] # <<>>
    /\ msg_to_write' = [msg_to_write EXCEPT ![p] = Tail(@)]
    /\ status' = outcome(p)
    /\ peer' = [peer EXCEPT ![p] = IF @ = "reset" THEN "broken" ELSE @]
    /\ IF peer[p] \in {"reset", "broken"} THEN UNCHANGED <<wire, cut>>
       ELSE /\ wire' = [wire EXCEPT ![p] = @ \o taken(p, m)]
            /\ cut' = IF Len(taken(p, m)) = length(m) THEN cut ELSE cut \cup {p}
    /\ UNCHANGED <<log, phase, todo, state, shown>>

\* Faulty variant: the walk ends at the first player with nothing to send.
SentStopping(p) == /\ Visiting(p)
                   /\ state[p] = "Disconnected" \/ msg_to_write[p] = <<>>
                   /\ todo' = <<>>
                   /\ UNCHANGED <<queueVars, netVars, phase, state, status>>

Sent(p) == /\ Visiting(p)
           /\ state[p] = "Disconnected" \/ msg_to_write[p] = <<>>
           /\ todo' = Tail(todo)
           /\ UNCHANGED <<queueVars, netVars, phase, state, status>>

AllSent == /\ In("write") /\ todo = <<>>
           /\ phase' = "accept"
           /\ UNCHANGED <<queueVars, netVars, todo, state, status>>

-----------------------------------------------------------------------------
(***************************************************************************)
(* The clients, at any time.                                               *)
(***************************************************************************)
ReadPart(p) == /\ peer[p] = "open" /\ wire[p] # <<>>
               /\ shown' = [shown EXCEPT ![p] = Head(wire[p])]
               /\ wire' = [wire EXCEPT ![p] = Tail(@)]
               /\ UNCHANGED <<queueVars, peer, cut, phase, todo, state, status>>

GoAway(p) == /\ peer[p] = "open"
             /\ peer' = [peer EXCEPT ![p] = IF wire[p] = <<>> THEN "closed" ELSE "reset"]
             /\ wire' = [wire EXCEPT ![p] = <<>>]
             /\ UNCHANGED <<queueVars, shown, cut, phase, todo, state, status>>

\* The answer to what is sent to a client that is gone.
Reset(p) == /\ peer[p] = "closed" /\ wire[p] # <<>>
            /\ peer' = [peer EXCEPT ![p] = "broken"]
            /\ wire' = [wire EXCEPT ![p] = <<>>]
            /\ UNCHANGED <<queueVars, shown, cut, phase, todo, state, status>>

-----------------------------------------------------------------------------
Loop == \/ NobodyArrives
        \/ AllHungUp
        \/ remove_players
        \/ AllSent
        \/ \E S \in SUBSET InGame : Tell(S)
        \/ \E p \in Player : \/ Login(p) \/ Reconnect(p)
                             \/ HangUp(p) \/ ReadError(p) \/ Salir(p)
                             \/ send_to_client(p) \/ Sent(p)

Client(p) == ReadPart(p) \/ GoAway(p) \/ Reset(p)

Dead == status # "running" /\ UNCHANGED outboxVars

OutboxNext == Loop \/ Dead \/ \E p \in Player : Client(p)

OutboxSpec == OutboxInit /\ [][OutboxNext]_outboxVars

\* The loop waits for nobody; a client that stays reads what it is sent.
FairOutboxSpec == /\ OutboxSpec
                  /\ WF_outboxVars(Loop)
                  /\ \A p \in Player : WF_outboxVars(ReadPart(p))

-----------------------------------------------------------------------------
(***************************************************************************)
(* Properties.                                                             *)
(***************************************************************************)
Message == [first : Nat, last : Nat]

parts(m) == m.first..m.last

\* The parts that wait in the queue of p.
queued(p) == UNION {parts(m) : m \in Range(msg_to_write[p])}

(***************************************************************************)
(* The type invariant.  A socket never holds more than it has room for.    *)
(***************************************************************************)
OutboxTypeOK ==
    /\ log \in Seq(SUBSET Player)
    /\ phase \in {"accept", "hangups", "game", "write"}
    /\ todo \in Seq(Player)
    /\ state \in [Player -> {"out", "Normal", "Disconnected", "leaving"}]
    /\ msg_to_write \in [Player -> Seq(Message)]
    /\ wire \in [Player -> Seq(Nat)]
    /\ \A p \in Player : Len(wire[p]) <= SockBuf
    /\ peer \in [Player -> {"open", "closed", "reset", "broken"}]
    /\ shown \in [Player -> Nat]
    /\ cut \subseteq Player
    /\ status \in {"running", "aborted", "killed"}

(***************************************************************************)
(* The clients see a chronicle (module Chronicle): everybody what it is    *)
(* told, in the one order in which it was said, nothing twice, nothing cut *)
(* out unless its socket lacked room, and nothing that was meant for an    *)
(* earlier connection of the same player, although the queue of a player   *)
(* outlives its connection.                                                *)
(***************************************************************************)
C == INSTANCE Chronicle WITH whole <- Player \ cut

SeesTheChronicle == C!ChronicleSpec

(***************************************************************************)
(* What a connected player has still to be shown is in its socket or in    *)
(* its queue, neither more nor less: no leaving, no statue and no login of *)
(* others takes a message from it or leaves one behind, and no queue holds *)
(* anything when a tick is over.                                           *)
(***************************************************************************)
NothingLost ==
    \A p \in Player :
        /\ state[p] = "Normal" /\ peer[p] \in {"open", "closed"} /\ p \notin cut =>
              C!Owed(p) = Range(wire[p]) \cup queued(p)
        /\ state[p] = "Normal" /\ phase = "accept" => msg_to_write[p] = <<>>

(***************************************************************************)
(* What is said to a player reaches its client, if the client stays and    *)
(* its socket has room.                                                    *)
(***************************************************************************)
Delivered ==
    \A p \in Player, n \in 1..MaxLog :
        n \in queued(p) ~> \/ shown[p] >= n
                           \/ p \in cut
                           \/ state[p] # "Normal" \/ peer[p] # "open"
                           \/ status # "running"

(***************************************************************************)
(* What clientManager.cpp:208 and playersController.cpp:137 say of a       *)
(* client that goes away: the game finds out by a read of 0 bytes and      *)
(* takes the player out of the game.  The code does not get that far when  *)
(* it has two messages for it: the first resets the connection, the second *)
(* raises SIGPIPE.                                                         *)
(***************************************************************************)
HangUpIsSurvived == status # "killed"

=============================================================================
