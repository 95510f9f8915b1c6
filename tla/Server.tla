------------------------------- MODULE Server -------------------------------
(***************************************************************************)
(* The game process: the loop of server/main.cpp over ClientManager,       *)
(* PlayersController, Player, Room, SkillsActions and CombatController.    *)
(*                                                                         *)
(* One thread runs tick after tick; a tick is six phases:                  *)
(*                                                                         *)
(*   accept   at most one login is taken from the connection handler       *)
(*   read     one read of every ready socket, then the hang-ups are served *)
(*   exec     every player runs the commands of its queue                  *)
(*   hb       the heart of every player beats, or not: the blows           *)
(*   remove   the players that left are deleted                            *)
(*   write    the pending messages of every player are sent                *)
(*                                                                         *)
(* Leaving the game is therefore spread over a tick: whether a player may  *)
(* leave is asked in read or exec, its connection and its place in the     *)
(* room go at once, and its object goes in remove, after the commands and  *)
(* blows of everybody else.  The objects point at each other with raw      *)
(* pointers all the while.                                                 *)
(*                                                                         *)
(* What a client sends, when it hangs up, whether a heart beats in a tick  *)
(* (it depends on the processor clock) and the order of the hash tables    *)
(* are left open.  players_by_name is not a variable: names and ids are    *)
(* one to one in the data base and the two tables are written together.    *)
(* Messages are not modelled, only that writing one needs a connection.    *)
(***************************************************************************)
EXTENDS Combat, ClientManager, Sequences, SequencesExt

CONSTANTS
    Room,       \* the rooms of the world
    Dir,        \* the directions
    exits,      \* <<room, direction>> |-> room, where there is an exit
    HomeRoom,   \* the room the data base holds for a player id
    Sent        \* the commands clients send

\* A skill with its parameter.  "glance" stands for every command that only
\* writes messages: glance, sc, tell, decir, ficha, peleas, stoppeleas,
\* gcritico, formular.
Command == [name : {"glance", "salir", "golpear"}]
           \cup [name : {"matar"}, target : PlayerId]
           \cup [name : {"move"}, dir : Dir]

ASSUME ServerAssumption ==
    /\ Addr \subseteq Nat
    /\ DOMAIN exits \subseteq Room \X Dir
    /\ \A e \in DOMAIN exits : exits[e] \in Room
    /\ HomeRoom \in [PlayerId -> Room]
    /\ Sent \subseteq Command

VARIABLES
    obj,                \* live Player objects: address |-> its own fields
    characters_in,      \* room |-> the characters in it
    players,            \* player id |-> address of its Player
    players_to_remove,  \* Players that left in this tick
    clients_to_remove,  \* ids of the players whose client hung up
    phase,              \* where the loop of main() is
    todo,               \* what the loop of the phase has still to visit
    status              \* "running", or how the process ended

gameVars == <<obj, characters_in, players, players_to_remove>>

loopVars == <<clients_to_remove, phase, todo>>

serverVars == <<combatVars, clientVars, gameVars, loopVars, status>>

Player == [id : PlayerId, room : Room, state : {"Normal", "Disconnected"},
           skills_to_do : Seq(Command)]

Glance == [name |-> "glance"]

ServerInit == /\ CombatInit
              /\ ClientInit
              /\ obj = [a \in {} |-> {}]
              /\ characters_in = [r \in Room |-> {}]
              /\ players = [i \in {} |-> {}]
              /\ players_to_remove = <<>>
              /\ clients_to_remove = <<>>
              /\ phase = "accept"
              /\ todo = <<>>
              /\ status = "running"

-----------------------------------------------------------------------------
(***************************************************************************)
(* The loop.  Visit starts a phase that goes through S in any order.       *)
(***************************************************************************)
In(p) == phase = p /\ status = "running"

Visit(p, S) == phase' = p /\ todo' \in SetToSeqs(S)

GoTo(p) == phase' = p /\ todo' = <<>>

Visited == UNCHANGED phase /\ todo' = Tail(todo)

\* A step that follows a pointer: with a bad one the process is killed.
Follow(valid, Step) ==
    IF valid THEN Step /\ UNCHANGED status
             ELSE /\ status' = "segfault"
                  /\ UNCHANGED <<combatVars, clientVars, gameVars, loopVars>>

-----------------------------------------------------------------------------
(***************************************************************************)
(* accept: ClientManager::accept_new_clients, PlayersController::          *)
(* create_player.  The heap hands out any free address.                    *)
(***************************************************************************)
create_player(id, a) ==
    /\ NewCharacter(a)
    /\ obj' = Assign(obj, a, [id |-> id, room |-> HomeRoom[id],
                              state |-> "Normal", skills_to_do |-> <<Glance>>])
    /\ players' = Assign(players, id, a)
    /\ characters_in' = [characters_in EXCEPT ![HomeRoom[id]] = @ \cup {a}]
    /\ UNCHANGED players_to_remove

\* select() reports only descriptors within the bound it is given.
Selectable == {fd \in client_sockets : fd <= max_client_fd}

NobodyArrives == /\ In("accept")
                 /\ UNCHANGED <<combatVars, clientVars, gameVars, clients_to_remove, status>>
                 /\ Visit("read", Selectable')

\* Faulty variant: a player found in the game keeps its old object.
LoginToStatue(id, fd) == /\ In("accept")
                         /\ accept_new_client(id, fd)
                         /\ IF id \in DOMAIN players
                            THEN UNCHANGED <<combatVars, gameVars>>
                            ELSE \E a \in Addr : create_player(id, a)
                         /\ UNCHANGED <<clients_to_remove, status>>
                         /\ Visit("read", Selectable')

\* Faulty variant: every login creates a Player.
LoginAnew(id, fd) == /\ In("accept")
                     /\ accept_new_client(id, fd)
                     /\ \E a \in Addr : create_player(id, a)
                     /\ UNCHANGED <<clients_to_remove, status>>
                     /\ Visit("read", Selectable')

\* Whether a Player is created is decided by the table of connections.
Login(id, fd) == /\ In("accept")
                 /\ accept_new_client(id, fd)
                 /\ IF is_connected(id)
                    THEN UNCHANGED <<combatVars, gameVars>>
                    ELSE \E a \in Addr : create_player(id, a)
                 /\ UNCHANGED <<clients_to_remove, status>>
                 /\ Visit("read", Selectable')

-----------------------------------------------------------------------------
(***************************************************************************)
(* read: ClientManager::read_clients, parse_input, GMP_Procotol::parse.    *)
(* One read of at most one command per socket and tick.  A hang-up is only *)
(* noted down; the notes are served when every socket has been read.       *)
(***************************************************************************)
Reading(fd) == In("read") /\ todo # <<>> /\ fd = Head(todo)

\* Nothing to read, or not a command.
ReadNothing(fd) ==
    /\ Reading(fd)
    /\ Visited
    /\ UNCHANGED <<combatVars, clientVars, gameVars, clients_to_remove, status>>

\* Faulty variant: two commands are taken from one read.
push_command_twice(a, c) == obj' = [obj EXCEPT ![a].skills_to_do = @ \o <<c, c>>]

push_command(a, c) == obj' = [obj EXCEPT ![a].skills_to_do = Append(@, c)]

ReadCommand(fd, c) ==
    /\ Reading(fd)
    /\ Follow(players_ids[fd] \in DOMAIN players,
              /\ push_command(players[players_ids[fd]], c)
              /\ Visited
              /\ UNCHANGED <<combatVars, clientVars, characters_in, players,
                             players_to_remove, clients_to_remove>>)

ReadHangUp(fd) ==
    /\ Reading(fd)
    /\ clients_to_remove' = Cons(players_ids[fd], clients_to_remove)
    /\ Visited
    /\ UNCHANGED <<combatVars, clientVars, gameVars, status>>

\* read() returns -1, for instance when the connection was reset.  The value
\* goes on as a length and std::string throws; nobody catches.
ReadError(fd) ==
    /\ Reading(fd)
    /\ status' = "aborted"
    /\ UNCHANGED <<combatVars, clientVars, gameVars, loopVars>>

-----------------------------------------------------------------------------
(***************************************************************************)
(* PlayersController::remove_player and maybe_remove_player.  remove_client *)
(* of a player without connection reads through a null pointer.            *)
(***************************************************************************)
\* Faulty variant: the player that leaves is not taken out of its room.
LeaveInRoom(a) == /\ players_to_remove' = Append(players_to_remove, a)
                  /\ disconnect_client(obj[a].id)
                  /\ UNCHANGED <<combatVars, players, characters_in>>

remove_player(a) ==
    /\ players_to_remove' = Append(players_to_remove, a)
    /\ characters_in' = [characters_in EXCEPT ![obj[a].room] = @ \ {a}]
    /\ disconnect_client(obj[a].id)
    /\ UNCHANGED <<combatVars, players>>

\* Faulty variant: only the entry of the player is forgotten.
become_statue_with_socket(a) ==
    /\ obj' = [obj EXCEPT ![a].state = "Disconnected"]
    /\ clients' = Erase(clients, obj[a].id)
    /\ UNCHANGED <<client_sockets, players_ids, max_client_fd, open_fds>>
    /\ UNCHANGED <<combatVars, characters_in, players, players_to_remove>>

become_statue(a) ==
    /\ obj' = [obj EXCEPT ![a].state = "Disconnected"]
    /\ disconnect_client(obj[a].id)
    /\ UNCHANGED <<combatVars, characters_in, players, players_to_remove>>

\* Faulty variant: a fighter too leaves at once.
maybe_remove_any_player(a) == remove_player(a) /\ UNCHANGED obj

maybe_remove_player(a) ==
    \/ can_quit(a) /\ remove_player(a) /\ UNCHANGED obj
    \/ ~can_quit(a) /\ become_statue(a)

ServeHangUp ==
    /\ In("read") /\ todo = <<>> /\ clients_to_remove # <<>>
    /\ LET id == Head(clients_to_remove)
       IN  Follow(id \in DOMAIN players /\ is_connected(id),
                  /\ maybe_remove_player(players[id])
                  /\ clients_to_remove' = Tail(clients_to_remove)
                  /\ UNCHANGED <<phase, todo>>)

AllRead == /\ In("read") /\ todo = <<>> /\ clients_to_remove = <<>>
           /\ Visit("exec", DOMAIN players)
           /\ UNCHANGED <<combatVars, clientVars, gameVars, clients_to_remove, status>>

-----------------------------------------------------------------------------
(***************************************************************************)
(* exec: PlayersController::execute_commands, Player::flush_commands.  The *)
(* player at the head of todo runs its whole queue before the next one.    *)
(***************************************************************************)
Running(a) == /\ In("exec") /\ todo # <<>>
              /\ a = players[Head(todo)]

NextCommand(a) == Head(obj[a].skills_to_do)

Runs(a, name) == /\ Running(a)
                 /\ obj[a].skills_to_do # <<>>
                 /\ NextCommand(a).name = name

popped(a) == [obj EXCEPT ![a].skills_to_do = Tail(@)]

SameLoop == UNCHANGED loopVars

\* Faulty variant: one command per player and tick.
RunGlanceOnly(a) ==
    /\ Runs(a, "glance")
    /\ obj' = popped(a)
    /\ Visited
    /\ UNCHANGED <<combatVars, clientVars, characters_in, players, players_to_remove,
                   clients_to_remove, status>>

RunGlance(a) == /\ Runs(a, "glance")
                /\ obj' = popped(a)
                /\ SameLoop
                /\ UNCHANGED <<combatVars, clientVars, characters_in, players,
                               players_to_remove, status>>

\* The skill was cloned as a Skill and is used as the HBSkill it is not:
\* pass_hb() writes past its end.  Depending on the layout of the build the
\* write is harmless or corrupts the heap.
RunGolpear(a) == /\ Runs(a, "golpear")
                 /\ obj' = popped(a)
                 /\ status' \in {"running", "aborted"}
                 /\ SameLoop
                 /\ UNCHANGED <<combatVars, clientVars, characters_in, players,
                                players_to_remove>>

\* Faulty variant: the room left keeps the player.
move_player_added(a, from, dest) ==
    characters_in' = [characters_in EXCEPT ![dest] = @ \cup {a}]

move_player(a, from, dest) ==
    characters_in' = [characters_in EXCEPT ![from] = @ \ {a}, ![dest] = @ \cup {a}]

RunMove(a) ==
    /\ Runs(a, "move")
    /\ LET from == obj[a].room
           e == <<from, NextCommand(a).dir>>
       IN  IF e \in DOMAIN exits
           THEN /\ move_player(a, from, exits[e])
                /\ obj' = [popped(a) EXCEPT ![a].room = exits[e]]
           ELSE obj' = popped(a) /\ UNCHANGED characters_in
    /\ SameLoop
    /\ UNCHANGED <<combatVars, clientVars, players, players_to_remove, status>>

\* Faulty variant: the name is looked up among all players.
Anywhere(a, id) == {c \in Range(players) : obj[c].id = id}

\* Room::get_character_by_name(): the characters of that name in the room.
\* The set is ordered by address and the first is taken.
Here(a, id) == {c \in characters_in[obj[a].room] : obj[c].id = id}

\* Faulty variant: the command of a dead player is refused and not removed.
RunMatarOfTheLiving(a) ==
    /\ Runs(a, "matar")
    /\ is_alive(a)
    /\ LET found == Here(a, NextCommand(a).target)
       IN  IF found # {} /\ MayFight(a, Min(found))
           THEN StartFight(a, Min(found)) /\ UNCHANGED <<chars, pvs>>
           ELSE UNCHANGED combatVars
    /\ obj' = popped(a)
    /\ SameLoop
    /\ UNCHANGED <<clientVars, characters_in, players, players_to_remove, status>>

RunMatar(a) ==
    /\ Runs(a, "matar")
    /\ LET found == Here(a, NextCommand(a).target)
       IN  IF found # {} /\ MayFight(a, Min(found))
           THEN StartFight(a, Min(found)) /\ UNCHANGED <<chars, pvs>>
           ELSE UNCHANGED combatVars
    /\ obj' = popped(a)
    /\ SameLoop
    /\ UNCHANGED <<clientVars, characters_in, players, players_to_remove, status>>

RunSalir(a) ==
    /\ Runs(a, "salir")
    /\ \/ /\ can_quit(a)
          /\ Follow(is_connected(obj[a].id),
                    remove_player(a) /\ obj' = popped(a) /\ SameLoop)
       \/ /\ ~can_quit(a)
          /\ obj' = popped(a)
          /\ SameLoop
          /\ UNCHANGED <<combatVars, clientVars, characters_in, players,
                         players_to_remove, status>>

Flushed(a) ==
    /\ Running(a)
    /\ obj[a].skills_to_do = <<>>
    /\ Visited
    /\ UNCHANGED <<combatVars, clientVars, gameVars, clients_to_remove, status>>

AllExecuted == /\ In("exec") /\ todo = <<>>
               /\ Visit("hb", DOMAIN players)
               /\ UNCHANGED <<combatVars, clientVars, gameVars, clients_to_remove, status>>

-----------------------------------------------------------------------------
(***************************************************************************)
(* hb: PlayersController::hb, Player::hb_action.  Whether the heart of a   *)
(* player beats in this tick is decided by have_hb() from the clock.       *)
(***************************************************************************)
Beating(a) == In("hb") /\ todo # <<>> /\ a = players[Head(todo)]

\* Faulty variant: the opponents are not looked for in the room.
ReachableAnywhere(a) == in_combat[a]

Reachable(a) == in_combat[a] \cap characters_in[obj[a].room]

Beat(a) == /\ Beating(a)
           /\ \E to \in Reachable(a), r \in Roll : injure_mele(a, to, r)
           /\ Visited
           /\ UNCHANGED <<clientVars, gameVars, clients_to_remove, status>>

NoBeat(a) == /\ Beating(a)
             /\ Visited
             /\ UNCHANGED <<combatVars, clientVars, gameVars, clients_to_remove, status>>

AllBeaten == /\ In("hb") /\ todo = <<>>
             /\ GoTo("remove")
             /\ UNCHANGED <<combatVars, clientVars, gameVars, clients_to_remove, status>>

-----------------------------------------------------------------------------
(***************************************************************************)
(* remove: PlayersController::remove_players.  A second delete of one      *)
(* object is fatal.                                                        *)
(***************************************************************************)
\* Faulty variant: the object is forgotten and never deleted.
RemovePlayerLeaking ==
    /\ In("remove") /\ players_to_remove # <<>>
    /\ players' = Erase(players, obj[Head(players_to_remove)].id)
    /\ players_to_remove' = Tail(players_to_remove)
    /\ UNCHANGED <<combatVars, clientVars, obj, characters_in, loopVars, status>>

RemovePlayer ==
    /\ In("remove") /\ players_to_remove # <<>>
    /\ LET a == Head(players_to_remove)
       IN  Follow(a \in chars,
                  /\ players' = Erase(players, obj[a].id)
                  /\ obj' = Erase(obj, a)
                  /\ Delete(a)
                  /\ players_to_remove' = Tail(players_to_remove)
                  /\ UNCHANGED <<clientVars, characters_in, loopVars>>)

AllRemoved == /\ In("remove") /\ players_to_remove = <<>>
              /\ GoTo("write")
              /\ UNCHANGED <<combatVars, clientVars, gameVars, clients_to_remove, status>>

-----------------------------------------------------------------------------
(***************************************************************************)
(* write: PlayersController::write, Player::send_info, ClientManager::     *)
(* send_to_client.  A player that is not a statue may have messages, and   *)
(* its connection is taken from the table without asking.                  *)
(***************************************************************************)
CanSend == \A id \in DOMAIN players :
              obj[players[id]].state = "Normal" => is_connected(id)

Write == /\ In("write")
         /\ Follow(CanSend, /\ GoTo("accept")
                            /\ UNCHANGED <<combatVars, clientVars, gameVars,
                                           clients_to_remove>>)

-----------------------------------------------------------------------------
Accept == \/ NobodyArrives
          \/ \E id \in PlayerId, fd \in Fd : Login(id, fd)

Read == \/ \E fd \in Fd : \/ ReadNothing(fd)
                          \/ \E c \in Sent : ReadCommand(fd, c)
                          \/ ReadHangUp(fd)
                          \/ ReadError(fd)
        \/ ServeHangUp
        \/ AllRead

Exec == \/ \E a \in Addr : \/ RunGlance(a)
                           \/ RunGolpear(a)
                           \/ RunMove(a)
                           \/ RunMatar(a)
                           \/ RunSalir(a)
                           \/ Flushed(a)
        \/ AllExecuted

Hb == \/ \E a \in Addr : Beat(a) \/ NoBeat(a)
      \/ AllBeaten

Loop == Accept \/ Read \/ Exec \/ Hb \/ RemovePlayer \/ AllRemoved \/ Write

Dead == status # "running" /\ UNCHANGED serverVars

ServerNext == Loop \/ Dead

ServerSpec == ServerInit /\ [][ServerNext]_serverVars

\* while(1): the loop waits for nobody, select() returns at once.
FairServerSpec == ServerSpec /\ WF_serverVars(Loop)

-----------------------------------------------------------------------------
(***************************************************************************)
(* Properties.                                                             *)
(***************************************************************************)
leaving == Range(players_to_remove)

Freed(a) == a \notin chars

(***************************************************************************)
(* The type invariant.                                                     *)
(***************************************************************************)
ServerTypeOK ==
    /\ CombatTypeOK
    /\ ClientTypeOK
    /\ DOMAIN obj = chars
    /\ \A a \in chars : obj[a] \in Player
    /\ characters_in \in [Room -> SUBSET Addr]
    /\ DOMAIN players \subseteq PlayerId
    /\ players_to_remove \in Seq(Addr)
    /\ clients_to_remove \in Seq(PlayerId)
    /\ phase \in {"accept", "read", "exec", "hb", "remove", "write"}
    /\ todo \in Seq(PlayerId \cup Fd)
    /\ status \in {"running", "aborted", "segfault"}

(***************************************************************************)
(* The process never follows a null pointer and never deletes an object    *)
(* twice: no command is parsed, no hang-up served and no message sent for  *)
(* a player or a connection that is gone, although the tables of the two   *)
(* layers change in different phases and hanging up and "salir" both put a *)
(* player on the list of removals without looking.  It rests on one read   *)
(* per tick and on the order remove, write of the phases.                  *)
(***************************************************************************)
NeverKilled == status # "segfault"

(***************************************************************************)
(* The network and the game agree on who is connected: the connected       *)
(* players are those in the game that are neither statues nor leaving.     *)
(***************************************************************************)
NetMatchesGame ==
    DOMAIN clients = {id \in DOMAIN players :
                         /\ obj[players[id]].state = "Normal"
                         /\ players[id] \notin leaving}

(***************************************************************************)
(* Every pointer the game holds is to a live object: those of the table of *)
(* players, of the rooms, of the fights and of the list of removals.       *)
(***************************************************************************)
NoDanglingPointer ==
    /\ Range(players) \subseteq chars
    /\ \A r \in Room : characters_in[r] \subseteq chars
    /\ NoDanglingFighter
    /\ leaving \subseteq chars

(***************************************************************************)
(* A player that may leave when it is asked may still be deleted when the  *)
(* tick comes to it: meanwhile nobody finds it, fights it or holds it.     *)
(***************************************************************************)
LeavingIsGone ==
    \A a \in leaving : /\ can_quit(a)
                       /\ \A b \in Addr : a \notin in_combat[b]
                       /\ \A r \in Room : a \notin characters_in[r]

(***************************************************************************)
(* A character is in the room it believes to be in, and in no other; only  *)
(* those that leave are in none.                                           *)
(***************************************************************************)
RoomsAgree ==
    \A a \in chars, r \in Room :
        a \in characters_in[r] <=> r = obj[a].room /\ a \notin leaving

(***************************************************************************)
(* A tick runs everything it read: no command waits for the next tick and  *)
(* a queue never holds more than the first glance and one command.         *)
(***************************************************************************)
QueuesDrained ==
    \A id \in DOMAIN players :
        LET q == obj[players[id]].skills_to_do
        IN  /\ Len(q) <= 2
            /\ phase \notin {"read", "exec"} => q = <<>>

(***************************************************************************)
(* Blows are dealt face to face (Player::hb_action): whoever loses life    *)
(* loses it to the player whose heart hb() visits in that step, which is   *)
(* one of its opponents and stands in its room.                            *)
(***************************************************************************)
BlowsFaceToFace ==
    [][\A victim \in chars \cap chars' : pvs'[victim] < pvs[victim] =>
          /\ In("hb") /\ todo # <<>>
          /\ LET striker == players[Head(todo)]
             IN  /\ striker \in in_combat[victim]
                 /\ obj[striker].room = obj[victim].room]_serverVars

(***************************************************************************)
(* Whoever logs in again over a live connection keeps its object, with its *)
(* life and its fights; so does whoever hangs up in the middle of a fight. *)
(***************************************************************************)
SessionKept ==
    [][\A id \in DOMAIN players : is_connected(id) /\ players[id] \notin leaving =>
          /\ id \in DOMAIN players'
          /\ players'[id] = players[id]]_serverVars

(***************************************************************************)
(* A player that left is deleted, however the rest of the tick goes.       *)
(***************************************************************************)
LeaverIsFreed == \A a \in Addr : a \in leaving ~> Freed(a) \/ status # "running"

(***************************************************************************)
(* A command that was read is run: the queue of a player empties.          *)
(***************************************************************************)
CommandIsRun ==
    \A a \in Addr :
        a \in chars /\ obj[a].skills_to_do # <<>>
            ~> Freed(a) \/ obj[a].skills_to_do = <<>> \/ status # "running"

(***************************************************************************)
(* What doc/README:18 says of a statue, that it behaves like any player    *)
(* without a connection: every statue is in the table of players, whose    *)
(* walk gives it its heartbeats.  The code does not keep it.               *)
(***************************************************************************)
StatuesHaveHeartbeats ==
    \A a \in chars : obj[a].state = "Disconnected" => players[obj[a].id] = a

(***************************************************************************)
(* What playersController.cpp:137 says of maybe_remove_player, that the    *)
(* network layer calls it for a client that closed or lost the connection: *)
(* a lost one is noted down as well.  The code does not do it.             *)
(***************************************************************************)
LostConnectionIsServed ==
    [][\A fd \in Fd : ReadError(fd) =>
          players_ids[fd] \in Range(clients_to_remove')]_serverVars

=============================================================================
