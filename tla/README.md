# A verification project for Ancient Legends

Ancient Legends is a multi-user dungeon: players connect by telnet, walk
through rooms, talk and fight to the death. This directory holds TLA+ models of
its server, the TLC runs that check them on small instances, and TLAPS proofs of
the properties that carry the design. Paths below are relative to the
repository's root, `src/` there being its source directory (`src/src/...` as
seen from this directory's parent).

## The system

Two processes make up a running game.

* The **connection handler** (`net/connectionHandler.cpp`) accepts telnet
  connections, asks the player's name, looks it up in the data base and hands
  the login to the game: first a record through a pipe, then the socket's
  descriptor through a unix socket.
* The **game process** (`server/main.cpp`) runs one thread in an endless loop
  over singletons. A turn of the loop is a *tick*, and does in this order
  `accept_new_clients`, `read_clients`, `execute_commands`, `hb`,
  `remove_players`, `write`.

There are no threads and no locks. What makes the program hard is that every
object holds raw pointers to others, that the same fact is kept in two or three
tables of two layers (network and game), and that leaving the game is spread
over the phases of a tick while the other players go on.

### Inventory

| component | state it keeps | operations | talks to | correct when |
|---|---|---|---|---|
| Character, CombatController (`domain/character.cpp`, `domain/combatController.cpp`) | life `pvs`, list of opponents `in_combat` | `matar` starts a fight, `injure_mele`/`injure` deal a blow, `die` | Player, Room | fights are mutual, the dead are out of every fight, no list outlives a character |
| ClientManager (`net/clientManager.cpp`) | `clients`, `players_ids`, `client_sockets`, `max_client_fd`, `clients_to_remove` | accept a login, read every socket, disconnect, send | PlayersController by calls in both directions | the tables agree, no descriptor leaks, nobody is left unread |
| PlayersController (`domain/playersController.cpp`) | `players`, `players_by_name`, `players_to_remove` | create, run commands, beat hearts, remove, make a statue, write | ClientManager, Player, Room | no pointer to a deleted player, network and game agree |
| Player, StatePlayer (`domain/player.cpp`) | queue of commands, queue of messages, state Normal or Disconnected, heartbeat clock | push and flush commands, `hb_action`, `die`, write | SkillsController, Room, CombatController | every command is run, one blow per heartbeat, every message sent to the connection it was meant for, in order |
| Room, Zone, WorldController (`domain/room.cpp`, `domain/worldController.cpp`) | characters of a room, eight exits, tables of rooms and zones | add and remove a character, look one up by name, load and link the world, broadcast | Character | a character is in the one room it believes to be in |
| Direction (`domain/types.cpp`) | nothing | names of directions, reverse | Room | reversing twice is the identity |
| SkillsController, Skill, SkillsActions (`domain/skills*.cpp`, `domain/skill.cpp`) | registry of commands, a clone per command typed | look up and clone, dispatch to a handler | everything in the game | a clone runs what was typed, once, and is deleted |
| GMP protocol (`gmp/gmp.cpp`, `gmp/GMP_msg.cpp`) | nothing | parse what a client sent, build messages | SkillsController, Player | the command reaches the player that owns the socket |
| ConnectionHandler | the listening socket, the connection it serves | accept, ask, look up, hand over | pipe and unix socket | each login gets its own descriptor, in order |
| DBManager | the connection to MySQL | queries | - | pure input and output, not modelled |
| error utilities | nothing | print and exit | - | not modelled |

### What is hard in it

* **Leaving.** `can_quit()` is asked in the read or exec phase; connection and
  place in the room go at once; the object is deleted in the remove phase.
  Between the two, other players run commands and strike.
* **Two layers.** A login creates a `Player` when the *network* does not know
  the player, while the *game* may still hold it as a statue (a player whose
  client went away in the middle of a fight).
* **Raw pointers on both sides of a fight**, kept in step by hand.
* **Descriptors**, which the kernel reuses at once, as keys of tables.
* **Hidden protocol assumptions**: one read per client and tick, so never two
  commands that leave; `remove_players` before `write`.
* **Failures**: a read that fails, a write that is short, a peer that is gone.
* **Queues that outlive what they were for**: messages outlive a connection,
  copies of commands are freed in one place only.
* **Clocks and numbers**: heartbeats from a 32-bit difference of processor
  time, a bound for `select()` that is never recomputed, the boundary at life 0.

`PROJECT.json` lists each hazard at its line with the properties that watch it.

## The modules

| module | what it is |
|---|---|
| `Fights` | abstract: living fighters and fights as pairs, which only a death ends |
| `Combat` | Character, CombatController and `matar`; implements `Fights` |
| `CombatProofs` | TLAPS: the invariants of `Combat` and the refinement of `Fights` |
| `ClientManager` | the tables of connections |
| `ClientManagerProofs` | TLAPS: the invariants of `ClientManager` |
| `Server` | the loop: EXTENDS `Combat` and `ClientManager`, adds players, rooms, queues and phases; implements both |
| `ServerProofs` | TLAPS: the invariants of `Server` and the refinement of `Combat` and `ClientManager`, so that their theorems hold of the whole |
| `Logins` | abstract: one queue of logins and the sessions in the game |
| `Handoff` | the connection handler and `accept_new_clients`, call by call, with the pipe and the unix socket between them; EXTENDS `ClientManager`; implements `Logins` |
| `HandoffProofs` | TLAPS: the invariants of `Handoff` and the refinement of `Logins` |
| `Heartbeat` | `have_hb()` over a clock of 32 bits |
| `HeartbeatProofs` | TLAPS: the invariants of `Heartbeat` |
| `Directions` | the eight directions: names, numbers, reverse, words |
| `World` | `make_world`, `link_rooms`, the hash table of rooms, walking and what it says; EXTENDS `Directions` |
| `WorldProofs` | TLAPS: the hash table, the walk over it and the invariants of `World` |
| `Chronicle` | abstract: one log of what is said, and how far each player has been shown it |
| `Outbox` | messages from a broadcast to the eyes of a client: queues, sockets that do not block, clients that go away; implements `Chronicle` |
| `OutboxProofs` | TLAPS: the invariants of `Outbox` and the refinement of `Chronicle` |
| `Skills` | the registry of commands and the life of a copy, from the look-up to its deletion |
| `SkillsProofs` | TLAPS: the invariants of `Skills` |
| `MCCombat`, `MCServer`, `MCHandoff`, `MCHeartbeat`, `MCWorld`, `MCOutbox`, `MCSkills` | instances for TLC |

Definitions keep the names of the code. Operators under a comment "Faulty
variant" are not part of any specification: each is a plausible bug in the
definition that follows it, and shows which property notices.

### Combat

A `Character` is a heap object named by an address. `chars` holds the live ones,
`pvs` and `in_combat` their fields; an unused address holds the values of a fresh
object. `Matar` is the guarded part of the skill, `Strike` a blow: `injure_mele`
computes the damage `Mal` (9 to 17), `injure` takes it and, if the victim is no
longer alive, takes it out of the lists of its opponents and clears its own.
Rooms, turns and clocks are left to `Server`: here any fighter may strike any
opponent at any time.

`Fights` says what this is for. The mapping is `living` = the live characters
with `pvs >= 0`, `fights` = the pairs `{a, b}` with `b` in the list of `a`.

### ClientManager

`clients` and `players_ids` are partial functions, `client_sockets` a set (its
order decides only in which order sockets are read), `max_client_fd` a number.
`open_fds` is the kernel's view: what the process holds open. A login takes the
lowest free descriptor; a login over a live connection is the call of
`disconnect_client` followed by the insertion, in one action, as in the code.

### Server

`obj` holds the fields of `Player`: id, room, state and queue of commands.
`phase` and `todo` are the program counter: the phase of the tick, and what its
loop has still to visit, in any order, since the order of a hash table is not
promised. One action is one iteration: the read of one socket, one command of one
queue, the heart of one player, the delete of one player.

* *accept*: `NobodyArrives`, `Login` (with `create_player` or a reconnection).
* *read*: `ReadNothing`, `ReadCommand`, `ReadHangUp` (0 bytes), `ReadError`
  (-1, which ends the process); then `ServeHangUp` for the ids noted down, which
  calls `maybe_remove_player`: leave, or become a statue.
* *exec*: `RunGlance` (every command that only writes messages), `RunGolpear`,
  `RunMove`, `RunMatar`, `RunSalir`; `Flushed` goes to the next player.
* *hb*: `Beat` strikes one opponent present in the room, `NoBeat` is a heart
  that does not beat in this tick or finds nobody.
* *remove*: `RemovePlayer` erases and deletes. *write*: `Write`.

`Follow(valid, Step)` is a step that follows a pointer taken from a table without
a test: with an absent entry the process is killed (`status = "segfault"`).
`status = "aborted"` is an uncaught exception or a corrupted heap, which the code
does reach (`ReadError`, `RunGolpear`).

### Handoff

The handler is the forked child: `accept`, `LetIn` or `Refuse`, `SendRecord`
(to the pipe), `send_fd` (to the socket), `Close`. The game is
`NothingArrived`, or `Select`, `ReadRecord`, `Receive`; the three are separate
steps because the handler runs between them, while the rest of the game does
not (`Disconnect` needs `game_pc = "select"`). `Receive` contains the whole
login of `ClientManager`, with the close of a live connection of the same player.

A connection is an identity that lives in the two processes and in the socket;
`who` remembers the name given on it, `file` says which connection a descriptor
of the game is open on. Once it is open nowhere it may come back as a new one.
What the model takes from the kernel:

* The pair is `SOCK_DGRAM`: one send is one descriptor, and a handler that has
  ended is not visible to the game. What it sent before stays readable.
* The socket holds `QMax` datagrams (ten, by default, on Linux) and `sendmsg()`
  blocks when it is full. A record has some 30 bytes, so that the pipe, with
  64 KiB, never fills before the socket does.
* The handler ends in `ReadFails` (the result -1 of a read is used as a length
  and `std::string` throws; also SIGPIPE when the refusal is written) and in
  `SendFails`. `main()` does not restart it.

The end of the game itself is left out here: `LoginIsServed` is about a game that
stays alive. What ends it is in `Server` and `Outbox`, with the runs that show it
(`lost_connection`, `hang_up`).

### Heartbeat

`elapsed` is `clock() - hb_token` in 32 bits. The program keeps pointers in
`int`s and casts them back (`worldController.cpp:93`), so it is built for 32
bits, where `clock_t` is a 32-bit number of microseconds of *processor* time:
it comes round after about 72 minutes of it. Signed overflow is undefined in the
language; the model has what the machine does. In the negative half every
remainder is at most 0 and so in the window: the heart beats at most once in
those 36 minutes of processor time, and `can_jump` has to find its way out
again, which `KeepsBeating` says it does. `beats` is history.

### World

The table of the data base is chosen in `WorldInit` among `Maps`, and rows come
in any order. A slot holds a number as in the code: 0, an id, or the address
of a room (`Address`). `ReadRow` is one iteration of `make_world`, `LinkExit` one
of the eight tests of `link_rooms`, `NextRoom` the `++` of its iterator.

The table of rooms is the `hash_map` of GCC: an array of chains; `operator[]`
makes room for one more element *before* it looks the key up, and inserts a null
pointer if the key is not there; rebuilding takes the elements in the order of
an iterator (`Before`) and puts each before the head of its new chain, so that
in a new chain the keys stand against that order (`Against`, `Rehash`); `++`
follows the chain, then goes on from the bucket that the key has at that moment. All this matters because
`link_rooms` calls `operator[]` on the table it is walking over. An exit to a
room that is not there leaves a null room in the table, which the walk comes to
(`LinkNull`, the process is killed) or has already passed (the exit is null).

`Walk` is `move_wrapper`: two broadcasts, the move, and `glance`. `heard` holds the
words of them. `Directions` spells out the tables of the code; the properties
compare their composition with the data base and with the directions drawn on
a plane, not with themselves. `Server` takes rooms and exits as given; that its
exits are those of the data base is what `World` shows.

### Outbox

`write(S, k)` is `Player::write` for the players of `S`, of a message of `k` parts;
a part is as much as a socket takes or refuses at once. `log` numbers all
parts, so a message in a queue is the numbers of its first and last part and a
socket holds numbers. Whom a message is for is left open: any set of players in
the game, which includes the room of `broadcast` and the two of `tell`.

The phases are those in which something is said or the connections change:
`Login` and `Reconnect`; `HangUp` (the read of 0 bytes, noted and served, in one
step since parsing a command writes to no client), `ReadError`; `Tell`, `Salir`
and `remove_players`; `send_to_client` and `Sent`, which walk over the players and
over the queue of each. A player that is leaving is still in the normal state
and still gets its prompt, a statue gets nothing (`Writes`); a login over a live
connection goes past the queues, straight to the two sockets, and keeps the
queue; any other login creates a new object with an empty one.

What the model takes from the kernel: a socket holds `SockBuf` parts and `write()`
takes what fits (`taken`). A client that closes with everything read is `closed`;
data sent to it is answered by a reset, after which the connection is `broken`
and a write raises SIGPIPE, for which the repository installs no handler. A
client that closes with something unread resets at once; the reset is reported
by one call, the read of the next tick (-1, `ReadError`) or the next write. What
is in the socket of a connection the game closes is dropped: clients that read
their last words after that are not modelled, and `shown` is too low for them.

`Chronicle` is what this is for: `Show` hands a player a part it is owed, the
first one unless the player has fallen behind. The mapping is `whole` = the
players whose socket has never lacked room on this connection.

### Skills

`Commands` is the list of `init_skills`, with the table and the turns of each;
`init_skills` registers one per step. `get_skill_by_name` makes a copy at a fresh
address, of class `Skill` whatever was registered, since `clone()` is not virtual
and the tables hold `Skill` pointers. `parse` pushes the copy or drops it,
`flush_commands` runs the handler of its id and deletes it; `remove_players` and
`Login` (for a statue) forget a queue with its player, as the code does. `name` in
a copy is history: what was typed.

No copy is ever dropped or forgotten, says `EveryCopyIsOwned`, because all
commands are given to everybody and a queue is empty whenever its player goes.
`golpear`, the one command with turns, is the exception of `CopyOfWhatWasTyped`:
its handler takes the plain copy for an `HBSkill`, reads turns that are not there
and counts them up. What that does is `RunGolpear` of `Server`. The entry that the
second registration of "tell" replaces is leaked, once, at the start.

## The runs

| run | instance | what it shows |
|---|---|---|
| `combat` | 4 characters, life 18, blows of 9 and 17 | `Mutual`, `NoDanglingFighter`, and `FightsKept`: Combat implements Fights |
| `server` | 2 players, 3 objects, 2 rooms, 3 descriptors, life 16, blow 17; the commands `matar`, `salir` and moving | the invariants of the loop, `BlowsFaceToFace`, `SessionKept`, and that the loop implements `CombatSpec` and `ClientSpec` |
| `server_live` | 2 players, 2 objects, life 17, blow 17, all commands that act | `LeaverIsFreed`, `CommandIsRun` under fairness |
| `handoff` | 2 players, 3 descriptors, 4 connections, 2 datagrams | of the tables `TablesAgree`, `NoDescriptorLeaked`, `BoundCoversAll`; of the hand-over `Paired`, `RecordIsWaiting`, `LoginsInOrder` (Handoff implements Logins), `LoginIsServed` |
| `heartbeat` | period 100, window 2, clock of 2048, looks 0 to 2 apart | `OneBeatPerPeriod`, `NoBeatLost`, `KeepsBeating` |
| `world` | 3 rooms, every data base with at most 2 exits to 5 targets, two of them missing; tables of 2, then 7 buckets | `Linked`, `ClosedIsSafe`, `ListIsTrue`, `WalksTheMap`, `WayBack`, `GetsReady` |
| `outbox` | 2 players, messages of 1 or 2 parts, sockets of 2, 3 parts said | `NothingLost`, `SeesTheChronicle` (Outbox implements Chronicle), `Delivered` under fairness |
| `skills` | 3 players, all 21 registrations, 5 words | `EveryCopyIsOwned`, `CopyOfWhatWasTyped` |
| `statue` | as `server` | finding: a replaced statue loses its heartbeats |
| `lost_connection` | as `server` | finding: a lost connection ends the process |
| `full_table` | as `world`, tables of 3, then 7 buckets | finding: a world that fills the table is not linked |
| `hang_up` | as `outbox` | finding: a client that hangs up between read and write ends the process |

**Bounds.** Four characters give fights of one against three and chains of
fights; two blows of 9 leave a life of 18 exactly at the boundary 0. In the loop
two players are enough for every pair of actors (attacker and victim, leaver and
finder); a third object is there for the statue that is replaced while its
opponent is still in the game, and one more descriptor than players because a
login over a live connection holds two for a moment. In `server` a blow kills,
to keep the run small; wounds are in `combat` and `server_live`. `Addr` bounds
the memory: a login that needs a new object waits while no address is free,
which only happens once statues were replaced.

The two rooms of the instance are linked in a ring by one direction, so that a
player can leave a fight by walking and come back.

In `handoff` three connections can be in the game, the socket and the handler
at once, and a fourth lets the socket fill while everybody plays. In `heartbeat`
half a turn of the clock is ten periods and a part of one, as it is 692 and a
part in the program; the longest step is as long as the window, the boundary
case of `NoBeatLost` and `KeepsBeating`; that `OneBeatPerPeriod` holds for longer
steps as well is proved. (The window is 62 ms of processor time. Nothing in
`main()` fixes the length of a tick: its `FPS` is not used and the loop only calls
`nanosleep(10)`. `NoBeatLost` is about games whose ticks take no more processor
time than the window; a longer one may lose a beat.) In `world` the table grows while rows
are read and has room to spare while they are linked, so that `GetsReady` says
nothing of a table rebuilt under the walk, which `full_table` is for;
`ClosedIsSafe` says nothing of an exit to a room that does not exist, which may
end the process or leave a null pointer: of those worlds `Linked` says that, once
ready, every exit leads where its column says. Two exits give loops,
ways there and back, exits of one room to two others and forward references.

In `outbox` three parts are enough for a message that fits a socket, one that is
cut by it and one that finds it full, for two messages to a peer that is gone,
and for one that was said before a login and one after. `MaxLog` ends the talk,
not the loop; reconnections count, since both sockets are told. In `skills` the
words are one of the characters' table, the one registered twice, the one with
turns, the one that makes a player leave and one that is no command; there is an
address for every copy there can be, a glance and a line for every player.

The tables of connections have no run of their own: they are part of every state
of `handoff` and of `server`, and what is said of them is proved for any number.

**Symmetry.** `server` takes the two player ids as symmetric: ids are only
compared for equality. Addresses are not symmetric, since the first character of
a name is the one with the lowest address.

**Fairness.** `server_live` assumes weak fairness of the loop as a whole: the
loop is `while(1)`, `select()` is called with a zero timeout, sockets do not
block. Nothing is assumed of what clients do or of single hearts.
`handoff` assumes it of the handler's steps that wait for no client and of
`accept_new_clients`, which every tick calls; `accept` and the answer of a client
carry none. `heartbeat` assumes that the loop goes on looking and uses processor
time. `outbox` assumes it of the loop as in `server_live`, and that a client that
stays reads what it is sent. `world` assumes it of `make_world`, which runs alone to its end.

**Deadlock** is checked in every run. A process that ended stutters (`Dead`).

## What the runs found

1. A statue is documented to behave like any player without a connection
   (`doc/README:18`). When its player logs in again a second object takes its
   place in the table of players. The statue stays in its room and in its
   fights, has no heartbeat, cannot be commanded and is never deleted; the
   player is back with full life, and may find its own statue by name.
2. `maybe_remove_player` is documented to be called when a connection is closed
   *or lost* (`domain/playersController.cpp:137`). A lost connection makes
   `read()` return -1, which is passed on as a length and ends the process.
3. `link_rooms` is documented to turn the ids in all rooms into pointers
   (`domain/worldController.cpp:139`). With exactly as many rooms as the table
   has buckets (the sizes of GCC's tables are primes; a new table has 193) its
   first lookup rebuilds the table under the iterator, which then passes over
   rooms: they keep ids where players follow pointers. One room more or less,
   and nothing happens.
4. A client that is gone is documented to be found out by a read of 0 bytes
   (`net/clientManager.cpp:208`). If it closes between the reads and the writes
   of a tick and two messages are for it, a command's answer and the prompt for
   instance, the first write makes its side reset the connection and the second
   raises SIGPIPE, which ends the game for everybody.

Besides, `max_client_fd` is documented as the maximum of the descriptors
(`net/include/clientManager.h:56`) and is only an upper bound, which is all that
`select()` needs (`BoundCoversAll`).

## The proofs

Everything is proved for any set of characters, players and descriptors, any
rooms and data bases, under the named assumptions of the modules (`CombatAssumption`: a new character is
alive and a roll is 0 to 9; `ClientAssumption`: descriptors are numbers;
`ServerAssumption`: addresses are numbers, exits lead from rooms to rooms;
`WorldAssumption`: ids and addresses are positive and differ, an id is no
address of a room, the sizes of a hash table increase;
`HandoffAssumption`: the socket holds at least one datagram; `HeartAssumption`:
the window is no longer than the period, a step no longer than half a turn;
`OutboxAssumption`: finitely many players, and sockets and messages have room for
one part at least).

*Combat.* None of the properties is inductive. `CombatInv` is: types, `Mutual`,
and `Fighters`, which says that whoever is in a list is a live object and alive.
`Fighters` gives the bound on life (the victim of a blow was alive, so 17 is the
most it falls below zero) and, with `Mutual`, that deleting an idle character
leaves no pointer to it. `CombatStart`, then one lemma per action (`NewInv`,
`DeleteInv`, `MatarInv`, `StrikeInv`), `CombatStep`, `CombatInvariance`. The
theorems follow from it. The refinement has one lemma per action as well (`NewMaps`,
`DeleteMaps`, `MatarMaps`, `StrikeMaps`): a blow is a `Death` or a stutter, the
delete of a dead character a stutter, and so on.

*ClientManager.* The conjunction of its four invariants is inductive; the tables
need `NoDescriptorLeaked`, since that is why a fresh descriptor is new to the
tables. One lemma for each of the two logins and the disconnection.

*Server.* No table of the loop has an invariant of its own: that no iterator dangles
depends on who may leave in which phase, and that on what is in the queues.
`ServerInv` is `GameInv`, which relates the tables of the two layers and holds in
every phase, and `LoopInv`, which relates them to the place of the loop.
`GameInv` contains the invariants of the two parts, taken over with their lemmas,
and adds

* `Directory`: what the table of players holds is a live object with that id;
* `Leavers`: who is on the list of removals is there once, is still in the
  table, and *can quit* (no fight began after it was asked), which is why the
  delete leaves no pointer behind;
* `FiniteTables`: the tables of the game are finite at every moment, since they
  grow one by one. It stands where one would otherwise assume finitely many
  players, and is what lets a phase enumerate them.

`LoopInv` says, by phase, what is still to be visited (`Walks`), which hang-ups
are noted down (`HangUps`: each once, after the last read of its connection, so
that a noted player is still connected when it is served), when there may be
somebody to remove (`LeaveInTime`) and what a queue may hold (`Queues`). The last is the
protocol nobody wrote down: a player reads one command per tick and its glance
stands before it, so that after `salir` the queue is empty and nothing runs for
an object that has left; a player that is leaving, gone or not yet read has
nothing but that glance. One lemma per action for the game (`MoveGame`,
`LeaveGame`, `StatueGame`, `DeleteGame`, ...) and one for the loop
(`ReadHangUpInv`, `RunSalirInv`, `RemovePlayerInv`, ...). `ServerStep` puts them
together. The refinements map every step of the loop to a step of the part or a
stutter; that the guards of the parts hold is `GameInv` again.
`ServerKeepsFights` combines two refinements: the whole server implements
`Fights`.

*Handoff.* `HandoffInv` adds to the invariants of the tables three that hold
between every two calls. `InStep`: the pipe has as many records as the socket
has descriptors, one more while the handler is between its two sends, one less
while the game is between its two reads; after the handler has ended between
the sends one record stays over for ever, behind all others. `RecordsMatch`: the
k-th record still to be used is the name given on the k-th descriptor. `Unserved`:
the connections of the handler, of the socket and of the game differ, so that
a new name never changes an old login. `EveryoneOnOwnConnection` and the
refinement of `Logins` follow; a lemma per action, as before.

*Heartbeat.* `AtMostOneBeat` needs that a heart which has beaten in this period
and may beat again is past the window. `SteadyHeart` is proved for steps no
longer than the window and a window of at most half a period; its invariant
adds that a look outside the window always leaves the heart armed, so that the
first look inside the next window, which such steps cannot jump over, beats.

*Outbox.* `OutboxInv` says of every player in the normal state that its queue lies
behind its socket and its socket behind what it has seen, in the order of the
log and without overlap (`InWire`, `InQueue`), that all of it is meant for it, and
that, while its connection is whole, every part meant for it that it has not seen
is in one of the two (`NoGap`). `Drained` says why a login over a live connection
finds the queue it inherits empty: the walk of `write()` visits everybody, which
is a fact about enumerations of finite sets (`WalkVisits`), and leaves no queue
before it is empty. One lemma per action (`AcceptLine`, `LeaveLine`, `TellLine`,
`RemoveLine`, `SendLine`, `ClientLine`); what is appended by `send_to_client` is the
front of a message, so the socket grows without a gap unless it marks the player
in `cut`. `PlayersSeeTheChronicle`: a client that reads is `Show`, and `NoGap` with the
two orders says that the head of the socket is the first part it is owed.

*Skills.* `SkillsInv` follows a copy through three tables. `Registry`: after n
registrations the tables hold the first n commands, each name with the id of one
of that name, though the list has "tell" twice; so an id found by a name leads
back to it. `Possess`: whoever is in the game possesses every command, so `parse`
never drops a copy. `Owned`: copies and places of queues correspond one to one.
`Served`: who has something to run is in the game and still to be visited, and
out of the tick queues are empty, so none is forgotten with its player. No
assumption on the constants is needed.

*World.* The work is the hash table. A chain is looked at as places: every key
has one (`Chains`, `Places`), the walk compares places (`Order`) and is a strict
total order (`TotalOrder`). That `begin()` and `++` come to every key once, the
fact that is an induction over chains if it is written as a traversal, is then
`HeadIs` and `NextKey`: the successor of a key is the least one above it. That a
rebuilt table holds the same keys is `Rebuilt`, over `Ranks`: in a finite set
with a strict total order every rank is taken once. A new key leaves the order
of the others alone (`Inserted`).

`WorldTypes` holds of every data base, whatever happens to the table under the
walk. The other properties do not: finding 3 is a counterexample. They are proved
for the data bases that are `Roomy`: no size of the table lies between the number
of rooms and the number of keys that `link_rooms` looks up (the rooms and the
exits to rooms that are not there), and some size lies above. A new table has
193 buckets, so that every world with fewer keys than that is `Roomy`, and so is
any closed one whose number of rooms is not exactly a size; TLC has `Roomy`
instances (`world`) and others (`full_table`). `WorldWalks` then says where the walk
is: the slots it has come past hold pointers, the others the ids of the data
base (`Linking`), and the table has room for one more key than there are. One
lemma per action (`WalkRead`, `WalkLink`, `WalkNext`, ...); `ListIs` decodes the byte
of `valid_exits()`, `Turned` compares `reverse()` with the plane.

*Only model-checked.* The liveness properties: `LeaverIsFreed`, `CommandIsRun`,
`LoginIsServed`, `KeepsBeating`, `Delivered`, `GetsReady`. They rest on fairness
and on ENABLED, which are out of the prover's reach. Every invariant, every
action property and every refinement that a passing run checks is proved.

## What is not modelled

* The texts: messages, formatting, names. Commands that only write messages are
  one command.
* The data base and the error utilities: pure input and output.
* A name longer than the handler's buffer of ten bytes (undefined behaviour; the
  ends of the process it can lead to are those of `ReadFails`).
* What becomes of a world that is not `Roomy`, beyond its types: the instances of
  `world` leave room for every key; `full_table` shows what rebuilding does.
* Last words: what a client may still read after the game has closed its
  connection, the farewell of another login among them.
* `push_hb_command()` and the queue of commands in heartbeats: nobody calls it.

## Plan

1. (done) `Fights`, `Combat`, `ClientManager` with proofs; `Server`.
2. (done) `Heartbeat` and `Handoff`, with proofs; `Directions` and `World`.
3. (done) `Outbox` and `Chronicle`, with proofs; `Skills`.
4. (done) Proofs about `Server`: its inductive invariant and the refinement of
   `CombatSpec` and `ClientSpec`, so that the theorems of the parts hold of the
   whole.
5. (done) Proofs about `Skills`: every copy in one place of one queue.
6. (done) Proofs about `World`: its types for every data base, its properties for
   every data base that leaves the table room, by the order of the walk.
7. A condition weaker than `Roomy` that also covers tables rebuilt while they
   hold a null room. That some condition is needed, `full_table` shows.
