------------------------------ MODULE Handoff ------------------------------
(***************************************************************************)
(* How a login gets from the connection handler to the game.               *)
(*                                                                         *)
(* The handler (ConnectionHandler::loop) is a process of its own, forked   *)
(* by main().  It serves one connection at a time: asks for the name,      *)
(* looks it up, writes a ClientConnection to a pipe, sends the descriptor  *)
(* over a unix datagram socket, closes its own copy.  The game             *)
(* (ClientManager::accept_new_clients) looks at the unix socket alone; if  *)
(* something is there it reads the pipe and then the socket.  Nothing but  *)
(* the order of the two sends keeps the k-th record and the k-th           *)
(* descriptor together; the two processes interleave at every call.        *)
(*                                                                         *)
(* The handler ends when a read of the name fails (the result -1 is used   *)
(* as a length and std::string throws) and when a send of the descriptor   *)
(* fails (mud_perror); nobody restarts it.  The tables of the game are     *)
(* those of ClientManager, every change of which is one step here.         *)
(***************************************************************************)
EXTENDS ClientManager, Sequences

CONSTANTS
    Conn,   \* connections of clients; a closed one may come back as a new one
    QMax    \* datagrams the unix socket holds before sendmsg() blocks

ASSUME HandoffAssumption == QMax \in Nat \ {0}

VARIABLES
    handler_pc, \* what the handler does next, or "ended"
    serving,    \* the connection it serves, or served last
    handler_fds,\* connections open in the handler
    who,        \* connection |-> player whose name was given on it
    pipe,       \* records on their way: the id of the player
    unix,       \* descriptors on their way: the connection
    game_pc,    \* what accept_new_clients does next
    record,     \* the record it has read
    file        \* descriptor of the game |-> connection it is open on

handlerVars == <<handler_pc, serving, handler_fds, who>>

gameSideVars == <<clientVars, game_pc, record, file>>

handoffVars == <<clientVars, handler_pc, serving, handler_fds, who, pipe, unix,
                 game_pc, record, file>>

files == {file[fd] : fd \in DOMAIN file}

in_flight == {unix[i] : i \in DOMAIN unix}

HandoffInit == /\ ClientInit
               /\ handler_pc = "accept"
               /\ serving \in Conn
               /\ handler_fds = {}
               /\ who \in [Conn -> PlayerId]
               /\ pipe = <<>>
               /\ unix = <<>>
               /\ game_pc = "select"
               /\ record \in PlayerId
               /\ file = [fd \in {} |-> {}]

-----------------------------------------------------------------------------
(***************************************************************************)
(* The connection handler.                                                 *)
(***************************************************************************)
accept(c) == /\ handler_pc = "accept"
             /\ c \notin handler_fds \cup in_flight \cup files
             /\ handler_pc' = "ask"
             /\ serving' = c
             /\ handler_fds' = handler_fds \cup {c}
             /\ UNCHANGED <<who, pipe, unix, gameSideVars>>

\* The name read is that of a player of the data base.
LetIn(id) == /\ handler_pc = "ask"
             /\ who' = [who EXCEPT ![serving] = id]
             /\ handler_pc' = "record"
             /\ UNCHANGED <<serving, handler_fds, pipe, unix, gameSideVars>>

\* Nobody has the name read; a client that hung up gave the empty name.
Refuse == /\ handler_pc = "ask"
          /\ handler_pc' = "accept"
          /\ handler_fds' = handler_fds \ {serving}
          /\ UNCHANGED <<serving, who, pipe, unix, gameSideVars>>

\* Faulty variant: the pipe is full and does not block, the record is lost.
SendRecordLosing == /\ handler_pc = "record"
                    /\ handler_pc' = "descriptor"
                    /\ UNCHANGED <<pipe, serving, handler_fds, who, unix, gameSideVars>>

SendRecord == /\ handler_pc = "record"
              /\ pipe' = Append(pipe, who[serving])
              /\ handler_pc' = "descriptor"
              /\ UNCHANGED <<serving, handler_fds, who, unix, gameSideVars>>

\* Faulty variant: the limit of the socket is overlooked.
send_fd_unbounded == /\ handler_pc = "descriptor"
                     /\ unix' = Append(unix, serving)
                     /\ handler_pc' = "close"
                     /\ UNCHANGED <<serving, handler_fds, who, pipe, gameSideVars>>

\* Blocks while the socket is full.
send_fd == /\ handler_pc = "descriptor"
           /\ Len(unix) < QMax
           /\ unix' = Append(unix, serving)
           /\ handler_pc' = "close"
           /\ UNCHANGED <<serving, handler_fds, who, pipe, gameSideVars>>

\* Faulty variant: after a failed send the handler serves the next client.
SendFailsGoesOn == /\ handler_pc = "descriptor"
                   /\ handler_pc' = "close"
                   /\ UNCHANGED <<handler_fds, serving, who, pipe, unix, gameSideVars>>

SendFails == /\ handler_pc = "descriptor"
             /\ handler_pc' = "ended"
             /\ handler_fds' = {}
             /\ UNCHANGED <<serving, who, pipe, unix, gameSideVars>>

\* read() returns -1, for instance because the connection was reset, or the
\* refusal is written to a connection that is closed and SIGPIPE is raised.
ReadFails == /\ handler_pc = "ask"
             /\ handler_pc' = "ended"
             /\ handler_fds' = {}
             /\ UNCHANGED <<serving, who, pipe, unix, gameSideVars>>

Close == /\ handler_pc = "close"
         /\ handler_fds' = handler_fds \ {serving}
         /\ handler_pc' = "accept"
         /\ UNCHANGED <<serving, who, pipe, unix, gameSideVars>>

-----------------------------------------------------------------------------
(***************************************************************************)
(* The game.  accept_new_clients() is three calls into the kernel; the     *)
(* handler may run between any two of them, the rest of the game may not.  *)
(***************************************************************************)
\* select() finds nothing: on with the tick.
NothingArrived == game_pc = "select" /\ unix = <<>> /\ UNCHANGED handoffVars

Select == /\ game_pc = "select"
          /\ unix # <<>>
          /\ game_pc' = "record"
          /\ UNCHANGED <<clientVars, handlerVars, pipe, unix, record, file>>

\* The pipe does not block: were it empty, the ClientConnection would keep
\* the player id it was never given.
ReadRecord ==
    /\ game_pc = "record"
    /\ record' \in IF pipe = <<>> THEN PlayerId ELSE {Head(pipe)}
    /\ pipe' = IF pipe = <<>> THEN <<>> ELSE Tail(pipe)
    /\ game_pc' = "descriptor"
    /\ UNCHANGED <<clientVars, handlerVars, unix, file>>

\* The game's descriptor fd is open on connection c from now on; descriptors
\* that were closed are open on nothing.
OpenOn(fd, c) == file' = [f \in open_fds' |-> IF f = fd THEN c ELSE file[f]]

\* Faulty variant: the last descriptor sent is taken first.
ReceiveNewest(fd) == /\ game_pc = "descriptor"
                     /\ accept_new_client(record, fd)
                     /\ OpenOn(fd, unix[Len(unix)])
                     /\ unix' = SubSeq(unix, 1, Len(unix) - 1)
                     /\ game_pc' = "select"
                     /\ UNCHANGED <<handlerVars, pipe, record>>

\* Faulty variant: a second login of a player is turned away.
ReceiveFirstLogin(fd) == /\ game_pc = "descriptor"
                         /\ recv_fd(fd)
                         /\ IF is_connected(record)
                            THEN UNCHANGED <<clientVars, file>>
                            ELSE Connect(record, fd) /\ OpenOn(fd, Head(unix))
                         /\ unix' = Tail(unix)
                         /\ game_pc' = "select"
                         /\ UNCHANGED <<handlerVars, pipe, record>>

Receive(fd) == /\ game_pc = "descriptor"
               /\ accept_new_client(record, fd)
               /\ OpenOn(fd, Head(unix))
               /\ unix' = Tail(unix)
               /\ game_pc' = "select"
               /\ UNCHANGED <<handlerVars, pipe, record>>

\* In another phase of the tick a player leaves.
Disconnect(id) == /\ game_pc = "select"
                  /\ remove_client(id)
                  /\ file' = Restrict(file, open_fds')
                  /\ UNCHANGED <<handlerVars, pipe, unix, game_pc, record>>

-----------------------------------------------------------------------------
\* The steps of the handler that wait for no client.
HandOver == SendRecord \/ send_fd \/ SendFails \/ Close

Serve == \/ \E c \in Conn : accept(c)
         \/ \E id \in PlayerId : LetIn(id)
         \/ Refuse
         \/ ReadFails

accept_new_clients == NothingArrived \/ Select \/ ReadRecord \/ \E fd \in Fd : Receive(fd)

HandoffNext == Serve \/ HandOver \/ accept_new_clients
               \/ \E id \in PlayerId : Disconnect(id)

HandoffSpec == HandoffInit /\ [][HandoffNext]_handoffVars

\* Neither process waits for anybody between the answer of a client and the
\* entry of its player: the kernel runs both.
FairHandoffSpec == /\ HandoffSpec
                   /\ WF_handoffVars(HandOver)
                   /\ WF_handoffVars(accept_new_clients)

-----------------------------------------------------------------------------
(***************************************************************************)
(* Properties.                                                             *)
(***************************************************************************)

(***************************************************************************)
(* The type invariant; the socket never holds more than its limit.         *)
(***************************************************************************)
HandoffTypeOK ==
    /\ ClientTypeOK
    /\ handler_pc \in {"accept", "ask", "record", "descriptor", "close", "ended"}
    /\ serving \in Conn
    /\ handler_fds \subseteq Conn
    /\ who \in [Conn -> PlayerId]
    /\ pipe \in Seq(PlayerId)
    /\ unix \in Seq(Conn) /\ Len(unix) <= QMax
    /\ game_pc \in {"select", "record", "descriptor"}
    /\ record \in PlayerId
    /\ DOMAIN file = open_fds
    /\ \A fd \in open_fds : file[fd] \in Conn

(***************************************************************************)
(* Every player has the connection its own name was given on, although the *)
(* id and the descriptor travel apart and each is taken on trust.          *)
(***************************************************************************)
Paired == \A fd \in client_sockets : players_ids[fd] = who[file[fd]]

(***************************************************************************)
(* What clientManager.cpp:91-94 relies on: once something has arrived on   *)
(* the unix socket, there is something to read in the pipe.                *)
(***************************************************************************)
RecordIsWaiting == game_pc = "record" => pipe # <<>>

(***************************************************************************)
(* What doc/explicacio_processos:51-53 says: the handler never has more    *)
(* than one connection open, so its records always hold one same number.   *)
(***************************************************************************)
HandlerHoldsOne ==
    handler_fds = IF handler_pc \in {"accept", "ended"} THEN {} ELSE {serving}

(***************************************************************************)
(* The pipe, the socket and the two processes are one queue of logins,     *)
(* from which players enter in order: the hand-over implements Logins.     *)
(***************************************************************************)
L == INSTANCE Logins WITH
        queue   <- [i \in 1..Len(unix) |-> [conn |-> unix[i], player |-> who[unix[i]]]],
        playing <- {[conn |-> file[fd], player |-> players_ids[fd]] : fd \in client_sockets}

LoginsInOrder == L!LoginsSpec

(***************************************************************************)
(* Whoever was let in enters the game, unless the handler ends before it   *)
(* has sent the descriptor; after that even its end is no hindrance.       *)
(***************************************************************************)
LoginIsServed ==
    \A c \in Conn :
        \/ c = serving /\ handler_pc \in {"record", "descriptor"}
        \/ c \in in_flight
            ~> c \in files \/ (handler_pc = "ended" /\ c \notin in_flight)

=============================================================================
