--------------------------- MODULE HandoffProofs ---------------------------
(***************************************************************************)
(* The hand-over of logins, for any number of clients, players and         *)
(* descriptors and any size of the socket, proved.                         *)
(*                                                                         *)
(* Paired is kept because the pipe runs ahead of the socket by exactly the *)
(* record of the login being handed over, and behind it by the one the     *)
(* game has read: InStep counts, RecordsMatch compares position by         *)
(* position.  Unserved says that the name of a connection is never changed *)
(* while its descriptor is under way or in the game.                       *)
(***************************************************************************)
EXTENDS Handoff, ClientManagerProofs, SequenceTheorems

\* The record the game has read before its descriptor; the one the handler
\* has written before its descriptor.
Taken == IF game_pc = "descriptor" THEN 1 ELSE 0

Ahead == IF handler_pc = "descriptor" THEN 1 ELSE 0

InStep == /\ Len(pipe) + Taken >= Len(unix)
          /\ handler_pc # "ended" => Len(pipe) + Taken = Len(unix) + Ahead
          /\ game_pc # "select" => Len(unix) >= 1

RecordsMatch ==
    /\ game_pc = "descriptor" => record = who[unix[1]]
    /\ \A i \in 1..Len(unix) : i > Taken => pipe[i - Taken] = who[unix[i]]
    /\ handler_pc = "descriptor" => pipe[Len(pipe)] = who[serving]

Unserved ==
    handler_pc \in {"ask", "record", "descriptor"} =>
        /\ \A i \in 1..Len(unix) : unix[i] # serving
        /\ \A fd \in open_fds : file[fd] # serving

HandoffInv == /\ HandoffTypeOK
              /\ ClientInv
              /\ HandlerHoldsOne
              /\ Paired
              /\ InStep
              /\ RecordsMatch
              /\ Unserved

-----------------------------------------------------------------------------
LEMMA HandoffStart == HandoffInit => HandoffInv
<1> SUFFICES ASSUME HandoffInit
             PROVE  HandoffInv
  OBVIOUS
<1>1. ClientInv
  BY ClientStart DEF HandoffInit
<1>2. Len(pipe) = 0 /\ Len(unix) = 0
  BY DEF HandoffInit
<1>3. HandoffTypeOK
  BY <1>1, <1>2, HandoffAssumption
     DEF HandoffInit, ClientInit, HandoffTypeOK, ClientInv
<1> QED BY <1>1, <1>2, <1>3
           DEF HandoffInit, ClientInit, HandoffInv, HandlerHoldsOne, Paired,
               InStep, RecordsMatch, Unserved, Taken, Ahead

(***************************************************************************)
(* The steps of the handler leave the game alone: what is to be shown of   *)
(* them is the part of the invariant about the handler and the queues.     *)
(***************************************************************************)
LEMMA GameUntouched ==
  ASSUME HandoffInv, UNCHANGED gameSideVars
  PROVE  /\ ClientInv'
         /\ ClientTypeOK'
         /\ game_pc' \in {"select", "record", "descriptor"}
         /\ record' \in PlayerId
         /\ DOMAIN file' = open_fds'
         /\ \A fd \in open_fds' : file'[fd] \in Conn
  BY DEF gameSideVars, clientVars, HandoffInv, HandoffTypeOK, ClientInv, ClientTypeOK,
         TablesAgree, NoDescriptorLeaked, BoundCoversAll

(***************************************************************************)
(* Steps of the handler that change neither queue nor the names.           *)
(***************************************************************************)
LEMMA QuietStep ==
  ASSUME HandoffInv, UNCHANGED <<who, pipe, unix, gameSideVars>>,
         handler_pc' \in {"accept", "ask", "ended"},
         handler_pc # "descriptor" \/ handler_pc' = "ended",
         handler_pc # "ended",
         serving' \in Conn, handler_fds' \subseteq Conn,
         HandlerHoldsOne',
         handler_pc' = "ask" =>
             /\ \A i \in 1..Len(unix) : unix[i] # serving'
             /\ \A fd \in open_fds : file[fd] # serving'
  PROVE  HandoffInv'
<1>1. HandoffTypeOK'
  BY GameUntouched DEF HandoffInv, HandoffTypeOK
<1>2. Paired'
  BY DEF HandoffInv, Paired, gameSideVars, clientVars
<1>3. InStep'
  BY DEF HandoffInv, HandoffTypeOK, InStep, Taken, Ahead, gameSideVars
<1>4. RecordsMatch'
  BY DEF HandoffInv, RecordsMatch, Taken, gameSideVars
<1>5. Unserved'
  BY DEF HandoffInv, Unserved, gameSideVars, clientVars
<1> QED BY <1>1, <1>2, <1>3, <1>4, <1>5, GameUntouched DEF HandoffInv

LEMMA ServeInv ==
  ASSUME HandoffInv, Serve
  PROVE  HandoffInv'
<1>1. ASSUME NEW c \in Conn, accept(c)
      PROVE  HandoffInv'
  <2>1. HandlerHoldsOne'
    BY <1>1 DEF accept, HandoffInv, HandlerHoldsOne
  <2>2. /\ \A i \in 1..Len(unix) : unix[i] # c
        /\ \A fd \in open_fds : file[fd] # c
    BY <1>1 DEF accept, in_flight, files, HandoffInv, HandoffTypeOK
  <2>3. handler_fds' \subseteq Conn
    BY <1>1 DEF accept, HandoffInv, HandoffTypeOK
  <2> QED BY <1>1, <2>1, <2>2, <2>3, QuietStep DEF accept
<1>2. ASSUME NEW id \in PlayerId, LetIn(id)
      PROVE  HandoffInv'
  <2>1. /\ who' \in [Conn -> PlayerId]
        /\ \A c \in Conn : c # serving => who'[c] = who[c]
    BY <1>2 DEF LetIn, HandoffInv, HandoffTypeOK
  <2>2. HandoffTypeOK'
    BY <1>2, <2>1, GameUntouched DEF LetIn, HandoffInv, HandoffTypeOK
  <2>3. HandlerHoldsOne'
    BY <1>2 DEF LetIn, HandoffInv, HandlerHoldsOne
  <2>4. Unserved /\ handler_pc = "ask"
    BY <1>2 DEF LetIn, HandoffInv
  <2>5. Paired'
    BY <1>2, <2>1, <2>4
       DEF LetIn, HandoffInv, HandoffTypeOK, Paired, Unserved, gameSideVars, clientVars,
           ClientInv, NoDescriptorLeaked
  <2>6. InStep'
    BY <1>2 DEF LetIn, HandoffInv, InStep, Taken, Ahead, gameSideVars
  <2>7. \A i \in 1..Len(unix) : who'[unix[i]] = who[unix[i]]
    BY <2>1, <2>4 DEF Unserved, HandoffInv, HandoffTypeOK
  <2>8. RecordsMatch'
    BY <1>2, <2>7 DEF LetIn, HandoffInv, RecordsMatch, InStep, Taken, gameSideVars,
                      HandoffTypeOK
  <2>9. Unserved'
    BY <1>2, <2>4 DEF LetIn, Unserved, gameSideVars, clientVars
  <2> QED BY <1>2, <2>2, <2>3, <2>5, <2>6, <2>8, <2>9, GameUntouched DEF LetIn, HandoffInv
<1>3. CASE Refuse
  <2>1. HandlerHoldsOne' /\ handler_fds' \subseteq Conn
    BY <1>3 DEF Refuse, HandoffInv, HandlerHoldsOne, HandoffTypeOK
  <2> QED BY <1>3, <2>1, QuietStep DEF Refuse, HandoffInv, HandoffTypeOK
<1>4. CASE ReadFails
  <2>1. HandlerHoldsOne' /\ handler_fds' \subseteq Conn
    BY <1>4 DEF ReadFails, HandlerHoldsOne
  <2> QED BY <1>4, <2>1, QuietStep DEF ReadFails, HandoffInv, HandoffTypeOK
<1> QED BY <1>1, <1>2, <1>3, <1>4 DEF Serve

(***************************************************************************)
(* The sends, and what follows them.                                       *)
(***************************************************************************)
LEMMA SendRecordInv ==
  ASSUME HandoffInv, SendRecord
  PROVE  HandoffInv'
<1>1. /\ pipe' \in Seq(PlayerId)
      /\ Len(pipe') = Len(pipe) + 1
      /\ pipe'[Len(pipe')] = who[serving]
      /\ \A i \in 1..Len(pipe) : pipe'[i] = pipe[i]
  BY DEF SendRecord, HandoffInv, HandoffTypeOK
<1>2. HandoffTypeOK'
  BY <1>1, GameUntouched DEF SendRecord, HandoffInv, HandoffTypeOK
<1>3. HandlerHoldsOne'
  BY DEF SendRecord, HandoffInv, HandlerHoldsOne
<1>4. Paired'
  BY DEF SendRecord, HandoffInv, Paired, gameSideVars, clientVars
<1>5. InStep'
  BY <1>1 DEF SendRecord, HandoffInv, HandoffTypeOK, InStep, Taken, Ahead, gameSideVars
<1>6. RecordsMatch'
  BY <1>1 DEF SendRecord, HandoffInv, HandoffTypeOK, RecordsMatch, InStep, Taken, Ahead,
              gameSideVars
<1>7. Unserved'
  BY DEF SendRecord, HandoffInv, Unserved, gameSideVars, clientVars
<1> QED BY <1>2, <1>3, <1>4, <1>5, <1>6, <1>7, GameUntouched DEF SendRecord, HandoffInv

LEMMA SendFdInv ==
  ASSUME HandoffInv, send_fd
  PROVE  HandoffInv'
<1>1. /\ unix' \in Seq(Conn)
      /\ Len(unix') = Len(unix) + 1
      /\ unix'[Len(unix) + 1] = serving
      /\ \A i \in 1..Len(unix) : unix'[i] = unix[i]
  BY DEF send_fd, HandoffInv, HandoffTypeOK
<1>2. Len(unix') <= QMax
  BY <1>1, HandoffAssumption DEF send_fd, HandoffInv, HandoffTypeOK
<1>3. HandoffTypeOK'
  BY <1>1, <1>2, GameUntouched DEF send_fd, HandoffInv, HandoffTypeOK
<1>4. HandlerHoldsOne'
  BY DEF send_fd, HandoffInv, HandlerHoldsOne
<1>5. Paired'
  BY DEF send_fd, HandoffInv, Paired, gameSideVars, clientVars
<1>6. InStep'
  BY <1>1 DEF send_fd, HandoffInv, HandoffTypeOK, InStep, Taken, Ahead, gameSideVars
<1>7. pipe[Len(unix) + 1 - Taken] = who[serving]
  BY DEF send_fd, HandoffInv, HandoffTypeOK, InStep, RecordsMatch, Taken, Ahead
<1>8. RecordsMatch'
  BY <1>1, <1>7 DEF send_fd, HandoffInv, HandoffTypeOK, RecordsMatch, InStep, Taken,
                    gameSideVars
<1>9. Unserved'
  BY DEF send_fd, Unserved
<1> QED BY <1>3, <1>4, <1>5, <1>6, <1>8, <1>9, GameUntouched DEF send_fd, HandoffInv

LEMMA HandOverInv ==
  ASSUME HandoffInv, HandOver
  PROVE  HandoffInv'
<1>1. CASE SendFails
  <2>1. HandlerHoldsOne' /\ handler_fds' \subseteq Conn
    BY <1>1 DEF SendFails, HandlerHoldsOne
  <2> QED BY <1>1, <2>1, QuietStep DEF SendFails, HandoffInv, HandoffTypeOK
<1>2. CASE Close
  <2>1. HandlerHoldsOne' /\ handler_fds' \subseteq Conn
    BY <1>2 DEF Close, HandoffInv, HandlerHoldsOne, HandoffTypeOK
  <2> QED BY <1>2, <2>1, QuietStep DEF Close, HandoffInv, HandoffTypeOK
<1> QED BY <1>1, <1>2, SendRecordInv, SendFdInv DEF HandOver

-----------------------------------------------------------------------------
(***************************************************************************)
(* The game.  Where the tables of ClientManager stay, so does everything   *)
(* the invariant says of them.                                             *)
(***************************************************************************)
LEMMA TablesUntouched ==
  ASSUME HandoffInv, UNCHANGED <<clientVars, handlerVars, file>>
  PROVE  /\ ClientInv' /\ ClientTypeOK'
         /\ Paired' /\ HandlerHoldsOne'
         /\ DOMAIN file' = open_fds'
         /\ \A fd \in open_fds' : file'[fd] \in Conn
  BY DEF clientVars, handlerVars, HandoffInv, HandoffTypeOK, ClientInv, ClientTypeOK,
         TablesAgree, NoDescriptorLeaked, BoundCoversAll, Paired, HandlerHoldsOne

LEMMA SelectInv ==
  ASSUME HandoffInv, Select
  PROVE  HandoffInv'
<1>1. Len(unix) >= 1
  BY DEF Select, HandoffInv, HandoffTypeOK
<1>2. HandoffTypeOK'
  BY TablesUntouched DEF Select, HandoffInv, HandoffTypeOK, handlerVars
<1>3. InStep'
  BY <1>1 DEF Select, HandoffInv, InStep, Taken, Ahead, handlerVars
<1>4. RecordsMatch'
  BY DEF Select, HandoffInv, RecordsMatch, Taken, handlerVars
<1>5. Unserved'
  BY DEF Select, HandoffInv, Unserved, handlerVars, clientVars
<1> QED BY <1>2, <1>3, <1>4, <1>5, TablesUntouched DEF Select, HandoffInv

LEMMA ReadRecordInv ==
  ASSUME HandoffInv, ReadRecord
  PROVE  HandoffInv'
<1>1. pipe # <<>> /\ Len(pipe) >= 1 /\ pipe \in Seq(PlayerId)
  BY DEF ReadRecord, HandoffInv, HandoffTypeOK, InStep, Taken
<1>2. /\ record' = pipe[1]
      /\ pipe' \in Seq(PlayerId)
      /\ Len(pipe') = Len(pipe) - 1
      /\ \A i \in 1..Len(pipe') : pipe'[i] = pipe[i + 1]
  BY <1>1 DEF ReadRecord
<1>3. HandoffTypeOK'
  BY <1>1, <1>2, TablesUntouched DEF ReadRecord, HandoffInv, HandoffTypeOK, handlerVars
<1>4. InStep'
  BY <1>2 DEF ReadRecord, HandoffInv, HandoffTypeOK, InStep, Taken, Ahead, handlerVars
<1>5. RecordsMatch'
  <2>1. Len(unix) >= 1 /\ Len(unix) \in Nat /\ Len(pipe) \in Nat
    BY DEF ReadRecord, HandoffInv, HandoffTypeOK, InStep
  <2>2. record' = who[unix[1]]
    BY <1>2, <2>1 DEF ReadRecord, HandoffInv, RecordsMatch, Taken
  <2>3. \A i \in 1..Len(unix) : i > 1 => pipe'[i - 1] = who[unix[i]]
    BY <1>2, <2>1 DEF ReadRecord, HandoffInv, RecordsMatch, InStep, Taken
  <2>4. handler_pc = "descriptor" => pipe'[Len(pipe')] = who[serving]
    BY <1>2, <2>1 DEF ReadRecord, HandoffInv, RecordsMatch, InStep, Taken, Ahead
  <2> QED BY <2>2, <2>3, <2>4 DEF ReadRecord, RecordsMatch, Taken, handlerVars
<1>6. Unserved'
  BY DEF ReadRecord, HandoffInv, Unserved, handlerVars, clientVars
<1> QED BY <1>3, <1>4, <1>5, <1>6, TablesUntouched DEF ReadRecord, HandoffInv

(***************************************************************************)
(* A login in the tables: the new descriptor is that of the player, the    *)
(* other connections left are those that were there.                       *)
(***************************************************************************)
LEMMA AcceptTables ==
  ASSUME ClientInv, NEW id \in PlayerId, NEW fd \in Fd, accept_new_client(id, fd)
  PROVE  /\ ClientInv'
         /\ fd \in client_sockets' /\ fd \notin client_sockets
         /\ players_ids'[fd] = id
         /\ \A g \in client_sockets' : g # fd =>
               g \in client_sockets /\ players_ids'[g] = players_ids[g]
         /\ \A g \in client_sockets : g \in client_sockets' <=> players_ids[g] # id
<1>1. ClientInv'
  BY ConnectInv, ReconnectInv DEF accept_new_client
<1>2. fd \notin client_sockets
  BY DEF accept_new_client, recv_fd, ClientInv, NoDescriptorLeaked
<1>3. CASE is_connected(id) /\ Reconnect(id, fd)
  <2>1. players_ids' = Assign(Erase(players_ids, clients[id]), fd, id)
    BY <1>3 DEF Reconnect
  <2>2. client_sockets' = (client_sockets \ {clients[id]}) \cup {fd}
    BY <1>3 DEF Reconnect
  <2>3. \A g \in client_sockets : g = clients[id] <=> players_ids[g] = id
    BY <1>3 DEF ClientInv, TablesAgree, is_connected
  <2>4. /\ DOMAIN players_ids = client_sockets
        /\ players_ids'[fd] = id
        /\ \A g \in client_sockets \ {clients[id]} : players_ids'[g] = players_ids[g]
    BY <1>2, <2>1 DEF Assign, Erase, Restrict, ClientInv, TablesAgree
  <2> QED BY <1>1, <1>2, <2>2, <2>3, <2>4
<1>4. CASE ~is_connected(id) /\ Connect(id, fd)
  <2>1. players_ids' = Assign(players_ids, fd, id) /\ client_sockets' = client_sockets \cup {fd}
    BY <1>4 DEF Connect
  <2> QED BY <1>1, <1>2, <1>4, <2>1 DEF Assign, ClientInv, TablesAgree, is_connected
<1> QED BY <1>3, <1>4 DEF accept_new_client

LEMMA ReceiveInv ==
  ASSUME HandoffInv, NEW fd \in Fd, Receive(fd)
  PROVE  HandoffInv'
<1>1. /\ unix \in Seq(Conn) /\ Len(unix) >= 1 /\ Head(unix) = unix[1] /\ unix[1] \in Conn
      /\ record \in PlayerId /\ record = who[unix[1]]
  BY DEF Receive, HandoffInv, HandoffTypeOK, InStep, RecordsMatch
<1>2. /\ unix' \in Seq(Conn)
      /\ Len(unix') = Len(unix) - 1
      /\ \A i \in 1..Len(unix') : unix'[i] = unix[i + 1]
  BY <1>1 DEF Receive
<1>3. /\ ClientInv'
      /\ fd \in client_sockets'
      /\ players_ids'[fd] = record
      /\ \A g \in client_sockets' : g # fd =>
            g \in client_sockets /\ players_ids'[g] = players_ids[g]
  BY <1>1, AcceptTables DEF Receive, HandoffInv
<1>4. open_fds' = client_sockets' /\ open_fds = client_sockets /\ ClientTypeOK'
  BY <1>3 DEF HandoffInv, ClientInv, NoDescriptorLeaked
<1>5. /\ DOMAIN file' = open_fds'
      /\ file'[fd] = unix[1]
      /\ \A g \in open_fds' : g # fd => file'[g] = file[g]
  <2>1. file' = [f \in open_fds' |-> IF f = fd THEN unix[1] ELSE file[f]]
    BY <1>1 DEF Receive, OpenOn
  <2> QED BY <1>3, <1>4, <2>1
<1>6. \A g \in open_fds' : file'[g] \in Conn
  BY <1>1, <1>3, <1>4, <1>5 DEF HandoffInv, HandoffTypeOK
<1>7. HandoffTypeOK'
  BY <1>1, <1>2, <1>4, <1>5, <1>6, HandoffAssumption DEF Receive, HandoffInv, HandoffTypeOK, handlerVars
<1>8. HandlerHoldsOne'
  BY DEF Receive, HandoffInv, HandlerHoldsOne, handlerVars
<1>9. Paired'
  BY <1>1, <1>3, <1>4, <1>5 DEF Receive, HandoffInv, Paired, handlerVars
<1>10. InStep'
  BY <1>1, <1>2 DEF Receive, HandoffInv, HandoffTypeOK, InStep, Taken, Ahead, handlerVars
<1>11. RecordsMatch'
  BY <1>1, <1>2 DEF Receive, HandoffInv, HandoffTypeOK, RecordsMatch, InStep, Taken, handlerVars
<1>12. Unserved'
  BY <1>1, <1>2, <1>3, <1>4, <1>5 DEF Receive, HandoffInv, Unserved, handlerVars
<1> QED BY <1>3, <1>7, <1>8, <1>9, <1>10, <1>11, <1>12 DEF HandoffInv

LEMMA DisconnectInv ==
  ASSUME HandoffInv, NEW id \in PlayerId, Disconnect(id)
  PROVE  HandoffInv'
<1>1. ClientInv'
  BY RemoveInv DEF Disconnect, HandoffInv
<1>2. /\ client_sockets' \subseteq client_sockets
      /\ \A g \in client_sockets' : players_ids'[g] = players_ids[g]
  <2>1. players_ids' = Erase(players_ids, clients[id])
        /\ client_sockets' = client_sockets \ {clients[id]}
    BY DEF Disconnect, remove_client, disconnect_client
  <2> QED BY <2>1 DEF Erase, Restrict, HandoffInv, ClientInv, TablesAgree
<1>3. open_fds' = client_sockets' /\ open_fds = client_sockets /\ ClientTypeOK'
  BY <1>1 DEF HandoffInv, ClientInv, NoDescriptorLeaked
<1>4. DOMAIN file' = open_fds' /\ \A g \in open_fds' : file'[g] = file[g]
  BY <1>2, <1>3 DEF Disconnect, Restrict, HandoffInv, HandoffTypeOK
<1>5. HandoffTypeOK'
  BY <1>2, <1>3, <1>4 DEF Disconnect, HandoffInv, HandoffTypeOK, handlerVars
<1>6. HandlerHoldsOne'
  BY DEF Disconnect, HandoffInv, HandlerHoldsOne, handlerVars
<1>7. Paired'
  BY <1>2, <1>3, <1>4 DEF Disconnect, HandoffInv, Paired, handlerVars
<1>8. InStep' /\ RecordsMatch'
  BY DEF Disconnect, HandoffInv, InStep, RecordsMatch, Taken, Ahead, handlerVars
<1>9. Unserved'
  BY <1>2, <1>3, <1>4 DEF Disconnect, HandoffInv, Unserved, handlerVars
<1> QED BY <1>1, <1>5, <1>6, <1>7, <1>8, <1>9 DEF HandoffInv

LEMMA HandoffStep == HandoffInv /\ [HandoffNext]_handoffVars => HandoffInv'
<1> SUFFICES ASSUME HandoffInv, [HandoffNext]_handoffVars
             PROVE  HandoffInv'
  OBVIOUS
<1>1. CASE UNCHANGED handoffVars
  <2>1. HandoffTypeOK'
    BY <1>1, TablesUntouched DEF handoffVars, handlerVars, HandoffInv, HandoffTypeOK
  <2>2. InStep' /\ RecordsMatch' /\ Unserved'
    BY <1>1 DEF handoffVars, clientVars, HandoffInv, InStep, RecordsMatch, Unserved,
                Taken, Ahead
  <2> QED BY <1>1, <2>1, <2>2, TablesUntouched DEF handoffVars, handlerVars, HandoffInv
<1>2. CASE accept_new_clients
  BY <1>1, <1>2, SelectInv, ReadRecordInv, ReceiveInv DEF accept_new_clients, NothingArrived
<1>3. CASE \E id \in PlayerId : Disconnect(id)
  BY <1>3, DisconnectInv
<1> QED BY <1>1, <1>2, <1>3, ServeInv, HandOverInv DEF HandoffNext

LEMMA HandoffInvariance == HandoffSpec => []HandoffInv
  BY HandoffStart, HandoffStep, PTL DEF HandoffSpec

-----------------------------------------------------------------------------
(***************************************************************************)
(* The two processes keep their types; the socket keeps its limit.         *)
(***************************************************************************)
THEOREM HandoffTypes == HandoffSpec => []HandoffTypeOK
<1>1. HandoffInv => HandoffTypeOK
  BY DEF HandoffInv
<1> QED BY HandoffInvariance, <1>1, PTL

(***************************************************************************)
(* Every player plays over the connection its own name was given on.       *)
(***************************************************************************)
THEOREM EveryoneOnOwnConnection == HandoffSpec => []Paired
<1>1. HandoffInv => Paired
  BY DEF HandoffInv
<1> QED BY HandoffInvariance, <1>1, PTL

(***************************************************************************)
(* What the comment in accept_new_clients() relies on: the read of the     *)
(* pipe never finds it empty.                                              *)
(***************************************************************************)
THEOREM PipeIsNeverEmpty == HandoffSpec => []RecordIsWaiting
<1>1. HandoffInv => RecordIsWaiting
  BY DEF HandoffInv, HandoffTypeOK, InStep, Taken, RecordIsWaiting
<1> QED BY HandoffInvariance, <1>1, PTL

(***************************************************************************)
(* The handler never has a connection open but the one it serves.          *)
(***************************************************************************)
THEOREM OneAtATime == HandoffSpec => []HandlerHoldsOne
<1>1. HandoffInv => HandlerHoldsOne
  BY DEF HandoffInv
<1> QED BY HandoffInvariance, <1>1, PTL

-----------------------------------------------------------------------------
(***************************************************************************)
(* The refinement.  Queue(u, w) are the logins of the connections u when w *)
(* says whose names were given on them.                                    *)
(***************************************************************************)
Queue(u, w) == [i \in 1..Len(u) |-> [conn |-> u[i], player |-> w[u[i]]]]

Playing == {[conn |-> file[fd], player |-> players_ids[fd]] : fd \in client_sockets}

LEMMA QueueType ==
  ASSUME NEW u \in Seq(Conn), NEW w \in [Conn -> PlayerId]
  PROVE  /\ Queue(u, w) \in Seq([conn : Conn, player : PlayerId])
         /\ Len(Queue(u, w)) = Len(u)
         /\ \A i \in 1..Len(u) : Queue(u, w)[i] = [conn |-> u[i], player |-> w[u[i]]]
<1>1. \A i \in 1..Len(u) : u[i] \in Conn
  OBVIOUS
<1>2. Queue(u, w) \in [1..Len(u) -> [conn : Conn, player : PlayerId]]
  BY <1>1 DEF Queue
<1>3. Len(u) \in Nat
  OBVIOUS
<1> QED BY <1>2, <1>3 DEF Queue

LEMMA QueueSame ==
  ASSUME NEW u \in Seq(Conn), NEW w, NEW v, \A i \in 1..Len(u) : w[u[i]] = v[u[i]]
  PROVE  Queue(u, w) = Queue(u, v)
  BY DEF Queue

LEMMA QueueGrows ==
  ASSUME NEW u \in Seq(Conn), NEW w \in [Conn -> PlayerId], NEW c \in Conn
  PROVE  Queue(Append(u, c), w) = Append(Queue(u, w), [conn |-> c, player |-> w[c]])
<1> DEFINE S == [conn : Conn, player : PlayerId]
           v == Append(u, c)
           q == Queue(u, w)
           r == [conn |-> c, player |-> w[c]]
           s == Queue(v, w)
           t == Append(q, r)
<1>1. /\ v \in Seq(Conn)
      /\ Len(v) = Len(u) + 1
      /\ \A i \in 1..Len(u) : v[i] = u[i]
      /\ v[Len(u) + 1] = c
      /\ Len(u) \in Nat
  OBVIOUS
<1>2. /\ q \in Seq(S) /\ Len(q) = Len(u)
      /\ \A i \in 1..Len(u) : q[i] = [conn |-> u[i], player |-> w[u[i]]]
  BY QueueType
<1> HIDE DEF v, q
<1>3. /\ s \in Seq(S) /\ Len(s) = Len(v)
      /\ \A i \in 1..Len(v) : s[i] = [conn |-> v[i], player |-> w[v[i]]]
  BY <1>1, QueueType
<1>4. r \in S
  OBVIOUS
<1> HIDE DEF S, r, s
<1>5. /\ t \in Seq(S) /\ Len(t) = Len(u) + 1
      /\ \A i \in 1..Len(u) : t[i] = q[i]
      /\ t[Len(u) + 1] = r
  BY <1>1, <1>2, <1>4
<1> HIDE DEF t
<1>6. ASSUME NEW i \in 1..Len(s)
      PROVE  s[i] = t[i]
  <2>1. CASE i \in 1..Len(u)
    BY <1>1, <1>2, <1>3, <1>5, <2>1
  <2>2. CASE i = Len(u) + 1
    BY <1>1, <1>3, <1>5, <2>2 DEF r
  <2> QED BY <1>1, <1>3, <2>1, <2>2
<1>7. Len(s) = Len(t)
  BY <1>1, <1>3, <1>5
<1>8. s = t
  BY <1>3, <1>5, <1>6, <1>7, SeqEqual
<1> QED BY <1>8 DEF s, t, v, q, r

LEMMA QueueShrinks ==
  ASSUME NEW u \in Seq(Conn), NEW w \in [Conn -> PlayerId], Len(u) >= 1
  PROVE  /\ Queue(u, w) # <<>>
         /\ Head(Queue(u, w)) = [conn |-> u[1], player |-> w[u[1]]]
         /\ Queue(Tail(u), w) = Tail(Queue(u, w))
<1> DEFINE S == [conn : Conn, player : PlayerId]
           v == Tail(u)
           q == Queue(u, w)
           s == Queue(v, w)
           t == Tail(q)
<1>1. /\ v \in Seq(Conn) /\ Len(v) = Len(u) - 1
      /\ \A i \in 1..(Len(u) - 1) : v[i] = u[i + 1]
      /\ Len(u) \in Nat
  OBVIOUS
<1>2. /\ q \in Seq(S) /\ Len(q) = Len(u)
      /\ \A i \in 1..Len(u) : q[i] = [conn |-> u[i], player |-> w[u[i]]]
  BY QueueType
<1> HIDE DEF v, q
<1>3. /\ s \in Seq(S) /\ Len(s) = Len(v)
      /\ \A i \in 1..Len(v) : s[i] = [conn |-> v[i], player |-> w[v[i]]]
  BY <1>1, QueueType
<1> HIDE DEF S, s
<1>4. q # <<>> /\ Head(q) = q[1]
  BY <1>2
<1>5. /\ t \in Seq(S) /\ Len(t) = Len(u) - 1
      /\ \A i \in 1..(Len(u) - 1) : t[i] = q[i + 1]
  BY <1>2, <1>4, HeadTailProperties
<1> HIDE DEF t
<1>6. ASSUME NEW i \in 1..Len(s)
      PROVE  s[i] = t[i]
  <2>1. i \in 1..(Len(u) - 1) /\ i + 1 \in 1..Len(u)
    BY <1>1, <1>3
  <2> QED BY <1>1, <1>2, <1>3, <1>5, <2>1
<1>7. Len(s) = Len(t)
  BY <1>1, <1>3, <1>5
<1>8. s = t
  BY <1>3, <1>5, <1>6, <1>7, SeqEqual
<1>9. q[1] = [conn |-> u[1], player |-> w[u[1]]]
  BY <1>2
<1> QED BY <1>4, <1>8, <1>9 DEF s, t, v, q

LEMMA ServeMaps ==
  ASSUME HandoffInv, Serve
  PROVE  UNCHANGED <<Queue(unix, who), Playing>>
<1>1. unix' = unix /\ UNCHANGED gameSideVars
  BY DEF Serve, accept, LetIn, Refuse, ReadFails
<1>2. \A i \in 1..Len(unix) : who'[unix[i]] = who[unix[i]]
  <2>1. CASE \E id \in PlayerId : LetIn(id)
    BY <2>1 DEF LetIn, HandoffInv, Unserved, HandoffTypeOK
  <2>2. CASE who' = who
    BY <2>2
  <2> QED BY <2>1, <2>2 DEF Serve, accept, Refuse, ReadFails
<1>3. Queue(unix', who') = Queue(unix, who)
  BY <1>1, <1>2, QueueSame DEF HandoffInv, HandoffTypeOK
<1>4. Playing' = Playing
  BY <1>1 DEF Playing, gameSideVars, clientVars
<1> QED BY <1>3, <1>4

LEMMA SendFdMaps ==
  ASSUME HandoffInv, send_fd
  PROVE  \E s \in L!Session : L!LetIn(s)
<1> DEFINE s == [conn |-> serving, player |-> who[serving]]
<1>1. s \in L!Session
  BY DEF HandoffInv, HandoffTypeOK, L!Session
<1>2. Queue(unix', who') = Append(Queue(unix, who), s)
  BY QueueGrows DEF send_fd, HandoffInv, HandoffTypeOK
<1>3. Playing' = Playing
  BY DEF send_fd, gameSideVars, clientVars, Playing
<1>4. L!LetIn(s)
  BY <1>2, <1>3 DEF L!LetIn, Queue, Playing
<1> HIDE DEF s
<1> QED BY <1>1, <1>4 DEF L!LetIn

LEMMA ReceiveMaps ==
  ASSUME HandoffInv, NEW fd \in Fd, Receive(fd)
  PROVE  L!Enter
<1> DEFINE h == [conn |-> unix[1], player |-> who[unix[1]]]
<1>1. /\ unix \in Seq(Conn) /\ Len(unix) >= 1 /\ Head(unix) = unix[1]
      /\ record \in PlayerId /\ record = who[unix[1]] /\ who \in [Conn -> PlayerId]
  BY DEF Receive, HandoffInv, HandoffTypeOK, InStep, RecordsMatch
<1>2. /\ Queue(unix, who) # <<>>
      /\ Head(Queue(unix, who)) = h
      /\ Queue(unix', who') = Tail(Queue(unix, who))
  BY <1>1, QueueShrinks DEF Receive, handlerVars
<1>3. /\ fd \in client_sockets' /\ fd \notin client_sockets
      /\ players_ids'[fd] = record
      /\ \A g \in client_sockets' : g # fd =>
            g \in client_sockets /\ players_ids'[g] = players_ids[g]
      /\ \A g \in client_sockets : g \in client_sockets' <=> players_ids[g] # record
      /\ open_fds' = client_sockets'
  BY <1>1, AcceptTables DEF Receive, HandoffInv, ClientInv, NoDescriptorLeaked
<1>4. file' = [f \in client_sockets' |-> IF f = fd THEN unix[1] ELSE file[f]]
  BY <1>1, <1>3 DEF Receive, OpenOn
<1>5. Playing' = {s \in Playing : s.player # h.player} \cup {h}
  <2>1. ASSUME NEW s \in Playing'
        PROVE  s \in {p \in Playing : p.player # h.player} \cup {h}
    BY <1>1, <1>3, <1>4 DEF Playing
  <2>2. h \in Playing'
    BY <1>1, <1>3, <1>4 DEF Playing
  <2>3. ASSUME NEW s \in Playing, s.player # h.player
        PROVE  s \in Playing'
    <3>1. PICK g \in client_sockets : s = [conn |-> file[g], player |-> players_ids[g]]
      BY DEF Playing
    <3>2. g \in client_sockets' /\ g # fd
      BY <1>1, <1>3, <2>3, <3>1
    <3> QED BY <1>3, <1>4, <3>1, <3>2 DEF Playing
  <2> QED BY <2>1, <2>2, <2>3
<1> QED BY <1>2, <1>5 DEF L!Enter, Queue, Playing

LEMMA DisconnectMaps ==
  ASSUME HandoffInv, NEW id \in PlayerId, Disconnect(id)
  PROVE  \E s \in L!Session : L!Leave(s)
<1> DEFINE fd == clients[id]
           s == [conn |-> file[fd], player |-> players_ids[fd]]
<1>1. /\ fd \in client_sockets /\ players_ids[fd] = id
      /\ \A g \in client_sockets : players_ids[g] = id => g = fd
      /\ client_sockets' = client_sockets \ {fd} /\ open_fds' = client_sockets'
      /\ open_fds = client_sockets
      /\ players_ids' = Erase(players_ids, fd)
  BY DEF Disconnect, remove_client, is_connected, disconnect_client, HandoffInv, ClientInv,
         TablesAgree, NoDescriptorLeaked
<1>2. \A g \in client_sockets' : players_ids'[g] = players_ids[g] /\ file'[g] = file[g]
  BY <1>1 DEF Disconnect, Erase, Restrict, HandoffInv, HandoffTypeOK, ClientInv, TablesAgree
<1>3. s \in L!Session
  BY <1>1 DEF HandoffInv, HandoffTypeOK, L!Session
<1>4. s \in Playing
  BY <1>1 DEF Playing
<1>5. Playing' = Playing \ {s}
  <2>1. ASSUME NEW p \in Playing'
        PROVE  p \in Playing \ {s}
    <3>1. PICK g \in client_sockets' : p = [conn |-> file[g], player |-> players_ids[g]]
      BY <1>2 DEF Playing
    <3>2. g \in client_sockets /\ players_ids[g] # players_ids[fd]
      BY <1>1
    <3> QED BY <3>1, <3>2 DEF Playing
  <2>2. ASSUME NEW p \in Playing \ {s}
        PROVE  p \in Playing'
    BY <1>1, <1>2 DEF Playing
  <2> QED BY <2>1, <2>2
<1>6. UNCHANGED Queue(unix, who)
  BY DEF Disconnect, handlerVars
<1>7. L!Leave(s)
  BY <1>4, <1>5, <1>6 DEF L!Leave, Queue, Playing
<1> HIDE DEF s
<1> QED BY <1>3, <1>7 DEF L!Leave

(***************************************************************************)
(* The pipe, the socket and the two processes implement one queue of       *)
(* logins from which players enter in order, over their own connection.    *)
(***************************************************************************)
THEOREM HandoffImplementsLogins == HandoffSpec => LoginsInOrder
<1>1. HandoffInit => L!LoginsInit
  <2> SUFFICES ASSUME HandoffInit
               PROVE  L!LoginsInit
    OBVIOUS
  <2>1. Len(unix) = 0 /\ client_sockets = {}
    BY DEF HandoffInit, ClientInit
  <2> QED BY <2>1 DEF L!LoginsInit
<1>2. HandoffInv /\ [HandoffNext]_handoffVars
        => [L!LoginsNext]_<<Queue(unix, who), Playing>>
  <2> SUFFICES ASSUME HandoffInv, [HandoffNext]_handoffVars
               PROVE  [L!LoginsNext]_<<Queue(unix, who), Playing>>
    OBVIOUS
  <2>1. CASE Serve
    BY <2>1, ServeMaps
  <2>2. CASE send_fd
    BY <2>2, SendFdMaps DEF L!LoginsNext
  <2>3. CASE SendRecord \/ SendFails \/ Close \/ NothingArrived \/ Select \/ ReadRecord
             \/ UNCHANGED handoffVars
    BY <2>3 DEF SendRecord, SendFails, Close, NothingArrived, Select, ReadRecord,
                handoffVars, handlerVars, gameSideVars, clientVars, Queue, Playing
  <2>4. CASE \E fd \in Fd : Receive(fd)
    BY <2>4, ReceiveMaps DEF L!LoginsNext
  <2>5. CASE \E id \in PlayerId : Disconnect(id)
    BY <2>5, DisconnectMaps DEF L!LoginsNext
  <2> QED BY <2>1, <2>2, <2>3, <2>4, <2>5 DEF HandoffNext, HandOver, accept_new_clients
<1>3. [L!LoginsNext]_<<Queue(unix, who), Playing>> =>
        [L!LoginsNext]_<<[i \in 1..Len(unix) |-> [conn |-> unix[i], player |-> who[unix[i]]]],
                         {[conn |-> file[fd], player |-> players_ids[fd]] : fd \in client_sockets}>>
  BY DEF Queue, Playing
<1> QED BY <1>1, <1>2, <1>3, HandoffInvariance, PTL
           DEF HandoffSpec, LoginsInOrder, L!LoginsSpec

=============================================================================
