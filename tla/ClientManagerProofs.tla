------------------------- MODULE ClientManagerProofs -------------------------
(***************************************************************************)
(* What module ClientManager promises for any number of players and any    *)
(* set of descriptors, proved.  The conjunction of its invariants is       *)
(* inductive: the tables can only be kept in step because no descriptor is *)
(* leaked, and a fresh descriptor is fresh to the tables for that reason.  *)
(***************************************************************************)
EXTENDS ClientManager, TLAPS

ClientInv == /\ ClientTypeOK
             /\ TablesAgree
             /\ NoDescriptorLeaked
             /\ BoundCoversAll

-----------------------------------------------------------------------------
(***************************************************************************)
(* The bound left behind by a disconnection covers the other connections.  *)
(***************************************************************************)
LEMMA BoundWithout ==
  ASSUME ClientTypeOK, BoundCoversAll, NEW fd, NEW S, S \subseteq client_sockets
  PROVE  /\ MaxWithout(fd, S) \in Fd \cup {-1}
         /\ \A g \in S : g <= MaxWithout(fd, S)
  BY DEF ClientTypeOK, BoundCoversAll, MaxWithout

LEMMA ClientStart == ClientInit => ClientInv
  BY DEF ClientInit, ClientInv, ClientTypeOK, TablesAgree,
         NoDescriptorLeaked, BoundCoversAll

(***************************************************************************)
(* A login of a player without a connection.                               *)
(***************************************************************************)
LEMMA ConnectInv ==
  ASSUME ClientInv, NEW id \in PlayerId, NEW fd \in Fd,
         recv_fd(fd), ~is_connected(id), Connect(id, fd)
  PROVE  ClientInv'
<1> USE DEF ClientInv
<1>1. fd \notin client_sockets /\ id \notin DOMAIN clients
  BY DEF recv_fd, NoDescriptorLeaked, is_connected
<1>2. /\ DOMAIN clients' = DOMAIN clients \cup {id}
      /\ clients'[id] = fd
      /\ \A i \in DOMAIN clients : clients'[i] = clients[i]
  BY <1>1 DEF Connect, Assign, is_connected
<1>3. /\ DOMAIN players_ids' = DOMAIN players_ids \cup {fd}
      /\ players_ids'[fd] = id
      /\ \A g \in DOMAIN players_ids : players_ids'[g] = players_ids[g]
  BY <1>1 DEF Connect, Assign, TablesAgree
<1>4. client_sockets' = client_sockets \cup {fd} /\ open_fds' = open_fds \cup {fd}
  BY DEF Connect
<1>5. ClientTypeOK'
  BY <1>2, <1>3, <1>4 DEF ClientTypeOK, Connect
<1>6. TablesAgree'
  BY <1>1, <1>2, <1>3, <1>4 DEF TablesAgree
<1>7. NoDescriptorLeaked'
  BY <1>4 DEF NoDescriptorLeaked
<1>8. BoundCoversAll'
  BY <1>4, ClientAssumption DEF Connect, BoundCoversAll, ClientTypeOK
<1> QED BY <1>5, <1>6, <1>7, <1>8

(***************************************************************************)
(* A login over a live connection.                                         *)
(***************************************************************************)
LEMMA ReconnectInv ==
  ASSUME ClientInv, NEW id \in PlayerId, NEW fd \in Fd,
         recv_fd(fd), is_connected(id), Reconnect(id, fd)
  PROVE  ClientInv'
<1> USE DEF ClientInv
<1> DEFINE old == clients[id]
           others == client_sockets \ {old}
           max == MaxWithout(old, others)
<1>1. /\ id \in DOMAIN clients
      /\ old \in client_sockets
      /\ players_ids[old] = id
      /\ fd \notin client_sockets
      /\ fd # old
  BY DEF recv_fd, NoDescriptorLeaked, is_connected, TablesAgree
<1>2. /\ DOMAIN clients' = DOMAIN clients
      /\ clients'[id] = fd
      /\ \A i \in DOMAIN clients \ {id} : clients'[i] = clients[i]
  <2>1. clients' = Assign(Erase(clients, id), id, fd)
    BY DEF Reconnect
  <2> QED BY <1>1, <2>1 DEF Assign, Erase, Restrict
<1>3. /\ DOMAIN players_ids' = (DOMAIN players_ids \ {old}) \cup {fd}
      /\ players_ids'[fd] = id
      /\ \A g \in DOMAIN players_ids \ {old} : players_ids'[g] = players_ids[g]
  <2>1. players_ids' = Assign(Erase(players_ids, old), fd, id)
    BY DEF Reconnect
  <2>2. fd \notin DOMAIN players_ids
    BY <1>1 DEF TablesAgree
  <2> QED BY <2>1, <2>2 DEF Assign, Erase, Restrict
<1>4. /\ client_sockets' = others \cup {fd}
      /\ open_fds' = (open_fds \cup {fd}) \ {old}
      /\ max_client_fd' = IF fd > max THEN fd ELSE max
  BY DEF Reconnect
<1>5. max \in Fd \cup {-1} /\ \A g \in others : g <= max
  BY BoundWithout
<1>6. ClientTypeOK'
  BY <1>1, <1>2, <1>3, <1>4, <1>5 DEF ClientTypeOK, TablesAgree
<1>7. TablesAgree'
  BY <1>1, <1>2, <1>3, <1>4 DEF TablesAgree
<1>8. NoDescriptorLeaked'
  BY <1>1, <1>4 DEF NoDescriptorLeaked
<1>9. BoundCoversAll'
  <2> SUFFICES ASSUME NEW g \in others \cup {fd}
               PROVE  g <= max_client_fd'
    BY <1>4 DEF BoundCoversAll
  <2>1. g \in Nat /\ fd \in Nat
    BY ClientAssumption DEF ClientTypeOK
  <2> HIDE DEF max
  <2>2. max \in Int
    BY <1>5, ClientAssumption
  <2> QED BY <1>4, <1>5, <2>1, <2>2
<1> QED BY <1>6, <1>7, <1>8, <1>9

(***************************************************************************)
(* A disconnection.                                                        *)
(***************************************************************************)
LEMMA RemoveInv ==
  ASSUME ClientInv, NEW id \in PlayerId, remove_client(id)
  PROVE  ClientInv'
<1> USE DEF ClientInv
<1> DEFINE fd == clients[id]
           others == client_sockets \ {fd}
<1>1. /\ id \in DOMAIN clients
      /\ fd \in client_sockets
      /\ players_ids[fd] = id
  BY DEF remove_client, is_connected, TablesAgree
<1>2. /\ DOMAIN clients' = DOMAIN clients \ {id}
      /\ \A i \in DOMAIN clients \ {id} : clients'[i] = clients[i]
  BY DEF remove_client, disconnect_client, Erase, Restrict
<1>3. /\ DOMAIN players_ids' = DOMAIN players_ids \ {fd}
      /\ \A g \in DOMAIN players_ids \ {fd} : players_ids'[g] = players_ids[g]
  BY DEF remove_client, disconnect_client, Erase, Restrict
<1>4. /\ client_sockets' = others
      /\ open_fds' = open_fds \ {fd}
      /\ max_client_fd' = MaxWithout(fd, others)
  BY DEF remove_client, disconnect_client
<1>5. max_client_fd' \in Fd \cup {-1} /\ \A g \in others : g <= max_client_fd'
  BY <1>4, BoundWithout
<1>6. ClientTypeOK'
  BY <1>2, <1>3, <1>4, <1>5 DEF ClientTypeOK
<1>7. TablesAgree'
  BY <1>1, <1>2, <1>3, <1>4 DEF TablesAgree
<1>8. NoDescriptorLeaked'
  BY <1>4 DEF NoDescriptorLeaked
<1>9. BoundCoversAll'
  BY <1>4, <1>5 DEF BoundCoversAll
<1> QED BY <1>6, <1>7, <1>8, <1>9

LEMMA ClientStep == ClientInv /\ [ClientNext]_clientVars => ClientInv'
<1> SUFFICES ASSUME ClientInv, [ClientNext]_clientVars
             PROVE  ClientInv'
  OBVIOUS
<1>1. CASE UNCHANGED clientVars
  BY <1>1 DEF clientVars, ClientInv, ClientTypeOK, TablesAgree,
              NoDescriptorLeaked, BoundCoversAll
<1>2. ASSUME NEW id \in PlayerId, NEW fd \in Fd, accept_new_client(id, fd)
      PROVE  ClientInv'
  BY <1>2, ConnectInv, ReconnectInv DEF accept_new_client
<1>3. ASSUME NEW id \in PlayerId, remove_client(id)
      PROVE  ClientInv'
  BY <1>3, RemoveInv
<1> QED BY <1>1, <1>2, <1>3 DEF ClientNext

LEMMA ClientInvariance == ClientSpec => []ClientInv
  BY ClientStart, ClientStep, PTL DEF ClientSpec

-----------------------------------------------------------------------------
(***************************************************************************)
(* The tables have their types in every reachable state.                   *)
(***************************************************************************)
THEOREM ClientTypes == ClientSpec => []ClientTypeOK
<1>1. ClientInv => ClientTypeOK
  BY DEF ClientInv
<1> QED BY ClientInvariance, <1>1, PTL

(***************************************************************************)
(* The tables by player and by descriptor are always each other's inverse. *)
(***************************************************************************)
THEOREM TablesInverse == ClientSpec => []TablesAgree
<1>1. ClientInv => TablesAgree
  BY DEF ClientInv
<1> QED BY ClientInvariance, <1>1, PTL

(***************************************************************************)
(* The open descriptors are exactly those of the tables.                   *)
(***************************************************************************)
THEOREM DescriptorsKept == ClientSpec => []NoDescriptorLeaked
<1>1. ClientInv => NoDescriptorLeaked
  BY DEF ClientInv
<1> QED BY ClientInvariance, <1>1, PTL

(***************************************************************************)
(* The bound of select() is never below a connection.                      *)
(***************************************************************************)
THEOREM EveryClientIsRead == ClientSpec => []BoundCoversAll
<1>1. ClientInv => BoundCoversAll
  BY DEF ClientInv
<1> QED BY ClientInvariance, <1>1, PTL

=============================================================================
