---------------------------- MODULE ClientManager ----------------------------
(***************************************************************************)
(* The connections of the game process: ClientManager (clientManager.cpp). *)
(*                                                                         *)
(* The class keeps three tables of the same connections, clients (player   *)
(* to descriptor), players_ids (descriptor to player) and client_sockets,  *)
(* and the bound max_client_fd that select() is given.  Every handler      *)
(* updates the four by hand; descriptors are numbers the kernel reuses at  *)
(* once, so an entry left behind soon speaks of somebody else.             *)
(*                                                                         *)
(* client_sockets is a list in the code; its order decides only in which   *)
(* order the sockets of one tick are read, and is left out.                *)
(***************************************************************************)
EXTENDS Integers, FiniteSets, Functions

CONSTANTS
    PlayerId,   \* ids of the players in the data base
    Fd          \* descriptors the kernel may hand out for client sockets

ASSUME ClientAssumption == Fd \subseteq Nat

VARIABLES
    clients,        \* player id |-> descriptor of its connection
    client_sockets, \* descriptors of all connections
    players_ids,    \* descriptor |-> player id
    max_client_fd,  \* bound for select(), -1 when nobody is connected
    open_fds        \* client descriptors open in the process (the kernel's)

clientVars == <<clients, client_sockets, players_ids, max_client_fd, open_fds>>

ClientInit == /\ clients = [i \in {} |-> {}]
              /\ client_sockets = {}
              /\ players_ids = [f \in {} |-> {}]
              /\ max_client_fd = -1
              /\ open_fds = {}

-----------------------------------------------------------------------------
Erase(f, x) == Restrict(f, DOMAIN f \ {x})

Assign(f, x, v) == [y \in DOMAIN f \cup {x} |-> IF y = x THEN v ELSE f[y]]

is_connected(id) == id \in DOMAIN clients

\* recvmsg() installs the descriptor in the lowest free slot.
recv_fd(fd) == /\ fd \notin open_fds
               /\ \A f \in Fd : f < fd => f \in open_fds

\* Faulty variant: the bound falls to -1 whenever its holder leaves.
MaxResetOnLeave(fd, sockets) == IF fd = max_client_fd THEN -1 ELSE max_client_fd

\* disconnect_client() resets the bound only with the last connection, and
\* only if that is the connection that set it.
MaxWithout(fd, sockets) ==
    IF fd = max_client_fd /\ sockets = {} THEN -1 ELSE max_client_fd

\* Faulty variant: the table by descriptor is forgotten.
DisconnectKeepingId(id) ==
    LET fd == clients[id] IN
    /\ client_sockets' = client_sockets \ {fd}
    /\ clients' = Erase(clients, id)
    /\ players_ids' = players_ids
    /\ max_client_fd' = MaxWithout(fd, client_sockets \ {fd})
    /\ open_fds' = open_fds \ {fd}

disconnect_client(id) ==
    LET fd == clients[id] IN
    /\ client_sockets' = client_sockets \ {fd}
    /\ clients' = Erase(clients, id)
    /\ players_ids' = Erase(players_ids, fd)
    /\ max_client_fd' = MaxWithout(fd, client_sockets \ {fd})
    /\ open_fds' = open_fds \ {fd}

\* The new connection of a player that has none.
Connect(id, fd) ==
    /\ clients' = Assign(clients, id, fd)
    /\ client_sockets' = client_sockets \cup {fd}
    /\ players_ids' = Assign(players_ids, fd, id)
    /\ max_client_fd' = IF fd > max_client_fd THEN fd ELSE max_client_fd
    /\ open_fds' = open_fds \cup {fd}

\* Faulty variant: the old connection leaves the tables and stays open.
ReconnectWithoutClose(id, fd) ==
    LET old == clients[id] IN
    /\ clients' = Assign(Erase(clients, id), id, fd)
    /\ client_sockets' = (client_sockets \ {old}) \cup {fd}
    /\ players_ids' = Assign(Erase(players_ids, old), fd, id)
    /\ max_client_fd' = IF fd > max_client_fd THEN fd ELSE max_client_fd
    /\ open_fds' = open_fds \cup {fd}

\* A player that has a connection logs in again: the old one is dropped by
\* disconnect_client() and the new one takes its place.
Reconnect(id, fd) ==
    LET old == clients[id]
        others == client_sockets \ {old}
        max == MaxWithout(old, others)
    IN  /\ clients' = Assign(Erase(clients, id), id, fd)
        /\ client_sockets' = others \cup {fd}
        /\ players_ids' = Assign(Erase(players_ids, old), fd, id)
        /\ max_client_fd' = IF fd > max THEN fd ELSE max
        /\ open_fds' = (open_fds \cup {fd}) \ {old}

accept_new_client(id, fd) ==
    /\ recv_fd(fd)
    /\ \/ is_connected(id) /\ Reconnect(id, fd)
       \/ ~is_connected(id) /\ Connect(id, fd)

remove_client(id) == is_connected(id) /\ disconnect_client(id)

ClientNext == \E id \in PlayerId : \/ \E fd \in Fd : accept_new_client(id, fd)
                                   \/ remove_client(id)

ClientSpec == ClientInit /\ [][ClientNext]_clientVars

-----------------------------------------------------------------------------
(***************************************************************************)
(* Properties.                                                             *)
(***************************************************************************)

(***************************************************************************)
(* The type invariant.                                                     *)
(***************************************************************************)
ClientTypeOK ==
    /\ DOMAIN clients \subseteq PlayerId
    /\ \A id \in DOMAIN clients : clients[id] \in Fd
    /\ client_sockets \subseteq Fd
    /\ DOMAIN players_ids \subseteq Fd
    /\ \A fd \in DOMAIN players_ids : players_ids[fd] \in PlayerId
    /\ max_client_fd \in Fd \cup {-1}
    /\ open_fds \subseteq Fd

(***************************************************************************)
(* The three tables speak of the same connections: clients and players_ids *)
(* are each other's inverse, so what is read from a socket is run for the  *)
(* player that owns it and no two players share a descriptor, although     *)
(* descriptors are reused and players log in again over a live connection. *)
(***************************************************************************)
TablesAgree ==
    /\ DOMAIN players_ids = client_sockets
    /\ \A id \in DOMAIN clients : /\ clients[id] \in client_sockets
                                  /\ players_ids[clients[id]] = id
    /\ \A fd \in client_sockets : /\ players_ids[fd] \in DOMAIN clients
                                  /\ clients[players_ids[fd]] = fd

(***************************************************************************)
(* Every descriptor the process holds for a client is in its tables: none  *)
(* is leaked by a login over a live connection, none is used once closed.  *)
(***************************************************************************)
NoDescriptorLeaked == open_fds = client_sockets

(***************************************************************************)
(* select() is given a bound that covers every connection, so no client is *)
(* ever left unread (in particular the early return of read_clients() on a *)
(* negative bound hides nobody), although the bound is never recomputed:   *)
(* it may be more than the maximum clientManager.h:56 says it is.          *)
(***************************************************************************)
BoundCoversAll == \A fd \in client_sockets : fd <= max_client_fd

=============================================================================
