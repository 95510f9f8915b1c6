-------------------------------- MODULE World --------------------------------
(***************************************************************************)
(* The world: make_world() reads zones and rooms from the data base and    *)
(* link_rooms() turns the ids found there into pointers, in the same eight *)
(* slots of each room; then players walk.                                  *)
(*                                                                         *)
(* A slot is an integer, as in the code: 0, the id of a room (before it is *)
(* linked) or the address of a Room. The table of rooms is the chained     *)
(* hash table of the compiler's library, whose operator[] grows the table  *)
(* before it looks the key up, and link_rooms() calls it while it walks    *)
(* over that very table.                                                   *)
(***************************************************************************)
EXTENDS Directions, FiniteSets, SequencesExt

CONSTANTS
    RoomId,     \* the ids of the rows of the table of rooms
    Address,    \* room id |-> where its object lies in memory
    ZoneId,     \* the ids of the rows of the table of zones
    Maps,       \* the data bases to start from
    Home,       \* the room in which the player logs in
    Sizes       \* the sizes a hash table can have, in increasing order

ASSUME WorldAssumption ==
    /\ RoomId \subseteq Nat \ {0} /\ IsFiniteSet(RoomId) /\ Home \in RoomId
    /\ Address \in [RoomId -> Nat \ {0}]
    /\ \A r, s \in RoomId : Address[r] = Address[s] => r = s
    /\ \A m \in Maps : /\ m.exit \in [RoomId -> [Name -> Nat]]
                       /\ m.zone \in [RoomId -> Nat \ {0}]
                       /\ \A r, s \in RoomId, c \in Name : m.exit[r][c] # Address[s]
    /\ Sizes \in Seq(Nat \ {0}) /\ Sizes # <<>>
    /\ \A i \in 1..Len(Sizes) - 1 : Sizes[i] < Sizes[i + 1]

VARIABLES
    db,         \* the tables: [exit |-> id |-> column |-> id or 0, zone |-> id |-> id]
    status,     \* "load", "link", "ready" or "segfault"
    unread,     \* the rows of the result not yet read
    table,      \* the buckets of the table of rooms, each a chain of keys
    rooms,      \* key |-> the pointer stored under it, 0 if null
    slot,       \* room |-> direction |-> the content of the pointer
    zone,       \* room |-> its zone, 0 if null
    cursor,     \* the key link_rooms() has come to, 0 at the end
    turn,       \* and the slot of it, 8 when all are done
    at,         \* the room the player stands in, 0 before it logs in
    heard       \* what the last walk said

worldVars == <<db, status, unread, table, rooms, slot, zone, cursor, turn, at, heard>>

Nothing == [gone |-> {}, arrived |-> {}, list |-> {}]

-----------------------------------------------------------------------------
(* The hash table.                                                         *)

size == Len(table)
Chain(t, k) == t[(k % Len(t)) + 1]

Keys(t) == UNION {Range(t[b]) : b \in DOMAIN t}

\* The walk comes to key j before it comes to key k.
Before(t, j, k) ==
    \E a, b \in DOMAIN t : \E x \in DOMAIN t[a], y \in DOMAIN t[b] :
        /\ t[a][x] = j /\ t[b][y] = k
        /\ a < b \/ (a = b /\ x < y)

\* How many keys of S the walk comes to after key k.
After(t, S, k) == Cardinality({j \in S : Before(t, k, j)})

\* The keys of S against the order in which the walk comes to them.
Against(t, S) == [i \in 1..Cardinality(S) |-> CHOOSE k \in S : After(t, S, k) = i - 1]

\* Every chain is taken from its head and put before the heads of the new ones.
Rehash(t, n) == [b \in 1..n |-> Against(t, {k \in Keys(t) : k % n = b - 1})]

Grown(t) ==
    LET hint == Cardinality(DOMAIN rooms) + 1
        fits == {i \in DOMAIN Sizes : Sizes[i] >= hint}
    IN  IF hint > Len(t) /\ fits # {}
        THEN Rehash(t, Sizes[CHOOSE i \in fits : \A j \in fits : i <= j])
        ELSE t

\* Faulty variant: the key is inserted without looking for it.
WithTwice(k) ==
    LET t == Grown(table) IN [t EXCEPT ![(k % Len(t)) + 1] = <<k>> \o @]

With(k) ==
    LET t == Grown(table)
    IN  IF k \in DOMAIN rooms THEN t
        ELSE [t EXCEPT ![(k % Len(t)) + 1] = <<k>> \o @]

\* rooms[k], which enters a null pointer for a key that is not there.
Found(k) == IF k \in DOMAIN rooms THEN rooms[k] ELSE 0

Entered(k, p) == [j \in DOMAIN rooms \cup {k} |-> IF j = k THEN p ELSE rooms[j]]

\* The head of the first chain from bucket b on that has one, 0 if none has.
HeadFrom(t, b) ==
    LET full == {i \in b..Len(t) : t[i] # <<>>}
    IN  IF full = {} THEN 0 ELSE Head(t[CHOOSE i \in full : \A j \in full : i <= j])

\* Faulty variant: after a chain the walk starts again.
SuccRound(k) ==
    LET c == Chain(table, k)
        i == CHOOSE j \in DOMAIN c : c[j] = k
    IN  IF i < Len(c) THEN c[i + 1] ELSE HeadFrom(table, 1)

\* operator++: along the chain, then on from the bucket the key has *now*.
Succ(k) ==
    LET c == Chain(table, k)
        i == CHOOSE j \in DOMAIN c : c[j] = k
    IN  IF i < Len(c) THEN c[i + 1] ELSE HeadFrom(table, (k % size) + 2)

-----------------------------------------------------------------------------
(* Rooms.                                                                  *)

IsRoom(p) == \E r \in RoomId : Address[r] = p
RoomAt(p) == CHOOSE r \in RoomId : Address[r] = p

NoExits == [d \in Dir |-> 0]

add_exit(s, e, p) == [s EXCEPT ![str2card(e)] = p]

get_exit(r, d) == slot[r][d]

\* Faulty variant: every direction has an exit.
has_exit_always(r, d) == TRUE

has_exit(r, d) == slot[r][d] > 0

\* Faulty variant: two slots share a bit.
valid_exits_shared(r) ==
    LET bit(d) == IF slot[r][d] > 0 THEN 1 ELSE 0
    IN  128 * bit(0) + 64 * bit(1) + 32 * bit(2) + 16 * bit(3)
        + 8 * bit(4) + 8 * bit(5) + 2 * bit(6) + bit(7)

valid_exits(r) ==
    LET bit(d) == IF slot[r][d] > 0 THEN 1 ELSE 0
    IN  128 * bit(0) + 64 * bit(1) + 32 * bit(2) + 16 * bit(3)
        + 8 * bit(4) + 4 * bit(5) + 2 * bit(6) + bit(7)

\* The names glance() lists, one for each bit of valid_exits() that is set.
Listed(r) == {Column[i] : i \in {j \in 1..8 : (valid_exits(r) \div 2^(8 - j)) % 2 = 1}}

-----------------------------------------------------------------------------
(* Loading and linking.                                                    *)

WorldInit ==
    /\ db \in Maps
    /\ status = "load" /\ unread = RoomId
    /\ table = [b \in 1..Sizes[1] |-> <<>>] /\ rooms = <<>>
    /\ slot = [r \in RoomId |-> NoExits] /\ zone = [r \in RoomId |-> 0]
    /\ cursor = 0 /\ turn = 0
    /\ at = 0 /\ heard = Nothing

\* A column that is not NULL goes through the slot as an id.
ReadExit(s, r, i) ==
    LET id == db.exit[r][Column[i]]
    IN  IF id # 0 THEN add_exit(s, Column[i], id) ELSE s

ReadExits(r) ==
    LET s4 == ReadExit(ReadExit(ReadExit(ReadExit(NoExits, r, 1), r, 2), r, 3), r, 4)
    IN  ReadExit(ReadExit(ReadExit(ReadExit(s4, r, 5), r, 6), r, 7), r, 8)

ReadRow(r) ==
    /\ status = "load" /\ r \in unread
    /\ unread' = unread \ {r}
    /\ table' = With(r)
    /\ rooms' = Entered(r, Address[r])
    /\ slot' = [slot EXCEPT ![r] = ReadExits(r)]
    /\ zone' = [zone EXCEPT ![r] = IF db.zone[r] \in ZoneId THEN db.zone[r] ELSE 0]
    /\ UNCHANGED <<db, status, cursor, turn, at, heard>>

\* Faulty variant: rooms are linked while others are still to be read.
BeginLinksEarly ==
    /\ status = "load"
    /\ status' = "link" /\ cursor' = HeadFrom(table, 1) /\ turn' = 0
    /\ UNCHANGED <<db, unread, table, rooms, slot, zone, at, heard>>

BeginLinks ==
    /\ status = "load" /\ unread = {}
    /\ status' = "link" /\ cursor' = HeadFrom(table, 1) /\ turn' = 0
    /\ UNCHANGED <<db, unread, table, rooms, slot, zone, at, heard>>

\* One test of link_rooms(): the slot of one name of the room under the cursor.
LinkExit ==
    /\ status = "link" /\ cursor # 0 /\ turn < 8 /\ rooms[cursor] # 0
    /\ LET r == RoomAt(rooms[cursor])
           e == Column[turn + 1]
           valor == get_exit(r, str2card(e))
       IN  IF valor = 0
           THEN UNCHANGED <<table, rooms, slot>>
           ELSE /\ table' = With(valor)
                /\ rooms' = Entered(valor, Found(valor))
                /\ slot' = [slot EXCEPT ![r] = add_exit(@, e, Found(valor))]
    /\ turn' = turn + 1
    /\ UNCHANGED <<db, status, unread, zone, cursor, at, heard>>

\* The walk comes to a key that only a dangling exit has entered.
LinkNull ==
    /\ status = "link" /\ cursor # 0 /\ rooms[cursor] = 0
    /\ status' = "segfault"
    /\ UNCHANGED <<db, unread, table, rooms, slot, zone, cursor, turn, at, heard>>

NextRoom ==
    /\ status = "link" /\ cursor # 0 /\ turn = 8
    /\ cursor' = Succ(cursor) /\ turn' = 0
    /\ UNCHANGED <<db, status, unread, table, rooms, slot, zone, at, heard>>

EndLinks ==
    /\ status = "link" /\ cursor = 0
    /\ status' = "ready"
    /\ UNCHANGED <<db, unread, table, rooms, slot, zone, cursor, turn, at, heard>>

make_world ==
    (\E r \in RoomId : ReadRow(r)) \/ BeginLinks \/ LinkExit \/ LinkNull \/ NextRoom \/ EndLinks

-----------------------------------------------------------------------------
(* Walking.                                                                *)

\* glance() asks the zone of the room for its name.
Glances(r) == zone[r] # 0

\* create_player() of the player whose row names the room Home.
Enter ==
    /\ status = "ready" /\ at = 0
    /\ table' = With(Home)
    /\ rooms' = Entered(Home, Found(Home))
    /\ at' = Found(Home)
    /\ UNCHANGED <<db, status, unread, slot, zone, cursor, turn, heard>>

\* move_wrapper() for a name without an exit.
Stays(e) ==
    /\ ~has_exit(RoomAt(at), str2card(e))
    /\ heard' = Nothing
    /\ UNCHANGED <<status, at>>

Moves(e) ==
    LET from == RoomAt(at)
        d    == str2card(e)
        dest == get_exit(from, d)
    IN  /\ has_exit(from, d)
        /\ IF IsRoom(dest) /\ Glances(RoomAt(dest))
           THEN /\ at' = dest
                /\ heard' = [gone |-> {description(d)},
                             arrived |-> {description(reverse(d))},
                             list |-> Listed(RoomAt(dest))]
                /\ UNCHANGED status
           ELSE status' = "segfault" /\ UNCHANGED <<at, heard>>

Walk(e) ==
    /\ status = "ready" /\ at # 0
    /\ Stays(e) \/ Moves(e)
    /\ UNCHANGED <<db, unread, table, rooms, slot, zone, cursor, turn>>

Killed ==
    /\ status = "segfault"
    /\ UNCHANGED worldVars

WorldNext == make_world \/ Enter \/ (\E e \in Name : Walk(e)) \/ Killed

WorldSpec == WorldInit /\ [][WorldNext]_worldVars

\* main() runs make_world() to its end before anything else.
FairWorldSpec == WorldSpec /\ WF_worldVars(make_world)

-----------------------------------------------------------------------------
(* Properties.                                                             *)

\* The types, and the shape of the hash table: every key once, in its bucket.
WorldTypeOK ==
    /\ db \in Maps
    /\ status \in {"load", "link", "ready", "segfault"}
    /\ unread \subseteq RoomId
    /\ \A k \in DOMAIN rooms : rooms[k] = 0 \/ (k \in RoomId /\ rooms[k] = Address[k])
    /\ \A b \in 1..size : /\ \A i \in DOMAIN table[b] : table[b][i] % size = b - 1
                         /\ IsInjective(table[b])
    /\ Keys(table) = DOMAIN rooms
    /\ slot \in [RoomId -> [Dir -> Nat]]
    /\ zone \in [RoomId -> ZoneId \cup {0}]
    /\ cursor \in DOMAIN rooms \cup {0} /\ turn \in 0..8
    /\ at = 0 \/ IsRoom(at)
    /\ heard \in [gone : SUBSET Word, arrived : SUBSET Word, list : SUBSET Name]

\* A data base in which every exit leads to a row and every room has a zone.
Closed == \A r \in RoomId : /\ db.zone[r] \in ZoneId
                            /\ \A c \in Name : db.exit[r][c] \in RoomId \cup {0}

\* Where a column of the data base leads, as a pointer; an exit to a room that
\* is not there leads nowhere.
Leads(r, c) == IF db.exit[r][c] \in RoomId THEN Address[db.exit[r][c]] ELSE 0

\* When the world is ready no slot holds an id any more: each holds a pointer to
\* the room its column names, also when the room was read after it, and null if
\* there is no such room (link_rooms(), worldController.cpp:142).
Linked == status = "ready" => \A r \in RoomId, c \in Name : slot[r][Compass[c]] = Leads(r, c)

\* A closed data base never makes the server follow a null or virtual pointer,
\* neither while linking nor while a player walks.
ClosedIsSafe == Closed => status # "segfault"

\* A player that types a direction ends in the room that column of the data
\* base names, and stays where it is if the column names none (from the columns
\* of make_world() to move_wrapper()).
WalksTheMap ==
    [][\A c \in Name :
        Walk(c) /\ status' = "ready" =>
            at' = IF Leads(RoomAt(at), c) # 0 THEN Leads(RoomAt(at), c) ELSE at]_worldVars

\* The directions drawn on a plane.
Plane == [n |-> <<0, 1>>, ne |-> <<1, 1>>, e |-> <<1, 0>>, se |-> <<1, -1>>,
          s |-> <<0, -1>>, so |-> <<-1, -1>>, o |-> <<-1, 0>>, no |-> <<-1, 1>>]
Opposite(c, b) == \A i \in 1..2 : Plane[c][i] + Plane[b][i] = 0

\* Where the data base has a way back on the opposite side, those who stand in
\* the room a player enters read the name of that way, and walking it leads to
\* where the player came from (Direction::reverse(), types.cpp:47).
WayBack ==
    [][\A c, b \in Name :
        /\ Walk(c) /\ status' = "ready" /\ heard'.arrived # {}
        /\ Opposite(c, b) /\ Leads(RoomAt(at'), b) = at
        => heard'.arrived = {description(Compass[b])}
           /\ get_exit(RoomAt(at'), str2card(b)) = at]_worldVars

\* The list of exits a player reads on arrival is the columns of the data base
\* that lead somewhere (valid_exits(), room.cpp:47, against glance()).
ListIsTrue ==
    heard # Nothing => heard.list = {c \in Name : Leads(RoomAt(at), c) # 0}

\* A closed world gets ready: the walk over the table of rooms ends.
GetsReady == Closed => <>(status = "ready")
=============================================================================
