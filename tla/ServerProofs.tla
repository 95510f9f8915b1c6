---------------------------- MODULE ServerProofs ----------------------------
(***************************************************************************)
(* The loop of the game, for any number of players, rooms and descriptors  *)
(* and any amount of memory, proved.                                       *)
(*                                                                         *)
(* ServerInv is inductive.  It is made of the invariants of the fights and *)
(* of the connections and of two groups of its own.  GameInv relates the   *)
(* tables of the two layers; it holds in every phase.  LoopInv relates     *)
(* them to the place the loop has come to: what is still to be read,       *)
(* which hang-ups have been noted down, which queues have been run and     *)
(* when there may be players on the list of removals.                      *)
(***************************************************************************)
EXTENDS Server, CombatProofs, ClientManagerProofs, FiniteSetTheorems,
        SequenceTheorems, WellFoundedInduction

-----------------------------------------------------------------------------
(***************************************************************************)
(* The tables of the game.                                                 *)
(***************************************************************************)
GameTypeOK ==
    /\ DOMAIN obj = chars
    /\ \A a \in chars : obj[a] \in Player
    /\ characters_in \in [Room -> SUBSET chars]
    /\ DOMAIN players \subseteq PlayerId
    /\ players_to_remove \in Seq(Addr)

\* What an enumeration of the tables visits is a finite set.
FiniteTables == IsFiniteSet(DOMAIN players) /\ IsFiniteSet(client_sockets)

\* A player id leads to a live object that has this id.
Directory ==
    \A id \in DOMAIN players : players[id] \in chars /\ obj[players[id]].id = id

\* Who is on the list of removals is on it once, is still what the table of
\* players holds for its id, and has no fight to lose.
Leavers ==
    /\ IsInjective(players_to_remove)
    /\ \A a \in leaving : /\ a \in chars
                          /\ obj[a].id \in DOMAIN players
                          /\ players[obj[a].id] = a
                          /\ obj[a].state = "Normal"
                          /\ can_quit(a)

GameInv == /\ CombatInv
           /\ ClientInv
           /\ GameTypeOK
           /\ FiniteTables
           /\ Directory
           /\ Leavers
           /\ RoomsAgree
           /\ NetMatchesGame

-----------------------------------------------------------------------------
(***************************************************************************)
(* The place of the loop.                                                  *)
(***************************************************************************)
LoopTypeOK ==
    /\ clients_to_remove \in Seq(PlayerId)
    /\ phase \in {"accept", "read", "exec", "hb", "remove", "write"}
    /\ todo \in Seq(PlayerId \cup Fd)
    /\ status \in {"running", "aborted", "segfault"}

\* What is still to be visited: connections or players, each once.
Walks ==
    /\ IsInjective(todo)
    /\ phase = "read" => Range(todo) \subseteq client_sockets
    /\ phase \in {"exec", "hb"} => Range(todo) \subseteq DOMAIN players

\* A hang-up is noted down once, after the last read of its connection, and is
\* served before the phase ends.
HangUps ==
    /\ IsInjective(clients_to_remove)
    /\ clients_to_remove # <<>> => phase = "read"
    /\ \A id \in Range(clients_to_remove) :
          id \in DOMAIN clients /\ clients[id] \notin Range(todo)

\* The list of removals is filled after the reads and emptied before the writes.
LeaveInTime ==
    leaving # {} => /\ phase \in {"read", "exec", "hb", "remove"}
                    /\ phase = "read" => todo = <<>>

\* Players with nothing but their first glance to run: those whose connection
\* has not been read in this tick, has hung up, or is gone.
Quiet(id) ==
    \/ obj[players[id]].state = "Disconnected"
    \/ players[id] \in leaving
    \/ id \in Range(clients_to_remove)
    \/ phase = "read" /\ id \in DOMAIN clients /\ clients[id] \in Range(todo)

Short(q) == q = <<>> \/ Len(q) = 1 \/ (Len(q) = 2 /\ q[1] = Glance)

Queue(id) ==
    LET q == obj[players[id]].skills_to_do
    IN  /\ Short(q)
        /\ Quiet(id) => q = <<>> \/ q = <<Glance>>
        /\ phase = "exec" /\ id \notin Range(todo) => q = <<>>
        /\ phase \notin {"read", "exec"} => q = <<>>

Queues == \A id \in DOMAIN players : Queue(id)

LoopInv == /\ LoopTypeOK
           /\ NeverKilled
           /\ Walks
           /\ HangUps
           /\ LeaveInTime
           /\ Queues

ServerInv == GameInv /\ LoopInv

-----------------------------------------------------------------------------
(***************************************************************************)
(* Sequences without repetition, and what visiting their head, adding to   *)
(* either end and enumerating a set make of them.                          *)
(***************************************************************************)
LEMMA Emptied == Range(<<>>) = {} /\ IsInjective(<<>>)
  BY DEF Range, IsInjective

LEMMA Indexed ==
  ASSUME NEW S, NEW s \in Seq(S)
  PROVE  \A x : x \in Range(s) <=> \E i \in 1..Len(s) : s[i] = x
  BY DEF Range

LEMMA TailVisits ==
  ASSUME NEW S, NEW s \in Seq(S), s # <<>>, IsInjective(s)
  PROVE  /\ Tail(s) \in Seq(S)
         /\ IsInjective(Tail(s))
         /\ Head(s) \in Range(s)
         /\ Range(Tail(s)) = Range(s) \ {Head(s)}
<1>1. /\ Tail(s) \in Seq(S) /\ Len(Tail(s)) = Len(s) - 1
      /\ \A i \in 1..Len(Tail(s)) : Tail(s)[i] = s[i + 1]
  BY HeadTailProperties
<1>2. Len(s) \in Nat \ {0} /\ Head(s) = s[1] /\ 1 \in 1..Len(s)
  OBVIOUS
<1>3. \A i, j \in 1..Len(s) : s[i] = s[j] => i = j
  BY DEF IsInjective
<1>4. IsInjective(Tail(s))
  <2> SUFFICES ASSUME NEW i \in 1..Len(Tail(s)), NEW j \in 1..Len(Tail(s)),
                      Tail(s)[i] = Tail(s)[j]
               PROVE  i = j
    BY <1>1 DEF IsInjective
  <2>1. i + 1 \in 1..Len(s) /\ j + 1 \in 1..Len(s) /\ s[i + 1] = s[j + 1]
    BY <1>1, <1>2
  <2> QED BY <1>3, <2>1
<1>5. Head(s) \in Range(s)
  BY <1>2, Indexed
<1>6. \A x : x \in Range(Tail(s)) <=> x \in Range(s) /\ x # Head(s)
  <2>1. ASSUME NEW x \in Range(Tail(s)) PROVE x \in Range(s) /\ x # Head(s)
    <3>1. PICK i \in 1..Len(Tail(s)) : Tail(s)[i] = x
      BY <1>1, Indexed
    <3>2. i + 1 \in 1..Len(s) /\ s[i + 1] = x /\ i + 1 # 1
      BY <1>1, <1>2, <3>1
    <3> QED BY <1>2, <1>3, <3>2, Indexed
  <2>2. ASSUME NEW x \in Range(s), x # Head(s) PROVE x \in Range(Tail(s))
    <3>1. PICK i \in 1..Len(s) : s[i] = x
      BY Indexed
    <3>2. i # 1 /\ i - 1 \in 1..Len(Tail(s)) /\ Tail(s)[i - 1] = x
      BY <1>1, <1>2, <2>2, <3>1
    <3> QED BY <1>1, <3>2, Indexed
  <2> QED BY <2>1, <2>2
<1> QED BY <1>1, <1>4, <1>5, <1>6

LEMMA AppendAdds ==
  ASSUME NEW S, NEW s \in Seq(S), NEW x \in S, IsInjective(s), x \notin Range(s)
  PROVE  /\ Append(s, x) \in Seq(S)
         /\ IsInjective(Append(s, x))
         /\ Range(Append(s, x)) = Range(s) \cup {x}
<1> DEFINE t == Append(s, x)
<1>1. /\ t \in Seq(S) /\ Len(t) = Len(s) + 1 /\ Len(s) \in Nat
      /\ \A i \in 1..Len(s) : t[i] = s[i]
      /\ t[Len(s) + 1] = x
  BY AppendProperties
<1>2. \A i, j \in 1..Len(s) : s[i] = s[j] => i = j
  BY DEF IsInjective
<1>3. \A i \in 1..Len(s) : s[i] # x
  BY Indexed
<1> HIDE DEF t
<1>4. IsInjective(t)
  <2> SUFFICES ASSUME NEW i \in 1..Len(t), NEW j \in 1..Len(t), t[i] = t[j]
               PROVE  i = j
    BY <1>1 DEF IsInjective
  <2> QED BY <1>1, <1>2, <1>3
<1>5. \A y : y \in Range(t) <=> y \in Range(s) \/ y = x
  <2>1. \A y : y \in Range(s) <=> \E i \in 1..Len(s) : s[i] = y
    BY Indexed
  <2>2. \A y : y \in Range(t) <=> \E i \in 1..Len(t) : t[i] = y
    BY <1>1, Indexed
  <2> QED BY <1>1, <2>1, <2>2
<1> QED BY <1>1, <1>4, <1>5 DEF t

LEMMA ConsAdds ==
  ASSUME NEW S, NEW s \in Seq(S), NEW x \in S, IsInjective(s), x \notin Range(s)
  PROVE  /\ Cons(x, s) \in Seq(S)
         /\ Cons(x, s) # <<>>
         /\ IsInjective(Cons(x, s))
         /\ Range(Cons(x, s)) = Range(s) \cup {x}
<1> DEFINE t == Cons(x, s)
<1>1. /\ t \in Seq(S) /\ Len(t) = Len(s) + 1 /\ Len(s) \in Nat
      /\ t[1] = x
      /\ \A i \in 2..Len(t) : t[i] = s[i - 1]
  <2>1. <<x>> \in Seq(S) /\ Len(<<x>>) = 1 /\ <<x>>[1] = x
    OBVIOUS
  <2> QED BY <2>1, ConcatProperties DEF Cons
<1>2. \A i, j \in 1..Len(s) : s[i] = s[j] => i = j
  BY DEF IsInjective
<1>3. \A i \in 1..Len(s) : s[i] # x
  BY Indexed
<1> HIDE DEF t
<1>4. IsInjective(t)
  <2> SUFFICES ASSUME NEW i \in 1..Len(t), NEW j \in 1..Len(t), t[i] = t[j]
               PROVE  i = j
    BY <1>1 DEF IsInjective
  <2>1. \A k \in 1..Len(t) : k # 1 => k - 1 \in 1..Len(s) /\ t[k] = s[k - 1]
    BY <1>1
  <2>2. CASE i = 1 \/ j = 1
    BY <1>1, <1>3, <2>1, <2>2
  <2>3. CASE i # 1 /\ j # 1
    <3>1. i - 1 = j - 1
      BY <1>2, <2>1, <2>3
    <3> QED BY <1>1, <3>1
  <2> QED BY <2>2, <2>3
<1>5. \A y : y \in Range(t) <=> y \in Range(s) \/ y = x
  <2>1. \A y : y \in Range(s) <=> \E i \in 1..Len(s) : s[i] = y
    BY Indexed
  <2>2. \A y : y \in Range(t) <=> \E i \in 1..Len(t) : t[i] = y
    BY <1>1, Indexed
  <2>3. \A i \in 1..Len(s) : i + 1 \in 2..Len(t) /\ t[i + 1] = s[i]
    BY <1>1
  <2>4. \A y : y \in Range(s) => y \in Range(t)
    BY <1>1, <2>1, <2>2, <2>3
  <2> QED BY <1>1, <2>1, <2>2, <2>4
<1> QED BY <1>1, <1>4, <1>5 DEF t

LEMMA Enumerates ==
  ASSUME NEW S, IsFiniteSet(S), NEW s \in SetToSeqs(S)
  PROVE  s \in Seq(S) /\ IsInjective(s) /\ Range(s) = S
<1> DEFINE D == 1..Cardinality(S)
<1>1. Cardinality(S) \in Nat
  BY FS_CardinalityType
<1>2. s \in [D -> S] /\ \A i, j \in D : i # j => s[i] # s[j]
  BY DEF SetToSeqs
<1>3. s \in Seq(S)
  BY <1>1, <1>2
<1>4. IsFiniteSet(D) /\ Cardinality(D) = Cardinality(S)
  BY <1>1, FS_Interval
<1>5. IsInjective(s)
  BY <1>2 DEF IsInjective
<1>6. s \in Surjection(D, S)
  BY <1>2, <1>4, <1>5, FS_Injection DEF Injection, IsInjective
<1>7. \A x \in S : \E i \in D : s[i] = x
  BY <1>6 DEF Surjection
<1> QED BY <1>2, <1>3, <1>5, <1>7 DEF Range

(***************************************************************************)
(* The first of a set of addresses is in it.                               *)
(***************************************************************************)
LEMMA MinIsIn ==
  ASSUME NEW S \in SUBSET Nat, S # {}
  PROVE  Min(S) \in S
<1> DEFINE R == {p \in Nat \X Nat : p[1] < p[2]}
<1>1. IsWellFoundedOn(R, Nat)
  BY NatLessThanWellFounded DEF OpToRel
<1>2. PICK x \in S : \A y \in S : <<y, x>> \notin R
  BY <1>1, WFMin
<1>3. \A y \in S : <<y, x>> \in Nat \X Nat /\ (<<y, x>> \in R <=> y < x)
  OBVIOUS
<1> HIDE DEF R
<1>4. ASSUME NEW y \in S PROVE x <= y
  <2>1. x \in Nat /\ y \in Nat /\ ~(y < x)
    BY <1>2, <1>3
  <2> QED BY <2>1
<1> QED BY <1>4 DEF Min

-----------------------------------------------------------------------------
(***************************************************************************)
(* The tables: what is left of a function without one argument, and with   *)
(* one more.                                                               *)
(***************************************************************************)
LEMMA Erased ==
  ASSUME NEW f, NEW x
  PROVE  /\ DOMAIN Erase(f, x) = DOMAIN f \ {x}
         /\ \A y \in DOMAIN f \ {x} : Erase(f, x)[y] = f[y]
  BY DEF Erase, Restrict

LEMMA Assigned ==
  ASSUME NEW f, NEW x, NEW v
  PROVE  /\ DOMAIN Assign(f, x, v) = DOMAIN f \cup {x}
         /\ Assign(f, x, v)[x] = v
         /\ \A y \in DOMAIN f \ {x} : Assign(f, x, v)[y] = f[y]
  BY DEF Assign

(***************************************************************************)
(* The connections after a login and after a disconnection.                *)
(***************************************************************************)
LEMMA Disconnected ==
  ASSUME NEW id, disconnect_client(id)
  PROVE  /\ DOMAIN clients' = DOMAIN clients \ {id}
         /\ \A i \in DOMAIN clients' : clients'[i] = clients[i]
         /\ client_sockets' = client_sockets \ {clients[id]}
  BY Erased DEF disconnect_client

LEMMA Accepted ==
  ASSUME NEW id, NEW fd, accept_new_client(id, fd)
  PROVE  /\ DOMAIN clients' = DOMAIN clients \cup {id}
         /\ client_sockets' \subseteq client_sockets \cup {fd}
<1>1. CASE is_connected(id) /\ Reconnect(id, fd)
  <2>1. clients' = Assign(Erase(clients, id), id, fd)
    BY <1>1 DEF Reconnect
  <2>2. client_sockets' = (client_sockets \ {clients[id]}) \cup {fd}
    BY <1>1 DEF Reconnect
  <2>3. DOMAIN clients' = DOMAIN Erase(clients, id) \cup {id}
    BY <2>1, Assigned
  <2>4. DOMAIN Erase(clients, id) = DOMAIN clients \ {id}
    BY Erased
  <2> QED BY <2>2, <2>3, <2>4
<1>2. CASE ~is_connected(id) /\ Connect(id, fd)
  BY <1>2, Assigned DEF Connect
<1> QED BY <1>1, <1>2 DEF accept_new_client

-----------------------------------------------------------------------------
(***************************************************************************)
(* Steps that leave the tables of both layers alone and change at most the *)
(* queues and the fights.                                                  *)
(***************************************************************************)
SameFields ==
    /\ DOMAIN obj' = DOMAIN obj
    /\ \A a \in chars : /\ obj'[a] \in Player
                        /\ obj'[a].id = obj[a].id
                        /\ obj'[a].room = obj[a].room
                        /\ obj'[a].state = obj[a].state

LEMMA QueueChanges ==
  ASSUME GameTypeOK, NEW a \in chars, NEW q \in Seq(Command),
         obj' = [obj EXCEPT ![a].skills_to_do = q]
  PROVE  /\ SameFields
         /\ obj'[a].skills_to_do = q
         /\ \A b \in chars \ {a} : obj'[b] = obj[b]
<1>1. DOMAIN obj' = DOMAIN obj /\ \A b \in chars \ {a} : obj'[b] = obj[b]
  BY DEF GameTypeOK
<1>2. obj'[a] = [obj[a] EXCEPT !.skills_to_do = q] /\ obj[a] \in Player
  BY DEF GameTypeOK
<1>3. /\ obj'[a] \in Player
      /\ obj'[a].id = obj[a].id
      /\ obj'[a].room = obj[a].room
      /\ obj'[a].state = obj[a].state
      /\ obj'[a].skills_to_do = q
  BY <1>2 DEF Player
<1> QED BY <1>1, <1>3 DEF SameFields, GameTypeOK

LEMMA GameKept ==
  ASSUME GameInv, SameFields, CombatInv', chars' = chars,
         UNCHANGED <<clientVars, characters_in, players, players_to_remove>>,
         \A a \in leaving : can_quit(a)'
  PROVE  GameInv'
<1> USE DEF GameInv
<1>1. ClientInv'
  BY ClientStep
<1>2. leaving' = leaving
  BY DEF leaving
<1>3. GameTypeOK'
  BY DEF GameTypeOK, SameFields
<1>4. FiniteTables'
  BY DEF FiniteTables, clientVars
<1>5. Directory'
  BY DEF Directory, SameFields
<1>6. Leavers'
  BY <1>2 DEF Leavers, SameFields
<1>7. RoomsAgree'
  BY <1>2 DEF RoomsAgree, SameFields
<1>8. NetMatchesGame'
  BY <1>2 DEF NetMatchesGame, Directory, SameFields, clientVars
<1> QED BY <1>1, <1>3, <1>4, <1>5, <1>6, <1>7, <1>8

LEMMA GameStays ==
  ASSUME GameInv, UNCHANGED <<combatVars, clientVars, gameVars>>
  PROVE  GameInv'
<1>1. CombatInv'
  BY CombatStep DEF GameInv
<1>2. SameFields /\ chars' = chars
  BY DEF SameFields, GameInv, GameTypeOK, gameVars, combatVars
<1>3. \A a \in leaving : can_quit(a)'
  BY DEF GameInv, Leavers, can_quit, is_in_combat, combatVars
<1> QED BY <1>1, <1>2, <1>3, GameKept DEF gameVars

(***************************************************************************)
(* A new fight: neither side is leaving.                                   *)
(***************************************************************************)
LEMMA FightStarts ==
  ASSUME GameInv, SameFields, NEW a \in chars, NEW c \in chars,
         a \notin leaving, c \notin leaving, Matar(a, c),
         UNCHANGED <<clientVars, characters_in, players, players_to_remove>>
  PROVE  GameInv'
<1>1. CombatInv /\ CombatTypeOK /\ a \in Addr /\ c \in Addr
  BY DEF GameInv, CombatInv, CombatTypeOK
<1>2. CombatInv' /\ chars' = chars
  BY <1>1, MatarInv DEF Matar
<1>3. \A b \in leaving : can_quit(b)'
  <2> SUFFICES ASSUME NEW b \in leaving
               PROVE  in_combat'[b] = {}
    BY DEF can_quit, is_in_combat
  <2>1. b \in Addr /\ in_combat[b] = {} /\ b # a /\ b # c
    BY <1>1 DEF GameInv, Leavers, CombatTypeOK, can_quit, is_in_combat
  <2> QED BY <1>1, <2>1 DEF Matar, StartFight, CombatTypeOK
<1> QED BY <1>2, <1>3, GameKept

(***************************************************************************)
(* A blow ends fights and starts none.                                     *)
(***************************************************************************)
LEMMA BlowFalls ==
  ASSUME GameInv, NEW a \in Addr, NEW b \in Addr, NEW r \in Roll, Strike(a, b, r),
         UNCHANGED <<clientVars, gameVars>>
  PROVE  GameInv'
<1>1. CombatInv /\ CombatTypeOK /\ Mutual
  BY DEF GameInv, CombatInv
<1>2. CombatInv' /\ chars' = chars
  BY <1>1, StrikeInv DEF Strike, injure_mele
<1>3. SameFields
  BY DEF SameFields, GameInv, GameTypeOK, gameVars
<1>4. \A c \in leaving : can_quit(c)'
  <2> SUFFICES ASSUME NEW c \in leaving
               PROVE  in_combat'[c] = {}
    BY DEF can_quit, is_in_combat
  <2>1. c \in Addr /\ in_combat[c] = {}
    BY <1>1 DEF GameInv, Leavers, CombatTypeOK, can_quit, is_in_combat
  <2> QED BY <1>1, <2>1 DEF Strike, injure_mele, injure, AfterDeath
<1> QED BY <1>2, <1>3, <1>4, GameKept DEF gameVars

-----------------------------------------------------------------------------
(***************************************************************************)
(* Logins.  They come when nobody is on the list of removals.              *)
(***************************************************************************)
LEMMA FiniteConnections ==
  ASSUME FiniteTables, NEW id, NEW fd, accept_new_client(id, fd)
  PROVE  IsFiniteSet(client_sockets')
<1>1. IsFiniteSet(client_sockets \cup {fd})
  BY FS_AddElement DEF FiniteTables
<1>2. client_sockets' \subseteq client_sockets \cup {fd}
  BY Accepted
<1> QED BY <1>1, <1>2, FS_Subset

LEMMA ReloginGame ==
  ASSUME GameInv, NEW id \in PlayerId, NEW fd \in Fd, accept_new_client(id, fd),
         is_connected(id), UNCHANGED <<combatVars, gameVars>>
  PROVE  GameInv'
<1> USE DEF GameInv
<1>1. ClientInv'
  BY ClientStep DEF ClientNext
<1>2. CombatInv'
  BY CombatStep
<1>3. DOMAIN clients' = DOMAIN clients
  BY Accepted DEF is_connected
<1>4. leaving' = leaving
  BY DEF leaving, gameVars
<1>5. GameTypeOK' /\ Directory'
  BY DEF GameTypeOK, Directory, gameVars, combatVars
<1>6. FiniteTables'
  BY FiniteConnections DEF FiniteTables, gameVars
<1>7. Leavers' /\ RoomsAgree'
  BY <1>4 DEF Leavers, RoomsAgree, gameVars, combatVars, can_quit, is_in_combat
<1>8. NetMatchesGame'
  BY <1>3, <1>4 DEF NetMatchesGame, gameVars
<1> QED BY <1>1, <1>2, <1>5, <1>6, <1>7, <1>8

(***************************************************************************)
(* A new player enters its room; a statue of the same id leaves the table  *)
(* of players and stays everywhere else.                                   *)
(***************************************************************************)
LEMMA NewPlayerGame ==
  ASSUME GameInv, leaving = {}, NEW id \in PlayerId, NEW fd \in Fd,
         accept_new_client(id, fd), ~is_connected(id),
         NEW a \in Addr, create_player(id, a)
  PROVE  GameInv'
<1> USE DEF GameInv
<1> DEFINE new == [id |-> id, room |-> HomeRoom[id], state |-> "Normal",
                   skills_to_do |-> <<Glance>>]
<1>1. NewCharacter(a) /\ a \notin chars /\ chars' = chars \cup {a}
  BY DEF create_player, NewCharacter
<1>2. new \in Player /\ HomeRoom[id] \in Room
  <2>1. Glance \in Command
    BY DEF Glance, Command
  <2>2. <<Glance>> \in Seq(Command) /\ HomeRoom[id] \in Room
    BY <2>1, ServerAssumption
  <2> QED BY <2>2 DEF Player
<1>3. /\ DOMAIN obj' = chars'
      /\ obj'[a] = new
      /\ \A b \in chars : obj'[b] = obj[b]
  <2>1. obj' = Assign(obj, a, new) /\ DOMAIN obj = chars
    BY DEF create_player, GameTypeOK
  <2> HIDE DEF new
  <2>2. /\ DOMAIN Assign(obj, a, new) = DOMAIN obj \cup {a}
        /\ Assign(obj, a, new)[a] = new
        /\ \A b \in DOMAIN obj \ {a} : Assign(obj, a, new)[b] = obj[b]
    BY DEF Assign
  <2> QED BY <1>1, <2>1, <2>2
<1>4. /\ DOMAIN players' = DOMAIN players \cup {id}
      /\ players'[id] = a
      /\ \A i \in DOMAIN players \ {id} : players'[i] = players[i]
  <2>1. players' = Assign(players, id, a)
    BY DEF create_player
  <2>2. /\ DOMAIN Assign(players, id, a) = DOMAIN players \cup {id}
        /\ Assign(players, id, a)[id] = a
        /\ \A i \in DOMAIN players \ {id} : Assign(players, id, a)[i] = players[i]
    BY DEF Assign
  <2> QED BY <2>1, <2>2
<1>5. /\ characters_in' = [characters_in EXCEPT ![HomeRoom[id]] = @ \cup {a}]
      /\ players_to_remove' = players_to_remove
      /\ leaving' = {}
  BY DEF create_player, leaving
<1> HIDE DEF new
<1>6. ClientInv'
  BY ClientStep DEF ClientNext
<1>7. CombatInv'
  BY <1>1, NewInv
<1>8. GameTypeOK'
  <2>1. chars \subseteq Addr
    BY DEF CombatInv, CombatTypeOK
  <2> QED BY <1>1, <1>2, <1>3, <1>4, <1>5, <2>1 DEF GameTypeOK
<1>9. FiniteTables'
  <2>1. IsFiniteSet(DOMAIN players')
    BY <1>4, FS_AddElement DEF FiniteTables
  <2> QED BY <2>1, FiniteConnections DEF FiniteTables
<1>10. Directory'
  BY <1>1, <1>3, <1>4 DEF Directory, new
<1>11. Leavers'
  BY <1>5 DEF Leavers
<1>12. RoomsAgree'
  <2> SUFFICES ASSUME NEW b \in chars', NEW r \in Room
               PROVE  b \in characters_in'[r] <=> r = obj'[b].room
    BY <1>5 DEF RoomsAgree
  <2>1. CASE b = a
    <3>1. \A s \in Room : a \notin characters_in[s]
      BY <1>1 DEF GameTypeOK
    <3> QED BY <1>2, <1>3, <1>5, <2>1, <3>1 DEF GameTypeOK, new
  <2>2. CASE b # a
    BY <1>1, <1>2, <1>3, <1>5, <2>2 DEF RoomsAgree, GameTypeOK
  <2> QED BY <2>1, <2>2
<1>13. NetMatchesGame'
  <2>1. DOMAIN clients' = DOMAIN clients \cup {id}
    BY Accepted
  <2>2. obj'[players'[id]].state = "Normal"
    BY <1>3, <1>4 DEF new
  <2>3. \A i \in DOMAIN players \ {id} :
           obj'[players'[i]].state = obj[players[i]].state
    BY <1>3, <1>4 DEF Directory
  <2> QED BY <1>4, <1>5, <2>1, <2>2, <2>3 DEF NetMatchesGame
<1> QED BY <1>6, <1>7, <1>8, <1>9, <1>10, <1>11, <1>12, <1>13

-----------------------------------------------------------------------------
(***************************************************************************)
(* A player that is not leaving walks into another room, or round into the *)
(* same one.                                                               *)
(***************************************************************************)
LEMMA MoveFields ==
  ASSUME GameTypeOK, NEW a \in chars, NEW dest \in Room, NEW q \in Seq(Command),
         obj' = [[obj EXCEPT ![a].skills_to_do = q] EXCEPT ![a].room = dest]
  PROVE  /\ DOMAIN obj' = DOMAIN obj
         /\ obj'[a] = [id |-> obj[a].id, room |-> dest, state |-> obj[a].state,
                       skills_to_do |-> q]
         /\ obj'[a] \in Player
         /\ \A b \in chars \ {a} : obj'[b] = obj[b]
<1> DEFINE popped1 == [obj EXCEPT ![a].skills_to_do = q]
<1>1. /\ DOMAIN popped1 = DOMAIN obj
      /\ \A b \in chars \ {a} : popped1[b] = obj[b]
      /\ popped1[a] = [obj[a] EXCEPT !.skills_to_do = q]
      /\ obj[a] \in Player
  BY DEF GameTypeOK
<1>2. popped1[a] = [id |-> obj[a].id, room |-> obj[a].room, state |-> obj[a].state,
                   skills_to_do |-> q]
  BY <1>1 DEF Player
<1>3. obj' = [popped1 EXCEPT ![a] = [popped1[a] EXCEPT !.room = dest]]
  OBVIOUS
<1> HIDE DEF popped1
<1>4. /\ DOMAIN obj' = DOMAIN obj
      /\ \A b \in chars \ {a} : obj'[b] = obj[b]
      /\ obj'[a] = [popped1[a] EXCEPT !.room = dest]
  BY <1>1, <1>3 DEF GameTypeOK
<1>5. obj'[a] = [id |-> obj[a].id, room |-> dest, state |-> obj[a].state,
                 skills_to_do |-> q]
  BY <1>2, <1>4
<1>6. obj'[a] \in Player
  BY <1>1, <1>5 DEF Player
<1> QED BY <1>4, <1>5, <1>6

LEMMA MoveGame ==
  ASSUME GameInv, NEW a \in chars, a \notin leaving, NEW dest \in Room,
         move_player(a, obj[a].room, dest),
         DOMAIN obj' = DOMAIN obj, obj'[a] \in Player, obj'[a].id = obj[a].id,
         obj'[a].room = dest, obj'[a].state = obj[a].state,
         \A b \in chars \ {a} : obj'[b] = obj[b],
         UNCHANGED <<combatVars, clientVars, players, players_to_remove>>
  PROVE  GameInv'
<1> USE DEF GameInv
<1> DEFINE from == obj[a].room
<1>1. DOMAIN obj' = DOMAIN obj /\ \A b \in chars \ {a} : obj'[b] = obj[b]
  OBVIOUS
<1>2. from \in Room
  BY DEF GameTypeOK, Player
<1>3. /\ obj'[a] \in Player
      /\ obj'[a].id = obj[a].id
      /\ obj'[a].room = dest
      /\ obj'[a].state = obj[a].state
  OBVIOUS
<1>4. /\ characters_in' \in [Room -> SUBSET chars]
      /\ \A r \in Room, b \in chars :
            b \in characters_in'[r] <=> \/ b # a /\ b \in characters_in[r]
                                        \/ b = a /\ r = dest
  <2>1. characters_in' = [characters_in EXCEPT ![from] = @ \ {a}, ![dest] = @ \cup {a}]
    BY DEF move_player
  <2>2. characters_in \in [Room -> SUBSET chars]
    BY DEF GameTypeOK
  <2>3. \A r \in Room : a \in characters_in[r] => r = from
    BY DEF RoomsAgree
  <2> HIDE DEF from
  <2>4. characters_in' \in [Room -> SUBSET chars]
    BY <1>2, <2>1, <2>2
  <2>5. \A r \in Room : characters_in'[r] =
           IF r = dest THEN (characters_in[r] \ {a}) \cup {a}
                       ELSE characters_in[r] \ {a}
    BY <1>2, <2>1, <2>2, <2>3
  <2> QED BY <2>4, <2>5
<1>5. chars' = chars /\ leaving' = leaving
  BY DEF combatVars, leaving
<1>6. CombatInv'
  BY CombatStep
<1>7. ClientInv'
  BY ClientStep
<1>8. GameTypeOK' /\ FiniteTables'
  BY <1>1, <1>3, <1>4, <1>5 DEF GameTypeOK, FiniteTables, clientVars
<1>9. Directory'
  BY <1>1, <1>3, <1>5 DEF Directory
<1>10. Leavers'
  BY <1>1, <1>3, <1>5 DEF Leavers, combatVars, can_quit, is_in_combat
<1>11. RoomsAgree'
  BY <1>1, <1>3, <1>4, <1>5 DEF RoomsAgree
<1>12. NetMatchesGame'
  BY <1>1, <1>3, <1>5 DEF NetMatchesGame, Directory, clientVars
<1> QED BY <1>6, <1>7, <1>8, <1>9, <1>10, <1>11, <1>12

-----------------------------------------------------------------------------
(***************************************************************************)
(* Whoever is connected is neither a statue nor leaving, and has the       *)
(* address the table of players holds for it.                              *)
(***************************************************************************)
LEMMA InPlay ==
  ASSUME GameInv, NEW id \in DOMAIN clients
  PROVE  /\ id \in DOMAIN players /\ id \in PlayerId
         /\ players[id] \in chars /\ players[id] \in Addr
         /\ obj[players[id]].id = id
         /\ obj[players[id]].state = "Normal"
         /\ players[id] \notin leaving
  BY DEF GameInv, GameTypeOK, CombatInv, CombatTypeOK, NetMatchesGame, Directory

(***************************************************************************)
(* remove_player: the player is put on the list of removals, leaves its    *)
(* room and loses its connection.                                          *)
(***************************************************************************)
LEMMA LeaveGame ==
  ASSUME GameInv, NEW id \in DOMAIN clients, can_quit(players[id]),
         remove_player(players[id]), SameFields
  PROVE  /\ GameInv'
         /\ leaving' = leaving \cup {players[id]}
<1> USE DEF GameInv
<1> DEFINE a == players[id]
<1>1. /\ id \in DOMAIN players /\ id \in PlayerId
      /\ a \in chars /\ a \in Addr
      /\ obj[a].id = id /\ obj[a].state = "Normal" /\ a \notin leaving
  BY InPlay
<1>2. /\ players_to_remove' = Append(players_to_remove, a)
      /\ characters_in' = [characters_in EXCEPT ![obj[a].room] = @ \ {a}]
      /\ disconnect_client(id)
      /\ UNCHANGED <<combatVars, players>>
  BY <1>1 DEF remove_player
<1> HIDE DEF a
<1>3. /\ players_to_remove' \in Seq(Addr)
      /\ IsInjective(players_to_remove')
      /\ leaving' = leaving \cup {a}
  BY <1>1, <1>2, AppendAdds DEF GameTypeOK, Leavers, leaving
<1>4. DOMAIN clients' = DOMAIN clients \ {id} /\ client_sockets' \subseteq client_sockets
  BY <1>2, Disconnected
<1>5. ClientInv'
  <2>1. remove_client(id)
    BY <1>2 DEF remove_client, is_connected
  <2> QED BY <1>1, <2>1, ClientStep DEF ClientNext
<1>6. CombatInv' /\ chars' = chars
  BY <1>2, CombatStep DEF combatVars
<1>7. /\ characters_in' \in [Room -> SUBSET chars]
      /\ \A r \in Room : characters_in'[r] = characters_in[r] \ {a}
  <2>1. obj[a].room \in Room /\ characters_in \in [Room -> SUBSET chars]
    BY <1>1 DEF GameTypeOK, Player
  <2>2. \A r \in Room : a \in characters_in[r] => r = obj[a].room
    BY <1>1 DEF RoomsAgree
  <2> QED BY <1>2, <2>1, <2>2
<1>8. GameTypeOK'
  BY <1>2, <1>3, <1>6, <1>7 DEF GameTypeOK, SameFields
<1>9. FiniteTables'
  BY <1>2, <1>4, FS_Subset DEF FiniteTables
<1>10. Directory'
  BY <1>2, <1>6 DEF Directory, SameFields
<1>11. Leavers'
  <2>1. can_quit(a)
    BY DEF a
  <2>2. \A b \in leaving' : b \in chars /\ (can_quit(b)' <=> can_quit(b))
    BY <1>1, <1>2, <1>3 DEF Leavers, can_quit, is_in_combat, combatVars
  <2>3. players[id] = a
    BY DEF a
  <2> QED BY <1>1, <1>2, <1>3, <1>6, <2>1, <2>2, <2>3 DEF Leavers, SameFields
<1>12. RoomsAgree'
  BY <1>1, <1>3, <1>6, <1>7 DEF RoomsAgree, SameFields
<1>13. NetMatchesGame'
  <2>1. \A i \in DOMAIN players : players[i] = a <=> i = id
    BY <1>1 DEF Directory, a
  <2> QED BY <1>2, <1>3, <1>4, <2>1 DEF NetMatchesGame, Directory, SameFields
<1> QED BY <1>3, <1>5, <1>6, <1>8, <1>9, <1>10, <1>11, <1>12, <1>13 DEF a

(***************************************************************************)
(* A fighter that hangs up: everything of it stays but the connection.     *)
(***************************************************************************)
LEMMA StatueGame ==
  ASSUME GameInv, NEW id \in DOMAIN clients, become_statue(players[id])
  PROVE  /\ GameInv'
         /\ leaving' = leaving
         /\ \A b \in chars : obj'[b].skills_to_do = obj[b].skills_to_do
         /\ \A b \in chars \ {players[id]} : obj'[b] = obj[b]
<1> USE DEF GameInv
<1> DEFINE a == players[id]
<1>1. /\ id \in DOMAIN players /\ id \in PlayerId
      /\ a \in chars /\ obj[a].id = id /\ a \notin leaving
  BY InPlay
<1>2. /\ obj' = [obj EXCEPT ![a].state = "Disconnected"]
      /\ disconnect_client(id)
      /\ UNCHANGED <<combatVars, characters_in, players, players_to_remove>>
  BY <1>1 DEF become_statue
<1> HIDE DEF a
<1>3. /\ DOMAIN obj' = DOMAIN obj
      /\ \A b \in chars \ {a} : obj'[b] = obj[b]
      /\ obj'[a] = [obj[a] EXCEPT !.state = "Disconnected"]
      /\ obj[a] \in Player
  BY <1>1, <1>2 DEF GameTypeOK
<1>4. /\ obj'[a] \in Player
      /\ obj'[a].id = obj[a].id
      /\ obj'[a].room = obj[a].room
      /\ obj'[a].state = "Disconnected"
      /\ obj'[a].skills_to_do = obj[a].skills_to_do
  BY <1>3 DEF Player
<1>5. DOMAIN clients' = DOMAIN clients \ {id} /\ client_sockets' \subseteq client_sockets
  BY <1>2, Disconnected
<1>6. ClientInv'
  <2>1. remove_client(id)
    BY <1>2 DEF remove_client, is_connected
  <2> QED BY <1>1, <2>1, ClientStep DEF ClientNext
<1>7. CombatInv' /\ chars' = chars /\ leaving' = leaving
  BY <1>2, CombatStep DEF combatVars, leaving
<1>8. GameTypeOK' /\ Directory'
  BY <1>2, <1>3, <1>4, <1>7 DEF GameTypeOK, Directory
<1>9. FiniteTables'
  BY <1>2, <1>5, FS_Subset DEF FiniteTables
<1>10. Leavers'
  BY <1>1, <1>2, <1>3, <1>7 DEF Leavers, can_quit, is_in_combat, combatVars
<1>11. RoomsAgree'
  BY <1>2, <1>3, <1>4, <1>7 DEF RoomsAgree
<1>12. NetMatchesGame'
  <2>1. \A i \in DOMAIN players : players[i] = a <=> i = id
    BY <1>1 DEF Directory, a
  <2> QED BY <1>2, <1>3, <1>4, <1>5, <1>7, <2>1 DEF NetMatchesGame, Directory
<1> QED BY <1>3, <1>4, <1>6, <1>7, <1>8, <1>9, <1>10, <1>11, <1>12 DEF a

(***************************************************************************)
(* remove_players: by Leavers and RoomsAgree nothing points to the object  *)
(* that is deleted.                                                        *)
(***************************************************************************)
LEMMA DeleteGame ==
  ASSUME GameInv, players_to_remove # <<>>,
         NEW a, a = Head(players_to_remove),
         players' = Erase(players, obj[a].id), obj' = Erase(obj, a), Delete(a),
         players_to_remove' = Tail(players_to_remove),
         UNCHANGED <<clientVars, characters_in>>
  PROVE  /\ GameInv'
         /\ a \in Addr /\ DeleteCharacter(a)
         /\ leaving' \subseteq leaving
         /\ DOMAIN players' \subseteq DOMAIN players
         /\ \A i \in DOMAIN players' : /\ players'[i] = players[i]
                                       /\ obj'[players'[i]] = obj[players[i]]
         /\ obj[a].id \notin DOMAIN clients
<1> USE DEF GameInv
<1>1. /\ a \in leaving /\ a \in chars /\ a \in Addr
      /\ obj[a].id \in DOMAIN players /\ players[obj[a].id] = a
      /\ can_quit(a)
      /\ players_to_remove' \in Seq(Addr) /\ IsInjective(players_to_remove')
      /\ leaving' = leaving \ {a}
  BY TailVisits DEF GameTypeOK, Leavers, leaving
<1>2. DeleteCharacter(a)
  BY <1>1 DEF DeleteCharacter
<1>3. CombatInv' /\ chars' = chars \ {a}
  BY <1>1, <1>2, DeleteInv DEF Delete
<1>4. in_combat' = in_combat
  BY <1>1 DEF Delete, can_quit, is_in_combat, CombatInv, CombatTypeOK
<1>5. ClientInv'
  BY ClientStep
<1>6. DOMAIN obj' = chars' /\ \A b \in chars' : obj'[b] = obj[b]
  BY <1>3, Erased DEF GameTypeOK
<1>7. /\ DOMAIN players' = DOMAIN players \ {obj[a].id}
      /\ \A i \in DOMAIN players' : players'[i] = players[i]
  <2> DEFINE e == Erase(players, obj[a].id)
  <2>1. /\ DOMAIN e = DOMAIN players \ {obj[a].id}
        /\ \A i \in DOMAIN players \ {obj[a].id} : e[i] = players[i]
    BY Erased
  <2>2. players' = e
    OBVIOUS
  <2> HIDE DEF e
  <2> QED BY <2>1, <2>2
<1>8. \A i \in DOMAIN players' : players[i] \in chars'
  BY <1>1, <1>3, <1>7 DEF Directory
<1>9. \A r \in Room : a \notin characters_in[r]
  BY <1>1 DEF RoomsAgree
<1>10. GameTypeOK'
  BY <1>1, <1>3, <1>6, <1>7, <1>9 DEF GameTypeOK
<1>11. FiniteTables'
  BY <1>7, FS_Subset DEF FiniteTables, clientVars
<1>12. Directory'
  BY <1>6, <1>7, <1>8 DEF Directory
<1>13. Leavers'
  <2>1. \A b \in leaving' : b \in leaving /\ b \in chars' /\ obj[b].id # obj[a].id
    BY <1>1, <1>3 DEF Leavers
  <2> QED BY <1>1, <1>4, <1>6, <1>7, <2>1 DEF Leavers, can_quit, is_in_combat
<1>14. RoomsAgree'
  BY <1>1, <1>3, <1>6 DEF RoomsAgree
<1>15. obj[a].id \notin DOMAIN clients
  BY <1>1, InPlay
<1>16. NetMatchesGame'
  <2>1. \A i \in DOMAIN players' : players[i] # a
    BY <1>7 DEF Directory
  <2>2. \A i \in DOMAIN players' :
           obj'[players'[i]] = obj[players[i]] /\ players'[i] = players[i]
    BY <1>6, <1>7, <1>8
  <2>3. DOMAIN clients' = DOMAIN clients /\ obj[a].id \notin DOMAIN clients
    BY <1>15 DEF clientVars
  <2>4. leaving' = leaving \ {a} /\ DOMAIN players' = DOMAIN players \ {obj[a].id}
    BY <1>1, <1>7
  <2>5. DOMAIN clients = {i \in DOMAIN players : /\ obj[players[i]].state = "Normal"
                                                /\ players[i] \notin leaving}
    BY DEF NetMatchesGame
  <2>6. ASSUME NEW i
        PROVE  i \in DOMAIN clients' <=> /\ i \in DOMAIN players'
                                        /\ obj'[players'[i]].state = "Normal"
                                        /\ players'[i] \notin leaving'
    BY <2>1, <2>2, <2>3, <2>4, <2>5
  <2>7. DOMAIN clients' = {i \in DOMAIN players' : /\ obj'[players'[i]].state = "Normal"
                                                  /\ players'[i] \notin leaving'}
    BY <2>6
  <2> QED BY <2>7 DEF NetMatchesGame
<1> QED BY <1>1, <1>2, <1>3, <1>5, <1>6, <1>7, <1>8, <1>10, <1>11, <1>12, <1>13,
           <1>14, <1>15, <1>16

-----------------------------------------------------------------------------
(***************************************************************************)
(* accept.  The reads begin: nobody is leaving, no hang-up is noted, and   *)
(* the only commands are the first glances of new players.                 *)
(***************************************************************************)
LEMMA OutsideTheTick ==
  ASSUME ServerInv, phase \in {"accept", "write"}
  PROVE  /\ clients_to_remove = <<>>
         /\ leaving = {}
         /\ \A id \in DOMAIN players : obj[players[id]].skills_to_do = <<>>
  BY DEF ServerInv, LoopInv, HangUps, LeaveInTime, Queues, Queue

LEMMA ReadBegins ==
  ASSUME GameInv', Visit("read", Selectable'), clients_to_remove' = <<>>,
         leaving' = {}, status' = "running",
         \A id \in DOMAIN players' :
            obj'[players'[id]].skills_to_do \in {<<>>, <<Glance>>}
  PROVE  LoopInv'
<1>1. phase' = "read" /\ todo' \in SetToSeqs(Selectable')
  BY DEF Visit
<1>2. Selectable' \subseteq client_sockets' /\ client_sockets' \subseteq Fd
  BY DEF Selectable, GameInv, ClientInv, ClientTypeOK
<1>3. IsFiniteSet(Selectable')
  BY <1>2, FS_Subset DEF GameInv, FiniteTables
<1>4. todo' \in Seq(Selectable') /\ IsInjective(todo') /\ Range(todo') = Selectable'
  BY <1>1, <1>3, Enumerates
<1>5. todo' \in Seq(PlayerId \cup Fd)
  BY <1>2, <1>4
<1>6. Range(clients_to_remove') = {} /\ IsInjective(clients_to_remove')
  BY Emptied
<1>7. LoopTypeOK' /\ NeverKilled' /\ Walks' /\ HangUps' /\ LeaveInTime'
  BY <1>1, <1>2, <1>4, <1>5, <1>6
     DEF LoopTypeOK, NeverKilled, Walks, HangUps, LeaveInTime
<1>8. Queues'
  <2> SUFFICES ASSUME NEW id \in DOMAIN players' PROVE Queue(id)'
    BY DEF Queues
  <2> DEFINE q == obj'[players'[id]].skills_to_do
  <2>1. q = <<>> \/ q = <<Glance>>
    OBVIOUS
  <2>2. Len(<<Glance>>) = 1
    OBVIOUS
  <2> HIDE DEF q
  <2>3. q = <<>> \/ Len(q) = 1
    BY <2>1, <2>2
  <2> QED BY <1>1, <2>1, <2>3 DEF Queue, Short, q
<1> QED BY <1>7, <1>8 DEF LoopInv

LEMMA NobodyArrivesInv ==
  ASSUME ServerInv, NobodyArrives
  PROVE  ServerInv'
<1>1. GameInv'
  BY GameStays DEF NobodyArrives, ServerInv
<1>2. /\ clients_to_remove = <<>> /\ leaving = {}
      /\ \A id \in DOMAIN players : obj[players[id]].skills_to_do = <<>>
  BY OutsideTheTick DEF NobodyArrives, In
<1>3. LoopInv'
  BY <1>1, <1>2, ReadBegins DEF NobodyArrives, In, gameVars, leaving
<1> QED BY <1>1, <1>3 DEF ServerInv

LEMMA LoginInv ==
  ASSUME ServerInv, NEW id \in PlayerId, NEW fd \in Fd, Login(id, fd)
  PROVE  ServerInv'
<1>1. /\ clients_to_remove = <<>> /\ leaving = {}
      /\ \A i \in DOMAIN players : obj[players[i]].skills_to_do = <<>>
  BY OutsideTheTick DEF Login, In
<1>2. /\ accept_new_client(id, fd) /\ GameInv
      /\ clients_to_remove' = <<>> /\ status' = "running"
      /\ Visit("read", Selectable')
  BY <1>1 DEF Login, In, ServerInv
<1>3. CASE is_connected(id)
  <2>1. UNCHANGED <<combatVars, gameVars>>
    BY <1>3 DEF Login
  <2>2. GameInv'
    BY <1>2, <1>3, <2>1, ReloginGame
  <2>3. LoopInv'
    BY <1>1, <1>2, <2>1, <2>2, ReadBegins DEF gameVars, leaving
  <2> QED BY <2>2, <2>3 DEF ServerInv
<1>4. CASE ~is_connected(id)
  <2>1. PICK a \in Addr : create_player(id, a)
    BY <1>4 DEF Login
  <2>2. GameInv'
    BY <1>1, <1>2, <1>4, <2>1, NewPlayerGame
  <2>3. leaving' = {}
    BY <1>1, <2>1 DEF create_player, leaving
  <2>4. \A i \in DOMAIN players' :
           obj'[players'[i]].skills_to_do \in {<<>>, <<Glance>>}
    <3> SUFFICES ASSUME NEW i \in DOMAIN players'
                 PROVE  obj'[players'[i]].skills_to_do \in {<<>>, <<Glance>>}
      OBVIOUS
    <3>1. CASE i = id
      BY <2>1, <3>1 DEF create_player, Assign
    <3>2. CASE i # id
      <4>1. i \in DOMAIN players /\ players'[i] = players[i]
        BY <2>1, <3>2 DEF create_player, Assign
      <4>2. players[i] \in DOMAIN obj /\ players[i] # a
        BY <1>2, <2>1, <4>1 DEF GameInv, Directory, GameTypeOK, create_player, NewCharacter
      <4>3. obj'[players[i]] = obj[players[i]]
        BY <2>1, <4>2 DEF create_player, Assign
      <4> QED BY <1>1, <4>1, <4>3
    <3> QED BY <3>1, <3>2
  <2>5. LoopInv'
    BY <1>2, <2>2, <2>3, <2>4, ReadBegins
  <2> QED BY <2>2, <2>5 DEF ServerInv
<1> QED BY <1>3, <1>4

-----------------------------------------------------------------------------
(***************************************************************************)
(* read.  The connection whose turn it is belongs to a player in play who  *)
(* has nothing but its glance to run and whose hang-up is not noted yet.   *)
(***************************************************************************)
LEMMA Reader ==
  ASSUME ServerInv, NEW fd, Reading(fd)
  PROVE  LET id == players_ids[fd] IN
         /\ phase = "read" /\ status = "running" /\ leaving = {}
         /\ fd \in client_sockets
         /\ id \in DOMAIN clients /\ clients[id] = fd
         /\ id \in DOMAIN players
         /\ id \notin Range(clients_to_remove)
         /\ obj[players[id]].skills_to_do \in {<<>>, <<Glance>>}
         /\ Tail(todo) \in Seq(PlayerId \cup Fd)
         /\ IsInjective(Tail(todo))
         /\ Range(Tail(todo)) = Range(todo) \ {fd}
<1> USE DEF ServerInv, LoopInv, GameInv
<1> DEFINE id == players_ids[fd]
<1>1. phase = "read" /\ status = "running" /\ todo # <<>> /\ fd = Head(todo)
  BY DEF Reading, In
<1>2. /\ Tail(todo) \in Seq(PlayerId \cup Fd) /\ IsInjective(Tail(todo))
      /\ Range(Tail(todo)) = Range(todo) \ {fd}
      /\ fd \in Range(todo)
  BY <1>1, TailVisits DEF LoopTypeOK, Walks
<1>3. fd \in client_sockets /\ leaving = {}
  BY <1>1, <1>2 DEF Walks, LeaveInTime
<1>4. id \in DOMAIN clients /\ clients[id] = fd
  BY <1>3 DEF ClientInv, TablesAgree
<1>5. id \in DOMAIN players
  BY <1>4, InPlay
<1>6. id \notin Range(clients_to_remove)
  BY <1>2, <1>4 DEF HangUps
<1>7. obj[players[id]].skills_to_do \in {<<>>, <<Glance>>}
  BY <1>1, <1>2, <1>4, <1>5 DEF Queues, Queue, Quiet
<1> QED BY <1>1, <1>2, <1>3, <1>4, <1>5, <1>6, <1>7

LEMMA ReadNothingInv ==
  ASSUME ServerInv, NEW fd, ReadNothing(fd)
  PROVE  ServerInv'
<1>1. /\ Reading(fd) /\ phase' = phase /\ todo' = Tail(todo)
      /\ UNCHANGED <<combatVars, clientVars, gameVars, clients_to_remove, status>>
  BY DEF ReadNothing, Visited
<1>2. GameInv'
  BY <1>1, GameStays DEF ServerInv
<1>3. /\ phase = "read"
      /\ todo' \in Seq(PlayerId \cup Fd) /\ IsInjective(todo')
      /\ Range(todo') \subseteq Range(todo)
      /\ leaving = {}
  BY <1>1, Reader
<1>4. /\ leaving' = leaving /\ players' = players /\ obj' = obj
      /\ clients' = clients /\ client_sockets' = client_sockets
  BY <1>1 DEF gameVars, clientVars, leaving
<1>5. LoopTypeOK' /\ NeverKilled' /\ Walks' /\ HangUps' /\ LeaveInTime'
  BY <1>1, <1>3, <1>4 DEF ServerInv, LoopInv, LoopTypeOK, NeverKilled, Walks, HangUps,
                         LeaveInTime
<1>6. Queues'
  BY <1>1, <1>3, <1>4 DEF ServerInv, LoopInv, Queues, Queue, Quiet
<1> QED BY <1>2, <1>5, <1>6 DEF ServerInv, LoopInv

(***************************************************************************)
(* A command is added to an empty queue or behind a glance.                *)
(***************************************************************************)
LEMMA ReadCommandInv ==
  ASSUME ServerInv, NEW fd, NEW c \in Sent, ReadCommand(fd, c)
  PROVE  ServerInv'
<1>0. PICK id : id = players_ids[fd]
  OBVIOUS
<1> DEFINE a == players[id]
           q == obj[a].skills_to_do
<1>1. Reading(fd)
  BY DEF ReadCommand
<1>2. /\ phase = "read" /\ status = "running" /\ leaving = {}
      /\ fd \in client_sockets
      /\ id \in DOMAIN clients /\ clients[id] = fd
      /\ id \in DOMAIN players
      /\ id \notin Range(clients_to_remove)
      /\ q \in {<<>>, <<Glance>>}
      /\ Tail(todo) \in Seq(PlayerId \cup Fd)
      /\ IsInjective(Tail(todo))
      /\ Range(Tail(todo)) = Range(todo) \ {fd}
  BY <1>0, <1>1, Reader
<1>3. /\ obj' = [obj EXCEPT ![a].skills_to_do = Append(@, c)]
      /\ phase' = phase /\ todo' = Tail(todo)
      /\ status' = status
      /\ UNCHANGED <<combatVars, clientVars, characters_in, players,
                     players_to_remove, clients_to_remove>>
  BY <1>0, <1>2 DEF ReadCommand, Follow, push_command, Visited
<1>4. /\ a \in chars /\ obj[a] \in Player /\ q \in Seq(Command)
      /\ obj[a].state = "Normal" /\ c \in Command
  BY <1>2, InPlay, ServerAssumption DEF ServerInv, GameInv, GameTypeOK, Player
<1>5. Append(q, c) \in Seq(Command)
  BY <1>4
<1>6. obj' = [obj EXCEPT ![a].skills_to_do = Append(q, c)]
  BY <1>3
<1> HIDE DEF a, q
<1>7. /\ SameFields
      /\ obj'[a].skills_to_do = Append(q, c)
      /\ \A b \in chars \ {a} : obj'[b] = obj[b]
  BY <1>4, <1>5, <1>6, QueueChanges DEF ServerInv, GameInv
<1>8. GameInv'
  <2>1. CombatInv' /\ chars' = chars
    BY <1>3, CombatStep DEF ServerInv, GameInv, combatVars
  <2> QED BY <1>2, <1>3, <1>7, <2>1, GameKept DEF ServerInv
<1>9. leaving' = leaving /\ clients' = clients /\ client_sockets' = client_sockets
  BY <1>3 DEF leaving, clientVars
<1>10. LoopTypeOK' /\ NeverKilled' /\ Walks' /\ HangUps' /\ LeaveInTime'
  BY <1>2, <1>3, <1>9
     DEF ServerInv, LoopInv, LoopTypeOK, NeverKilled, Walks, HangUps, LeaveInTime
<1>11. Queue(id)'
  <2>1. Short(Append(q, c))
    <3>1. CASE q = <<>>
      BY <3>1 DEF Short
    <3>2. CASE q = <<Glance>>
      <4>1. Len(q) = 1 /\ q[1] = Glance
        BY <3>2
      <4>2. q \in Seq(Command) /\ c \in Command
        BY <1>4
      <4>3. Len(Append(q, c)) = Len(q) + 1
        BY <4>2
      <4>4. \A i \in 1..Len(q) : Append(q, c)[i] = q[i]
        BY <4>2, AppendProperties
      <4>5. Len(Append(q, c)) = 2 /\ Append(q, c)[1] = Glance
        BY <4>1, <4>3, <4>4
      <4> QED BY <4>5 DEF Short
    <3> QED BY <1>2, <3>1, <3>2
  <2>2. ~Quiet(id)'
    BY <1>2, <1>3, <1>4, <1>7, <1>9 DEF Quiet, SameFields, a
  <2>3. players'[id] = a /\ phase' = "read"
    BY <1>2, <1>3 DEF a
  <2> QED BY <1>7, <2>1, <2>2, <2>3 DEF Queue
<1>12. \A i \in DOMAIN players \ {id} : Queue(i)'
  <2> SUFFICES ASSUME NEW i \in DOMAIN players \ {id} PROVE Queue(i)'
    OBVIOUS
  <2>1. players[i] \in chars \ {a}
    BY <1>2, <1>4 DEF ServerInv, GameInv, Directory, a
  <2>2. players'[i] = players[i] /\ obj'[players[i]] = obj[players[i]]
    BY <1>3, <1>7, <2>1
  <2>3. Queue(i)
    BY DEF ServerInv, LoopInv, Queues
  <2>4. Quiet(i)' => Quiet(i)
    BY <1>2, <1>3, <1>9, <2>2 DEF Quiet
  <2> QED BY <1>2, <1>3, <2>2, <2>3, <2>4 DEF Queue
<1> QED BY <1>3, <1>8, <1>10, <1>11, <1>12 DEF ServerInv, LoopInv, Queues

(***************************************************************************)
(* A hang-up is noted down in front of the others.                         *)
(***************************************************************************)
LEMMA ReadHangUpInv ==
  ASSUME ServerInv, NEW fd, ReadHangUp(fd)
  PROVE  ServerInv'
<1> DEFINE id == players_ids[fd]
<1>1. /\ Reading(fd) /\ phase' = phase /\ todo' = Tail(todo)
      /\ clients_to_remove' = Cons(id, clients_to_remove)
      /\ UNCHANGED <<combatVars, clientVars, gameVars, status>>
  BY DEF ReadHangUp, Visited
<1>2. GameInv'
  BY <1>1, GameStays DEF ServerInv
<1>3. /\ phase = "read" /\ status = "running" /\ leaving = {}
      /\ id \in DOMAIN clients /\ clients[id] = fd
      /\ id \in DOMAIN players
      /\ id \notin Range(clients_to_remove)
      /\ obj[players[id]].skills_to_do \in {<<>>, <<Glance>>}
      /\ todo' \in Seq(PlayerId \cup Fd) /\ IsInjective(todo')
      /\ Range(todo') = Range(todo) \ {fd}
  BY <1>1, Reader
<1> HIDE DEF id
<1>4. /\ clients_to_remove' \in Seq(PlayerId) /\ IsInjective(clients_to_remove')
      /\ Range(clients_to_remove') = Range(clients_to_remove) \cup {id}
  BY <1>1, <1>3, InPlay, ConsAdds DEF ServerInv, LoopInv, LoopTypeOK, HangUps
<1>5. /\ leaving' = leaving /\ players' = players /\ obj' = obj
      /\ clients' = clients /\ client_sockets' = client_sockets
  BY <1>1 DEF gameVars, clientVars, leaving
<1>6. LoopTypeOK' /\ NeverKilled' /\ Walks' /\ HangUps' /\ LeaveInTime'
  BY <1>1, <1>3, <1>4, <1>5
     DEF ServerInv, LoopInv, LoopTypeOK, NeverKilled, Walks, HangUps, LeaveInTime
<1>7. Queues'
  <2> SUFFICES ASSUME NEW i \in DOMAIN players PROVE Queue(i)'
    BY <1>5 DEF Queues
  <2>1. Queue(i)
    BY DEF ServerInv, LoopInv, Queues
  <2>2. CASE i = id
    BY <1>1, <1>3, <1>5, <2>1, <2>2 DEF Queue
  <2>3. CASE i # id
    BY <1>1, <1>3, <1>4, <1>5, <2>1, <2>3 DEF Queue, Quiet
  <2> QED BY <2>2, <2>3
<1> QED BY <1>2, <1>6, <1>7 DEF ServerInv, LoopInv

(***************************************************************************)
(* A read that fails ends the process where it stands.                     *)
(***************************************************************************)
LEMMA ReadErrorInv ==
  ASSUME ServerInv, NEW fd, ReadError(fd)
  PROVE  ServerInv'
<1>1. status' = "aborted" /\ UNCHANGED <<combatVars, clientVars, gameVars, loopVars>>
  BY DEF ReadError
<1>2. GameInv'
  BY <1>1, GameStays DEF ServerInv
<1>3. LoopInv'
  BY <1>1 DEF ServerInv, LoopInv, LoopTypeOK, NeverKilled, Walks, HangUps, LeaveInTime,
              Queues, Queue, Quiet, leaving, clientVars, gameVars, loopVars
<1> QED BY <1>2, <1>3 DEF ServerInv

(***************************************************************************)
(* A hang-up is served: the player has a connection and nothing but its    *)
(* glance to run.  It leaves, or stays behind as a statue.                 *)
(***************************************************************************)
LEMMA ServeHangUpInv ==
  ASSUME ServerInv, ServeHangUp
  PROVE  ServerInv'
<1>0. PICK id : id = Head(clients_to_remove)
  OBVIOUS
<1>1. phase = "read" /\ status = "running" /\ todo = <<>> /\ clients_to_remove # <<>>
  BY DEF ServeHangUp, In
<1>2. /\ Tail(clients_to_remove) \in Seq(PlayerId)
      /\ IsInjective(Tail(clients_to_remove))
      /\ id \in Range(clients_to_remove)
      /\ Range(Tail(clients_to_remove)) = Range(clients_to_remove) \ {id}
  BY <1>0, <1>1, TailVisits DEF ServerInv, LoopInv, LoopTypeOK, HangUps
<1>3. id \in DOMAIN clients /\ GameInv
  BY <1>2 DEF ServerInv, LoopInv, HangUps
<1>4. /\ id \in DOMAIN players
      /\ players[id] \in chars /\ obj[players[id]].id = id
  BY <1>3, InPlay
<1>5. /\ maybe_remove_player(players[id])
      /\ clients_to_remove' = Tail(clients_to_remove)
      /\ phase' = "read" /\ todo' = <<>> /\ status' = "running"
  BY <1>0, <1>1, <1>3, <1>4 DEF ServeHangUp, Follow, is_connected
<1>6. /\ GameInv'
      /\ leaving' \subseteq leaving \cup {players[id]}
      /\ players' = players
      /\ DOMAIN clients' = DOMAIN clients \ {id}
      /\ \A b \in chars : obj'[b].skills_to_do = obj[b].skills_to_do
      /\ \A b \in chars \ {players[id]} : obj'[b].state = obj[b].state
  <2>1. CASE can_quit(players[id]) /\ remove_player(players[id]) /\ UNCHANGED obj
    <3>1. SameFields
      BY <1>3, <2>1 DEF SameFields, GameInv, GameTypeOK
    <3>2. GameInv' /\ leaving' = leaving \cup {players[id]}
      BY <1>3, <2>1, <3>1, LeaveGame
    <3>3. disconnect_client(id) /\ players' = players
      BY <1>4, <2>1 DEF remove_player
    <3> QED BY <2>1, <3>2, <3>3, Disconnected
  <2>2. CASE ~can_quit(players[id]) /\ become_statue(players[id])
    <3>1. disconnect_client(id) /\ players' = players
      BY <1>4, <2>2 DEF become_statue
    <3> QED BY <1>3, <2>2, <3>1, StatueGame, Disconnected
  <2> QED BY <1>5, <2>1, <2>2 DEF maybe_remove_player
<1>7. LoopTypeOK' /\ NeverKilled' /\ Walks' /\ HangUps' /\ LeaveInTime'
  <2>1. Range(todo') = {} /\ IsInjective(todo') /\ todo' \in Seq(PlayerId \cup Fd)
    BY <1>5, Emptied
  <2> QED BY <1>2, <1>5, <1>6, <2>1
          DEF ServerInv, LoopInv, LoopTypeOK, NeverKilled, Walks, HangUps, LeaveInTime
<1>8. Queues'
  <2> SUFFICES ASSUME NEW i \in DOMAIN players PROVE Queue(i)'
    BY <1>6 DEF Queues
  <2>1. Queue(i) /\ players[i] \in chars /\ (players[i] = players[id] => i = id)
    BY <1>3, <1>4 DEF ServerInv, LoopInv, Queues, GameInv, Directory
  <2>2. players'[i] = players[i]
        /\ obj'[players[i]].skills_to_do = obj[players[i]].skills_to_do
    BY <1>6, <2>1
  <2>3. CASE i = id
    <3>1. Quiet(i)
      BY <1>2, <2>3 DEF Quiet
    <3> QED BY <1>1, <1>5, <2>1, <2>2, <3>1 DEF Queue
  <2>4. CASE i # id
    <3>1. Range(todo') = {}
      BY <1>5, Emptied
    <3>2. Quiet(i)' => Quiet(i)
      BY <1>2, <1>5, <1>6, <2>1, <2>2, <2>4, <3>1 DEF Quiet
    <3> QED BY <1>1, <1>5, <2>1, <2>2, <3>2 DEF Queue
  <2> QED BY <2>3, <2>4
<1> QED BY <1>6, <1>7, <1>8 DEF ServerInv, LoopInv

-----------------------------------------------------------------------------
(***************************************************************************)
(* A walk over the table of players begins: of exec, or of hb when every   *)
(* queue has been run.                                                     *)
(***************************************************************************)
LEMMA WalkBegins ==
  ASSUME ServerInv, NEW p \in {"exec", "hb"}, Visit(p, DOMAIN players),
         phase \in {"read", "exec"}, todo = <<>>, clients_to_remove = <<>>,
         p = "hb" => phase = "exec",
         UNCHANGED <<combatVars, clientVars, gameVars, clients_to_remove, status>>
  PROVE  ServerInv'
<1>1. GameInv'
  BY GameStays DEF ServerInv
<1>2. phase' = p /\ todo' \in SetToSeqs(DOMAIN players)
  BY DEF Visit
<1>3. todo' \in Seq(DOMAIN players) /\ IsInjective(todo') /\ Range(todo') = DOMAIN players
  BY <1>2, Enumerates DEF ServerInv, GameInv, FiniteTables
<1>4. todo' \in Seq(PlayerId \cup Fd)
  BY <1>3 DEF ServerInv, GameInv, GameTypeOK
<1>5. /\ leaving' = leaving /\ players' = players /\ obj' = obj
      /\ clients_to_remove' = <<>> /\ Range(clients_to_remove') = {}
  BY Emptied DEF gameVars, leaving
<1>6. LoopTypeOK' /\ NeverKilled' /\ Walks' /\ HangUps' /\ LeaveInTime'
  BY <1>2, <1>3, <1>4, <1>5
     DEF ServerInv, LoopInv, LoopTypeOK, NeverKilled, Walks, HangUps, LeaveInTime
<1>7. Queues'
  <2> SUFFICES ASSUME NEW i \in DOMAIN players PROVE Queue(i)'
    BY <1>5 DEF Queues
  <2>1. Queue(i) /\ Range(todo) = {}
    BY Emptied DEF ServerInv, LoopInv, Queues
  <2>2. Quiet(i)' => Quiet(i)
    BY <1>2, <1>5 DEF Quiet
  <2> QED BY <1>2, <1>3, <1>5, <2>1, <2>2 DEF Queue
<1> QED BY <1>1, <1>6, <1>7 DEF ServerInv, LoopInv

LEMMA AllReadInv ==
  ASSUME ServerInv, AllRead
  PROVE  ServerInv'
  BY WalkBegins DEF AllRead, In

LEMMA AllExecutedInv ==
  ASSUME ServerInv, AllExecuted
  PROVE  ServerInv'
<1>1. clients_to_remove = <<>>
  BY DEF AllExecuted, In, ServerInv, LoopInv, HangUps
<1> QED BY <1>1, WalkBegins DEF AllExecuted, In

-----------------------------------------------------------------------------
(***************************************************************************)
(* exec.  A player that runs a command other than a glance has no other    *)
(* command behind it, is connected and not leaving.                        *)
(***************************************************************************)
LEMMA Walker ==
  ASSUME ServerInv, phase \in {"exec", "hb"}, todo # <<>>
  PROVE  LET id == Head(todo) IN
         /\ id \in Range(todo) /\ id \in DOMAIN players
         /\ players[id] \in chars /\ players[id] \in Addr
         /\ obj[players[id]].id = id
         /\ clients_to_remove = <<>>
         /\ Tail(todo) \in Seq(PlayerId \cup Fd)
         /\ IsInjective(Tail(todo))
         /\ Range(Tail(todo)) = Range(todo) \ {id}
<1> USE DEF ServerInv, LoopInv, GameInv
<1>1. /\ Head(todo) \in Range(todo)
      /\ Tail(todo) \in Seq(PlayerId \cup Fd)
      /\ IsInjective(Tail(todo))
      /\ Range(Tail(todo)) = Range(todo) \ {Head(todo)}
  BY TailVisits DEF LoopTypeOK, Walks
<1>2. Head(todo) \in DOMAIN players /\ clients_to_remove = <<>>
  BY <1>1 DEF Walks, HangUps
<1> QED BY <1>1, <1>2 DEF Directory, CombatInv, CombatTypeOK

LEMMA Runner ==
  ASSUME ServerInv, NEW a, Running(a), obj[a].skills_to_do # <<>>
  PROVE  /\ a \in chars /\ a \in Addr
         /\ NextCommand(a) \in Command
         /\ Tail(obj[a].skills_to_do) \in Seq(Command)
         /\ NextCommand(a).name # "glance" =>
              /\ Tail(obj[a].skills_to_do) = <<>>
              /\ a \notin leaving
              /\ obj[a].id \in DOMAIN clients
              /\ players[obj[a].id] = a
<1>0. PICK id : id = Head(todo)
  OBVIOUS
<1> DEFINE q == obj[a].skills_to_do
<1>1. phase = "exec" /\ todo # <<>> /\ a = players[id]
  BY <1>0 DEF Running, In
<1>2. id \in Range(todo) /\ id \in DOMAIN players /\ a \in chars /\ a \in Addr /\ obj[a].id = id
  BY <1>0, <1>1, Walker
<1>3. q \in Seq(Command)
  BY <1>2 DEF ServerInv, GameInv, GameTypeOK, Player
<1>4. Queue(id)
  BY <1>2 DEF ServerInv, LoopInv, Queues
<1>5. NextCommand(a) = Head(q) /\ Head(q) \in Command /\ Tail(q) \in Seq(Command)
      /\ Head(q) = q[1]
  BY <1>3 DEF NextCommand
<1>6. ASSUME NextCommand(a).name # "glance"
      PROVE  Tail(q) = <<>> /\ a \notin leaving /\ id \in DOMAIN clients
  <2>1. q[1] # Glance
    BY <1>5, <1>6 DEF Glance
  <2>2. Len(q) = 1
    BY <1>1, <1>4, <2>1 DEF Queue, Short
  <2>3. Tail(q) = <<>>
    <3>1. Len(Tail(q)) = 0
      BY <1>3, <2>2
    <3> QED BY <1>5, <3>1, EmptySeq
  <2>4. q # <<Glance>>
    BY <2>1
  <2>5. ~Quiet(id)
    BY <1>1, <1>4, <2>4 DEF Queue
  <2>6. a \notin leaving /\ obj[a].state # "Disconnected"
    BY <1>1, <2>5 DEF Quiet
  <2>7. obj[a].state = "Normal"
    BY <1>2, <2>6 DEF ServerInv, GameInv, GameTypeOK, Player
  <2>8. id \in DOMAIN clients
    BY <1>1, <1>2, <2>6, <2>7 DEF ServerInv, GameInv, NetMatchesGame
  <2> QED BY <2>3, <2>6, <2>8
<1> QED BY <1>1, <1>2, <1>5, <1>6

(***************************************************************************)
(* Running one command takes it from the queue; only a command other than  *)
(* a glance may put its player on the list of removals.                    *)
(***************************************************************************)
LEMMA CommandRun ==
  ASSUME ServerInv, NEW a, Running(a), obj[a].skills_to_do # <<>>,
         GameInv', UNCHANGED loopVars, players' = players,
         status' \in {"running", "aborted"},
         \A b \in chars \ {a} : obj'[b].skills_to_do = obj[b].skills_to_do
                                /\ obj'[b].state = obj[b].state,
         obj'[a].skills_to_do = Tail(obj[a].skills_to_do),
         obj'[a].state = obj[a].state,
         \/ leaving' = leaving
         \/ leaving' = leaving \cup {a} /\ NextCommand(a).name # "glance"
  PROVE  ServerInv'
<1>0. PICK id : id = Head(todo)
  OBVIOUS
<1>1. phase = "exec" /\ todo # <<>> /\ a = players[id]
  BY <1>0 DEF Running, In
<1>2. /\ id \in Range(todo) /\ id \in DOMAIN players /\ a \in chars
      /\ clients_to_remove = <<>>
  BY <1>0, <1>1, Walker
<1>3. phase' = "exec" /\ todo' = todo /\ clients_to_remove' = <<>>
  BY <1>1, <1>2 DEF loopVars
<1>4. LoopTypeOK' /\ NeverKilled' /\ Walks' /\ HangUps' /\ LeaveInTime'
  BY <1>1, <1>2, <1>3, Emptied
     DEF ServerInv, LoopInv, LoopTypeOK, NeverKilled, Walks, HangUps, LeaveInTime
<1>5. Queue(id)'
  <2> DEFINE q == obj[a].skills_to_do
  <2>1. Queue(id) /\ players'[id] = a /\ obj'[a].skills_to_do = Tail(q)
    BY <1>1, <1>2 DEF ServerInv, LoopInv, Queues
  <2>2. q \in Seq(Command) /\ q # <<>>
    BY <1>2 DEF ServerInv, GameInv, GameTypeOK, Player
  <2> HIDE DEF q
  <2>3. (Len(q) = 1 \/ Len(q) = 2) /\ Len(Tail(q)) = Len(q) - 1 /\ Tail(q) \in Seq(Command)
    BY <1>1, <2>1, <2>2 DEF Queue, Short, q
  <2>4. Len(q) = 1 => Tail(q) = <<>>
    <3> SUFFICES ASSUME Len(q) = 1 PROVE Tail(q) = <<>>
      OBVIOUS
    <3>1. Len(Tail(q)) = 0
      BY <2>3
    <3> QED BY <2>3, <3>1, EmptySeq
  <2>5. Quiet(id)' => Tail(q) = <<>>
    <3> SUFFICES ASSUME Quiet(id)' PROVE Tail(q) = <<>>
      OBVIOUS
    <3>1. CASE Quiet(id)
      <4>1. q = <<Glance>>
        BY <1>1, <2>1, <2>2, <3>1 DEF Queue, q
      <4>2. Len(q) = 1
        BY <4>1
      <4> QED BY <2>4, <4>2
    <3>2. CASE ~Quiet(id)
      <4>1. NextCommand(a).name # "glance"
        BY <1>1, <1>2, <1>3, <2>1, <3>2 DEF Quiet
      <4> QED BY <4>1, Runner DEF q
    <3> QED BY <3>1, <3>2
  <2>6. Short(Tail(q))
    BY <2>3, <2>4 DEF Short
  <2> QED BY <1>2, <1>3, <2>1, <2>5, <2>6 DEF Queue
<1>6. \A i \in DOMAIN players \ {id} : Queue(i)'
  <2> SUFFICES ASSUME NEW i \in DOMAIN players \ {id} PROVE Queue(i)'
    OBVIOUS
  <2>1. Queue(i) /\ players[i] \in chars \ {a}
    BY <1>1, <1>2 DEF ServerInv, LoopInv, Queues, GameInv, Directory
  <2>2. players'[i] = players[i]
        /\ obj'[players[i]].skills_to_do = obj[players[i]].skills_to_do
        /\ obj'[players[i]].state = obj[players[i]].state
    BY <2>1
  <2>3. Quiet(i)' => Quiet(i)
    BY <1>2, <1>3, <2>1, <2>2 DEF Quiet
  <2> QED BY <1>1, <1>3, <2>1, <2>2, <2>3 DEF Queue
<1> QED BY <1>4, <1>5, <1>6 DEF ServerInv, LoopInv, Queues

LEMMA PopsQueue ==
  ASSUME ServerInv, NEW a, Running(a), obj[a].skills_to_do # <<>>, obj' = popped(a)
  PROVE  /\ SameFields
         /\ obj'[a].skills_to_do = Tail(obj[a].skills_to_do)
         /\ obj'[a].state = obj[a].state
         /\ \A b \in chars \ {a} : obj'[b] = obj[b]
<1>1. a \in chars /\ Tail(obj[a].skills_to_do) \in Seq(Command)
  BY Runner
<1>2. GameTypeOK
  BY DEF ServerInv, GameInv
<1>3. obj' = [obj EXCEPT ![a].skills_to_do = Tail(obj[a].skills_to_do)]
  BY DEF popped
<1> QED BY <1>1, <1>2, <1>3, QueueChanges DEF SameFields

LEMMA RunTalkInv ==
  ASSUME ServerInv, NEW a, RunGlance(a) \/ RunGolpear(a)
  PROVE  ServerInv'
<1>1. /\ Running(a) /\ obj[a].skills_to_do # <<>> /\ obj' = popped(a)
      /\ UNCHANGED loopVars /\ status' \in {"running", "aborted"}
      /\ UNCHANGED <<combatVars, clientVars, characters_in, players, players_to_remove>>
  BY DEF RunGlance, RunGolpear, Runs, SameLoop, Running, In
<1>2. /\ SameFields
      /\ obj'[a].skills_to_do = Tail(obj[a].skills_to_do)
      /\ obj'[a].state = obj[a].state
      /\ \A b \in chars \ {a} : obj'[b] = obj[b]
  BY <1>1, PopsQueue
<1>3. GameInv'
  <2>1. CombatInv' /\ chars' = chars /\ \A b \in leaving : can_quit(b)'
    BY <1>1, CombatStep
       DEF ServerInv, GameInv, Leavers, can_quit, is_in_combat, combatVars
  <2> QED BY <1>1, <1>2, <2>1, GameKept DEF ServerInv
<1>4. leaving' = leaving
  BY <1>1 DEF leaving
<1> QED BY <1>1, <1>2, <1>3, <1>4, CommandRun

LEMMA RunMoveInv ==
  ASSUME ServerInv, NEW a, RunMove(a)
  PROVE  ServerInv'
<1> DEFINE q == Tail(obj[a].skills_to_do)
           from == obj[a].room
           e == <<from, NextCommand(a).dir>>
<1>1. /\ Running(a) /\ obj[a].skills_to_do # <<>> /\ NextCommand(a).name # "glance"
      /\ UNCHANGED loopVars /\ status' = "running"
      /\ UNCHANGED <<combatVars, clientVars, players, players_to_remove>>
  BY DEF RunMove, Runs, SameLoop, Running, In
<1>2. a \in chars /\ a \notin leaving /\ q \in Seq(Command)
  BY <1>1, Runner
<1>3. leaving' = leaving /\ GameTypeOK
  BY <1>1 DEF leaving, ServerInv, GameInv
<1>4. CASE e \in DOMAIN exits
  <2>1. exits[e] \in Room
    BY <1>4, ServerAssumption
  <2>2. /\ move_player(a, from, exits[e])
        /\ obj' = [[obj EXCEPT ![a].skills_to_do = q] EXCEPT ![a].room = exits[e]]
    BY <1>4 DEF RunMove, popped
  <2> HIDE DEF q, e
  <2>3. /\ DOMAIN obj' = DOMAIN obj
        /\ obj'[a] = [id |-> obj[a].id, room |-> exits[e], state |-> obj[a].state,
                      skills_to_do |-> q]
        /\ obj'[a] \in Player
        /\ \A b \in chars \ {a} : obj'[b] = obj[b]
    BY <1>2, <1>3, <2>1, <2>2, MoveFields
  <2>4. /\ obj'[a].id = obj[a].id /\ obj'[a].room = exits[e]
        /\ obj'[a].state = obj[a].state /\ obj'[a].skills_to_do = q
    BY <2>3
  <2>5. GameInv'
    BY <1>1, <1>2, <2>1, <2>2, <2>3, <2>4, MoveGame DEF ServerInv
  <2> QED BY <1>1, <1>3, <2>3, <2>4, <2>5, CommandRun DEF q
<1>5. CASE e \notin DOMAIN exits
  <2>1. obj' = popped(a) /\ UNCHANGED characters_in
    BY <1>5 DEF RunMove
  <2>2. /\ SameFields
        /\ obj'[a].skills_to_do = Tail(obj[a].skills_to_do)
        /\ obj'[a].state = obj[a].state
        /\ \A b \in chars \ {a} : obj'[b] = obj[b]
    BY <1>1, <2>1, PopsQueue
  <2>3. GameInv'
    <3>1. CombatInv' /\ chars' = chars /\ \A b \in leaving : can_quit(b)'
      BY <1>1, CombatStep
         DEF ServerInv, GameInv, Leavers, can_quit, is_in_combat, combatVars
    <3> QED BY <1>1, <2>1, <2>2, <3>1, GameKept DEF ServerInv
  <2> QED BY <1>1, <1>3, <2>2, <2>3, CommandRun
<1> QED BY <1>4, <1>5

(***************************************************************************)
(* matar: whom it finds is in the room, so neither side is leaving.        *)
(***************************************************************************)
LEMMA Victim ==
  ASSUME ServerInv, NEW a \in chars, NEW id, Here(a, id) # {}
  PROVE  LET c == Min(Here(a, id)) IN
         c \in chars /\ c \notin leaving /\ c \in characters_in[obj[a].room]
<1> USE DEF ServerInv, GameInv
<1>1. obj[a].room \in Room
  BY DEF GameTypeOK, Player
<1>2. Here(a, id) \subseteq characters_in[obj[a].room]
  BY DEF Here
<1>3. characters_in[obj[a].room] \subseteq chars /\ chars \subseteq Nat
  BY <1>1, ServerAssumption DEF GameTypeOK, CombatInv, CombatTypeOK
<1>4. Min(Here(a, id)) \in Here(a, id)
  BY <1>2, <1>3, MinIsIn
<1> QED BY <1>1, <1>2, <1>3, <1>4 DEF RoomsAgree

LEMMA RunMatarInv ==
  ASSUME ServerInv, NEW a, RunMatar(a)
  PROVE  ServerInv'
<1> DEFINE found == Here(a, NextCommand(a).target)
           c == Min(found)
<1>1. /\ Running(a) /\ obj[a].skills_to_do # <<>> /\ NextCommand(a).name # "glance"
      /\ UNCHANGED loopVars /\ status' = "running" /\ obj' = popped(a)
      /\ UNCHANGED <<clientVars, characters_in, players, players_to_remove>>
  BY DEF RunMatar, Runs, SameLoop, Running, In
<1>2. a \in chars /\ a \notin leaving
  BY <1>1, Runner
<1>3. /\ SameFields
      /\ obj'[a].skills_to_do = Tail(obj[a].skills_to_do)
      /\ obj'[a].state = obj[a].state
      /\ \A b \in chars \ {a} : obj'[b] = obj[b]
  BY <1>1, PopsQueue
<1>4. leaving' = leaving
  BY <1>1 DEF leaving
<1>5. GameInv'
  <2>1. CASE found # {} /\ MayFight(a, c)
    <3>1. c \in chars /\ c \notin leaving
      BY <1>2, <2>1, Victim
    <3>2. Matar(a, c)
      BY <2>1 DEF RunMatar, Matar
    <3> QED BY <1>1, <1>2, <1>3, <3>1, <3>2, FightStarts DEF ServerInv
  <2>2. CASE ~(found # {} /\ MayFight(a, c))
    <3>1. UNCHANGED combatVars
      BY <2>2 DEF RunMatar
    <3>2. CombatInv' /\ chars' = chars /\ \A b \in leaving : can_quit(b)'
      BY <3>1, CombatStep
         DEF ServerInv, GameInv, Leavers, can_quit, is_in_combat, combatVars
    <3> QED BY <1>1, <1>3, <3>2, GameKept DEF ServerInv
  <2> QED BY <2>1, <2>2
<1> QED BY <1>1, <1>3, <1>4, <1>5, CommandRun

(***************************************************************************)
(* salir: a player that leaves had no other command in its queue.          *)
(***************************************************************************)
LEMMA RunSalirInv ==
  ASSUME ServerInv, NEW a, RunSalir(a)
  PROVE  ServerInv'
<1>1. /\ Running(a) /\ obj[a].skills_to_do # <<>> /\ NextCommand(a).name # "glance"
  BY DEF RunSalir, Runs
<1>2. PICK id : id = obj[a].id
  OBVIOUS
<1>3. a \in chars /\ a \notin leaving /\ id \in DOMAIN clients /\ players[id] = a
  BY <1>1, <1>2, Runner
<1>4. /\ obj' = popped(a) /\ UNCHANGED loopVars /\ status' = "running"
      /\ \/ can_quit(a) /\ remove_player(a)
         \/ UNCHANGED <<combatVars, clientVars, characters_in, players,
                        players_to_remove>>
  BY <1>2, <1>3 DEF RunSalir, Follow, is_connected, SameLoop, Runs, Running, In
<1>5. /\ SameFields
      /\ obj'[a].skills_to_do = Tail(obj[a].skills_to_do)
      /\ obj'[a].state = obj[a].state
      /\ \A b \in chars \ {a} : obj'[b] = obj[b]
  BY <1>1, <1>4, PopsQueue
<1>6. CASE can_quit(a) /\ remove_player(a)
  <2>1. GameInv' /\ leaving' = leaving \cup {a}
    BY <1>3, <1>5, <1>6, LeaveGame DEF ServerInv
  <2>2. players' = players
    BY <1>6 DEF remove_player
  <2> QED BY <1>1, <1>4, <1>5, <2>1, <2>2, CommandRun
<1>7. CASE UNCHANGED <<combatVars, clientVars, characters_in, players, players_to_remove>>
  <2>1. CombatInv' /\ chars' = chars /\ \A b \in leaving : can_quit(b)'
    BY <1>7, CombatStep
       DEF ServerInv, GameInv, Leavers, can_quit, is_in_combat, combatVars
  <2>2. GameInv'
    BY <1>5, <1>7, <2>1, GameKept DEF ServerInv
  <2>3. leaving' = leaving
    BY <1>7 DEF leaving
  <2> QED BY <1>1, <1>4, <1>5, <1>7, <2>2, <2>3, CommandRun
<1> QED BY <1>4, <1>6, <1>7

-----------------------------------------------------------------------------
(***************************************************************************)
(* The next player of exec or hb.                                          *)
(***************************************************************************)
LEMMA NextPlayer ==
  ASSUME ServerInv, GameInv', phase \in {"exec", "hb"}, todo # <<>>, Visited,
         phase = "exec" => obj[players[Head(todo)]].skills_to_do = <<>>,
         UNCHANGED <<gameVars, clients_to_remove, status>>
  PROVE  ServerInv'
<1>0. PICK id : id = Head(todo)
  OBVIOUS
<1>1. /\ id \in DOMAIN players
      /\ clients_to_remove = <<>>
      /\ todo' \in Seq(PlayerId \cup Fd) /\ IsInjective(todo')
      /\ Range(todo') = Range(todo) \ {id}
      /\ phase' = phase
  BY <1>0, Walker DEF Visited
<1>2. /\ leaving' = leaving /\ players' = players /\ obj' = obj
      /\ clients_to_remove' = <<>> /\ status' = status
  BY <1>1 DEF gameVars, leaving
<1>3. LoopTypeOK' /\ NeverKilled' /\ Walks' /\ HangUps' /\ LeaveInTime'
  BY <1>1, <1>2, Emptied
     DEF ServerInv, LoopInv, LoopTypeOK, NeverKilled, Walks, HangUps, LeaveInTime
<1>4. Queues'
  <2> SUFFICES ASSUME NEW i \in DOMAIN players PROVE Queue(i)'
    BY <1>2 DEF Queues
  <2>1. Queue(i)
    BY DEF ServerInv, LoopInv, Queues
  <2>2. Quiet(i)' => Quiet(i)
    BY <1>1, <1>2 DEF Quiet
  <2> QED BY <1>0, <1>1, <1>2, <2>1, <2>2 DEF Queue
<1> QED BY <1>3, <1>4 DEF ServerInv, LoopInv

LEMMA FlushedInv ==
  ASSUME ServerInv, NEW a, Flushed(a)
  PROVE  ServerInv'
<1>1. GameInv'
  BY GameStays DEF Flushed, ServerInv
<1> QED BY <1>1, NextPlayer DEF Flushed, Running, In

LEMMA NoBeatInv ==
  ASSUME ServerInv, NEW a, NoBeat(a)
  PROVE  ServerInv'
<1>1. GameInv'
  BY GameStays DEF NoBeat, ServerInv
<1> QED BY <1>1, NextPlayer DEF NoBeat, Beating, In

(***************************************************************************)
(* A heartbeat strikes an opponent in the room: a step of Combat.          *)
(***************************************************************************)
LEMMA BeatStrikes ==
  ASSUME ServerInv, NEW a, Beat(a)
  PROVE  \E to \in Addr, r \in Roll :
            /\ a \in chars /\ a \in Addr
            /\ Strike(a, to, r)
            /\ to \in in_combat[a] /\ to \in characters_in[obj[a].room]
<1>1. PICK to \in Reachable(a), r \in Roll : injure_mele(a, to, r)
  BY DEF Beat
<1>2. a \in chars /\ a \in Addr
  BY Walker DEF Beat, Beating, In
<1>3. to \in in_combat[a] /\ to \in characters_in[obj[a].room]
  BY <1>1 DEF Reachable
<1>4. to \in Addr
  BY <1>2, <1>3 DEF ServerInv, GameInv, CombatInv, CombatTypeOK
<1> QED BY <1>1, <1>2, <1>3, <1>4 DEF Strike

LEMMA BeatInv ==
  ASSUME ServerInv, NEW a, Beat(a)
  PROVE  ServerInv'
<1>1. PICK to \in Addr, r \in Roll : a \in Addr /\ Strike(a, to, r)
  BY BeatStrikes
<1>2. UNCHANGED <<clientVars, gameVars>>
  BY DEF Beat
<1>3. GameInv'
  BY <1>1, <1>2, BlowFalls DEF ServerInv
<1> QED BY <1>2, <1>3, NextPlayer DEF Beat, Beating, In

-----------------------------------------------------------------------------
(***************************************************************************)
(* The phases without a walk begin: the queues have been run.              *)
(***************************************************************************)
LEMMA PhaseBegins ==
  ASSUME ServerInv, NEW p \in {"remove", "write", "accept"}, GoTo(p),
         phase \notin {"read", "exec"},
         leaving # {} => p = "remove" /\ phase = "hb",
         UNCHANGED <<combatVars, clientVars, gameVars, clients_to_remove, status>>
  PROVE  ServerInv'
<1>1. GameInv'
  BY GameStays DEF ServerInv
<1>2. phase' = p /\ todo' = <<>> /\ Range(todo') = {} /\ IsInjective(todo')
  BY Emptied DEF GoTo
<1>3. /\ leaving' = leaving /\ players' = players /\ obj' = obj
      /\ clients_to_remove = <<>> /\ clients_to_remove' = <<>>
  BY DEF gameVars, leaving, ServerInv, LoopInv, HangUps
<1>4. todo' \in Seq(PlayerId \cup Fd)
  BY <1>2
<1>5. LoopTypeOK' /\ NeverKilled' /\ Walks' /\ HangUps' /\ LeaveInTime'
  BY <1>2, <1>3, <1>4, Emptied
     DEF ServerInv, LoopInv, LoopTypeOK, NeverKilled, Walks, HangUps, LeaveInTime
<1>6. Queues'
  <2> SUFFICES ASSUME NEW i \in DOMAIN players PROVE Queue(i)'
    BY <1>3 DEF Queues
  <2>1. obj[players[i]].skills_to_do = <<>>
    BY DEF ServerInv, LoopInv, Queues, Queue
  <2> QED BY <1>3, <2>1 DEF Queue, Short
<1> QED BY <1>1, <1>5, <1>6 DEF ServerInv, LoopInv

LEMMA AllBeatenInv ==
  ASSUME ServerInv, AllBeaten
  PROVE  ServerInv'
  BY PhaseBegins DEF AllBeaten, In

LEMMA AllRemovedInv ==
  ASSUME ServerInv, AllRemoved
  PROVE  ServerInv'
<1>1. leaving = {}
  BY Emptied DEF AllRemoved, leaving
<1> QED BY <1>1, PhaseBegins DEF AllRemoved, In

(***************************************************************************)
(* Everybody in the normal state has a connection when the messages are    *)
(* sent, for nobody is leaving any more.                                   *)
(***************************************************************************)
LEMMA WriteInv ==
  ASSUME ServerInv, Write
  PROVE  ServerInv'
<1>1. phase = "write" /\ leaving = {}
  BY OutsideTheTick DEF Write, In
<1>2. CanSend
  BY <1>1 DEF ServerInv, GameInv, NetMatchesGame, CanSend, is_connected
<1>3. /\ GoTo("accept")
      /\ UNCHANGED <<combatVars, clientVars, gameVars, clients_to_remove, status>>
  BY <1>2 DEF Write, Follow
<1> QED BY <1>1, <1>3, PhaseBegins

(***************************************************************************)
(* The delete of a player that left: the object is still there.            *)
(***************************************************************************)
LEMMA RemoveStep ==
  ASSUME ServerInv, RemovePlayer
  PROVE  /\ phase = "remove" /\ players_to_remove # <<>>
         /\ LET a == Head(players_to_remove) IN
            /\ players' = Erase(players, obj[a].id)
            /\ obj' = Erase(obj, a)
            /\ Delete(a)
            /\ players_to_remove' = Tail(players_to_remove)
            /\ UNCHANGED <<clientVars, characters_in, loopVars, status>>
<1>1. phase = "remove" /\ players_to_remove # <<>>
  BY DEF RemovePlayer, In
<1>2. Head(players_to_remove) \in chars
  BY <1>1, TailVisits DEF ServerInv, GameInv, GameTypeOK, Leavers, leaving
<1> QED BY <1>1, <1>2 DEF RemovePlayer, Follow

LEMMA RemovePlayerInv ==
  ASSUME ServerInv, RemovePlayer
  PROVE  ServerInv'
<1>1. /\ phase = "remove" /\ UNCHANGED <<loopVars, status>>
      /\ GameInv' /\ leaving' \subseteq leaving
      /\ DOMAIN players' \subseteq DOMAIN players
      /\ \A i \in DOMAIN players' : obj'[players'[i]] = obj[players[i]]
  BY RemoveStep, DeleteGame DEF ServerInv
<1>2. clients_to_remove = <<>> /\ clients_to_remove' = <<>> /\ phase' = "remove" /\ todo' = todo
  BY <1>1 DEF ServerInv, LoopInv, HangUps, loopVars
<1>3. LoopTypeOK' /\ NeverKilled' /\ Walks' /\ HangUps' /\ LeaveInTime'
  BY <1>1, <1>2, Emptied
     DEF ServerInv, LoopInv, LoopTypeOK, NeverKilled, Walks, HangUps, LeaveInTime
<1>4. Queues'
  <2> SUFFICES ASSUME NEW i \in DOMAIN players' PROVE Queue(i)'
    BY DEF Queues
  <2>1. i \in DOMAIN players /\ obj'[players'[i]].skills_to_do = <<>>
    BY <1>1 DEF ServerInv, LoopInv, Queues, Queue
  <2> QED BY <1>2, <2>1 DEF Queue, Short
<1> QED BY <1>1, <1>3, <1>4 DEF ServerInv, LoopInv

-----------------------------------------------------------------------------
LEMMA ServerStart == ServerInit => ServerInv
<1> SUFFICES ASSUME ServerInit PROVE ServerInv
  OBVIOUS
<1>1. CombatInv /\ ClientInv
  BY CombatStart, ClientStart DEF ServerInit
<1>2. /\ chars = {} /\ DOMAIN clients = {} /\ client_sockets = {}
      /\ DOMAIN obj = {} /\ DOMAIN players = {}
      /\ players_to_remove = <<>> /\ leaving = {}
      /\ characters_in = [r \in Room |-> {}]
  BY Emptied DEF ServerInit, CombatInit, ClientInit, leaving
<1>3. GameTypeOK /\ FiniteTables /\ Directory /\ Leavers /\ RoomsAgree /\ NetMatchesGame
  BY <1>2, Emptied, FS_EmptySet
     DEF GameTypeOK, FiniteTables, Directory, Leavers, RoomsAgree, NetMatchesGame
<1>4. LoopTypeOK /\ NeverKilled /\ Walks /\ HangUps /\ LeaveInTime /\ Queues
  BY <1>2, Emptied
     DEF ServerInit, LoopTypeOK, NeverKilled, Walks, HangUps, LeaveInTime, Queues
<1> QED BY <1>1, <1>3, <1>4 DEF ServerInv, GameInv, LoopInv

LEMMA ServerStutters ==
  ASSUME ServerInv, UNCHANGED serverVars
  PROVE  ServerInv'
<1>1. GameInv'
  BY GameStays DEF ServerInv, serverVars
<1>2. LoopInv'
  BY DEF ServerInv, LoopInv, LoopTypeOK, NeverKilled, Walks, HangUps, LeaveInTime,
         Queues, Queue, Quiet, leaving, clientVars, gameVars, loopVars, serverVars
<1> QED BY <1>1, <1>2 DEF ServerInv

LEMMA ServerStep == ServerInv /\ [ServerNext]_serverVars => ServerInv'
<1> SUFFICES ASSUME ServerInv, [ServerNext]_serverVars
             PROVE  ServerInv'
  OBVIOUS
<1>1. CASE Accept
  BY <1>1, NobodyArrivesInv, LoginInv DEF Accept
<1>2. CASE Read
  BY <1>2, ReadNothingInv, ReadCommandInv, ReadHangUpInv, ReadErrorInv, ServeHangUpInv,
     AllReadInv DEF Read
<1>3. CASE Exec
  BY <1>3, RunTalkInv, RunMoveInv, RunMatarInv, RunSalirInv, FlushedInv, AllExecutedInv
     DEF Exec
<1>4. CASE Hb
  BY <1>4, BeatInv, NoBeatInv, AllBeatenInv DEF Hb
<1>5. CASE RemovePlayer \/ AllRemoved \/ Write
  BY <1>5, RemovePlayerInv, AllRemovedInv, WriteInv
<1>6. CASE UNCHANGED serverVars
  BY <1>6, ServerStutters
<1> QED BY <1>1, <1>2, <1>3, <1>4, <1>5, <1>6 DEF ServerNext, Loop, Dead

LEMMA ServerInvariance == ServerSpec => []ServerInv
  BY ServerStart, ServerStep, PTL DEF ServerSpec

-----------------------------------------------------------------------------
(***************************************************************************)
(* Every variable of the loop has its type in every reachable state.       *)
(***************************************************************************)
THEOREM ServerTypes == ServerSpec => []ServerTypeOK
<1>1. ServerInv => ServerTypeOK
  <2> SUFFICES ASSUME ServerInv PROVE ServerTypeOK
    OBVIOUS
  <2>1. CombatTypeOK /\ ClientTypeOK
    BY DEF ServerInv, GameInv, CombatInv, ClientInv
  <2>2. characters_in \in [Room -> SUBSET Addr]
    BY <2>1 DEF ServerInv, GameInv, GameTypeOK, CombatTypeOK
  <2> QED BY <2>1, <2>2 DEF ServerInv, GameInv, GameTypeOK, LoopInv, LoopTypeOK, ServerTypeOK
<1> QED BY ServerInvariance, <1>1, PTL

(***************************************************************************)
(* No step follows a null pointer or deletes an object twice: a command is *)
(* parsed, a hang-up served and a message sent only for a player and a     *)
(* connection that exist, whatever the clients do and when.                *)
(***************************************************************************)
THEOREM ServerNeverKilled == ServerSpec => []NeverKilled
<1>1. ServerInv => NeverKilled
  BY DEF ServerInv, LoopInv
<1> QED BY ServerInvariance, <1>1, PTL

(***************************************************************************)
(* The connected players are always those in the game that are neither     *)
(* statues nor leaving.                                                    *)
(***************************************************************************)
THEOREM LayersAgree == ServerSpec => []NetMatchesGame
<1>1. ServerInv => NetMatchesGame
  BY DEF ServerInv, GameInv
<1> QED BY ServerInvariance, <1>1, PTL

(***************************************************************************)
(* No table of the game ever holds a pointer to a deleted object.          *)
(***************************************************************************)
THEOREM PointersAreLive == ServerSpec => []NoDanglingPointer
<1>1. ServerInv => NoDanglingPointer
  <2> SUFFICES ASSUME ServerInv PROVE NoDanglingPointer
    OBVIOUS
  <2>1. Range(players) \subseteq chars
    BY DEF ServerInv, GameInv, Directory, Range
  <2>2. \A r \in Room : characters_in[r] \subseteq chars
    BY DEF ServerInv, GameInv, GameTypeOK
  <2>3. NoDanglingFighter
    BY DEF ServerInv, GameInv, CombatInv, CombatTypeOK, Fighters, NoDanglingFighter
  <2>4. leaving \subseteq chars
    BY DEF ServerInv, GameInv, Leavers
  <2> QED BY <2>1, <2>2, <2>3, <2>4 DEF NoDanglingPointer
<1> QED BY ServerInvariance, <1>1, PTL

(***************************************************************************)
(* Between leaving and the delete nobody fights the player or finds it in  *)
(* a room.                                                                 *)
(***************************************************************************)
THEOREM LeaversAreGone == ServerSpec => []LeavingIsGone
<1>1. ServerInv => LeavingIsGone
  <2> SUFFICES ASSUME ServerInv, NEW a \in leaving
               PROVE  /\ can_quit(a)
                      /\ \A b \in Addr : a \notin in_combat[b]
                      /\ \A r \in Room : a \notin characters_in[r]
    BY DEF LeavingIsGone
  <2>1. a \in chars /\ a \in Addr /\ can_quit(a)
    BY DEF ServerInv, GameInv, Leavers, CombatInv, CombatTypeOK
  <2>2. \A b \in Addr : a \notin in_combat[b]
    BY <2>1 DEF ServerInv, GameInv, CombatInv, Mutual, can_quit, is_in_combat
  <2> QED BY <2>1, <2>2 DEF ServerInv, GameInv, RoomsAgree
<1> QED BY ServerInvariance, <1>1, PTL

(***************************************************************************)
(* A character is in the room it believes to be in and in no other; one    *)
(* that is leaving is in none.                                             *)
(***************************************************************************)
THEOREM EveryoneInOneRoom == ServerSpec => []RoomsAgree
<1>1. ServerInv => RoomsAgree
  BY DEF ServerInv, GameInv
<1> QED BY ServerInvariance, <1>1, PTL

(***************************************************************************)
(* No command waits for the next tick, and no queue holds more than the    *)
(* first glance and one command.                                           *)
(***************************************************************************)
THEOREM TicksDrainQueues == ServerSpec => []QueuesDrained
<1>1. ServerInv => QueuesDrained
  <2> SUFFICES ASSUME ServerInv, NEW id \in DOMAIN players
               PROVE  LET q == obj[players[id]].skills_to_do
                      IN  /\ Len(q) <= 2
                          /\ phase \notin {"read", "exec"} => q = <<>>
    BY DEF QueuesDrained
  <2> DEFINE q == obj[players[id]].skills_to_do
  <2>1. Queue(id)
    BY DEF ServerInv, LoopInv, Queues
  <2>2. Short(q)
    BY <2>1, Zenon DEF Queue
  <2>3. phase \notin {"read", "exec"} => q = <<>>
    BY <2>1, Zenon DEF Queue
  <2>4. Len(q) <= 2
    <3> HIDE DEF q
    <3>1. q = <<>> \/ Len(q) = 1 \/ Len(q) = 2
      BY <2>2 DEF Short
    <3>2. CASE q = <<>>
      <4>1. Len(q) = 0
        BY <3>2
      <4> QED BY <4>1
    <3>3. CASE Len(q) = 1
      BY <3>3
    <3>4. CASE Len(q) = 2
      BY <3>4
    <3> QED BY <3>1, <3>2, <3>3, <3>4
  <2> QED BY <2>3, <2>4, Zenon
<1> QED BY ServerInvariance, <1>1, PTL

-----------------------------------------------------------------------------
(***************************************************************************)
(* The loop implements the fights of Combat: whatever phase it is in, it   *)
(* creates, deletes, attacks and strikes as Combat allows.                 *)
(***************************************************************************)
LEMMA CreateMaps ==
  ASSUME NEW id \in PlayerId, NEW fd \in Fd, Login(id, fd)
  PROVE  [CombatNext]_combatVars
<1>1. CASE UNCHANGED combatVars
  BY <1>1
<1>2. CASE \E a \in Addr : create_player(id, a)
  BY <1>2 DEF create_player, CombatNext
<1> QED BY <1>1, <1>2 DEF Login

LEMMA AttackMaps ==
  ASSUME ServerInv, NEW a, RunMatar(a)
  PROVE  [CombatNext]_combatVars
<1> DEFINE found == Here(a, NextCommand(a).target)
           c == Min(found)
<1>1. CASE UNCHANGED combatVars
  BY <1>1
<1>2. CASE found # {} /\ MayFight(a, c)
  <2>1. a \in chars /\ a \in Addr
    BY Runner DEF RunMatar, Runs
  <2>2. c \in chars
    BY <1>2, <2>1, Victim
  <2>3. Matar(a, c) /\ c \in Addr
    BY <1>2, <2>2 DEF RunMatar, Matar, ServerInv, GameInv, CombatInv, CombatTypeOK
  <2> QED BY <2>1, <2>2, <2>3 DEF CombatNext
<1> QED BY <1>1, <1>2 DEF RunMatar

LEMMA BeatMaps ==
  ASSUME ServerInv, NEW a, Beat(a)
  PROVE  [CombatNext]_combatVars
  BY BeatStrikes DEF CombatNext

LEMMA RemoveMaps ==
  ASSUME ServerInv, RemovePlayer
  PROVE  [CombatNext]_combatVars
<1>1. PICK a \in Addr : DeleteCharacter(a)
  BY RemoveStep, DeleteGame DEF ServerInv
<1> QED BY <1>1 DEF CombatNext

LEMMA OtherwiseNoCombat ==
  ASSUME Loop
  PROVE  \/ UNCHANGED combatVars
         \/ \E id \in PlayerId, fd \in Fd : Login(id, fd)
         \/ \E a \in Addr : RunMatar(a) \/ Beat(a)
         \/ RemovePlayer
<1>1. CASE Read
  BY <1>1 DEF Read, ReadNothing, ReadCommand, ReadHangUp, ReadError, ServeHangUp, AllRead,
              Follow, maybe_remove_player, remove_player, become_statue
<1>2. CASE Exec
  BY <1>2 DEF Exec, RunGlance, RunGolpear, RunMove, RunSalir, Flushed, AllExecuted,
              Follow, remove_player
<1> QED BY <1>1, <1>2 DEF Loop, Accept, NobodyArrives, Hb, NoBeat, AllBeaten, AllRemoved,
                          Write, Follow

THEOREM ServerImplementsCombat == ServerSpec => CombatSpec
<1>1. ServerInit => CombatInit
  BY DEF ServerInit
<1>2. ServerInv /\ [ServerNext]_serverVars => [CombatNext]_combatVars
  <2> SUFFICES ASSUME ServerInv, [ServerNext]_serverVars
               PROVE  [CombatNext]_combatVars
    OBVIOUS
  <2>1. CASE Loop
    BY <2>1, OtherwiseNoCombat, CreateMaps, AttackMaps, BeatMaps, RemoveMaps
  <2>2. CASE UNCHANGED serverVars
    BY <2>2 DEF serverVars
  <2> QED BY <2>1, <2>2 DEF ServerNext, Dead
<1> QED BY <1>1, <1>2, ServerInvariance, PTL DEF ServerSpec, CombatSpec

(***************************************************************************)
(* So what Combat promises holds in the whole server: fights are pairs of  *)
(* living characters which only a death ends.                              *)
(***************************************************************************)
COROLLARY ServerKeepsFights == ServerSpec => FightsKept
  BY ServerImplementsCombat, CombatKeepsFights

(***************************************************************************)
(* The loop implements the tables of ClientManager: it connects only what  *)
(* arrives and disconnects only who is connected.                          *)
(***************************************************************************)
LEMMA HangUpMaps ==
  ASSUME ServerInv, ServeHangUp
  PROVE  ClientNext
<1>0. PICK id : id = Head(clients_to_remove)
  OBVIOUS
<1>1. id \in DOMAIN clients
  BY <1>0, TailVisits DEF ServeHangUp, ServerInv, LoopInv, LoopTypeOK, HangUps
<1>2. id \in PlayerId /\ id \in DOMAIN players /\ obj[players[id]].id = id
  BY <1>1, InPlay DEF ServerInv
<1>3. disconnect_client(id)
  BY <1>0, <1>1, <1>2 DEF ServeHangUp, Follow, is_connected, maybe_remove_player,
                          remove_player, become_statue
<1> QED BY <1>1, <1>2, <1>3 DEF ClientNext, remove_client, is_connected

LEMMA SalirMaps ==
  ASSUME ServerInv, NEW a, RunSalir(a)
  PROVE  [ClientNext]_clientVars
<1>0. PICK id : id = obj[a].id
  OBVIOUS
<1>1. id \in DOMAIN clients /\ id \in PlayerId
  BY <1>0, Runner, InPlay DEF RunSalir, Runs, ServerInv
<1>2. disconnect_client(id) \/ UNCHANGED clientVars
  BY <1>0, <1>1 DEF RunSalir, Follow, is_connected, remove_player
<1> QED BY <1>1, <1>2 DEF ClientNext, remove_client, is_connected

LEMMA OtherwiseNoClient ==
  ASSUME Loop
  PROVE  \/ UNCHANGED clientVars
         \/ \E id \in PlayerId, fd \in Fd : Login(id, fd)
         \/ ServeHangUp
         \/ \E a \in Addr : RunSalir(a)
<1>1. CASE Read
  BY <1>1 DEF Read, ReadNothing, ReadCommand, ReadHangUp, ReadError, AllRead, Follow
<1>2. CASE Exec
  BY <1>2 DEF Exec, RunGlance, RunGolpear, RunMove, RunMatar, Flushed, AllExecuted
<1>3. CASE Hb
  BY <1>3 DEF Hb, Beat, NoBeat, AllBeaten
<1>4. CASE RemovePlayer \/ AllRemoved \/ Write
  BY <1>4 DEF RemovePlayer, AllRemoved, Write, Follow
<1> QED BY <1>1, <1>2, <1>3, <1>4 DEF Loop, Accept, NobodyArrives

THEOREM ServerImplementsClients == ServerSpec => ClientSpec
<1>1. ServerInit => ClientInit
  BY DEF ServerInit
<1>2. ServerInv /\ [ServerNext]_serverVars => [ClientNext]_clientVars
  <2> SUFFICES ASSUME ServerInv, [ServerNext]_serverVars
               PROVE  [ClientNext]_clientVars
    OBVIOUS
  <2>1. CASE Loop
    <3>1. ASSUME NEW id \in PlayerId, NEW fd \in Fd, Login(id, fd)
          PROVE  ClientNext
      BY <3>1 DEF Login, ClientNext
    <3> QED BY <2>1, <3>1, OtherwiseNoClient, HangUpMaps, SalirMaps
  <2>2. CASE UNCHANGED serverVars
    BY <2>2 DEF serverVars
  <2> QED BY <2>1, <2>2 DEF ServerNext, Dead
<1> QED BY <1>1, <1>2, ServerInvariance, PTL DEF ServerSpec, ClientSpec

-----------------------------------------------------------------------------
(***************************************************************************)
(* Whoever loses life loses it to the player whose heart beats, which is   *)
(* one of its opponents and stands in its room.  Only a beat takes life:   *)
(* that it strikes who is in the room and in the list of the striker is    *)
(* its guard; that the list of the victim and the room the victim believes *)
(* to be in say so too is Mutual and RoomsAgree.                           *)
(***************************************************************************)
LEMMA BlowStep ==
  ASSUME ServerInv, ServerNext, NEW v \in chars, v \in chars', pvs'[v] < pvs[v]
  PROVE  /\ In("hb") /\ todo # <<>>
         /\ players[Head(todo)] \in in_combat[v]
         /\ obj[players[Head(todo)]].room = obj[v].room
<1> USE DEF ServerInv, GameInv
<1>0. pvs[v] \in Int
  BY CombatAssumption DEF CombatInv, CombatTypeOK, Mal
<1>1. ~UNCHANGED pvs
  BY <1>0
<1>2. CASE \E a \in Addr : Beat(a)
  <2>1. PICK a \in Addr : Beat(a)
    BY <1>2
  <2>2. PICK to \in Addr, r \in Roll : /\ a \in chars
                                       /\ Strike(a, to, r)
                                       /\ to \in in_combat[a]
                                       /\ to \in characters_in[obj[a].room]
    BY <2>1, BeatStrikes
  <2>3. v = to
    BY <1>0, <2>2 DEF Strike, injure_mele, injure, CombatInv, CombatTypeOK
  <2>4. a \in in_combat[v]
    BY <2>2, <2>3 DEF CombatInv, Mutual
  <2>5. obj[a].room \in Room
    BY <2>2 DEF GameTypeOK, Player
  <2>6. obj[v].room = obj[a].room
    BY <2>2, <2>3, <2>5 DEF RoomsAgree
  <2>7. In("hb") /\ todo # <<>> /\ a = players[Head(todo)]
    BY <2>1 DEF Beat, Beating
  <2> QED BY <2>4, <2>6, <2>7
<1>3. CASE \E id \in PlayerId, fd \in Fd : Login(id, fd)
  <2>1. PICK a \in Addr : NewCharacter(a)
    BY <1>1, <1>3 DEF Login, create_player, combatVars
  <2> QED BY <1>0, <2>1 DEF NewCharacter, CombatInv, CombatTypeOK
<1>4. CASE RemovePlayer
  <2>1. PICK a \in Addr : Delete(a)
    BY <1>4, RemoveStep, DeleteGame
  <2> QED BY <1>0, <2>1 DEF Delete, CombatInv, CombatTypeOK
<1>5. CASE \E a \in Addr : RunMatar(a)
  BY <1>1, <1>5 DEF RunMatar, combatVars
<1>6. CASE UNCHANGED combatVars
  BY <1>1, <1>6 DEF combatVars
<1> QED BY <1>2, <1>3, <1>4, <1>5, <1>6, OtherwiseNoCombat
        DEF ServerNext, Dead, serverVars

THEOREM FaceToFace == ServerSpec => BlowsFaceToFace
<1>1. ServerInv /\ [ServerNext]_serverVars =>
        [\A victim \in chars \cap chars' : pvs'[victim] < pvs[victim] =>
            /\ In("hb") /\ todo # <<>>
            /\ LET striker == players[Head(todo)]
               IN  /\ striker \in in_combat[victim]
                   /\ obj[striker].room = obj[victim].room]_serverVars
  BY BlowStep
<1> QED BY <1>1, ServerInvariance, PTL DEF ServerSpec, BlowsFaceToFace

(***************************************************************************)
(* Whoever is connected and not leaving keeps its object in every step, a  *)
(* second login and a hang-up in the middle of a fight included.           *)
(***************************************************************************)
LEMMA SessionStep ==
  ASSUME ServerInv, ServerNext, NEW id \in DOMAIN players, is_connected(id),
         players[id] \notin leaving
  PROVE  id \in DOMAIN players' /\ players'[id] = players[id]
<1>1. CASE UNCHANGED players
  BY <1>1
<1>2. ASSUME NEW i \in PlayerId, NEW fd \in Fd, Login(i, fd)
      PROVE  id \in DOMAIN players' /\ players'[id] = players[id]
  <2>1. CASE is_connected(i)
    BY <1>2, <2>1 DEF Login, gameVars
  <2>2. CASE ~is_connected(i)
    <3>1. PICK a \in Addr : create_player(i, a)
      BY <1>2, <2>2 DEF Login
    <3> QED BY <2>2, <3>1 DEF create_player, Assign
  <2> QED BY <2>1, <2>2
<1>3. CASE RemovePlayer
  <2>1. PICK a : a = Head(players_to_remove)
    OBVIOUS
  <2>2. players' = Erase(players, obj[a].id) /\ obj[a].id \notin DOMAIN clients
    BY <1>3, <2>1, RemoveStep, DeleteGame DEF ServerInv
  <2>3. id \in DOMAIN players \ {obj[a].id}
    BY <2>2 DEF is_connected
  <2> QED BY <2>2, <2>3 DEF Erase, Restrict
<1>4. \/ UNCHANGED players
      \/ \E i \in PlayerId, fd \in Fd : Login(i, fd)
      \/ RemovePlayer
  <2>1. CASE Read
    BY <2>1 DEF Read, ReadNothing, ReadCommand, ReadHangUp, ReadError, ServeHangUp,
                AllRead, Follow, maybe_remove_player, remove_player, become_statue, gameVars
  <2>2. CASE Exec
    BY <2>2 DEF Exec, RunGlance, RunGolpear, RunMove, RunMatar, RunSalir, Flushed,
                AllExecuted, Follow, remove_player, gameVars
  <2>3. CASE Hb
    BY <2>3 DEF Hb, Beat, NoBeat, AllBeaten, gameVars
  <2>4. CASE AllRemoved \/ Write
    BY <2>4 DEF AllRemoved, Write, Follow, gameVars
  <2>5. CASE Accept
    BY <2>5 DEF Accept, NobodyArrives, gameVars
  <2>6. CASE Dead
    BY <2>6 DEF Dead, serverVars, gameVars
  <2> QED BY <2>1, <2>2, <2>3, <2>4, <2>5, <2>6 DEF ServerNext, Loop
<1> QED BY <1>1, <1>2, <1>3, <1>4

THEOREM SessionsKept == ServerSpec => SessionKept
<1>1. ServerInv /\ [ServerNext]_serverVars =>
        [\A id \in DOMAIN players : is_connected(id) /\ players[id] \notin leaving =>
            /\ id \in DOMAIN players'
            /\ players'[id] = players[id]]_serverVars
  BY SessionStep
<1> QED BY <1>1, ServerInvariance, PTL DEF ServerSpec, SessionKept

=============================================================================
