---------------------------- MODULE OutboxProofs ----------------------------
(***************************************************************************)
(* The outgoing queues, for any finite number of players, any size of the  *)
(* sockets and of the messages, proved.                                    *)
(*                                                                         *)
(* Line(p) is what holds between every two steps of one connected player:  *)
(* what its client has seen, what its socket holds and what its queue      *)
(* holds follow each other in the log without overlap, all of it is meant  *)
(* for the player, and, if its socket never lacked room, there are no      *)
(* gaps.  Drained is why a login over a live connection finds the queue it *)
(* inherits empty: write() goes through everybody.                         *)
(***************************************************************************)
EXTENDS Outbox, FiniteSetTheorems, SequenceTheorems, TLAPS

ForPlayer(p, n) == n \in 1..Len(log) /\ p \in log[n]

InWire(p) ==
    /\ \A i \in 1..Len(wire[p]) : shown[p] < wire[p][i] /\ ForPlayer(p, wire[p][i])
    /\ \A i, j \in 1..Len(wire[p]) : i < j => wire[p][i] < wire[p][j]

InQueue(p) ==
    \A i \in 1..Len(msg_to_write[p]) :
        LET m == msg_to_write[p][i] IN
        /\ m.first <= m.last
        /\ shown[p] < m.first
        /\ \A n \in parts(m) : ForPlayer(p, n)
        /\ \A j \in 1..Len(wire[p]) : wire[p][j] < m.first
        /\ \A j \in 1..Len(msg_to_write[p]) : i < j => m.last < msg_to_write[p][j].first

InSocket(p, n) == \E i \in 1..Len(wire[p]) : wire[p][i] = n

Waits(p, n) == \E i \in 1..Len(msg_to_write[p]) : n \in parts(msg_to_write[p][i])

NoGap(p) ==
    peer[p] \in {"open", "closed"} /\ p \notin cut =>
        \A n \in Nat : shown[p] < n /\ ForPlayer(p, n) => InSocket(p, n) \/ Waits(p, n)

Line(p) ==
    /\ shown[p] <= Len(log)
    /\ state[p] # "Normal" => wire[p] = <<>> /\ peer[p] # "open"
    /\ state[p] = "Normal" => InWire(p) /\ InQueue(p) /\ NoGap(p)

Drained ==
    \A p \in Player : state[p] = "Normal" =>
        /\ phase = "accept" => msg_to_write[p] = <<>>
        /\ phase = "write" => \/ msg_to_write[p] = <<>>
                              \/ \E i \in 1..Len(todo) : todo[i] = p

OutboxInv == /\ OutboxTypeOK
             /\ Drained
             /\ \A p \in Player : Line(p)

-----------------------------------------------------------------------------
(***************************************************************************)
(* A walk visits everybody: SetToSeqs(S) enumerates S.                     *)
(***************************************************************************)
LEMMA WalkVisits ==
  ASSUME NEW S, IsFiniteSet(S), NEW f \in SetToSeqs(S)
  PROVE  /\ f \in Seq(S)
         /\ \A x \in S : \E i \in 1..Len(f) : f[i] = x
<1> DEFINE D == 1..Cardinality(S)
<1>1. Cardinality(S) \in Nat
  BY FS_CardinalityType
<1>2. f \in [D -> S] /\ \A i, j \in D : i # j => f[i] # f[j]
  BY DEF SetToSeqs
<1>3. f \in Seq(S) /\ Len(f) = Cardinality(S)
  BY <1>1, <1>2
<1>4. IsFiniteSet(D) /\ Cardinality(D) = Cardinality(S)
  BY <1>1, FS_Interval
<1>5. f \in Injection(D, S)
  BY <1>2 DEF Injection, IsInjective
<1>6. f \in Surjection(D, S)
  BY <1>4, <1>5, FS_Injection
<1> QED BY <1>3, <1>6 DEF Surjection

-----------------------------------------------------------------------------
LEMMA OutboxStart == OutboxInit => OutboxInv
<1> SUFFICES ASSUME OutboxInit
             PROVE  OutboxInv
  OBVIOUS
<1>1. OutboxTypeOK
  BY OutboxAssumption DEF OutboxInit, OutboxTypeOK
<1>2. Drained
  BY DEF OutboxInit, Drained
<1>3. \A p \in Player : Line(p)
  BY DEF OutboxInit, Line
<1> QED BY <1>1, <1>2, <1>3 DEF OutboxInv

(***************************************************************************)
(* What one visit of write() puts into a socket.                           *)
(***************************************************************************)
LEMMA Taken ==
  ASSUME OutboxTypeOK, NEW p \in Player, NEW m \in Message, m.first <= m.last
  PROVE  LET t == taken(p, m) IN
         /\ t \in Seq(Nat)
         /\ Len(t) <= length(m)
         /\ Len(wire[p]) + Len(t) <= SockBuf
         /\ \A i \in 1..Len(t) : t[i] = m.first + i - 1 /\ t[i] \in parts(m)
<1> DEFINE free == SockBuf - Len(wire[p])
           k == IF length(m) <= free THEN length(m) ELSE free
<1>1. /\ m.first \in Nat /\ m.last \in Nat
      /\ length(m) \in Nat /\ length(m) = m.last + 1 - m.first
  BY DEF Message, length
<1>2. free \in Nat /\ Len(wire[p]) + free = SockBuf
  BY OutboxAssumption DEF OutboxTypeOK
<1>3. k \in Nat /\ k <= length(m) /\ k <= free
  BY <1>1, <1>2
<1>4. taken(p, m) = [i \in 1..k |-> m.first + i - 1]
  BY DEF taken
<1> HIDE DEF k, free
<1>5. \A i \in 1..k : m.first + i - 1 \in Nat /\ m.first + i - 1 \in parts(m)
  BY <1>1, <1>3 DEF parts
<1>6. taken(p, m) \in Seq(Nat) /\ Len(taken(p, m)) = k
  BY <1>3, <1>4, <1>5
<1>7. Len(wire[p]) + k <= SockBuf
  BY <1>2, <1>3, OutboxAssumption DEF OutboxTypeOK
<1> QED BY <1>3, <1>4, <1>5, <1>6, <1>7

(***************************************************************************)
(* A player nothing happens to.                                            *)
(***************************************************************************)
LEMMA Untouched ==
  ASSUME NEW p \in Player, Line(p), log' = log,
         state'[p] = state[p], msg_to_write'[p] = msg_to_write[p],
         wire'[p] = wire[p], peer'[p] = peer[p], shown'[p] = shown[p],
         p \in cut' <=> p \in cut
  PROVE  Line(p)'
  BY DEF Line, InWire, InQueue, NoGap, InSocket, Waits, ForPlayer

(***************************************************************************)
(* Something is said: a player that stays connected hears it or not, one   *)
(* that goes away has nothing in its socket any more.                      *)
(***************************************************************************)
LEMMA LogGrows ==
  ASSUME OutboxTypeOK, NEW S \in SUBSET Player, NEW k \in Nat \ {0}, Said(S, k)
  PROVE  /\ log' \in Seq(SUBSET Player)
         /\ Len(log') = Len(log) + k
         /\ \A n \in 1..Len(log) : log'[n] = log[n]
         /\ \A n \in (Len(log) + 1)..Len(log') : log'[n] = S
<1> DEFINE new == [i \in 1..k |-> S]
<1>1. new \in Seq(SUBSET Player) /\ Len(new) = k /\ \A i \in 1..k : new[i] = S
  OBVIOUS
<1>2. log \in Seq(SUBSET Player) /\ log' = log \o new
  BY DEF Said, OutboxTypeOK
<1> HIDE DEF new
<1>3. /\ log' \in Seq(SUBSET Player) /\ Len(log') = Len(log) + k
      /\ \A n \in 1..(Len(log) + k) :
            log'[n] = IF n <= Len(log) THEN log[n] ELSE new[n - Len(log)]
  BY <1>1, <1>2, ConcatProperties
<1>4. Len(log) \in Nat
  BY <1>2
<1> QED BY <1>1, <1>3, <1>4

LEMMA Heard ==
  ASSUME OutboxTypeOK, NEW S \in SUBSET Player, NEW k \in Nat \ {0}, write(S, k),
         NEW p \in Player, Line(p), shown' = shown, cut' = cut,
         \/ state'[p] = state[p] /\ wire'[p] = wire[p] /\ peer'[p] = peer[p]
         \/ state'[p] # "Normal" /\ wire'[p] = <<>> /\ peer'[p] # "open"
  PROVE  Line(p)'
<1> DEFINE m == [first |-> Len(log) + 1, last |-> Len(log) + k]
           Q == msg_to_write[p]
<1>0. Said(S, k)
  BY DEF write
<1>1. /\ Len(log) \in Nat /\ Len(log') = Len(log) + k
      /\ \A n \in 1..Len(log) : log'[n] = log[n]
      /\ \A n \in (Len(log) + 1)..Len(log') : log'[n] = S
  <2>1. Len(log) \in Nat
    BY DEF OutboxTypeOK
  <2> QED BY <1>0, <2>1, LogGrows
<1>2. shown'[p] <= Len(log')
  BY <1>1 DEF Line, OutboxTypeOK
<1>3. CASE state'[p] # "Normal"
  BY <1>2, <1>3 DEF Line
<1>4. CASE state'[p] = "Normal"
  <2>1. /\ state[p] = "Normal" /\ wire'[p] = wire[p] /\ peer'[p] = peer[p]
        /\ InWire(p) /\ InQueue(p) /\ NoGap(p)
    BY <1>4 DEF Line
  <2>2. \A n : ForPlayer(p, n) => ForPlayer(p, n)'
    BY <1>1 DEF ForPlayer
  <2>3. \A n : ForPlayer(p, n)' => ForPlayer(p, n) \/ (n \in (Len(log) + 1)..Len(log') /\ p \in S)
    BY <1>1 DEF ForPlayer
  <2>4. InWire(p)'
    BY <2>1, <2>2 DEF InWire
  <2>5. Q \in Seq(Message) /\ wire[p] \in Seq(Nat) /\ shown[p] \in Nat
    BY DEF OutboxTypeOK
  <2>6. CASE p \notin S
    <3>1. msg_to_write'[p] = Q
      BY <2>6 DEF write
    <3>2. InQueue(p)'
      BY <2>1, <2>2, <3>1 DEF InQueue
    <3>3. NoGap(p)'
      BY <2>1, <2>3, <2>6, <3>1 DEF NoGap, InSocket, Waits
    <3> QED BY <1>2, <1>4, <2>4, <3>2, <3>3 DEF Line
  <2>7. CASE p \in S
    <3>1. msg_to_write'[p] = Append(Q, m)
      BY <2>1, <2>7 DEF write, Writes
    <3>2. /\ Len(msg_to_write'[p]) = Len(Q) + 1
          /\ \A i \in 1..Len(Q) : msg_to_write'[p][i] = Q[i]
          /\ msg_to_write'[p][Len(Q) + 1] = m
      BY <2>5, <3>1
    <3>3. m \in Message /\ m.first = Len(log) + 1 /\ m.last = Len(log) + k
      BY <1>1 DEF Message
    <3> HIDE DEF m
    <3>4. \A n \in parts(m) : ForPlayer(p, n)'
      BY <1>1, <2>7, <3>3 DEF parts, ForPlayer
    <3>5. \A i \in 1..Len(Q) : Q[i] \in Message /\ Q[i].last < m.first
      <4> SUFFICES ASSUME NEW i \in 1..Len(Q)
                   PROVE  Q[i] \in Message /\ Q[i].last < m.first
        OBVIOUS
      <4>0. Q[i] \in Message
        BY <2>5
      <4>1. Q[i] \in Message /\ Q[i].first \in Nat /\ Q[i].last \in Nat
        BY <4>0 DEF Message
      <4>2. Q[i].first <= Q[i].last /\ Q[i].last \in parts(Q[i])
        BY <2>1, <4>1 DEF InQueue, parts
      <4>3. Q[i].last <= Len(log)
        BY <2>1, <4>2 DEF InQueue, ForPlayer
      <4> QED BY <1>1, <3>3, <4>1, <4>3
    <3>6. \A j \in 1..Len(wire[p]) : wire[p][j] < m.first
      BY <1>1, <2>1, <2>5, <3>3 DEF InWire, ForPlayer
    <3>7. shown[p] < m.first /\ m.first <= m.last
      BY <1>1, <2>5, <3>3 DEF Line
    <3> HIDE DEF Q
    <3>8. InQueue(p)'
      <4> SUFFICES ASSUME NEW i \in 1..(Len(Q) + 1)
                   PROVE  LET x == msg_to_write'[p][i] IN
                          /\ x.first <= x.last
                          /\ shown'[p] < x.first
                          /\ \A n \in parts(x) : ForPlayer(p, n)'
                          /\ \A j \in 1..Len(wire'[p]) : wire'[p][j] < x.first
                          /\ \A j \in 1..(Len(Q) + 1) :
                                i < j => x.last < msg_to_write'[p][j].first
        BY <3>2 DEF InQueue, parts
      <4>1. Len(Q) \in Nat
        BY <2>5
      <4>2. CASE i = Len(Q) + 1
        BY <2>1, <3>2, <3>4, <3>6, <3>7, <4>1, <4>2
      <4>3. CASE i \in 1..Len(Q)
        <5>1. msg_to_write'[p][i] = Q[i]
          BY <3>2, <4>3
        <5>2. /\ Q[i].first <= Q[i].last /\ shown[p] < Q[i].first
              /\ \A n \in parts(Q[i]) : ForPlayer(p, n)
              /\ \A j \in 1..Len(wire[p]) : wire[p][j] < Q[i].first
              /\ \A j \in 1..Len(Q) : i < j => Q[i].last < Q[j].first
          BY <2>1, <4>3 DEF InQueue, Q
        <5>3. \A j \in 1..(Len(Q) + 1) : i < j => Q[i].last < msg_to_write'[p][j].first
          BY <3>2, <3>5, <4>1, <4>3, <5>2
        <5> QED BY <2>1, <2>2, <5>1, <5>2, <5>3
      <4> QED BY <4>1, <4>2, <4>3
    <3>9. NoGap(p)'
      <4> SUFFICES ASSUME peer[p] \in {"open", "closed"}, p \notin cut,
                          NEW n \in Nat, shown[p] < n, ForPlayer(p, n)'
                   PROVE  InSocket(p, n) \/ Waits(p, n)'
        BY <2>1 DEF NoGap, InSocket
      <4>1. CASE ForPlayer(p, n)
        <5>1. InSocket(p, n) \/ Waits(p, n)
          BY <2>1, <4>1 DEF NoGap
        <5>2. ASSUME NEW i \in 1..Len(Q), n \in parts(Q[i])
              PROVE  Waits(p, n)'
          <6>1. msg_to_write'[p][i] = Q[i] /\ i \in 1..Len(msg_to_write'[p])
            BY <2>5, <3>2
          <6> QED BY <5>2, <6>1 DEF Waits, parts
        <5>3. Waits(p, n) => Waits(p, n)'
          BY <5>2 DEF Waits, Q
        <5> QED BY <5>1, <5>3
      <4>2. CASE n \in (Len(log) + 1)..Len(log')
        <5>1. n \in parts(m)
          BY <1>1, <3>3, <4>2 DEF parts
        <5> QED BY <2>5, <3>2, <5>1 DEF Waits, parts
      <4> QED BY <2>3, <4>1, <4>2
    <3> QED BY <1>2, <1>4, <2>4, <3>8, <3>9 DEF Line
  <2> QED BY <2>6, <2>7
<1> QED BY <1>3, <1>4

-----------------------------------------------------------------------------
(***************************************************************************)
(* Types, action by action.                                                *)
(***************************************************************************)
LEMMA SpokenTypes ==
  ASSUME OutboxTypeOK, NEW S \in SUBSET Player, broadcast(S)
  PROVE  log' \in Seq(SUBSET Player) /\ msg_to_write' \in [Player -> Seq(Message)]
<1>1. CASE S = {}
  BY <1>1 DEF broadcast, queueVars, OutboxTypeOK
<1>2. CASE S # {}
  <2>1. PICK k \in 1..MaxLen : write(S, k)
    BY <1>2 DEF broadcast
  <2>2. k \in Nat \ {0} /\ Said(S, k)
    BY <2>1, OutboxAssumption DEF write
  <2>3. log' \in Seq(SUBSET Player)
    BY <2>2, LogGrows
  <2>4. Len(log) \in Nat
    BY DEF OutboxTypeOK
  <2>5. [first |-> Len(log) + 1, last |-> Len(log) + k] \in Message
    BY <2>2, <2>4 DEF Message
  <2>6. \A p \in Player : msg_to_write[p] \in Seq(Message)
    BY DEF OutboxTypeOK
  <2> QED BY <2>1, <2>3, <2>5, <2>6 DEF write
<1> QED BY <1>1, <1>2

LEMMA DisconnectTypes ==
  ASSUME OutboxTypeOK, NEW p \in Player, disconnect_client(p)
  PROVE  /\ wire' \in [Player -> Seq(Nat)] /\ \A q \in Player : Len(wire'[q]) <= SockBuf
         /\ peer' \in [Player -> {"open", "closed", "reset", "broken"}]
         /\ shown' \in [Player -> Nat] /\ cut' \subseteq Player
<1>1. <<>> \in Seq(Nat) /\ Len(<<>>) = 0 /\ 0 <= SockBuf
  BY OutboxAssumption
<1> QED BY <1>1 DEF disconnect_client, OutboxTypeOK

LEMMA LeaveTypes ==
  ASSUME OutboxTypeOK, NEW p \in Player, remove_player(p) \/ become_statue(p),
         UNCHANGED <<phase, todo, status>>
  PROVE  OutboxTypeOK'
<1>1. disconnect_client(p)
  BY DEF remove_player, become_statue
<1>2. log' \in Seq(SUBSET Player) /\ msg_to_write' \in [Player -> Seq(Message)]
  <2>1. CASE become_statue(p)
    BY <2>1 DEF become_statue, queueVars, OutboxTypeOK
  <2>2. CASE remove_player(p)
    <3>1. PICK S \in SUBSET (InGame \ {p}) : broadcast(S)
      BY <2>2 DEF remove_player
    <3> QED BY <3>1, SpokenTypes DEF InGame
  <2> QED BY <2>1, <2>2
<1>3. state' \in [Player -> {"out", "Normal", "Disconnected", "leaving"}]
  BY DEF remove_player, become_statue, OutboxTypeOK
<1> QED BY <1>1, <1>2, <1>3, DisconnectTypes DEF OutboxTypeOK

LEMMA AcceptTypes ==
  ASSUME OutboxTypeOK, NEW p \in Player, Login(p) \/ Reconnect(p)
  PROVE  OutboxTypeOK'
<1>1. /\ Len(log) \in Nat /\ SockBuf >= 1 /\ 0 <= SockBuf
      /\ <<>> \in Seq(Message) /\ <<>> \in Seq(Nat) /\ Len(<<>>) = 0
      /\ <<Len(log) + 1>> \in Seq(Nat) /\ Len(<<Len(log) + 1>>) = 1
  BY OutboxAssumption DEF OutboxTypeOK
<1>2. CASE Login(p)
  <2>0. wire' = [wire EXCEPT ![p] = <<>>]
    BY <1>2 DEF Login
  <2>1. wire' \in [Player -> Seq(Nat)] /\ \A q \in Player : Len(wire'[q]) <= SockBuf
    BY <1>1, <2>0 DEF OutboxTypeOK
  <2>2. /\ state' \in [Player -> {"out", "Normal", "Disconnected", "leaving"}]
        /\ msg_to_write' \in [Player -> Seq(Message)]
        /\ peer' \in [Player -> {"open", "closed", "reset", "broken"}]
    BY <1>1, <1>2 DEF Login, OutboxTypeOK
  <2>3. shown' \in [Player -> Nat] /\ cut' \subseteq Player
    BY <1>1, <1>2 DEF Login, OutboxTypeOK
  <2> QED BY <1>2, <2>1, <2>2, <2>3 DEF Login, OutboxTypeOK
<1>3. CASE Reconnect(p)
  <2>1. log' \in Seq(SUBSET Player)
    BY <1>3, LogGrows DEF Reconnect
  <2>2. wire' \in [Player -> Seq(Nat)] /\ \A q \in Player : Len(wire'[q]) <= SockBuf
    BY <1>1, <1>3 DEF Reconnect, OutboxTypeOK
  <2> QED BY <1>1, <1>3, <2>1, <2>2 DEF Reconnect, outcome, OutboxTypeOK
<1> QED BY <1>2, <1>3

LEMMA SendTypes ==
  ASSUME OutboxInv, NEW p \in Player, send_to_client(p)
  PROVE  OutboxTypeOK'
<1> DEFINE m == Head(msg_to_write[p])
<1>1. OutboxTypeOK /\ Line(p) /\ state[p] = "Normal" /\ msg_to_write[p] # <<>>
  BY DEF OutboxInv, send_to_client
<1>2. msg_to_write[p] \in Seq(Message) /\ m \in Message /\ m = msg_to_write[p][1]
      /\ 1 \in 1..Len(msg_to_write[p]) /\ Tail(msg_to_write[p]) \in Seq(Message)
  BY <1>1 DEF OutboxTypeOK
<1>3. m.first <= m.last
  BY <1>1, <1>2 DEF Line, InQueue
<1> HIDE DEF m
<1>4. taken(p, m) \in Seq(Nat) /\ Len(wire[p]) + Len(taken(p, m)) <= SockBuf
  BY <1>1, <1>2, <1>3, Taken
<1>5. wire[p] \o taken(p, m) \in Seq(Nat)
      /\ Len(wire[p] \o taken(p, m)) = Len(wire[p]) + Len(taken(p, m))
  BY <1>1, <1>4 DEF OutboxTypeOK
<1>6. /\ wire' = wire \/ wire' = [wire EXCEPT ![p] = @ \o taken(p, m)]
      /\ cut' = cut \/ cut' = cut \cup {p}
      /\ UNCHANGED <<log, phase, todo, state, shown>>
      /\ msg_to_write' = [msg_to_write EXCEPT ![p] = Tail(@)]
      /\ status' = outcome(p)
      /\ peer' = [peer EXCEPT ![p] = IF @ = "reset" THEN "broken" ELSE @]
  BY DEF send_to_client, m
<1>7. wire' \in [Player -> Seq(Nat)] /\ \A q \in Player : Len(wire'[q]) <= SockBuf
  BY <1>1, <1>4, <1>5, <1>6 DEF OutboxTypeOK
<1> QED BY <1>1, <1>2, <1>6, <1>7 DEF OutboxTypeOK, outcome

LEMMA RemoveTypes ==
  ASSUME OutboxTypeOK, remove_players
  PROVE  OutboxTypeOK'
<1>1. InGame' \subseteq Player /\ IsFiniteSet(InGame')
  BY OutboxAssumption, FS_Subset DEF InGame
<1>2. todo' \in Seq(InGame')
  BY <1>1, WalkVisits DEF remove_players
<1>3. todo' \in Seq(Player)
  BY <1>1, <1>2
<1>4. <<>> \in Seq(Message)
  OBVIOUS
<1> QED BY <1>3, <1>4 DEF remove_players, netVars, OutboxTypeOK

LEMMA ClientTypes ==
  ASSUME OutboxTypeOK, NEW p \in Player, Client(p)
  PROVE  OutboxTypeOK'
<1>1. <<>> \in Seq(Nat) /\ Len(<<>>) = 0 /\ 0 <= SockBuf
  BY OutboxAssumption
<1>2. wire[p] \in Seq(Nat) /\ Len(wire[p]) <= SockBuf /\ SockBuf \in Nat
  BY OutboxAssumption DEF OutboxTypeOK
<1>3. CASE ReadPart(p)
  <2>1. wire[p] # <<>>
    BY <1>3 DEF ReadPart
  <2>2. /\ Head(wire[p]) \in Nat /\ Tail(wire[p]) \in Seq(Nat)
        /\ Len(Tail(wire[p])) = Len(wire[p]) - 1
    BY <1>2, <2>1
  <2>3. Len(Tail(wire[p])) <= SockBuf
    BY <1>2, <2>2
  <2> QED BY <1>3, <2>2, <2>3 DEF ReadPart, queueVars, OutboxTypeOK
<1>4. CASE GoAway(p)
  BY <1>1, <1>4 DEF GoAway, queueVars, OutboxTypeOK
<1>5. CASE Reset(p)
  BY <1>1, <1>5 DEF Reset, queueVars, OutboxTypeOK
<1> QED BY <1>3, <1>4, <1>5 DEF Client

LEMMA StepTypes ==
  ASSUME OutboxInv, OutboxNext
  PROVE  OutboxTypeOK'
<1>0. OutboxTypeOK
  BY DEF OutboxInv
<1>1. CASE NobodyArrives \/ AllHungUp \/ AllSent \/ Dead
  BY <1>0, <1>1 DEF NobodyArrives, AllHungUp, AllSent, Dead, outboxVars, queueVars, netVars,
                    OutboxTypeOK
<1>2. ASSUME NEW S \in SUBSET InGame, Tell(S)
      PROVE  OutboxTypeOK'
  <2>1. S \in SUBSET Player /\ broadcast(S)
    BY <1>2 DEF Tell, InGame
  <2>2. log' \in Seq(SUBSET Player) /\ msg_to_write' \in [Player -> Seq(Message)]
    BY <1>0, <2>1, SpokenTypes
  <2> QED BY <1>0, <1>2, <2>2 DEF Tell, netVars, OutboxTypeOK
<1>3. ASSUME NEW p \in Player, HangUp(p) \/ Salir(p)
      PROVE  OutboxTypeOK'
  BY <1>0, <1>3, LeaveTypes DEF HangUp, Salir
<1>4. ASSUME NEW p \in Player, ReadError(p)
      PROVE  OutboxTypeOK'
  BY <1>0, <1>4 DEF ReadError, queueVars, netVars, OutboxTypeOK
<1>5. ASSUME NEW p \in Player, Sent(p)
      PROVE  OutboxTypeOK'
  <2>1. Tail(todo) \in Seq(Player)
    BY <1>0, <1>5 DEF Sent, Visiting, OutboxTypeOK
  <2> QED BY <1>0, <1>5, <2>1 DEF Sent, queueVars, netVars, OutboxTypeOK
<1> QED BY <1>0, <1>1, <1>2, <1>3, <1>4, <1>5, AcceptTypes, SendTypes, RemoveTypes, ClientTypes
           DEF OutboxNext, Loop

-----------------------------------------------------------------------------
(***************************************************************************)
(* Drained, action by action.                                              *)
(***************************************************************************)
LEMMA StepDrained ==
  ASSUME OutboxInv, OutboxNext
  PROVE  Drained'
<1>0. OutboxTypeOK /\ Drained
  BY DEF OutboxInv
<1>1. CASE phase' \notin {"accept", "write"}
  BY <1>1 DEF Drained
<1>2. CASE AllSent
  <2>1. Len(todo) = 0
    BY <1>2 DEF AllSent
  <2> QED BY <1>0, <1>2, <2>1 DEF AllSent, In, queueVars, Drained
<1>3. CASE remove_players
  <2>1. InGame' \subseteq Player /\ IsFiniteSet(InGame')
    BY OutboxAssumption, FS_Subset DEF InGame
  <2>2. \A p \in InGame' : \E i \in 1..Len(todo') : todo'[i] = p
    BY <1>3, <2>1, WalkVisits DEF remove_players
  <2>3. \A p \in Player : state'[p] = "Normal" => p \in InGame'
    BY DEF InGame
  <2> QED BY <1>3, <2>2, <2>3 DEF remove_players, Drained
<1>4. ASSUME NEW p \in Player, Sent(p)
      PROVE  Drained'
  <2>1. /\ todo \in Seq(Player) /\ todo # <<>> /\ todo' = Tail(todo)
        /\ p = todo[1] /\ phase = "write"
        /\ UNCHANGED <<phase, state, msg_to_write>>
        /\ state[p] = "Disconnected" \/ msg_to_write[p] = <<>>
    BY <1>0, <1>4 DEF Sent, Visiting, In, queueVars, OutboxTypeOK
  <2>2. SUFFICES ASSUME NEW q \in Player, state[q] = "Normal", msg_to_write[q] # <<>>
                 PROVE  \E i \in 1..Len(todo') : todo'[i] = q
    BY <2>1 DEF Drained
  <2>3. PICK i \in 1..Len(todo) : todo[i] = q
    BY <1>0, <2>1, <2>2 DEF Drained
  <2>4. i # 1
    BY <2>1, <2>2, <2>3
  <2>5. i - 1 \in 1..Len(todo') /\ todo'[i - 1] = todo[i]
    BY <2>1, <2>3, <2>4
  <2> QED BY <2>3, <2>5
<1>5. ASSUME NEW p \in Player, send_to_client(p)
      PROVE  Drained'
  <2>1. /\ phase = "write" /\ UNCHANGED <<phase, todo, state>>
        /\ todo \in Seq(Player) /\ todo # <<>> /\ todo[1] = p
        /\ \A q \in Player : q # p => msg_to_write'[q] = msg_to_write[q]
    BY <1>0, <1>5 DEF send_to_client, Visiting, In, OutboxTypeOK
  <2>2. 1 \in 1..Len(todo)
    BY <2>1
  <2> QED BY <1>0, <2>1, <2>2 DEF Drained
<1>6. CASE UNCHANGED <<phase, todo, state, msg_to_write>>
  BY <1>0, <1>6 DEF Drained
<1>7. ASSUME NEW p \in Player, Client(p)
      PROVE  UNCHANGED <<phase, todo, state, msg_to_write>>
  BY <1>7 DEF Client, ReadPart, GoAway, Reset, queueVars
<1>8. CASE NobodyArrives \/ AllHungUp
  BY <1>1, <1>8 DEF NobodyArrives, AllHungUp
<1>9. ASSUME NEW p \in Player, Login(p) \/ Reconnect(p) \/ HangUp(p) \/ ReadError(p) \/ Salir(p)
      PROVE  phase' \notin {"accept", "write"}
  BY <1>9 DEF Login, Reconnect, HangUp, ReadError, Salir, In
<1>10. ASSUME NEW S \in SUBSET InGame, Tell(S)
       PROVE  phase' \notin {"accept", "write"}
  BY <1>10 DEF Tell, In
<1> QED BY <1>1, <1>2, <1>3, <1>4, <1>5, <1>6, <1>7, <1>8, <1>9, <1>10
           DEF OutboxNext, Loop, Dead, outboxVars, queueVars

-----------------------------------------------------------------------------
(***************************************************************************)
(* Line, action by action.                                                 *)
(***************************************************************************)
LEMMA AcceptLine ==
  ASSUME OutboxInv, NEW p \in Player, Login(p) \/ Reconnect(p), NEW q \in Player
  PROVE  Line(q)'
<1>0. OutboxTypeOK /\ Line(q) /\ Len(log) \in Nat
  BY DEF OutboxInv, OutboxTypeOK
<1>1. CASE Login(p) /\ q # p
  BY <1>0, <1>1, Untouched DEF Login, OutboxTypeOK
<1>2. CASE Login(p) /\ q = p
  <2>1. /\ state'[q] = "Normal" /\ msg_to_write'[q] = <<>> /\ wire'[q] = <<>>
        /\ shown'[q] = Len(log) /\ log' = log
    BY <1>0, <1>2 DEF Login, OutboxTypeOK
  <2>2. Len(<<>>) = 0
    OBVIOUS
  <2> QED BY <1>0, <2>1, <2>2 DEF Line, InWire, InQueue, NoGap, ForPlayer
<1>3. CASE Reconnect(p)
  <2>1. /\ Len(log') = Len(log) + 1
        /\ \A n \in 1..Len(log) : log'[n] = log[n]
        /\ log'[Len(log) + 1] = {p}
    BY <1>0, <1>3, LogGrows DEF Reconnect
  <2>2. \A n : ForPlayer(q, n)' <=> ForPlayer(q, n) \/ (n = Len(log) + 1 /\ q = p)
    BY <1>0, <2>1 DEF ForPlayer
  <2>3. CASE q # p
    <3>1. /\ state'[q] = state[q] /\ msg_to_write'[q] = msg_to_write[q] /\ wire'[q] = wire[q]
          /\ peer'[q] = peer[q] /\ shown'[q] = shown[q] /\ (q \in cut' <=> q \in cut)
      BY <1>0, <1>3, <2>3 DEF Reconnect, OutboxTypeOK
    <3>2. shown'[q] <= Len(log')
      BY <1>0, <2>1, <3>1 DEF Line, OutboxTypeOK
    <3> QED BY <1>0, <2>2, <2>3, <3>1, <3>2 DEF Line, InWire, InQueue, NoGap, InSocket, Waits
  <2>4. CASE q = p
    <3>1. /\ state'[q] = "Normal" /\ msg_to_write'[q] = <<>> /\ wire'[q] = <<Len(log) + 1>>
          /\ shown'[q] = Len(log)
      BY <1>0, <1>3, <2>4 DEF Reconnect, In, OutboxTypeOK, OutboxInv, Drained
    <3>2. Len(<<>>) = 0 /\ Len(wire'[q]) = 1 /\ wire'[q][1] = Len(log) + 1
      BY <3>1
    <3>3. InWire(q)'
      BY <1>0, <2>2, <2>4, <3>1, <3>2 DEF InWire
    <3>4. InQueue(q)'
      BY <3>1, <3>2 DEF InQueue
    <3>5. NoGap(q)'
      <4>1. \A n \in Nat : shown'[q] < n /\ ForPlayer(q, n)' => n = Len(log) + 1
        BY <1>0, <2>2, <3>1 DEF ForPlayer
      <4>2. \A n \in Nat : n = Len(log) + 1 => InSocket(q, n)'
        BY <1>0, <3>2 DEF InSocket
      <4> QED BY <4>1, <4>2 DEF NoGap
    <3> QED BY <1>0, <2>1, <3>1, <3>3, <3>4, <3>5 DEF Line
  <2> QED BY <2>3, <2>4
<1> QED BY <1>1, <1>2, <1>3

LEMMA LeaveLine ==
  ASSUME OutboxInv, NEW p \in Player, remove_player(p) \/ become_statue(p), NEW q \in Player
  PROVE  Line(q)'
<1>0. OutboxTypeOK /\ Line(q)
  BY DEF OutboxInv
<1>1. /\ shown' = shown /\ cut' = cut
      /\ \/ state'[q] = state[q] /\ wire'[q] = wire[q] /\ peer'[q] = peer[q]
         \/ state'[q] # "Normal" /\ wire'[q] = <<>> /\ peer'[q] # "open"
  BY <1>0 DEF remove_player, become_statue, disconnect_client, OutboxTypeOK
<1>2. CASE UNCHANGED queueVars
  BY <1>0, <1>1, <1>2, Untouched DEF queueVars, Line
<1>3. CASE ~UNCHANGED queueVars
  <2>1. PICK S \in SUBSET (InGame \ {p}) : broadcast(S)
    BY <1>3 DEF remove_player, become_statue
  <2>2. PICK k \in 1..MaxLen : write(S, k)
    BY <1>3, <2>1 DEF broadcast
  <2>3. S \in SUBSET Player /\ k \in Nat \ {0}
    BY OutboxAssumption DEF InGame
  <2> QED BY <1>0, <1>1, <2>2, <2>3, Heard
<1> QED BY <1>2, <1>3

LEMMA TellLine ==
  ASSUME OutboxInv, NEW S \in SUBSET InGame, Tell(S), NEW q \in Player
  PROVE  Line(q)'
<1>1. PICK k \in 1..MaxLen : write(S, k)
  BY DEF Tell, broadcast
<1>2. S \in SUBSET Player /\ k \in Nat \ {0}
  BY OutboxAssumption DEF InGame
<1> QED BY <1>1, <1>2, Heard DEF Tell, netVars, OutboxInv

LEMMA RemoveLine ==
  ASSUME OutboxInv, remove_players, NEW q \in Player
  PROVE  Line(q)'
<1>0. OutboxTypeOK /\ Line(q)
  BY DEF OutboxInv
<1>1. UNCHANGED <<log, wire, peer, shown, cut>>
  BY DEF remove_players, netVars
<1>2. CASE state[q] = "leaving"
  BY <1>0, <1>1, <1>2 DEF remove_players, Line
<1>3. CASE state[q] # "leaving"
  BY <1>0, <1>1, <1>3, Untouched DEF remove_players
<1> QED BY <1>2, <1>3

(***************************************************************************)
(* The head of the queue goes: what the socket takes of it continues what  *)
(* is in the socket, and a part that is not taken leaves a mark in cut.    *)
(***************************************************************************)
LEMMA SendLine ==
  ASSUME OutboxInv, NEW p \in Player, send_to_client(p), NEW q \in Player
  PROVE  Line(q)'
<1> DEFINE Q == msg_to_write[p]
           m == Head(Q)
           t == taken(p, m)
           w == wire[p]
<1>0. OutboxTypeOK /\ Line(q) /\ Line(p) /\ state[p] = "Normal" /\ Q # <<>>
  BY DEF OutboxInv, send_to_client
<1>1. UNCHANGED <<log, state, shown>>
  BY DEF send_to_client
<1>2. CASE q # p
  <2>1. /\ msg_to_write'[q] = msg_to_write[q] /\ wire'[q] = wire[q]
        /\ peer'[q] = peer[q] /\ (q \in cut' <=> q \in cut)
    BY <1>0, <1>2 DEF send_to_client, OutboxTypeOK
  <2> QED BY <1>0, <1>1, <2>1, Untouched
<1>3. CASE q = p
  <2>1. /\ Q \in Seq(Message) /\ m = Q[1] /\ Len(Q) \in Nat /\ 1 \in 1..Len(Q)
        /\ m \in Message /\ w \in Seq(Nat) /\ Len(w) \in Nat
    BY <1>0 DEF OutboxTypeOK
  <2>2. InWire(p) /\ InQueue(p) /\ NoGap(p)
    BY <1>0 DEF Line
  <2>3. /\ m.first <= m.last /\ shown[p] < m.first
        /\ \A n \in parts(m) : ForPlayer(p, n)
        /\ \A j \in 1..Len(w) : w[j] < m.first
        /\ \A j \in 1..Len(Q) : 1 < j => m.last < Q[j].first
    BY <2>1, <2>2 DEF InQueue
  <2>4. m.first \in Nat /\ m.last \in Nat
    BY <2>1 DEF Message
  <2>5. /\ msg_to_write'[p] = Tail(Q)
        /\ Len(msg_to_write'[p]) = Len(Q) - 1
        /\ \A i \in 1..(Len(Q) - 1) : msg_to_write'[p][i] = Q[i + 1]
    <3>1. msg_to_write'[p] = Tail(Q)
      BY <1>0 DEF send_to_client, OutboxTypeOK
    <3> QED BY <1>0, <2>1, <3>1
  <2>6. /\ t \in Seq(Nat) /\ Len(t) \in Nat /\ Len(t) <= length(m)
        /\ \A i \in 1..Len(t) : t[i] = m.first + i - 1 /\ t[i] \in parts(m)
    <3> HIDE DEF m
    <3> QED BY <1>0, <2>1, <2>3, Taken
  <2>7. \/ peer'[p] = "broken" /\ wire'[p] = w
        \/ /\ peer'[p] = peer[p] /\ wire'[p] = w \o t
           /\ Len(t) = length(m) \/ p \in cut'
           /\ p \notin cut' => p \notin cut
    BY <1>0 DEF send_to_client, OutboxTypeOK
  <2>8. \A i \in 1..Len(Q) : Q[i] \in Message /\ Q[i].first \in Nat /\ Q[i].last \in Nat
    <3>1. \A i \in 1..Len(Q) : Q[i] \in Message
      BY <2>1
    <3> QED BY <3>1 DEF Message
  <2> HIDE DEF Q, m, t
  \* the rest of the queue lies behind what was in it before
  <2>9. ASSUME NEW i \in 1..(Len(Q) - 1)
        PROVE  LET x == msg_to_write'[p][i] IN
               /\ x = Q[i + 1]
               /\ x.first <= x.last /\ shown[p] < x.first
               /\ \A n \in parts(x) : ForPlayer(p, n)
               /\ \A j \in 1..Len(w) : w[j] < x.first
               /\ \A j \in 1..(Len(Q) - 1) : i < j => x.last < msg_to_write'[p][j].first
               /\ m.last < x.first
    <3>1. i + 1 \in 1..Len(Q) /\ msg_to_write'[p][i] = Q[i + 1] /\ 1 < i + 1
      BY <2>1, <2>5
    <3>2. \A j \in 1..(Len(Q) - 1) : j + 1 \in 1..Len(Q) /\ msg_to_write'[p][j] = Q[j + 1]
      BY <2>1, <2>5
    <3>3. /\ Q[i + 1].first <= Q[i + 1].last /\ shown[p] < Q[i + 1].first
          /\ \A n \in parts(Q[i + 1]) : ForPlayer(p, n)
          /\ \A j \in 1..Len(w) : w[j] < Q[i + 1].first
          /\ \A j \in 1..Len(Q) : i + 1 < j => Q[i + 1].last < Q[j].first
      BY <2>2, <3>1 DEF InQueue, Q
    <3>4. \A j \in 1..(Len(Q) - 1) : i < j => Q[i + 1].last < Q[j + 1].first
      BY <3>2, <3>3
    <3> QED BY <2>3, <3>1, <3>2, <3>3, <3>4
  <2>10. CASE peer'[p] = "broken" /\ wire'[p] = w
    <3>1. InWire(p)'
      BY <1>1, <2>2, <2>10 DEF InWire, ForPlayer
    <3>2. InQueue(p)'
      BY <1>1, <2>5, <2>9, <2>10 DEF InQueue, ForPlayer, parts
    <3>3. NoGap(p)'
      BY <2>10 DEF NoGap
    <3> QED BY <1>0, <1>1, <1>3, <3>1, <3>2, <3>3 DEF Line
  <2>11. CASE /\ peer'[p] = peer[p] /\ wire'[p] = w \o t
              /\ Len(t) = length(m) \/ p \in cut'
              /\ p \notin cut' => p \notin cut
    <3>1. /\ Len(wire'[p]) = Len(w) + Len(t)
          /\ \A i \in 1..Len(w) : wire'[p][i] = w[i]
          /\ \A i \in 1..Len(t) : wire'[p][Len(w) + i] = t[i]
      BY <2>1, <2>6, <2>11
    <3>2. \A i \in 1..Len(wire'[p]) :
             \/ i \in 1..Len(w) /\ wire'[p][i] = w[i]
             \/ i - Len(w) \in 1..Len(t) /\ wire'[p][i] = t[i - Len(w)]
      <4> SUFFICES ASSUME NEW i \in 1..Len(wire'[p])
                   PROVE  \/ i \in 1..Len(w) /\ wire'[p][i] = w[i]
                          \/ i - Len(w) \in 1..Len(t) /\ wire'[p][i] = t[i - Len(w)]
        OBVIOUS
      <4>1. CASE i <= Len(w)
        BY <2>1, <3>1, <4>1
      <4>2. CASE i > Len(w)
        <5>1. i - Len(w) \in 1..Len(t) /\ Len(w) + (i - Len(w)) = i
          BY <2>1, <2>6, <3>1, <4>2
        <5> QED BY <3>1, <5>1
      <4> QED BY <2>1, <2>6, <3>1, <4>1, <4>2
    <3>3. \A i \in 1..Len(w) : w[i] \in Nat
      BY <2>1
    <3>4. ASSUME NEW i \in 1..Len(t)
          PROVE  /\ t[i] \in Nat /\ t[i] = m.first + i - 1
                 /\ m.first <= t[i] /\ t[i] <= m.last /\ shown[p] < t[i]
      <4>1. shown[p] \in Nat
        BY <1>0 DEF OutboxTypeOK
      <4>2. t[i] \in parts(m) /\ t[i] = m.first + i - 1
        BY <2>6
      <4>3. t[i] \in m.first..m.last
        BY <4>2 DEF parts
      <4> QED BY <2>3, <2>4, <4>1, <4>2, <4>3
    <3>5. InWire(p)'
      <4>1. \A i \in 1..Len(wire'[p]) :
               shown'[p] < wire'[p][i] /\ ForPlayer(p, wire'[p][i])
        BY <1>1, <2>2, <2>3, <2>6, <3>2, <3>4 DEF InWire
      <4>2. ASSUME NEW i \in 1..Len(wire'[p]), NEW j \in 1..Len(wire'[p]), i < j
            PROVE  wire'[p][i] < wire'[p][j]
        <5>1. CASE j \in 1..Len(w) /\ wire'[p][j] = w[j]
          BY <2>2, <3>1, <4>2, <5>1 DEF InWire
        <5>2. CASE j - Len(w) \in 1..Len(t) /\ wire'[p][j] = t[j - Len(w)]
          <6>1. CASE i \in 1..Len(w) /\ wire'[p][i] = w[i]
            <7>1. w[i] \in Nat /\ w[i] < m.first
              BY <2>3, <3>3, <6>1
            <7>2. t[j - Len(w)] \in Nat /\ m.first <= t[j - Len(w)]
              BY <3>4, <5>2
            <7> QED BY <2>4, <5>2, <6>1, <7>1, <7>2
          <6>2. CASE i - Len(w) \in 1..Len(t) /\ wire'[p][i] = t[i - Len(w)]
            <7>1. /\ t[i - Len(w)] = m.first + (i - Len(w)) - 1
                  /\ t[j - Len(w)] = m.first + (j - Len(w)) - 1
              BY <3>4, <5>2, <6>2
            <7>2. i \in Nat /\ j \in Nat /\ i < j
              BY <2>1, <2>6, <3>1, <4>2
            <7> QED BY <2>1, <2>4, <5>2, <6>2, <7>1, <7>2
          <6> QED BY <3>2, <6>1, <6>2
        <5> QED BY <3>2, <5>1, <5>2
      <4> QED BY <1>1, <4>1, <4>2 DEF InWire, ForPlayer
    <3>6. InQueue(p)'
      <4>1. ASSUME NEW i \in 1..(Len(Q) - 1), NEW j \in 1..Len(wire'[p])
            PROVE  wire'[p][j] < msg_to_write'[p][i].first
        <5>1. msg_to_write'[p][i].first \in Nat /\ m.last < msg_to_write'[p][i].first
          BY <2>1, <2>8, <2>9
        <5>2. CASE j \in 1..Len(w) /\ wire'[p][j] = w[j]
          BY <2>9, <5>2
        <5>3. CASE j - Len(w) \in 1..Len(t) /\ wire'[p][j] = t[j - Len(w)]
          <6>1. t[j - Len(w)] \in Nat /\ t[j - Len(w)] <= m.last
            BY <3>4, <5>3
          <6> QED BY <2>4, <5>1, <5>3, <6>1
        <5> QED BY <3>2, <5>2, <5>3
      <4> QED BY <1>1, <2>5, <2>9, <4>1 DEF InQueue, ForPlayer, parts
    <3>7. NoGap(p)'
      <4> SUFFICES ASSUME peer[p] \in {"open", "closed"}, p \notin cut', p \notin cut,
                          NEW n \in Nat, shown[p] < n, ForPlayer(p, n)
                   PROVE  InSocket(p, n)' \/ Waits(p, n)'
        BY <1>1, <2>11 DEF NoGap, ForPlayer
      <4>1. Len(t) = m.last + 1 - m.first
        BY <2>11 DEF length
      <4>2. CASE InSocket(p, n)
        <5>1. PICK i \in 1..Len(w) : w[i] = n
          BY <4>2 DEF InSocket
        <5>2. i \in 1..Len(wire'[p]) /\ wire'[p][i] = n
          BY <2>1, <2>6, <3>1, <5>1
        <5> QED BY <5>2 DEF InSocket
      <4>3. ASSUME NEW i \in 1..Len(Q), n \in parts(Q[i])
            PROVE  InSocket(p, n)' \/ Waits(p, n)'
        <5>1. CASE i = 1
          <6>1. n \in m.first..m.last
            BY <2>1, <4>3, <5>1 DEF parts
          <6>2. PICK d \in 1..Len(t) : d = n - m.first + 1
            BY <2>4, <2>6, <4>1, <6>1
          <6>3. t[d] = n
            <7>1. t[d] = m.first + d - 1
              BY <3>4
            <7> QED BY <2>4, <6>2, <7>1
          <6>4. Len(w) + d \in 1..Len(wire'[p]) /\ wire'[p][Len(w) + d] = t[d]
            BY <2>1, <2>6, <3>1
          <6> QED BY <6>3, <6>4 DEF InSocket
        <5>2. CASE i # 1
          <6>1. i - 1 \in 1..(Len(Q) - 1) /\ msg_to_write'[p][i - 1] = Q[i]
            BY <2>1, <2>5, <5>2
          <6> QED BY <2>5, <4>3, <6>1 DEF Waits, parts
        <5> QED BY <5>1, <5>2
      <4>4. InSocket(p, n) \/ Waits(p, n)
        BY <2>2 DEF NoGap
      <4> QED BY <4>2, <4>3, <4>4 DEF Waits, Q
    <3> QED BY <1>0, <1>1, <1>3, <3>5, <3>6, <3>7 DEF Line
  <2> QED BY <2>7, <2>10, <2>11
<1> QED BY <1>2, <1>3

LEMMA ClientLine ==
  ASSUME OutboxInv, NEW p \in Player, Client(p), NEW q \in Player
  PROVE  Line(q)'
<1> DEFINE w == wire[p]
<1>0. OutboxTypeOK /\ Line(q) /\ Line(p) /\ w \in Seq(Nat) /\ Len(w) \in Nat
  BY DEF OutboxInv, OutboxTypeOK
<1>1. UNCHANGED <<log, msg_to_write, cut, state>>
  BY DEF Client, ReadPart, GoAway, Reset, queueVars
<1>2. CASE q # p
  <2>1. wire'[q] = wire[q] /\ peer'[q] = peer[q] /\ shown'[q] = shown[q]
    BY <1>0, <1>2 DEF Client, ReadPart, GoAway, Reset, OutboxTypeOK
  <2> QED BY <1>0, <1>1, <2>1, Untouched
<1>3. CASE q = p /\ (GoAway(p) \/ Reset(p))
  <2>1. /\ wire'[p] = <<>> /\ shown'[p] = shown[p]
        /\ \/ peer'[p] \notin {"open", "closed"}
           \/ peer'[p] = "closed" /\ w = <<>> /\ peer[p] = "open"
    BY <1>0, <1>3 DEF GoAway, Reset, OutboxTypeOK
  <2>2. Len(<<>>) = 0
    OBVIOUS
  <2>3. InWire(p)' /\ (InQueue(p) => InQueue(p)')
    BY <1>1, <2>1, <2>2 DEF InWire, InQueue, ForPlayer
  <2>4. NoGap(p) => NoGap(p)'
    BY <1>1, <2>1, <2>2 DEF NoGap, InSocket, Waits, ForPlayer
  <2> QED BY <1>0, <1>1, <1>3, <2>1, <2>3, <2>4 DEF Line
<1>4. CASE q = p /\ ReadPart(p)
  <2>1. /\ w # <<>> /\ peer[p] = "open" /\ state[p] = "Normal"
        /\ shown'[p] = w[1] /\ wire'[p] = Tail(w) /\ peer'[p] = peer[p]
        /\ 1 \in 1..Len(w)
    BY <1>0, <1>4 DEF ReadPart, Line, OutboxTypeOK
  <2>2. InWire(p) /\ InQueue(p) /\ NoGap(p)
    BY <1>0, <2>1 DEF Line
  <2> HIDE DEF w
  <2>3. /\ Len(wire'[p]) = Len(w) - 1
        /\ \A i \in 1..(Len(w) - 1) : i + 1 \in 1..Len(w) /\ wire'[p][i] = w[i + 1]
    BY <1>0, <2>1
  <2>4. /\ shown[p] < w[1] /\ ForPlayer(p, w[1])
        /\ \A i \in 1..Len(w) : ForPlayer(p, w[i]) /\ w[i] \in Nat
        /\ \A i \in 1..(Len(w) - 1) : w[1] < w[i + 1]
    <3>1. \A i \in 1..(Len(w) - 1) : 1 < i + 1 /\ i + 1 \in 1..Len(w)
      BY <1>0
    <3> QED BY <1>0, <2>1, <2>2, <3>1 DEF InWire, w
  <2>5. InWire(p)'
    <3>1. \A i, j \in 1..(Len(w) - 1) : i < j => w[i + 1] < w[j + 1]
      <4>1. \A i, j \in 1..(Len(w) - 1) :
               /\ i + 1 \in 1..Len(w) /\ j + 1 \in 1..Len(w)
               /\ i < j => i + 1 < j + 1
        BY <1>0
      <4> QED BY <2>2, <4>1 DEF InWire, w
    <3> QED BY <1>1, <2>1, <2>3, <2>4, <3>1 DEF InWire, ForPlayer
  <2>6. InQueue(p)'
    <3>1. \A i \in 1..Len(msg_to_write[p]) : w[1] < msg_to_write[p][i].first
      BY <2>1, <2>2 DEF InQueue, w
    <3>2. \A i \in 1..Len(msg_to_write[p]), j \in 1..(Len(w) - 1) :
             wire'[p][j] < msg_to_write[p][i].first
      BY <2>2, <2>3 DEF InQueue, w
    <3> QED BY <1>1, <2>1, <2>2, <2>3, <3>1, <3>2 DEF InQueue, ForPlayer
  <2>7. NoGap(p)'
    <3> SUFFICES ASSUME p \notin cut, NEW n \in Nat, w[1] < n, ForPlayer(p, n)
                 PROVE  InSocket(p, n)' \/ Waits(p, n)
      BY <1>1, <2>1 DEF NoGap, Waits, ForPlayer
    <3>1. shown[p] \in Nat
      BY <1>0 DEF OutboxTypeOK
    <3>2. InSocket(p, n) \/ Waits(p, n)
      BY <2>1, <2>2, <2>4, <3>1 DEF NoGap
    <3>3. ASSUME NEW i \in 1..Len(w), w[i] = n
          PROVE  InSocket(p, n)'
      <4>1. i # 1
        BY <2>4, <3>3, <2>1
      <4>2. i - 1 \in 1..(Len(w) - 1) /\ (i - 1) + 1 = i
        BY <1>0, <4>1
      <4>3. wire'[p][i - 1] = n
        BY <2>3, <3>3, <4>2
      <4> QED BY <2>3, <4>2, <4>3 DEF InSocket
    <3> QED BY <3>2, <3>3 DEF InSocket, w
  <2>8. shown'[p] <= Len(log')
    BY <1>1, <2>1, <2>4 DEF ForPlayer
  <2> QED BY <1>1, <1>4, <2>1, <2>5, <2>6, <2>7, <2>8 DEF Line
<1> QED BY <1>2, <1>3, <1>4 DEF Client

-----------------------------------------------------------------------------
(***************************************************************************)
(* The invariant and the theorems.                                         *)
(***************************************************************************)
LEMMA StepLine ==
  ASSUME OutboxInv, OutboxNext, NEW q \in Player
  PROVE  Line(q)'
<1>0. OutboxTypeOK /\ Line(q)
  BY DEF OutboxInv
<1>1. CASE UNCHANGED <<log, msg_to_write, wire, peer, shown, cut, state>>
  BY <1>0, <1>1, Untouched
<1>2. CASE NobodyArrives \/ AllHungUp \/ AllSent \/ Dead
  BY <1>1, <1>2 DEF NobodyArrives, AllHungUp, AllSent, Dead, outboxVars, queueVars, netVars
<1>3. ASSUME NEW p \in Player, ReadError(p) \/ Sent(p)
      PROVE  Line(q)'
  BY <1>1, <1>3 DEF ReadError, Sent, queueVars, netVars
<1>4. ASSUME NEW p \in Player, HangUp(p) \/ Salir(p)
      PROVE  Line(q)'
  BY <1>4, LeaveLine DEF HangUp, Salir
<1> QED BY <1>2, <1>3, <1>4, AcceptLine, TellLine, RemoveLine, SendLine, ClientLine
           DEF OutboxNext, Loop

LEMMA OutboxInvariance == OutboxSpec => []OutboxInv
<1>1. OutboxInv /\ [OutboxNext]_outboxVars => OutboxInv'
  <2> SUFFICES ASSUME OutboxInv, [OutboxNext]_outboxVars
               PROVE  OutboxInv'
    OBVIOUS
  <2>1. CASE OutboxNext
    BY <2>1, StepTypes, StepDrained, StepLine DEF OutboxInv
  <2>2. CASE UNCHANGED outboxVars
    <3>1. OutboxTypeOK' /\ Drained'
      BY <2>2 DEF OutboxInv, OutboxTypeOK, Drained, outboxVars, queueVars, netVars
    <3>2. \A q \in Player : Line(q)'
      BY <2>2, Untouched DEF OutboxInv, outboxVars, queueVars, netVars
    <3> QED BY <3>1, <3>2 DEF OutboxInv
  <2> QED BY <2>1, <2>2
<1> QED BY <1>1, OutboxStart, PTL DEF OutboxSpec

(***************************************************************************)
(* The variables keep their types, and no socket is given more than it     *)
(* holds, whatever the kernel takes of each message.                       *)
(***************************************************************************)
THEOREM OutboxTypes == OutboxSpec => []OutboxTypeOK
<1>1. OutboxInv => OutboxTypeOK
  BY DEF OutboxInv
<1> QED BY <1>1, OutboxInvariance, PTL

(***************************************************************************)
(* What a connected player is owed is in its socket or in its queue, and   *)
(* its queue is empty between two ticks.                                   *)
(***************************************************************************)
LEMMA NothingLostState == OutboxInv => NothingLost
<1> SUFFICES ASSUME OutboxInv, NEW p \in Player, state[p] = "Normal"
             PROVE  /\ peer[p] \in {"open", "closed"} /\ p \notin cut =>
                          C!Owed(p) = Range(wire[p]) \cup queued(p)
                    /\ phase = "accept" => msg_to_write[p] = <<>>
  BY DEF NothingLost
<1>0. OutboxTypeOK /\ InWire(p) /\ InQueue(p) /\ NoGap(p)
  BY DEF OutboxInv, Line
<1>1. /\ wire[p] \in Seq(Nat) /\ msg_to_write[p] \in Seq(Message)
      /\ Len(log) \in Nat /\ shown[p] \in Nat
  BY <1>0 DEF OutboxTypeOK
<1>2. \A n : n \in Range(wire[p]) <=> InSocket(p, n)
  BY <1>1 DEF Range, InSocket
<1>3. \A n : n \in queued(p) <=> Waits(p, n)
  BY <1>1 DEF Range, queued, Waits
<1>4. \A n : n \in C!Owed(p) <=> n \in Nat /\ shown[p] < n /\ ForPlayer(p, n)
  BY <1>1 DEF C!Owed, ForPlayer
<1>5. \A n : InSocket(p, n) => n \in Nat /\ shown[p] < n /\ ForPlayer(p, n)
  BY <1>0, <1>1 DEF InSocket, InWire
<1>6. ASSUME NEW i \in 1..Len(msg_to_write[p]), NEW n \in parts(msg_to_write[p][i])
      PROVE  n \in Nat /\ shown[p] < n /\ ForPlayer(p, n)
  <2>1. shown[p] < msg_to_write[p][i].first /\ ForPlayer(p, n)
    BY <1>0 DEF InQueue
  <2>2. msg_to_write[p][i] \in Message
    BY <1>1
  <2>3. msg_to_write[p][i].first \in Nat /\ n \in Nat /\ msg_to_write[p][i].first <= n
    BY <2>2 DEF Message, parts
  <2> QED BY <1>1, <2>1, <2>3
<1>7. \A n : Waits(p, n) => n \in Nat /\ shown[p] < n /\ ForPlayer(p, n)
  BY <1>6 DEF Waits
<1>8. peer[p] \in {"open", "closed"} /\ p \notin cut =>
         C!Owed(p) = Range(wire[p]) \cup queued(p)
  BY <1>0, <1>2, <1>3, <1>4, <1>5, <1>7 DEF NoGap
<1> QED BY <1>8 DEF OutboxInv, Drained

THEOREM NothingIsLost == OutboxSpec => []NothingLost
BY NothingLostState, OutboxInvariance, PTL

(***************************************************************************)
(* Each step of the queues is a step of the chronicle or a stutter.        *)
(***************************************************************************)
LEMMA SpokenChronicle ==
  ASSUME OutboxTypeOK, NEW S \in SUBSET Player, broadcast(S), UNCHANGED <<shown, cut>>
  PROVE  C!ChronicleNext \/ UNCHANGED C!chronicleVars
<1>1. CASE S = {}
  BY <1>1 DEF broadcast, queueVars, C!chronicleVars
<1>2. CASE S # {}
  <2>1. PICK k \in 1..MaxLen : write(S, k)
    BY <1>2 DEF broadcast
  <2>2. k \in 0..MaxLen /\ C!Say(S, k)
    BY <2>1, OutboxAssumption DEF write, Said, C!Say, C!Said
  <2> QED BY <2>2 DEF C!ChronicleNext
<1> QED BY <1>1, <1>2

LEMMA ArrivalChronicle ==
  ASSUME OutboxTypeOK, NEW p \in Player, Login(p) \/ Reconnect(p)
  PROVE  C!ChronicleNext
<1>1. Player \ (cut \ {p}) = (Player \ cut) \cup {p}
  OBVIOUS
<1>2. CASE Login(p)
  <2>1. log \o [i \in 1..0 |-> {p}] = log
    <3>1. log \in Seq(SUBSET Player) /\ [i \in 1..0 |-> {p}] = <<>>
      BY DEF OutboxTypeOK
    <3> QED BY <3>1
  <2>2. C!Join(p, 0)
    BY <1>1, <1>2, <2>1 DEF Login, C!Join, C!Said
  <2> QED BY <2>2, OutboxAssumption DEF C!ChronicleNext
<1>3. CASE Reconnect(p)
  <2>1. C!Join(p, 1)
    BY <1>1, <1>3 DEF Reconnect, Said, C!Join, C!Said
  <2>2. 1 \in 0..MaxLen
    BY OutboxAssumption
  <2> QED BY <2>1, <2>2 DEF C!ChronicleNext
<1> QED BY <1>2, <1>3

LEMMA ReadChronicle ==
  ASSUME OutboxInv, NEW p \in Player, ReadPart(p)
  PROVE  C!ChronicleNext
<1> DEFINE n == Head(wire[p])
<1>1. /\ state[p] = "Normal" /\ peer[p] = "open" /\ n = wire[p][1] /\ 1 \in 1..Len(wire[p])
      /\ wire[p] \in Seq(Nat) /\ msg_to_write[p] \in Seq(Message)
      /\ Len(log) \in Nat /\ shown[p] \in Nat /\ n \in Nat
  BY DEF OutboxInv, OutboxTypeOK, Line, ReadPart
<1>2. InWire(p) /\ InQueue(p) /\ NoGap(p)
  BY <1>1 DEF OutboxInv, Line
<1>3. shown' = [shown EXCEPT ![p] = n] /\ UNCHANGED <<log, cut>>
  BY DEF ReadPart, queueVars
<1> HIDE DEF n
<1>4. n \in C!Owed(p)
  BY <1>1, <1>2 DEF InWire, ForPlayer, C!Owed
<1>5. ASSUME p \notin cut, NEW k \in C!Owed(p)
      PROVE  n <= k
  <2>1. k \in Nat /\ shown[p] < k /\ ForPlayer(p, k)
    BY <1>1, <1>5 DEF ForPlayer, C!Owed
  <2>2. InSocket(p, k) \/ Waits(p, k)
    BY <1>1, <1>2, <1>5, <2>1 DEF NoGap
  <2>3. ASSUME NEW i \in 1..Len(wire[p]), wire[p][i] = k
        PROVE  n <= k
    <3>1. 1 < i => n < k
      BY <1>1, <1>2, <2>3 DEF InWire
    <3> QED BY <1>1, <2>1, <2>3, <3>1
  <2>4. ASSUME NEW i \in 1..Len(msg_to_write[p]), k \in parts(msg_to_write[p][i])
        PROVE  n <= k
    <3>1. n < msg_to_write[p][i].first
      BY <1>1, <1>2 DEF InQueue
    <3>2. msg_to_write[p][i] \in Message
      BY <1>1
    <3>3. msg_to_write[p][i].first \in Nat /\ msg_to_write[p][i].first <= k
      BY <2>4, <3>2 DEF Message, parts
    <3> QED BY <1>1, <2>1, <3>1, <3>3
  <2> QED BY <2>2, <2>3, <2>4 DEF InSocket, Waits
<1>6. C!Show(p, n)
  BY <1>3, <1>4, <1>5 DEF C!Show
<1> QED BY <1>4, <1>6 DEF C!ChronicleNext

LEMMA SendChronicle ==
  ASSUME NEW p \in Player, send_to_client(p)
  PROVE  C!ChronicleNext \/ UNCHANGED C!chronicleVars
<1>1. UNCHANGED <<log, shown>> /\ (cut' = cut \/ cut' = cut \cup {p})
  BY DEF send_to_client
<1>2. CASE cut' = cut
  BY <1>1, <1>2 DEF C!chronicleVars
<1>3. CASE cut' = cut \cup {p}
  <2>1. Player \ (cut \cup {p}) = (Player \ cut) \ {p}
    OBVIOUS
  <2>2. C!FallBehind(p)
    BY <1>1, <1>3, <2>1 DEF C!FallBehind
  <2> QED BY <2>2 DEF C!ChronicleNext
<1> QED BY <1>1, <1>2, <1>3

LEMMA StepChronicle ==
  ASSUME OutboxInv, [OutboxNext]_outboxVars
  PROVE  [C!ChronicleNext]_C!chronicleVars
<1>0. OutboxTypeOK
  BY DEF OutboxInv
<1>1. CASE UNCHANGED <<log, shown, cut>>
  BY <1>1 DEF C!chronicleVars
<1>2. CASE NobodyArrives \/ AllHungUp \/ AllSent \/ remove_players \/ Dead \/ UNCHANGED outboxVars
  BY <1>1, <1>2 DEF NobodyArrives, AllHungUp, AllSent, remove_players, Dead,
                    outboxVars, queueVars, netVars
<1>3. ASSUME NEW p \in Player, \/ ReadError(p) \/ Sent(p)
                               \/ GoAway(p) \/ Reset(p) \/ become_statue(p)
      PROVE  [C!ChronicleNext]_C!chronicleVars
  BY <1>1, <1>3 DEF ReadError, Sent, GoAway, Reset, become_statue, disconnect_client,
                    queueVars, netVars
<1>4. ASSUME NEW p \in Player, remove_player(p)
      PROVE  [C!ChronicleNext]_C!chronicleVars
  <2>1. PICK S \in SUBSET (InGame \ {p}) : broadcast(S)
    BY <1>4 DEF remove_player
  <2>2. S \in SUBSET Player /\ UNCHANGED <<shown, cut>>
    BY <1>4 DEF remove_player, disconnect_client, InGame
  <2> QED BY <1>0, <2>1, <2>2, SpokenChronicle
<1>5. ASSUME NEW S \in SUBSET InGame, Tell(S)
      PROVE  [C!ChronicleNext]_C!chronicleVars
  <2>1. S \in SUBSET Player /\ broadcast(S) /\ UNCHANGED <<shown, cut>>
    BY <1>5 DEF Tell, InGame, netVars
  <2> QED BY <1>0, <2>1, SpokenChronicle
<1> QED BY <1>0, <1>2, <1>3, <1>4, <1>5, ArrivalChronicle, ReadChronicle, SendChronicle
           DEF OutboxNext, Loop, Client, HangUp, Salir

(***************************************************************************)
(* The players see the chronicle of what was said: everybody in the same   *)
(* order, nothing twice and nothing left out before a socket lacks room.   *)
(***************************************************************************)
THEOREM PlayersSeeTheChronicle == OutboxSpec => SeesTheChronicle
<1>1. OutboxInit => C!ChronicleInit
  BY DEF OutboxInit, C!ChronicleInit
<1>2. OutboxInv /\ [OutboxNext]_outboxVars => [C!ChronicleNext]_C!chronicleVars
  BY StepChronicle
<1> QED BY <1>1, <1>2, OutboxInvariance, PTL DEF OutboxSpec, SeesTheChronicle, C!ChronicleSpec

=============================================================================
