----------------------------- MODULE WorldProofs -----------------------------
(***************************************************************************)
(* The world, for any data base, any addresses and any sizes of the hash   *)
(* table, proved.                                                          *)
(*                                                                         *)
(* What link_rooms() does to a data base depends on the table it walks     *)
(* over: operator[] may rebuild it under the iterator.  WorldTypes holds   *)
(* whatever happens.  WorldWalks holds of every data base that leaves the  *)
(* table Roomy, and says where the walk is: the rooms it has come past     *)
(* hold pointers, the others still the ids of the data base.               *)
(***************************************************************************)
EXTENDS World, FiniteSetTheorems, SequenceTheorems, WellFoundedInduction, TLAPS

-----------------------------------------------------------------------------
\* A chained hash table with the keys K: each once, in its bucket.
HashTable(t, K) ==
    /\ t \in Seq(Seq(Nat)) /\ t # <<>>
    /\ \A b \in 1..Len(t) : /\ \A i \in 1..Len(t[b]) : t[b][i] % Len(t) = b - 1
                            /\ IsInjective(t[b])
    /\ Keys(t) = K

WorldTypes ==
    /\ db \in Maps
    /\ status \in {"load", "link", "ready", "segfault"}
    /\ unread \subseteq RoomId
    /\ HashTable(table, DOMAIN rooms)
    /\ DOMAIN rooms \subseteq Nat \ {0} /\ IsFiniteSet(DOMAIN rooms)
    /\ \A k \in DOMAIN rooms : rooms[k] = 0 \/ (k \in RoomId /\ rooms[k] = Address[k])
    /\ slot \in [RoomId -> [Dir -> Nat]]
    /\ zone \in [RoomId -> ZoneId \cup {0}]
    /\ cursor \in DOMAIN rooms \cup {0} /\ turn \in 0..8
    /\ at = 0 \/ IsRoom(at)
    /\ heard \in [gone : SUBSET Word, arrived : SUBSET Word, list : SUBSET Name]

-----------------------------------------------------------------------------
\* The keys link_rooms() can ever look up, and those of the rooms.
Targets == RoomId \cup ({db.exit[r][c] : r \in RoomId, c \in Name} \ {0})

\* No size of the table is met between the rooms and the keys looked up: once
\* the rooms are loaded the table has room for every key and one more.
Roomy ==
    /\ \E i \in DOMAIN Sizes : Sizes[i] > Cardinality(Targets)
    /\ \A i \in DOMAIN Sizes : Sizes[i] \notin Cardinality(RoomId)..Cardinality(Targets)

Raw(r, i) == db.exit[r][Column[i]]

\* The walk has come past the test of column i of room r.
Past(r, i) == \/ cursor = 0
              \/ Before(table, r, cursor)
              \/ r = cursor /\ i <= turn

Loaded ==
    status = "load" =>
        /\ size \in Range(Sizes) /\ Cardinality(DOMAIN rooms) <= size
        /\ DOMAIN rooms = RoomId \ unread
        /\ \A r \in RoomId \ unread, i \in 1..8 : slot[r][i - 1] = Raw(r, i)

Linking ==
    status = "link" =>
        /\ size > Cardinality(Targets)
        /\ DOMAIN rooms \subseteq Targets
        /\ \A r \in RoomId, i \in 1..8 :
              slot[r][i - 1] = IF Past(r, i) THEN Leads(r, Column[i]) ELSE Raw(r, i)

\* What has been read stays, in the game and outside it.
Read ==
    /\ status # "load" => unread = {}
    /\ \A r \in RoomId \ unread :
          /\ r \in DOMAIN rooms /\ rooms[r] = Address[r]
          /\ zone[r] = IF db.zone[r] \in ZoneId THEN db.zone[r] ELSE 0
    /\ status \in {"load", "link"} => at = 0
    /\ at = 0 => heard = Nothing

WorldWalks == Loaded /\ Linking /\ Read /\ Linked /\ ClosedIsSafe /\ ListIsTrue

-----------------------------------------------------------------------------
(***************************************************************************)
(* The names of the directions.                                            *)
(***************************************************************************)
LEMMA Columns ==
  /\ \A i \in 1..8 : /\ Column[i] \in Name /\ i - 1 \in Dir
                     /\ str2card(Column[i]) = i - 1
                     /\ Compass[Column[i]] = i - 1
  /\ \A c \in Name : \E i \in 1..8 : c = Column[i]
<1> USE DEF Column, Compass, Dir, NORTH, NORTHEAST, EAST, SOUTHEAST, SOUTH, SOUTHWEST,
            WEST, NORTHWEST
<1>1. \A i \in 1..8 : Column[i] \in Name
  BY DEF Name
<1>2. \A i \in 1..8 : Compass[Column[i]] = i - 1
  OBVIOUS
<1> HIDE DEF Column, Compass
<1> QED BY <1>1, <1>2 DEF Name, str2card

(***************************************************************************)
(* The eight tests of make_world() copy the columns into the slots.        *)
(***************************************************************************)
LEMMA ExitsRead ==
  ASSUME NEW r \in RoomId, db \in Maps
  PROVE  /\ ReadExits(r) \in [Dir -> Nat]
         /\ \A i \in 1..8 : ReadExits(r)[i - 1] = Raw(r, i)
<1>1. \A i \in 1..8 : Raw(r, i) \in Nat
  <2>1. db.exit \in [RoomId -> [Name -> Nat]]
    BY WorldAssumption
  <2> QED BY <2>1, Columns DEF Raw
<1> DEFINE Good(s, n) == /\ s \in [Dir -> Nat]
                         /\ \A i \in 1..8 : s[i - 1] = IF i <= n THEN Raw(r, i) ELSE 0
<1>2. ASSUME NEW s, NEW n \in 1..8, Good(s, n - 1)
      PROVE  Good(ReadExit(s, r, n), n)
  <2>1. ReadExit(s, r, n) = IF Raw(r, n) # 0 THEN [s EXCEPT ![n - 1] = Raw(r, n)] ELSE s
    BY Columns DEF ReadExit, add_exit, Raw
  <2> QED BY <1>1, <1>2, <2>1 DEF Dir
<1>3. Good(NoExits, 0)
  BY DEF NoExits, Dir
<1> DEFINE s1 == ReadExit(NoExits, r, 1)
           s2 == ReadExit(s1, r, 2)
           s3 == ReadExit(s2, r, 3)
           s4 == ReadExit(s3, r, 4)
           s5 == ReadExit(s4, r, 5)
           s6 == ReadExit(s5, r, 6)
           s7 == ReadExit(s6, r, 7)
<1>4. Good(s1, 1) /\ ReadExits(r) = ReadExit(s7, r, 8)
  <2> HIDE DEF Good
  <2>1. Good(NoExits, 1 - 1)
    BY <1>3
  <2> QED BY <1>2, <2>1 DEF ReadExits
<1> HIDE DEF Good, s1, s2, s3, s4, s5, s6, s7
<1>5. ASSUME NEW s, NEW m \in 1..7, Good(s, m)
      PROVE  Good(ReadExit(s, r, m + 1), m + 1)
  BY <1>2, <1>5
<1>6. Good(s2, 2)
  BY <1>4, <1>5 DEF s2
<1>7. Good(s3, 3)
  BY <1>5, <1>6 DEF s3
<1>8. Good(s4, 4)
  BY <1>5, <1>7 DEF s4
<1>9. Good(s5, 5)
  BY <1>5, <1>8 DEF s5
<1>10. Good(s6, 6)
  BY <1>5, <1>9 DEF s6
<1>11. Good(s7, 7)
  BY <1>5, <1>10 DEF s7
<1>12. Good(ReadExit(s7, r, 8), 8)
  BY <1>5, <1>11
<1> QED BY <1>4, <1>12 DEF Good

-----------------------------------------------------------------------------
(***************************************************************************)
(* In a finite set with a strict total order every rank is taken once.     *)
(***************************************************************************)
Rank(S, R, k) == Cardinality({j \in S : <<k, j>> \in R})

LEMMA Ranks ==
  ASSUME NEW S, IsFiniteSet(S), NEW R,
         \A k \in S : <<k, k>> \notin R,
         \A j, k \in S : j # k => <<j, k>> \in R \/ <<k, j>> \in R,
         \A i, j, k \in S : <<i, j>> \in R /\ <<j, k>> \in R => <<i, k>> \in R
  PROVE  /\ \A k \in S : Rank(S, R, k) \in Nat /\ Rank(S, R, k) + 1 \in 1..Cardinality(S)
         /\ \A j, k \in S : Rank(S, R, j) = Rank(S, R, k) => j = k
         /\ \A i \in 1..Cardinality(S) : \E k \in S : Rank(S, R, k) = i - 1
<1> DEFINE over(k) == {j \in S : <<k, j>> \in R}
           rank(k) == Rank(S, R, k)
<1>0. /\ \A k \in S : over(k) \in SUBSET S /\ rank(k) = Cardinality(over(k))
      /\ \A j, k \in S : j \in over(k) <=> <<k, j>> \in R
  BY DEF Rank
<1> HIDE DEF rank, over
<1>1. Cardinality(S) \in Nat
  BY FS_CardinalityType
<1>2. \A k \in S : IsFiniteSet(over(k)) /\ rank(k) \in Nat
  BY <1>0, FS_Subset, FS_CardinalityType
<1>3. ASSUME NEW k \in S PROVE rank(k) + 1 \in 1..Cardinality(S)
  <2>0. k \in S /\ k \notin over(k)
    BY <1>0
  <2>1. over(k) \in SUBSET S /\ over(k) # S
    BY <1>0, <2>0
  <2>2. rank(k) <= Cardinality(S) /\ rank(k) # Cardinality(S)
    BY <1>0, <2>1, FS_Subset
  <2> QED BY <1>1, <1>2, <2>2
<1>4. ASSUME NEW j \in S, NEW k \in S, <<j, k>> \in R
      PROVE  rank(j) # rank(k)
  <2>1. over(k) \in SUBSET over(j) /\ over(k) # over(j)
    BY <1>0, <1>4
  <2> QED BY <1>0, <1>2, <2>1, FS_Subset
<1>5. ASSUME NEW j \in S, NEW k \in S, rank(j) = rank(k) PROVE j = k
  BY <1>4, <1>5
<1> DEFINE f == [k \in S |-> rank(k) + 1]
<1>6. IsFiniteSet(1..Cardinality(S)) /\ Cardinality(1..Cardinality(S)) = Cardinality(S)
  BY <1>1, FS_Interval
<1>7. f \in Injection(S, 1..Cardinality(S))
  <2>1. f \in [S -> 1..Cardinality(S)]
    BY <1>3
  <2>a. \A k \in S : f[k] = rank(k) + 1
    OBVIOUS
  <2> HIDE DEF f
  <2>2. ASSUME NEW j \in S, NEW k \in S, f[j] = f[k] PROVE j = k
    <3>1. rank(j) + 1 = rank(k) + 1
      BY <2>a, <2>2
    <3> QED BY <1>2, <1>5, <3>1
  <2> QED BY <2>1, <2>2 DEF Injection, IsInjective
<1>8. f \in Surjection(S, 1..Cardinality(S))
  BY <1>6, <1>7, FS_Injection
<1>9. ASSUME NEW i \in 1..Cardinality(S) PROVE \E k \in S : rank(k) = i - 1
  <2>1. PICK k \in S : f[k] = i
    BY <1>8 DEF Surjection
  <2>2. rank(k) + 1 = i
    BY <2>1
  <2> QED BY <1>2, <2>2
<1> QED BY <1>2, <1>3, <1>5, <1>9 DEF rank

-----------------------------------------------------------------------------
(***************************************************************************)
(* The hash table: every key has one place, and the order of the walk      *)
(* compares places.                                                        *)
(***************************************************************************)
Bucket(t, k) == (k % Len(t)) + 1

Index(t, k) == CHOOSE i \in DOMAIN Chain(t, k) : Chain(t, k)[i] = k

LEMMA Chains ==
  ASSUME NEW t, NEW K, HashTable(t, K)
  PROVE  /\ Len(t) \in Nat \ {0} /\ DOMAIN t = 1..Len(t)
         /\ \A b \in 1..Len(t) :
               /\ t[b] \in Seq(Nat) /\ Len(t[b]) \in Nat /\ DOMAIN t[b] = 1..Len(t[b])
               /\ \A i \in 1..Len(t[b]) : t[b][i] \in K /\ b = Bucket(t, t[b][i])
         /\ \A b, c \in 1..Len(t) : \A i \in 1..Len(t[b]), j \in 1..Len(t[c]) :
               t[b][i] = t[c][j] => b = c /\ i = j
         /\ \A k \in K : k \in Nat /\ \E b \in 1..Len(t) : \E i \in 1..Len(t[b]) : t[b][i] = k
<1>1. t \in Seq(Seq(Nat)) /\ t # <<>>
  BY DEF HashTable
<1>2. Len(t) \in Nat \ {0} /\ DOMAIN t = 1..Len(t)
  BY <1>1
<1>3. \A b \in 1..Len(t) : /\ t[b] \in Seq(Nat) /\ Len(t[b]) \in Nat
                           /\ DOMAIN t[b] = 1..Len(t[b])
  BY <1>1
<1>4. \A b \in 1..Len(t) : \A i \in 1..Len(t[b]) : t[b][i] \in K
  <2> SUFFICES ASSUME NEW b \in 1..Len(t), NEW i \in 1..Len(t[b])
               PROVE  t[b][i] \in K
    OBVIOUS
  <2>1. t[b][i] \in Range(t[b])
    BY <1>3 DEF Range
  <2>2. K = UNION {Range(t[c]) : c \in 1..Len(t)}
    BY <1>2 DEF HashTable, Keys
  <2> QED BY <2>1, <2>2
<1>5. ASSUME NEW b \in 1..Len(t), NEW i \in 1..Len(t[b])
      PROVE  b = Bucket(t, t[b][i])
  <2>1. t[b][i] % Len(t) = b - 1
    BY DEF HashTable
  <2> QED BY <1>2, <2>1 DEF Bucket
<1>6. ASSUME NEW k \in K
      PROVE  k \in Nat /\ \E b \in 1..Len(t) : \E i \in 1..Len(t[b]) : t[b][i] = k
  <2>1. PICK b \in DOMAIN t : k \in Range(t[b])
    BY DEF HashTable, Keys
  <2>2. PICK i \in DOMAIN t[b] : t[b][i] = k
    BY <2>1 DEF Range
  <2>3. b \in 1..Len(t) /\ i \in 1..Len(t[b])
    BY <1>2, <1>3, <2>1, <2>2
  <2> QED BY <1>3, <2>2, <2>3
<1>7. ASSUME NEW b \in 1..Len(t), NEW c \in 1..Len(t),
             NEW i \in 1..Len(t[b]), NEW j \in 1..Len(t[c]), t[b][i] = t[c][j]
      PROVE  b = c /\ i = j
  <2>1. b = c
    BY <1>5, <1>7
  <2>2. IsInjective(t[b])
    BY DEF HashTable
  <2> QED BY <1>3, <1>7, <2>1, <2>2 DEF IsInjective
<1> QED BY <1>2, <1>3, <1>4, <1>5, <1>6, <1>7

LEMMA Places ==
  ASSUME NEW t, NEW K, HashTable(t, K), NEW k \in K
  PROVE  /\ Bucket(t, k) \in 1..Len(t)
         /\ Chain(t, k) = t[Bucket(t, k)]
         /\ Index(t, k) \in 1..Len(Chain(t, k)) /\ Chain(t, k)[Index(t, k)] = k
         /\ \A b \in 1..Len(t) : \A i \in 1..Len(t[b]) :
               t[b][i] = k <=> b = Bucket(t, k) /\ i = Index(t, k)
<1>1. PICK b \in 1..Len(t) : \E i \in 1..Len(t[b]) : t[b][i] = k
  BY Chains
<1>2. PICK i \in 1..Len(t[b]) : t[b][i] = k
  BY <1>1
<1>3. b = Bucket(t, k)
  BY <1>2, Chains
<1>4. Chain(t, k) = t[Bucket(t, k)]
  BY DEF Chain, Bucket
<1>5. i \in DOMAIN Chain(t, k) /\ Chain(t, k)[i] = k
  BY <1>2, <1>3, <1>4, Chains
<1>6. Index(t, k) \in DOMAIN Chain(t, k) /\ Chain(t, k)[Index(t, k)] = k
  BY <1>5 DEF Index
<1>7. Index(t, k) \in 1..Len(t[b])
  BY <1>3, <1>4, <1>6, Chains
<1>8. \A c \in 1..Len(t) : \A j \in 1..Len(t[c]) :
         t[c][j] = k <=> c = Bucket(t, k) /\ j = Index(t, k)
  <2>1. b = Bucket(t, k) /\ t[b][Index(t, k)] = k
    BY <1>3, <1>4, <1>6
  <2>2. \A c \in 1..Len(t) : \A j \in 1..Len(t[c]) :
           t[c][j] = t[b][Index(t, k)] => c = b /\ j = Index(t, k)
    BY <1>7, Chains
  <2> QED BY <2>1, <2>2
<1> QED BY <1>3, <1>4, <1>6, <1>7, <1>8

LEMMA Order ==
  ASSUME NEW t, NEW K, HashTable(t, K)
  PROVE  \A j, k \in K :
            Before(t, j, k) <=> \/ Bucket(t, j) < Bucket(t, k)
                                \/ Bucket(t, j) = Bucket(t, k) /\ Index(t, j) < Index(t, k)
<1> SUFFICES ASSUME NEW j \in K, NEW k \in K
             PROVE  Before(t, j, k) <=>
                       \/ Bucket(t, j) < Bucket(t, k)
                       \/ Bucket(t, j) = Bucket(t, k) /\ Index(t, j) < Index(t, k)
  OBVIOUS
<1> DEFINE a == Bucket(t, j)
           b == Bucket(t, k)
           x == Index(t, j)
           y == Index(t, k)
<1>1. /\ a \in DOMAIN t /\ x \in DOMAIN t[a] /\ t[a][x] = j
      /\ b \in DOMAIN t /\ y \in DOMAIN t[b] /\ t[b][y] = k
  <2>1. /\ DOMAIN t = 1..Len(t)
        /\ \A c \in 1..Len(t) : DOMAIN t[c] = 1..Len(t[c])
    BY Chains
  <2>2. a \in 1..Len(t) /\ x \in 1..Len(t[a]) /\ t[a][x] = j
    <3>1. /\ a \in 1..Len(t) /\ Chain(t, j) = t[a]
          /\ x \in 1..Len(Chain(t, j)) /\ Chain(t, j)[x] = j
      BY Places
    <3> HIDE DEF a, x
    <3> QED BY <3>1
  <2>3. b \in 1..Len(t) /\ y \in 1..Len(t[b]) /\ t[b][y] = k
    <3>1. /\ b \in 1..Len(t) /\ Chain(t, k) = t[b]
          /\ y \in 1..Len(Chain(t, k)) /\ Chain(t, k)[y] = k
      BY Places
    <3> HIDE DEF b, y
    <3> QED BY <3>1
  <2> HIDE DEF a, b, x, y
  <2> QED BY <2>1, <2>2, <2>3
<1>2. \A c \in DOMAIN t : \A z \in DOMAIN t[c] :
         /\ t[c][z] = j => c = a /\ z = x
         /\ t[c][z] = k => c = b /\ z = y
  <2>1. \A c \in 1..Len(t) : \A z \in 1..Len(t[c]) :
           /\ t[c][z] = j => c = a /\ z = x
           /\ t[c][z] = k => c = b /\ z = y
    BY Places
  <2>2. DOMAIN t = 1..Len(t) /\ \A c \in 1..Len(t) : DOMAIN t[c] = 1..Len(t[c])
    BY Chains
  <2> HIDE DEF a, b, x, y
  <2> QED BY <2>1, <2>2
<1> HIDE DEF a, b, x, y
<1>3. ASSUME Before(t, j, k) PROVE a < b \/ (a = b /\ x < y)
  BY <1>2, <1>3 DEF Before
<1>4. ASSUME a < b \/ (a = b /\ x < y) PROVE Before(t, j, k)
  BY <1>1, <1>4 DEF Before
<1> QED BY <1>3, <1>4 DEF a, b, x, y

(***************************************************************************)
(* It is a strict total order on the keys.                                 *)
(***************************************************************************)
LEMMA TotalOrder ==
  ASSUME NEW t, NEW K, HashTable(t, K)
  PROVE  /\ \A k \in K : ~Before(t, k, k)
         /\ \A j, k \in K : j # k => Before(t, j, k) \/ Before(t, k, j)
         /\ \A i, j, k \in K : Before(t, i, j) /\ Before(t, j, k) => Before(t, i, k)
<1>1. \A k \in K : Bucket(t, k) \in Nat /\ Index(t, k) \in Nat
  <2> SUFFICES ASSUME NEW k \in K PROVE Bucket(t, k) \in Nat /\ Index(t, k) \in Nat
    OBVIOUS
  <2>1. Bucket(t, k) \in 1..Len(t) /\ Index(t, k) \in 1..Len(t[Bucket(t, k)])
    BY Places
  <2> QED BY <2>1
<1>2. \A j, k \in K : Bucket(t, j) = Bucket(t, k) /\ Index(t, j) = Index(t, k) => j = k
  BY Places
<1> QED BY <1>1, <1>2, Order

(***************************************************************************)
(* Keys taken against the order of the walk are taken once each.           *)
(***************************************************************************)
LEMMA AgainstIs ==
  ASSUME NEW t, NEW K, HashTable(t, K), NEW S \in SUBSET K, IsFiniteSet(S)
  PROVE  /\ Cardinality(S) \in Nat
         /\ Against(t, S) \in [1..Cardinality(S) -> S]
         /\ \A i, j \in 1..Cardinality(S) : Against(t, S)[i] = Against(t, S)[j] => i = j
         /\ \A k \in S : \E i \in 1..Cardinality(S) : Against(t, S)[i] = k
<1> DEFINE R == {p \in S \X S : Before(t, p[1], p[2])}
           n == Cardinality(S)
           after(k) == Rank(S, R, k)
<1>1. \A j, k \in S : <<j, k>> \in R <=> Before(t, j, k)
  OBVIOUS
<1> HIDE DEF R
<1>2. \A k \in S : after(k) = After(t, S, k)
  <2>1. \A k \in S : {j \in S : <<k, j>> \in R} = {j \in S : Before(t, k, j)}
    BY <1>1
  <2> QED BY <2>1 DEF Rank, After
<1>3. /\ \A k \in S : <<k, k>> \notin R
      /\ \A j, k \in S : j # k => <<j, k>> \in R \/ <<k, j>> \in R
      /\ \A i, j, k \in S : <<i, j>> \in R /\ <<j, k>> \in R => <<i, k>> \in R
  <2>1. /\ \A k \in S : ~Before(t, k, k)
        /\ \A j, k \in S : j # k => Before(t, j, k) \/ Before(t, k, j)
        /\ \A i, j, k \in S : Before(t, i, j) /\ Before(t, j, k) => Before(t, i, k)
    BY TotalOrder
  <2> QED BY <1>1, <2>1
<1>4. /\ \A k \in S : after(k) \in Nat /\ after(k) + 1 \in 1..n
      /\ \A j, k \in S : after(j) = after(k) => j = k
      /\ \A i \in 1..n : \E k \in S : after(k) = i - 1
  BY <1>3, Ranks
<1>5. n \in Nat
  BY FS_CardinalityType
<1> DEFINE c == Against(t, S)
<1>6. \A i \in 1..n : c[i] = CHOOSE k \in S : After(t, S, k) = i - 1
  BY DEF Against
<1>7. \A i \in 1..n : c[i] \in S /\ after(c[i]) = i - 1
  <2> SUFFICES ASSUME NEW i \in 1..n PROVE c[i] \in S /\ after(c[i]) = i - 1
    OBVIOUS
  <2> HIDE DEF after, n
  <2>1. \E k \in S : After(t, S, k) = i - 1
    BY <1>2, <1>4
  <2>2. c[i] \in S /\ After(t, S, c[i]) = i - 1
    BY <1>6, <2>1
  <2> QED BY <1>2, <2>2
<1>8. c \in [1..n -> S]
  <2>1. c = [i \in 1..n |-> c[i]]
    BY DEF Against
  <2> HIDE DEF after, c
  <2> QED BY <1>7, <2>1
<1> HIDE DEF after, n, c
<1>9. ASSUME NEW i \in 1..n, NEW j \in 1..n, c[i] = c[j]
      PROVE  i = j
  <2>1. i - 1 = j - 1
    BY <1>7, <1>9
  <2> QED BY <2>1
<1>10. ASSUME NEW k \in S PROVE \E i \in 1..n : c[i] = k
  <2> DEFINE i == after(k) + 1
  <2>1. i \in 1..n /\ i - 1 = after(k)
    BY <1>4
  <2> HIDE DEF i
  <2>2. c[i] \in S /\ after(c[i]) = after(k)
    BY <1>7, <2>1
  <2> QED BY <1>4, <2>1, <2>2
<1> QED BY <1>5, <1>8, <1>9, <1>10 DEF n, c

(***************************************************************************)
(* A table that is rebuilt has the same keys.                              *)
(***************************************************************************)
LEMMA Rebuilt ==
  ASSUME NEW t, NEW K, HashTable(t, K), IsFiniteSet(K), NEW n \in Nat \ {0}
  PROVE  HashTable(Rehash(t, n), K) /\ Len(Rehash(t, n)) = n
<1> DEFINE u == Rehash(t, n)
           new(b) == {k \in K : k % n = b - 1}
           N(b) == Cardinality(new(b))
<1>1. Keys(t) = K /\ K \subseteq Nat
  BY Chains DEF HashTable
<1>2. \A b \in 1..n : new(b) \in SUBSET K /\ IsFiniteSet(new(b))
  BY FS_Subset
<1>3. u = [b \in 1..n |-> Against(t, new(b))]
  BY <1>1 DEF Rehash
<1>4. \A k \in K : \A b \in 1..n : k \in new(b) <=> k % n = b - 1
  OBVIOUS
<1> HIDE DEF u, new
<1>5. \A b \in 1..n :
         /\ N(b) \in Nat
         /\ u[b] \in [1..N(b) -> new(b)]
         /\ \A i, j \in 1..N(b) : u[b][i] = u[b][j] => i = j
         /\ \A k \in new(b) : \E i \in 1..N(b) : u[b][i] = k
  <2> SUFFICES ASSUME NEW b \in 1..n
               PROVE  /\ N(b) \in Nat
                      /\ u[b] \in [1..N(b) -> new(b)]
                      /\ \A i, j \in 1..N(b) : u[b][i] = u[b][j] => i = j
                      /\ \A k \in new(b) : \E i \in 1..N(b) : u[b][i] = k
    OBVIOUS
  <2> DEFINE S == new(b)
  <2>1. u[b] = Against(t, S) /\ S \in SUBSET K /\ IsFiniteSet(S)
    BY <1>2, <1>3
  <2> HIDE DEF S
  <2>2. /\ Cardinality(S) \in Nat
        /\ Against(t, S) \in [1..Cardinality(S) -> S]
        /\ \A i, j \in 1..Cardinality(S) : Against(t, S)[i] = Against(t, S)[j] => i = j
        /\ \A k \in S : \E i \in 1..Cardinality(S) : Against(t, S)[i] = k
    BY <2>1, AgainstIs
  <2> QED BY <2>1, <2>2 DEF S
<1> HIDE DEF N
<1>6. \A b \in 1..n : u[b] \in Seq(Nat) /\ Len(u[b]) = N(b) /\ DOMAIN u[b] = 1..N(b)
  <2> SUFFICES ASSUME NEW b \in 1..n
               PROVE  u[b] \in Seq(Nat) /\ Len(u[b]) = N(b) /\ DOMAIN u[b] = 1..N(b)
    OBVIOUS
  <2>1. N(b) \in Nat /\ u[b] \in [1..N(b) -> new(b)] /\ new(b) \subseteq Nat
    BY <1>1, <1>2, <1>5
  <2>2. u[b] \in [1..N(b) -> Nat]
    BY <2>1
  <2> QED BY <2>1, <2>2
<1>7. u \in Seq(Seq(Nat)) /\ Len(u) = n /\ u # <<>> /\ DOMAIN u = 1..n
  <2>1. u \in [1..n -> Seq(Nat)]
    BY <1>3, <1>6
  <2> QED BY <2>1
<1>8. ASSUME NEW b \in 1..n
      PROVE  (\A i \in 1..Len(u[b]) : u[b][i] % n = b - 1) /\ IsInjective(u[b])
  <2> DEFINE v == u[b]
             m == N(b)
             S == new(b)
  <2>1. /\ v \in [1..m -> S] /\ Len(v) = m /\ DOMAIN v = 1..m
        /\ \A i, j \in 1..m : v[i] = v[j] => i = j
        /\ \A k \in S : k % n = b - 1
    BY <1>2, <1>4, <1>5, <1>6
  <2> HIDE DEF v, m, S
  <2>2. IsInjective(v)
    BY <2>1 DEF IsInjective
  <2> QED BY <2>1, <2>2 DEF v
<1>10. \A b \in 1..n : Range(u[b]) = new(b)
  <2> SUFFICES ASSUME NEW b \in 1..n PROVE Range(u[b]) = new(b)
    OBVIOUS
  <2> DEFINE v == u[b]
             m == N(b)
             S == new(b)
  <2>1. /\ v \in [1..m -> S] /\ DOMAIN v = 1..m
        /\ \A k \in S : \E i \in 1..m : v[i] = k
    BY <1>5, <1>6
  <2> HIDE DEF v, m, S
  <2>2. Range(v) = S
    BY <2>1 DEF Range
  <2> QED BY <2>2 DEF v, S
<1>11. Keys(u) = K
  <2>1. Keys(u) = UNION {Range(u[b]) : b \in 1..n}
    BY <1>7 DEF Keys
  <2>2. \A k \in K : (k % n) + 1 \in 1..n /\ k \in new((k % n) + 1)
    BY <1>1, <1>4
  <2> QED BY <1>2, <1>10, <2>1, <2>2
<1> QED BY <1>7, <1>8, <1>11 DEF HashTable, u

(***************************************************************************)
(* A set of natural numbers has a first one.                               *)
(***************************************************************************)
LEMMA FirstOne ==
  ASSUME NEW S \in SUBSET Nat, S # {}
  PROVE  \E i \in S : \A j \in S : i <= j
<1> DEFINE R == {p \in Nat \X Nat : p[1] < p[2]}
<1>1. IsWellFoundedOn(R, Nat)
  BY NatLessThanWellFounded DEF OpToRel
<1>2. PICK x \in S : \A y \in S : <<y, x>> \notin R
  BY <1>1, WFMin
<1>3. \A y \in S : <<y, x>> \in Nat \X Nat /\ (<<y, x>> \in R <=> y < x)
  OBVIOUS
<1> HIDE DEF R
<1>4. ASSUME NEW y \in S PROVE x <= y
  <2>1. x \in Nat /\ y \in Nat /\ ~(y < x)
    BY <1>2, <1>3
  <2> QED BY <2>1
<1> QED BY <1>4

(***************************************************************************)
(* operator[] makes the table large enough for one more key, if it can.    *)
(***************************************************************************)
LEMMA GrownIs ==
  ASSUME HashTable(table, DOMAIN rooms), IsFiniteSet(DOMAIN rooms)
  PROVE  LET hint == Cardinality(DOMAIN rooms) + 1
         IN  /\ HashTable(Grown(table), DOMAIN rooms)
             /\ Cardinality(DOMAIN rooms) \in Nat
             /\ \/ /\ Grown(table) = table
                   /\ hint <= size \/ \A i \in DOMAIN Sizes : Sizes[i] < hint
                \/ \E i \in DOMAIN Sizes : Len(Grown(table)) = Sizes[i] /\ Sizes[i] >= hint
             /\ hint <= size => Grown(table) = table
<1> DEFINE hint == Cardinality(DOMAIN rooms) + 1
           fits == {i \in DOMAIN Sizes : Sizes[i] >= hint}
           n == Sizes[CHOOSE i \in fits : \A j \in fits : i <= j]
<1>1. Cardinality(DOMAIN rooms) \in Nat /\ hint \in Nat
  BY FS_CardinalityType
<1>2. size \in Nat \ {0}
  BY Chains DEF size
<1>3. \A i \in DOMAIN Sizes : i \in Nat /\ Sizes[i] \in Nat \ {0}
  BY WorldAssumption
<1>4. Grown(table) = IF hint > Len(table) /\ fits # {} THEN Rehash(table, n) ELSE table
  BY DEF Grown
<1>5. CASE hint > Len(table) /\ fits # {}
  <2>1. fits \in SUBSET Nat
    BY <1>3
  <2>2. \E i \in fits : \A j \in fits : i <= j
    BY <1>5, <2>1, FirstOne
  <2>3. PICK i \in fits : n = Sizes[i]
    BY <2>2
  <2>4. n \in Nat \ {0} /\ i \in DOMAIN Sizes /\ n >= hint
    BY <1>3, <2>3
  <2> HIDE DEF n, fits
  <2>5. HashTable(Grown(table), DOMAIN rooms) /\ Len(Grown(table)) = n
    BY <1>4, <1>5, <2>4, Rebuilt
  <2> QED BY <1>1, <1>2, <1>5, <2>3, <2>4, <2>5 DEF size
<1>6. CASE ~(hint > Len(table))
  BY <1>1, <1>2, <1>4, <1>6 DEF size
<1>7. CASE fits = {}
  <2>1. \A i \in DOMAIN Sizes : Sizes[i] < hint
    BY <1>1, <1>3, <1>7
  <2> HIDE DEF fits
  <2>2. Grown(table) = table
    BY <1>4, <1>7
  <2> QED BY <1>1, <2>1, <2>2
<1> QED BY <1>5, <1>6, <1>7

(***************************************************************************)
(* A key put before the head of a chain that does not hold it.             *)
(***************************************************************************)
LEMMA Pushed ==
  ASSUME NEW w \in Seq(Nat), NEW k \in Nat, k \notin Range(w), IsInjective(w)
  PROVE  LET v == <<k>> \o w
         IN  /\ v \in Seq(Nat) /\ Len(v) = Len(w) + 1
             /\ v[1] = k /\ \A i \in 1..Len(w) : v[i + 1] = w[i]
             /\ Range(v) = Range(w) \cup {k}
             /\ IsInjective(v)
<1> DEFINE v == <<k>> \o w
<1>1. /\ Len(w) \in Nat /\ DOMAIN w = 1..Len(w)
      /\ \A i \in 1..Len(w) : w[i] # k
      /\ \A i, j \in 1..Len(w) : w[i] = w[j] => i = j
  <2>1. Len(w) \in Nat /\ DOMAIN w = 1..Len(w)
    OBVIOUS
  <2>2. \A i \in 1..Len(w) : w[i] # k
    BY <2>1 DEF Range
  <2> QED BY <2>1, <2>2 DEF IsInjective
<1>2. /\ v \in Seq(Nat) /\ Len(v) = Len(w) + 1 /\ v[1] = k
      /\ \A i \in 1..Len(w) : v[i + 1] = w[i]
  <2>1. <<k>> \in Seq(Nat) /\ Len(<<k>>) = 1 /\ <<k>>[1] = k
    OBVIOUS
  <2> QED BY <2>1, ConcatProperties
<1> HIDE DEF v
<1>3. DOMAIN v = 1..Len(v)
  BY <1>2
<1>4. \A i \in 1..Len(v) : i = 1 \/ (i - 1 \in 1..Len(w) /\ v[i] = w[i - 1])
  <2> SUFFICES ASSUME NEW i \in 1..Len(v), i # 1
               PROVE  i - 1 \in 1..Len(w) /\ v[i] = w[i - 1]
    OBVIOUS
  <2>1. i - 1 \in 1..Len(w) /\ (i - 1) + 1 = i
    BY <1>1, <1>2
  <2>2. v[(i - 1) + 1] = w[i - 1]
    BY <1>2, <2>1
  <2> QED BY <2>1, <2>2
<1>5. Range(v) = Range(w) \cup {k}
  <2>1. Range(v) = {v[i] : i \in 1..Len(v)} /\ Range(w) = {w[i] : i \in 1..Len(w)}
    BY <1>1, <1>3 DEF Range
  <2>2. 1 \in 1..Len(v)
    BY <1>1, <1>2
  <2>3. \A i \in 1..Len(w) : i + 1 \in 1..Len(v)
    BY <1>1, <1>2
  <2>4. \A x \in Range(v) : x \in Range(w) \cup {k}
    <3> SUFFICES ASSUME NEW i \in 1..Len(v) PROVE v[i] \in Range(w) \cup {k}
      BY <2>1
    <3> QED BY <1>2, <1>4, <2>1
  <2>5. \A x \in Range(w) : x \in Range(v)
    <3> SUFFICES ASSUME NEW i \in 1..Len(w) PROVE w[i] \in Range(v)
      BY <2>1
    <3>1. v[i + 1] = w[i] /\ i + 1 \in 1..Len(v)
      BY <1>2, <2>3
    <3> QED BY <2>1, <3>1
  <2> QED BY <1>2, <2>1, <2>2, <2>4, <2>5
<1>6. IsInjective(v)
  <2> SUFFICES ASSUME NEW i \in 1..Len(v), NEW j \in 1..Len(v), v[i] = v[j]
               PROVE  i = j
    BY <1>3 DEF IsInjective
  <2>1. i # 1 => i - 1 \in 1..Len(w) /\ v[i] = w[i - 1] /\ v[i] # k
    BY <1>1, <1>4
  <2>2. j # 1 => j - 1 \in 1..Len(w) /\ v[j] = w[j - 1] /\ v[j] # k
    BY <1>1, <1>4
  <2>3. CASE i # 1 /\ j # 1
    <3>1. i - 1 = j - 1
      BY <1>1, <2>1, <2>2, <2>3
    <3> QED BY <3>1
  <2> QED BY <1>2, <2>1, <2>2, <2>3
<1> QED BY <1>2, <1>5, <1>6 DEF v

(***************************************************************************)
(* A new key goes before the head of its chain, and the order of the       *)
(* others stays.                                                           *)
(***************************************************************************)
LEMMA Inserted ==
  ASSUME NEW t, NEW K, HashTable(t, K), NEW k \in Nat, k \notin K
  PROVE  LET u == [t EXCEPT ![(k % Len(t)) + 1] = <<k>> \o @]
         IN  /\ HashTable(u, K \cup {k})
             /\ Len(u) = Len(t)
             /\ \A i, j \in K : Before(u, i, j) <=> Before(t, i, j)
<1> DEFINE a == (k % Len(t)) + 1
           v == <<k>> \o t[a]
           u == [t EXCEPT ![a] = v]
<1>1. /\ t \in Seq(Seq(Nat)) /\ Len(t) \in Nat \ {0} /\ DOMAIN t = 1..Len(t)
      /\ a \in 1..Len(t) /\ k % Len(t) = a - 1
  <2>1. t \in Seq(Seq(Nat)) /\ Len(t) \in Nat \ {0} /\ DOMAIN t = 1..Len(t)
    BY Chains DEF HashTable
  <2> QED BY <2>1
<1> HIDE DEF a
<1>2. /\ t[a] \in Seq(Nat) /\ Len(t[a]) \in Nat /\ IsInjective(t[a])
      /\ \A i \in 1..Len(t[a]) : t[a][i] % Len(t) = a - 1
      /\ Range(t[a]) \subseteq K
  <2>1. t[a] \in Seq(Nat) /\ Len(t[a]) \in Nat
    BY <1>1
  <2>2. IsInjective(t[a]) /\ \A i \in 1..Len(t[a]) : t[a][i] % Len(t) = a - 1
    BY <1>1 DEF HashTable
  <2>3. Range(t[a]) \subseteq K
    BY <1>1 DEF HashTable, Keys
  <2> QED BY <2>1, <2>2, <2>3
<1>3. /\ v \in Seq(Nat) /\ Len(v) = Len(t[a]) + 1 /\ v[1] = k
      /\ \A i \in 1..Len(t[a]) : v[i + 1] = t[a][i]
      /\ Range(v) = Range(t[a]) \cup {k}
      /\ IsInjective(v)
  <2> DEFINE w == t[a]
  <2>1. w \in Seq(Nat) /\ k \notin Range(w) /\ IsInjective(w)
    BY <1>2
  <2> HIDE DEF w
  <2>2. LET x == <<k>> \o w
        IN  /\ x \in Seq(Nat) /\ Len(x) = Len(w) + 1
            /\ x[1] = k /\ \A i \in 1..Len(w) : x[i + 1] = w[i]
            /\ Range(x) = Range(w) \cup {k}
            /\ IsInjective(x)
    BY <2>1, Pushed
  <2> QED BY <2>2 DEF w
<1> HIDE DEF v
<1>4. /\ u \in Seq(Seq(Nat)) /\ Len(u) = Len(t) /\ DOMAIN u = 1..Len(t)
      /\ u[a] = v /\ \A b \in 1..Len(t) : b # a => u[b] = t[b]
      /\ u # <<>>
  BY <1>1, <1>3
<1> HIDE DEF u
<1>5. \A i \in 1..Len(v) : v[i] % Len(t) = a - 1
  <2> SUFFICES ASSUME NEW i \in 1..Len(v) PROVE v[i] % Len(t) = a - 1
    OBVIOUS
  <2>1. CASE i = 1
    BY <1>1, <1>3, <2>1
  <2>2. CASE i # 1
    <3>1. i - 1 \in 1..Len(t[a]) /\ (i - 1) + 1 = i
      BY <1>2, <1>3, <2>2
    <3>2. v[(i - 1) + 1] = t[a][i - 1]
      BY <1>3, <3>1
    <3> QED BY <1>2, <3>1, <3>2
  <2> QED BY <2>1, <2>2
<1>6. ASSUME NEW b \in 1..Len(u)
      PROVE  (\A i \in 1..Len(u[b]) : u[b][i] % Len(u) = b - 1) /\ IsInjective(u[b])
  <2>1. CASE b = a
    BY <1>3, <1>4, <1>5, <2>1
  <2>2. CASE b # a
    <3>1. /\ \A i \in 1..Len(t[b]) : t[b][i] % Len(t) = b - 1
          /\ IsInjective(t[b])
      BY <1>4 DEF HashTable
    <3> QED BY <1>4, <2>2, <3>1
  <2> QED BY <2>1, <2>2
<1>7. Keys(u) = K \cup {k}
  <2>1. Keys(u) = UNION {Range(u[b]) : b \in 1..Len(t)}
    BY <1>4 DEF Keys
  <2>2. K = UNION {Range(t[b]) : b \in 1..Len(t)}
    BY <1>1 DEF HashTable, Keys
  <2>3. \A b \in 1..Len(t) : Range(u[b]) = IF b = a THEN Range(t[a]) \cup {k} ELSE Range(t[b])
    BY <1>3, <1>4
  <2>4. k \in Keys(u)
    BY <1>1, <2>1, <2>3
  <2>5. ASSUME NEW j \in K PROVE j \in Keys(u)
    <3>1. PICK b \in 1..Len(t) : j \in Range(t[b])
      BY <2>2
    <3>2. j \in Range(u[b])
      BY <2>3, <3>1
    <3> QED BY <2>1, <3>2
  <2>6. ASSUME NEW j \in Keys(u) PROVE j \in K \cup {k}
    <3>1. PICK b \in 1..Len(t) : j \in Range(u[b])
      BY <2>1
    <3>2. j = k \/ j \in Range(t[b])
      BY <2>3, <3>1
    <3> QED BY <2>2, <3>2
  <2> QED BY <2>4, <2>5, <2>6
<1>8. HashTable(u, K \cup {k})
  BY <1>4, <1>6, <1>7 DEF HashTable
<1>9. ASSUME NEW j \in K
      PROVE  /\ Bucket(u, j) = Bucket(t, j)
             /\ Index(u, j) = IF Bucket(t, j) = a THEN Index(t, j) + 1 ELSE Index(t, j)
             /\ Index(t, j) \in Nat
  <2> DEFINE b == Bucket(t, j)
             x == Index(t, j)
             y == IF b = a THEN x + 1 ELSE x
  <2>1. b \in 1..Len(t) /\ x \in 1..Len(t[b]) /\ t[b][x] = j
    <3>1. b \in 1..Len(t) /\ x \in 1..Len(Chain(t, j))
          /\ Chain(t, j) = t[b] /\ Chain(t, j)[x] = j
      BY Places
    <3> HIDE DEF b, x
    <3> QED BY <3>1
  <2>2. Bucket(u, j) = b
    BY <1>4 DEF Bucket
  <2> HIDE DEF b, x
  <2>3. x \in Nat /\ y \in 1..Len(u[b]) /\ u[b][y] = j
    <3>1. CASE b = a
      <4>1. u[b] = v /\ x \in 1..Len(t[a]) /\ t[a][x] = j
        BY <1>4, <2>1, <3>1
      <4>2. x \in Nat /\ x + 1 \in 1..Len(v)
        <5> DEFINE l == Len(t[a])
                   m == Len(v)
        <5>1. l \in Nat /\ m = l + 1 /\ x \in 1..l
          BY <1>2, <1>3, <4>1
        <5> HIDE DEF l, m
        <5>2. x \in Nat /\ x + 1 \in 1..m
          BY <5>1
        <5> QED BY <5>2 DEF m
      <4>3. v[x + 1] = j
        BY <1>3, <4>1
      <4> QED BY <3>1, <4>1, <4>2, <4>3
    <3>2. CASE b # a
      <4>1. Len(u[b]) = Len(t[b]) /\ u[b][x] = j /\ x \in Nat
        BY <1>4, <2>1, <3>2
      <4> QED BY <2>1, <3>2, <4>1
    <3> QED BY <3>1, <3>2
  <2> HIDE DEF y
  <2>4. \A c \in 1..Len(u) : \A i \in 1..Len(u[c]) :
           u[c][i] = j <=> c = Bucket(u, j) /\ i = Index(u, j)
    <3>1. j \in K \cup {k}
      OBVIOUS
    <3> QED BY <1>8, <3>1, Places
  <2>5. b \in 1..Len(u)
    BY <1>4, <2>1
  <2>6. y = Index(u, j)
    BY <2>3, <2>4, <2>5
  <2> QED BY <2>2, <2>3, <2>6 DEF b, x, y
<1>10. ASSUME NEW i \in K, NEW j \in K
       PROVE  Before(u, i, j) <=> Before(t, i, j)
  <2>1. Before(u, i, j) <=> \/ Bucket(u, i) < Bucket(u, j)
                            \/ Bucket(u, i) = Bucket(u, j) /\ Index(u, i) < Index(u, j)
    BY <1>8, Order
  <2>2. Before(t, i, j) <=> \/ Bucket(t, i) < Bucket(t, j)
                            \/ Bucket(t, i) = Bucket(t, j) /\ Index(t, i) < Index(t, j)
    BY Order
  <2> QED BY <1>9, <2>1, <2>2
<1> QED BY <1>4, <1>8, <1>10 DEF u, v, a

(***************************************************************************)
(* The first key from a bucket on comes before every other one there.      *)
(***************************************************************************)
LEMMA HeadIs ==
  ASSUME NEW t, NEW K, HashTable(t, K), NEW b \in Nat \ {0}
  PROVE  LET h == HeadFrom(t, b)
         IN  \/ /\ h = 0
                /\ \A k \in K : Bucket(t, k) < b
             \/ /\ h \in K /\ Bucket(t, h) >= b
                /\ \A k \in K : Bucket(t, k) >= b => k = h \/ Before(t, h, k)
<1> DEFINE full == {i \in b..Len(t) : t[i] # <<>>}
           f == CHOOSE i \in full : \A j \in full : i <= j
           h == HeadFrom(t, b)
<1>1. h = IF full = {} THEN 0 ELSE Head(t[f])
  BY DEF HeadFrom
<1>2. /\ Len(t) \in Nat \ {0}
      /\ \A i \in full : i \in 1..Len(t) /\ i >= b /\ t[i] # <<>>
      /\ \A i \in 1..Len(t) : i >= b /\ t[i] # <<>> => i \in full
  BY Chains
<1>3. \A k \in K : Bucket(t, k) \in 1..Len(t) /\ t[Bucket(t, k)] # <<>>
                   /\ Index(t, k) \in Nat /\ Index(t, k) >= 1
  <2> SUFFICES ASSUME NEW k \in K
               PROVE  Bucket(t, k) \in 1..Len(t) /\ t[Bucket(t, k)] # <<>>
                      /\ Index(t, k) \in Nat /\ Index(t, k) >= 1
    OBVIOUS
  <2> DEFINE c == t[Bucket(t, k)]
  <2>1. Bucket(t, k) \in 1..Len(t) /\ Index(t, k) \in 1..Len(c)
    BY Places
  <2>2. Len(c) \in Nat
    BY <2>1, Chains
  <2> HIDE DEF c
  <2>3. Len(c) > 0 /\ Index(t, k) \in Nat /\ Index(t, k) >= 1
    BY <2>1, <2>2
  <2>4. c # <<>>
    BY <2>3
  <2> QED BY <2>1, <2>3, <2>4 DEF c
<1> HIDE DEF full, h
<1>4. CASE full = {}
  <2>1. \A k \in K : Bucket(t, k) < b
    <3> SUFFICES ASSUME NEW k \in K, ~(Bucket(t, k) < b) PROVE FALSE
      OBVIOUS
    <3>1. Bucket(t, k) \in 1..Len(t) /\ t[Bucket(t, k)] # <<>>
      BY <1>3
    <3>2. Bucket(t, k) >= b
      BY <1>2, <3>1
    <3> QED BY <1>2, <1>4, <3>1, <3>2
  <2> QED BY <1>1, <1>4, <2>1 DEF h
<1>5. CASE full # {}
  <2>1. f \in full /\ \A j \in full : f <= j
    <3>1. full \in SUBSET Nat
      BY <1>2
    <3>2. \E i \in full : \A j \in full : i <= j
      BY <1>5, <3>1, FirstOne
    <3> QED BY <3>2
  <2> HIDE DEF f
  <2>2. f \in 1..Len(t) /\ f >= b /\ t[f] # <<>>
    BY <1>2, <2>1
  <2>3. t[f] \in Seq(Nat) /\ 1 \in 1..Len(t[f])
    <3>1. t[f] \in Seq(Nat)
      BY <2>2, Chains
    <3> QED BY <2>2, <3>1
  <2>4. h = t[f][1]
    BY <1>1, <1>5, <2>2, <2>3
  <2>5. h \in K
    BY <2>2, <2>3, <2>4, Chains
  <2>6. Bucket(t, h) = f /\ Index(t, h) = 1
    BY <2>2, <2>3, <2>4, <2>5, Places
  <2>7. ASSUME NEW k \in K, Bucket(t, k) >= b, k # h
        PROVE  Before(t, h, k)
    <3>1. Bucket(t, k) \in full
      BY <1>2, <1>3, <2>7
    <3>2. f <= Bucket(t, k)
      BY <2>1, <3>1
    <3>3. Index(t, k) = 1 => Bucket(t, k) # f
      <4> SUFFICES ASSUME Index(t, k) = 1, Bucket(t, k) = f PROVE FALSE
        OBVIOUS
      <4>1. t[f][1] = k
        BY Places
      <4> QED BY <2>4, <2>7, <4>1
    <3>4. Bucket(t, k) \in Nat /\ Index(t, k) \in Nat /\ Index(t, k) >= 1 /\ f \in Nat
      BY <1>3, <2>2
    <3>5. \/ Bucket(t, h) < Bucket(t, k)
          \/ Bucket(t, h) = Bucket(t, k) /\ Index(t, h) < Index(t, k)
      BY <2>6, <3>2, <3>3, <3>4
    <3> QED BY <2>5, <3>5, Order
  <2> QED BY <2>2, <2>5, <2>6, <2>7 DEF h
<1> QED BY <1>4, <1>5

(***************************************************************************)
(* operator++ leaves out no key and comes to none twice.                   *)
(***************************************************************************)
LEMMA NextKey ==
  ASSUME NEW K, HashTable(table, K), NEW k \in K
  PROVE  LET h == Succ(k)
         IN  \/ /\ h = 0
                /\ \A j \in K : j = k \/ Before(table, j, k)
             \/ /\ h \in K
                /\ \A j \in K : Before(table, j, h) <=> j = k \/ Before(table, j, k)
<1> DEFINE t == table
           b == Bucket(t, k)
           c == t[b]
           x == Index(t, k)
           h == Succ(k)
<1>1. /\ b \in 1..Len(t) /\ x \in 1..Len(c) /\ c[x] = k /\ Chain(t, k) = c
      /\ \A i \in 1..Len(c) : c[i] = k => i = x
  <2>1. b \in 1..Len(t) /\ Chain(t, k) = c
        /\ x \in 1..Len(Chain(t, k)) /\ Chain(t, k)[x] = k
    BY Places
  <2>2. \A a \in 1..Len(t) : \A i \in 1..Len(t[a]) : t[a][i] = k <=> a = b /\ i = x
    BY Places
  <2> HIDE DEF b, x
  <2> QED BY <2>1, <2>2
<1>2. /\ Len(t) \in Nat \ {0} /\ c \in Seq(Nat) /\ Len(c) \in Nat
      /\ b \in Nat /\ b = (k % size) + 1
  BY <1>1, Chains DEF Bucket, size
<1>3. h = IF x < Len(c) THEN c[x + 1] ELSE HeadFrom(t, (k % size) + 2)
  <2>1. Chain(t, k) = c /\ x = CHOOSE j \in DOMAIN Chain(t, k) : Chain(t, k)[j] = k
    BY <1>1 DEF Index
  <2> HIDE DEF c, x, t
  <2>2. h = LET d == Chain(t, k)
                i == CHOOSE j \in DOMAIN d : d[j] = k
            IN  IF i < Len(d) THEN d[i + 1] ELSE HeadFrom(t, (k % size) + 2)
    BY DEF Succ, t
  <2> QED BY <2>1, <2>2
<1>4. \A j \in K : /\ Bucket(t, j) \in Nat /\ Index(t, j) \in Nat
                   /\ Bucket(t, j) = b => Index(t, j) \in 1..Len(c)
                   /\ Bucket(t, j) = b /\ Index(t, j) = x => j = k
  <2> SUFFICES ASSUME NEW j \in K
               PROVE  /\ Bucket(t, j) \in Nat /\ Index(t, j) \in Nat
                      /\ Bucket(t, j) = b => Index(t, j) \in 1..Len(c)
                      /\ Bucket(t, j) = b /\ Index(t, j) = x => j = k
    OBVIOUS
  <2>1. Bucket(t, j) \in 1..Len(t) /\ Chain(t, j) = t[Bucket(t, j)]
        /\ Index(t, j) \in 1..Len(Chain(t, j)) /\ Chain(t, j)[Index(t, j)] = j
    BY Places
  <2> HIDE DEF b, x
  <2> QED BY <1>1, <2>1
<1>5. \A j \in K : Before(t, j, k) <=> \/ Bucket(t, j) < b
                                       \/ Bucket(t, j) = b /\ Index(t, j) < x
  BY Order
<1>6. CASE x < Len(c)
  <2>1. h = c[x + 1] /\ x + 1 \in 1..Len(c)
    BY <1>1, <1>2, <1>3, <1>6
  <2> HIDE DEF b, x, h
  <2>2. h \in K
    BY <1>1, <2>1, Chains
  <2>3. Bucket(t, h) = b /\ Index(t, h) = x + 1
    BY <1>1, <2>1, <2>2, Places
  <2>4. \A j \in K : Before(t, j, h) <=> \/ Bucket(t, j) < b
                                         \/ Bucket(t, j) = b /\ Index(t, j) < x + 1
    BY <2>2, <2>3, Order
  <2>5. x \in Nat
    BY <1>1
  <2>6. \A j \in K : Before(t, j, h) <=> j = k \/ Before(t, j, k)
    <3> SUFFICES ASSUME NEW j \in K
                 PROVE  Before(t, j, h) <=> j = k \/ Before(t, j, k)
      OBVIOUS
    <3>1. Index(t, j) \in Nat /\ (Bucket(t, j) = b /\ Index(t, j) = x => j = k)
      BY <1>4
    <3>2. Bucket(t, k) = b /\ Index(t, k) = x
      BY DEF b, x
    <3> QED BY <1>5, <2>4, <2>5, <3>1, <3>2
  <2> QED BY <2>2, <2>6 DEF h
<1>7. CASE ~(x < Len(c))
  <2>0. (k % size) + 2 = b + 1 /\ b + 1 \in Nat \ {0}
    <3>1. k \in Nat /\ size \in Nat \ {0}
      BY <1>2, Chains DEF size
    <3> DEFINE q == k % size
    <3>2. q \in Nat /\ b = q + 1
      BY <1>2, <3>1
    <3> HIDE DEF q, b
    <3>3. q + 2 = b + 1 /\ b + 1 \in Nat \ {0}
      BY <3>2
    <3> QED BY <3>3 DEF q
  <2>1. x = Len(c) /\ h = HeadFrom(t, b + 1) /\ b + 1 \in Nat \ {0}
    <3> DEFINE m == Len(c)
    <3>1. m \in Nat /\ x \in 1..m /\ ~(x < m)
      BY <1>1, <1>2, <1>7
    <3> HIDE DEF m, x
    <3>2. x = m
      BY <3>1
    <3> QED BY <1>3, <1>7, <2>0, <3>2 DEF m
  <2> HIDE DEF h
  <2>2. \/ h = 0 /\ \A j \in K : Bucket(t, j) < b + 1
        \/ /\ h \in K /\ Bucket(t, h) >= b + 1
           /\ \A j \in K : Bucket(t, j) >= b + 1 => j = h \/ Before(t, h, j)
    BY <2>1, HeadIs
  <2>3. \A j \in K : Bucket(t, j) < b + 1 <=> j = k \/ Before(t, j, k)
    <3> SUFFICES ASSUME NEW j \in K
                 PROVE  Bucket(t, j) < b + 1 <=> j = k \/ Before(t, j, k)
      OBVIOUS
    <3>1. Bucket(t, k) = b
      BY DEF b
    <3> DEFINE m == Len(c)
               p == Bucket(t, j)
               q == Index(t, j)
    <3>2. /\ p \in Nat /\ q \in Nat /\ b \in Nat /\ m \in Nat
          /\ p = b => q \in 1..m
          /\ p = b /\ q = m => j = k
          /\ j = k => p = b
          /\ Before(t, j, k) <=> p < b \/ (p = b /\ q < m)
      BY <1>2, <1>4, <1>5, <2>1, <3>1
    <3> HIDE DEF m, p, q, b
    <3>3. p < b + 1 <=> j = k \/ Before(t, j, k)
      BY <3>2
    <3> QED BY <3>3 DEF p
  <2>4. CASE h = 0 /\ \A j \in K : Bucket(t, j) < b + 1
    BY <2>3, <2>4 DEF h
  <2>5. CASE /\ h \in K /\ Bucket(t, h) >= b + 1
             /\ \A j \in K : Bucket(t, j) >= b + 1 => j = h \/ Before(t, h, j)
    <3>1. ASSUME NEW j \in K
          PROVE  Before(t, j, h) <=> Bucket(t, j) < b + 1
      <4>1. Bucket(t, j) \in Nat /\ Bucket(t, h) \in Nat /\ b \in Nat
        BY <1>2, <1>4, <2>5
      <4>2. CASE Bucket(t, j) < b + 1
        <5>1. Bucket(t, j) < Bucket(t, h)
          BY <2>5, <4>1, <4>2
        <5> QED BY <2>5, <4>2, <5>1, Order
      <4>3. CASE ~(Bucket(t, j) < b + 1)
        <5>1. j = h \/ Before(t, h, j)
          BY <2>5, <4>1, <4>3
        <5>2. ~Before(t, j, h)
          BY <2>5, <5>1, TotalOrder
        <5> QED BY <4>3, <5>2
      <4> QED BY <4>2, <4>3
    <3> QED BY <2>3, <2>5, <3>1 DEF h
  <2> QED BY <2>2, <2>4, <2>5
<1> QED BY <1>6, <1>7

(***************************************************************************)
(* Looking a key up enters it, and a table that has room for one more key  *)
(* stays as it is but for that.                                            *)
(***************************************************************************)
LEMMA LookedUp ==
  ASSUME HashTable(table, DOMAIN rooms), IsFiniteSet(DOMAIN rooms),
         DOMAIN rooms \subseteq Nat \ {0}, NEW k \in Nat \ {0}
  PROVE  /\ HashTable(With(k), DOMAIN rooms \cup {k})
         /\ DOMAIN rooms \cup {k} \subseteq Nat \ {0} /\ IsFiniteSet(DOMAIN rooms \cup {k})
         /\ Len(With(k)) = Len(Grown(table))
         /\ Cardinality(DOMAIN rooms) + 1 <= size =>
               /\ Len(With(k)) = size
               /\ \A i, j \in DOMAIN rooms : Before(With(k), i, j) <=> Before(table, i, j)
<1> DEFINE t == Grown(table)
           K == DOMAIN rooms
<1>1. HashTable(t, K) /\ (Cardinality(K) + 1 <= size => t = table)
  BY GrownIs
<1>2. K \cup {k} \subseteq Nat \ {0} /\ IsFiniteSet(K \cup {k})
  BY FS_AddElement
<1>3. With(k) = IF k \in K THEN t ELSE [t EXCEPT ![(k % Len(t)) + 1] = <<k>> \o @]
  BY DEF With
<1> HIDE DEF t
<1>4. /\ HashTable(With(k), K \cup {k}) /\ Len(With(k)) = Len(t)
      /\ \A i, j \in K : Before(With(k), i, j) <=> Before(t, i, j)
  <2>1. CASE k \in K
    <3>1. With(k) = t /\ K \cup {k} = K
      BY <1>3, <2>1
    <3> QED BY <1>1, <3>1
  <2>2. CASE k \notin K
    <3> DEFINE u == [t EXCEPT ![(k % Len(t)) + 1] = <<k>> \o @]
    <3>1. With(k) = u
      BY <1>3, <2>2
    <3>2. /\ HashTable(u, K \cup {k}) /\ Len(u) = Len(t)
          /\ \A i, j \in K : Before(u, i, j) <=> Before(t, i, j)
      BY <1>1, <2>2, Inserted
    <3> QED BY <3>1, <3>2
  <2> QED BY <2>1, <2>2
<1> QED BY <1>1, <1>2, <1>4 DEF size, t

(***************************************************************************)
(* The pointers of the table, and back from a pointer to its room.         *)
(***************************************************************************)
LEMMA FoundIs ==
  ASSUME \A k \in DOMAIN rooms : rooms[k] = 0 \/ (k \in RoomId /\ rooms[k] = Address[k]),
         NEW k
  PROVE  Found(k) = 0 \/ (k \in RoomId /\ Found(k) = Address[k])
BY DEF Found

LEMMA Addresses ==
  ASSUME NEW r \in RoomId
  PROVE  RoomAt(Address[r]) = r /\ IsRoom(Address[r]) /\ Address[r] \in Nat \ {0}
<1>1. \A s \in RoomId : Address[s] = Address[r] => s = r
  BY WorldAssumption
<1>2. Address[r] \in Nat \ {0}
  BY WorldAssumption
<1> QED BY <1>1, <1>2 DEF RoomAt, IsRoom

LEMMA IsRoomAt ==
  ASSUME NEW p, IsRoom(p)
  PROVE  RoomAt(p) \in RoomId /\ Address[RoomAt(p)] = p /\ p \in Nat \ {0}
<1>1. PICK r \in RoomId : Address[r] = p
  BY DEF IsRoom
<1>2. RoomAt(p) = r /\ p \in Nat \ {0}
  BY <1>1, Addresses
<1> QED BY <1>1, <1>2

(***************************************************************************)
(* The keys looked up are finitely many.                                   *)
(***************************************************************************)
LEMMA FiniteTargets ==
  ASSUME db \in Maps
  PROVE  /\ IsFiniteSet(Targets) /\ Cardinality(Targets) \in Nat
         /\ Targets \subseteq Nat \ {0} /\ RoomId \subseteq Targets
         /\ \A S \in SUBSET Targets : /\ IsFiniteSet(S) /\ Cardinality(S) \in Nat
                                      /\ Cardinality(S) <= Cardinality(Targets)
         /\ \A r \in RoomId, i \in 1..8 : /\ Raw(r, i) \in Nat
                                          /\ Raw(r, i) # 0 => Raw(r, i) \in Targets
<1> DEFINE E == {db.exit[r][c] : r \in RoomId, c \in Name}
           f == [i \in 1..8 |-> Column[i]]
           g == [p \in RoomId \X Name |-> db.exit[p[1]][p[2]]]
<1>1. IsFiniteSet(Name)
  <2>1. f \in Surjection(1..8, Name)
    BY DEF Surjection, Name
  <2>2. \A m \in Nat : IsFiniteSet(1..m)
    BY FS_Interval
  <2>3. IsFiniteSet(1..8)
    BY <2>2
  <2> QED BY <2>1, <2>3, FS_Surjection
<1>2. IsFiniteSet(RoomId) /\ RoomId \subseteq Nat \ {0} /\ db.exit \in [RoomId -> [Name -> Nat]]
  BY WorldAssumption
<1>3. IsFiniteSet(E)
  <2> DEFINE P == RoomId \X Name
  <2>a. /\ \A p \in P : g[p] \in E
        /\ \A r \in RoomId, c \in Name : <<r, c>> \in P /\ g[<<r, c>>] = db.exit[r][c]
        /\ g = [p \in P |-> g[p]]
    OBVIOUS
  <2>b. \A x \in E : \E p \in P : g[p] = x
    <3> HIDE DEF E
    <3> SUFFICES ASSUME NEW x \in E PROVE \E p \in P : g[p] = x
      OBVIOUS
    <3>1. PICK r \in RoomId, c \in Name : x = db.exit[r][c]
      BY DEF E
    <3>2. <<r, c>> \in P /\ g[<<r, c>>] = x
      BY <2>a, <3>1
    <3> HIDE DEF g, P
    <3> QED BY <3>2
  <2>1. g \in Surjection(P, E)
    <3> HIDE DEF g, E, P
    <3>1. g \in [P -> E]
      BY <2>a
    <3> QED BY <2>b, <3>1 DEF Surjection
  <2>2. IsFiniteSet(RoomId \X Name)
    BY <1>1, <1>2, FS_Product
  <2> QED BY <2>1, <2>2, FS_Surjection
<1>4. IsFiniteSet(Targets)
  <2>1. Targets = RoomId \cup (E \ {0})
    BY DEF Targets
  <2> HIDE DEF E
  <2>2. E \ {0} \in SUBSET E
    OBVIOUS
  <2>3. IsFiniteSet(E \ {0})
    BY <1>3, <2>2, FS_Subset
  <2> QED BY <1>2, <2>1, <2>3, FS_Union
<1>5. E \subseteq Nat
  <2> SUFFICES ASSUME NEW r \in RoomId, NEW c \in Name PROVE db.exit[r][c] \in Nat
    OBVIOUS
  <2> QED BY <1>2
<1>6. Targets \subseteq Nat \ {0} /\ RoomId \subseteq Targets
  <2>1. Targets = RoomId \cup (E \ {0})
    BY DEF Targets
  <2> HIDE DEF E
  <2> QED BY <1>2, <1>5, <2>1
<1>7. \A r \in RoomId, i \in 1..8 : /\ Raw(r, i) \in Nat
                                    /\ Raw(r, i) # 0 => Raw(r, i) \in Targets
  <2> SUFFICES ASSUME NEW r \in RoomId, NEW i \in 1..8
               PROVE  Raw(r, i) \in Nat /\ (Raw(r, i) # 0 => Raw(r, i) \in Targets)
    OBVIOUS
  <2>1. Column[i] \in Name
    BY Columns
  <2>2. Raw(r, i) \in E
    BY <2>1 DEF Raw
  <2> QED BY <1>5, <2>2 DEF Targets
<1>8. \A S \in SUBSET Targets : /\ IsFiniteSet(S) /\ Cardinality(S) \in Nat
                                /\ Cardinality(S) <= Cardinality(Targets)
  BY <1>4, FS_Subset, FS_CardinalityType
<1> QED BY <1>4, <1>6, <1>7, <1>8, FS_CardinalityType

-----------------------------------------------------------------------------
(***************************************************************************)
(* The types.                                                              *)
(***************************************************************************)
LEMMA Words ==
  /\ \A c \in Name : str2card(c) \in Dir
  /\ \A d \in Dir : reverse(d) \in Dir /\ description(d) \in Word
  /\ \A r : Listed(r) \in SUBSET Name
<1>1. \A c \in Name : str2card(c) \in Dir
  BY Columns
<1>2. \A d \in Dir : reverse(d) \in Dir
  BY DEF Dir, reverse, NORTH, NORTHEAST, EAST, SOUTHEAST, SOUTH, SOUTHWEST, WEST, NORTHWEST
<1>3. \A d \in Dir : description(d) \in Word
  BY DEF Word
<1>4. \A r : Listed(r) \in SUBSET Name
  BY Columns DEF Listed
<1> QED BY <1>1, <1>2, <1>3, <1>4

LEMMA WorldStart == WorldInit => WorldTypes
<1> SUFFICES ASSUME WorldInit PROVE WorldTypes
  OBVIOUS
<1> DEFINE n == Sizes[1]
<1>1. n \in Nat \ {0}
  BY WorldAssumption
<1>2. table = [b \in 1..n |-> <<>>]
  BY DEF WorldInit
<1> HIDE DEF n
<1>3. table \in Seq(Seq(Nat)) /\ Len(table) = n /\ table # <<>> /\ DOMAIN table = 1..n
      /\ \A b \in 1..n : table[b] = <<>>
  <2>1. <<>> \in Seq(Nat)
    OBVIOUS
  <2>2. table \in [1..n -> Seq(Nat)]
    BY <1>2, <2>1
  <2> QED BY <1>1, <1>2, <2>2
<1>4. Keys(table) = {}
  BY <1>3 DEF Keys, Range
<1>5. HashTable(table, {})
  <2>1. \A b \in 1..n : Len(table[b]) = 0 /\ IsInjective(table[b])
    BY <1>3 DEF IsInjective
  <2> QED BY <1>3, <1>4, <2>1 DEF HashTable
<1>6. rooms = <<>> /\ DOMAIN rooms = {}
  BY DEF WorldInit
<1>7. IsFiniteSet({})
  BY FS_EmptySet
<1>8. slot \in [RoomId -> [Dir -> Nat]] /\ zone \in [RoomId -> ZoneId \cup {0}]
  BY DEF WorldInit, NoExits
<1> QED BY <1>5, <1>6, <1>7, <1>8 DEF WorldInit, WorldTypes, Nothing

LEMMA ReadTypes ==
  ASSUME WorldTypes, NEW r \in RoomId, ReadRow(r)
  PROVE  WorldTypes'
<1>1. r \in Nat \ {0} /\ Address[r] \in Nat \ {0}
  BY WorldAssumption
<1>2. /\ HashTable(table', DOMAIN rooms')
      /\ DOMAIN rooms' \subseteq Nat \ {0} /\ IsFiniteSet(DOMAIN rooms')
      /\ \A k \in DOMAIN rooms' : rooms'[k] = 0 \/ (k \in RoomId /\ rooms'[k] = Address[k])
      /\ DOMAIN rooms \subseteq DOMAIN rooms'
  <2>1. /\ table' = With(r) /\ rooms' = Entered(r, Address[r])
        /\ HashTable(table, DOMAIN rooms) /\ IsFiniteSet(DOMAIN rooms)
        /\ DOMAIN rooms \subseteq Nat \ {0}
        /\ \A k \in DOMAIN rooms : rooms[k] = 0 \/ (k \in RoomId /\ rooms[k] = Address[k])
    BY DEF WorldTypes, ReadRow
  <2>2. /\ DOMAIN rooms' = DOMAIN rooms \cup {r}
        /\ \A k \in DOMAIN rooms' : rooms'[k] = 0 \/ (k \in RoomId /\ rooms'[k] = Address[k])
    <3> DEFINE p == Address[r]
    <3>1. rooms' = Entered(r, p) /\ (p = 0 \/ (r \in RoomId /\ p = Address[r]))
      BY <2>1
    <3> HIDE DEF p
    <3> QED BY <2>1, <3>1 DEF Entered
  <2> QED BY <1>1, <2>1, <2>2, LookedUp
<1>3. /\ slot' \in [RoomId -> [Dir -> Nat]]
      /\ zone' \in [RoomId -> ZoneId \cup {0}]
  <2>1. ReadExits(r) \in [Dir -> Nat]
    BY ExitsRead DEF WorldTypes
  <2> QED BY <2>1 DEF WorldTypes, ReadRow
<1> QED BY <1>2, <1>3 DEF WorldTypes, ReadRow, IsRoom

\* The room link_rooms() has come to, and what it finds in the slot.
LEMMA UnderCursor ==
  ASSUME WorldTypes, LinkExit
  PROVE  /\ cursor \in RoomId /\ cursor \in DOMAIN rooms /\ RoomAt(rooms[cursor]) = cursor
         /\ turn \in 0..7 /\ turn + 1 \in 1..8 /\ turn \in Dir
         /\ str2card(Column[turn + 1]) = turn
         /\ slot[cursor][turn] \in Nat
         /\ LET valor == slot[cursor][turn]
            IN  IF valor = 0
                THEN UNCHANGED <<table, rooms, slot>>
                ELSE /\ table' = With(valor)
                     /\ rooms' = Entered(valor, Found(valor))
                     /\ slot' = [slot EXCEPT ![cursor] = [@ EXCEPT ![turn] = Found(valor)]]
<1>1. cursor \in DOMAIN rooms /\ rooms[cursor] # 0 /\ turn \in 0..8 /\ turn < 8
  BY DEF WorldTypes, LinkExit
<1>2. cursor \in RoomId /\ rooms[cursor] = Address[cursor]
  BY <1>1 DEF WorldTypes
<1>3. RoomAt(rooms[cursor]) = cursor
  BY <1>2, Addresses
<1>4. turn \in 0..7 /\ turn + 1 \in 1..8 /\ turn \in Dir /\ (turn + 1) - 1 = turn
  BY <1>1 DEF Dir
<1>5. str2card(Column[turn + 1]) = turn
  BY <1>4, Columns
<1>6. slot[cursor][turn] \in Nat
  BY <1>2, <1>4 DEF WorldTypes
<1> QED BY <1>1, <1>2, <1>3, <1>4, <1>5, <1>6 DEF LinkExit, get_exit, add_exit

LEMMA LinkTypes ==
  ASSUME WorldTypes, LinkExit
  PROVE  WorldTypes'
<1> DEFINE valor == slot[cursor][turn]
<1>1. /\ cursor \in RoomId /\ cursor \in DOMAIN rooms /\ turn \in 0..7 /\ turn \in Dir
      /\ valor \in Nat
      /\ IF valor = 0
         THEN UNCHANGED <<table, rooms, slot>>
         ELSE /\ table' = With(valor)
              /\ rooms' = Entered(valor, Found(valor))
              /\ slot' = [slot EXCEPT ![cursor] = [@ EXCEPT ![turn] = Found(valor)]]
  BY UnderCursor
<1>2. /\ turn' = turn + 1 /\ turn' \in 0..8
      /\ UNCHANGED <<db, status, unread, zone, cursor, at, heard>>
  BY <1>1 DEF LinkExit
<1>3. CASE valor = 0
  BY <1>1, <1>2, <1>3 DEF WorldTypes, IsRoom
<1>4. CASE valor # 0
  <2>1. /\ HashTable(table, DOMAIN rooms) /\ IsFiniteSet(DOMAIN rooms)
        /\ DOMAIN rooms \subseteq Nat \ {0}
        /\ \A k \in DOMAIN rooms : rooms[k] = 0 \/ (k \in RoomId /\ rooms[k] = Address[k])
        /\ slot \in [RoomId -> [Dir -> Nat]]
    BY DEF WorldTypes
  <2>2. Found(valor) = 0 \/ (valor \in RoomId /\ Found(valor) = Address[valor])
    BY <2>1, FoundIs
  <2>3. Found(valor) \in Nat
    BY <2>2, Addresses
  <2>4. /\ DOMAIN rooms' = DOMAIN rooms \cup {valor}
        /\ \A k \in DOMAIN rooms' : rooms'[k] = 0 \/ (k \in RoomId /\ rooms'[k] = Address[k])
    <3> HIDE DEF valor
    <3> DEFINE p == Found(valor)
    <3>1. rooms' = Entered(valor, p) /\ (p = 0 \/ (valor \in RoomId /\ p = Address[valor]))
      BY <1>1, <1>4, <2>1, <2>2
    <3> HIDE DEF p
    <3> QED BY <2>1, <3>1 DEF Entered
  <2>5. /\ HashTable(table', DOMAIN rooms')
        /\ DOMAIN rooms' \subseteq Nat \ {0} /\ IsFiniteSet(DOMAIN rooms')
    <3>1. valor \in Nat \ {0}
      BY <1>1, <1>4
    <3> HIDE DEF valor
    <3> QED BY <1>1, <1>4, <2>1, <2>4, <3>1, LookedUp
  <2>6. slot' \in [RoomId -> [Dir -> Nat]]
    BY <1>1, <1>4, <2>1, <2>3
  <2>7. cursor' \in DOMAIN rooms'
    BY <1>1, <1>2, <2>4
  <2> QED BY <1>2, <2>4, <2>5, <2>6, <2>7 DEF WorldTypes, IsRoom
<1> QED BY <1>3, <1>4

LEMMA EnterTypes ==
  ASSUME WorldTypes, Enter
  PROVE  WorldTypes'
<1>1. Home \in RoomId /\ Home \in Nat \ {0}
  BY WorldAssumption
<1>2. /\ HashTable(table, DOMAIN rooms) /\ IsFiniteSet(DOMAIN rooms)
      /\ DOMAIN rooms \subseteq Nat \ {0}
      /\ \A k \in DOMAIN rooms : rooms[k] = 0 \/ (k \in RoomId /\ rooms[k] = Address[k])
      /\ table' = With(Home) /\ rooms' = Entered(Home, Found(Home)) /\ at' = Found(Home)
  BY DEF WorldTypes, Enter
<1>3. Found(Home) = 0 \/ Found(Home) = Address[Home]
  BY <1>2, FoundIs
<1>4. /\ DOMAIN rooms' = DOMAIN rooms \cup {Home}
      /\ \A k \in DOMAIN rooms' : rooms'[k] = 0 \/ (k \in RoomId /\ rooms'[k] = Address[k])
  <2> DEFINE p == Found(Home)
  <2>1. rooms' = Entered(Home, p) /\ (p = 0 \/ (Home \in RoomId /\ p = Address[Home]))
    BY <1>1, <1>2, <1>3
  <2> HIDE DEF p
  <2> QED BY <1>2, <2>1 DEF Entered
<1>5. /\ HashTable(table', DOMAIN rooms')
      /\ DOMAIN rooms' \subseteq Nat \ {0} /\ IsFiniteSet(DOMAIN rooms')
  BY <1>1, <1>2, <1>4, LookedUp
<1>6. at' = 0 \/ IsRoom(at')
  BY <1>1, <1>2, <1>3, Addresses
<1> QED BY <1>4, <1>5, <1>6 DEF WorldTypes, Enter, IsRoom

LEMMA WalkTypes ==
  ASSUME WorldTypes, NEW e \in Name, Walk(e)
  PROVE  WorldTypes'
<1>1. str2card(e) \in Dir
  BY Words
<1>2. CASE Stays(e)
  BY <1>2 DEF WorldTypes, Walk, Stays, Nothing, IsRoom
<1>3. CASE Moves(e)
  <2> DEFINE d    == str2card(e)
             dest == get_exit(RoomAt(at), d)
  <2>1. description(d) \in Word /\ description(reverse(d)) \in Word
        /\ Listed(RoomAt(dest)) \in SUBSET Name
    BY <1>1, Words
  <2>2. \/ /\ IsRoom(dest) /\ at' = dest /\ UNCHANGED status
           /\ heard' = [gone |-> {description(d)}, arrived |-> {description(reverse(d))},
                        list |-> Listed(RoomAt(dest))]
        \/ status' = "segfault" /\ UNCHANGED <<at, heard>>
    BY <1>3 DEF Moves
  <2> HIDE DEF d, dest
  <2>3. /\ status' \in {"load", "link", "ready", "segfault"}
        /\ at' = 0 \/ IsRoom(at')
        /\ heard' \in [gone : SUBSET Word, arrived : SUBSET Word, list : SUBSET Name]
    BY <2>1, <2>2 DEF WorldTypes
  <2> QED BY <2>3 DEF WorldTypes, Walk, IsRoom
<1> QED BY <1>2, <1>3 DEF Walk

LEMMA WorldTypesStep == WorldTypes /\ [WorldNext]_worldVars => WorldTypes'
<1> SUFFICES ASSUME WorldTypes, [WorldNext]_worldVars PROVE WorldTypes'
  OBVIOUS
<1>1. ASSUME NEW r \in RoomId, ReadRow(r) PROVE WorldTypes'
  BY <1>1, ReadTypes
<1>2. CASE BeginLinks
  <2>1. HeadFrom(table, 1) \in DOMAIN rooms \cup {0}
    <3>1. HashTable(table, DOMAIN rooms)
      BY DEF WorldTypes
    <3> QED BY <3>1, HeadIs
  <2> QED BY <1>2, <2>1 DEF WorldTypes, BeginLinks, IsRoom
<1>3. CASE LinkExit
  BY <1>3, LinkTypes
<1>4. CASE LinkNull
  BY <1>4 DEF WorldTypes, LinkNull, IsRoom
<1>5. CASE NextRoom
  <2>1. HashTable(table, DOMAIN rooms) /\ cursor \in DOMAIN rooms
    BY <1>5 DEF WorldTypes, NextRoom
  <2>2. Succ(cursor) \in DOMAIN rooms \cup {0}
    BY <2>1, NextKey
  <2> QED BY <1>5, <2>2 DEF WorldTypes, NextRoom, IsRoom
<1>6. CASE EndLinks
  BY <1>6 DEF WorldTypes, EndLinks, IsRoom
<1>7. CASE Enter
  BY <1>7, EnterTypes
<1>8. ASSUME NEW e \in Name, Walk(e) PROVE WorldTypes'
  BY <1>8, WalkTypes
<1>9. CASE UNCHANGED worldVars
  BY <1>9 DEF WorldTypes, worldVars, IsRoom
<1>10. CASE Killed
  BY <1>9, <1>10 DEF Killed
<1> QED BY <1>1, <1>2, <1>3, <1>4, <1>5, <1>6, <1>7, <1>8, <1>9, <1>10
        DEF WorldNext, make_world

LEMMA WorldTypesMean == WorldTypes => WorldTypeOK
<1> SUFFICES ASSUME WorldTypes PROVE WorldTypeOK
  OBVIOUS
<1>1. HashTable(table, DOMAIN rooms)
  BY DEF WorldTypes
<1>2. \A b \in 1..size : DOMAIN table[b] = 1..Len(table[b])
  BY <1>1, Chains DEF size
<1>3. \A b \in 1..size : /\ \A i \in DOMAIN table[b] : table[b][i] % size = b - 1
                         /\ IsInjective(table[b])
  BY <1>1, <1>2 DEF HashTable, size
<1>4. Keys(table) = DOMAIN rooms
  BY <1>1 DEF HashTable
<1> QED BY <1>3, <1>4 DEF WorldTypes, WorldTypeOK

(***************************************************************************)
(* Whatever the data base holds and however often the table grows under    *)
(* the walk, it keeps every key once, in the bucket where it is looked for *)
(* (World.tla: With, Succ).                                                *)
(***************************************************************************)
THEOREM WorldIsTyped == WorldSpec => []WorldTypeOK
<1>1. WorldSpec => []WorldTypes
  BY WorldStart, WorldTypesStep, PTL DEF WorldSpec
<1> QED BY <1>1, WorldTypesMean, PTL

-----------------------------------------------------------------------------
(***************************************************************************)
(* Where the walk of link_rooms() is.                                      *)
(***************************************************************************)
LEMMA WalkStart ==
  ASSUME WorldInit
  PROVE  WorldWalks
<1> DEFINE n == Sizes[1]
<1>1. n \in Nat \ {0} /\ n \in Range(Sizes)
  BY WorldAssumption DEF Range
<1>2. table = [b \in 1..n |-> <<>>]
  BY DEF WorldInit
<1> HIDE DEF n
<1>3. size = n
  BY <1>1, <1>2 DEF size
<1>4. rooms = <<>> /\ DOMAIN rooms = {} /\ unread = RoomId
  BY DEF WorldInit
<1>5. Cardinality({}) = 0
  BY FS_EmptySet
<1>6. Loaded
  BY <1>1, <1>3, <1>4, <1>5 DEF Loaded
<1>7. Read
  BY <1>4 DEF WorldInit, Read
<1> QED BY <1>6, <1>7 DEF WorldInit, WorldWalks, Linking, Linked, ClosedIsSafe, ListIsTrue

LEMMA WalkRead ==
  ASSUME WorldTypes, Roomy, WorldWalks, NEW r \in RoomId, ReadRow(r)
  PROVE  WorldWalks'
<1> DEFINE K == DOMAIN rooms
           N == Cardinality(K)
<1>1. /\ status = "load" /\ r \in unread /\ unread' = unread \ {r}
      /\ table' = With(r) /\ rooms' = Entered(r, Address[r])
      /\ slot' = [slot EXCEPT ![r] = ReadExits(r)]
      /\ zone' = [zone EXCEPT ![r] = IF db.zone[r] \in ZoneId THEN db.zone[r] ELSE 0]
      /\ UNCHANGED <<db, status, cursor, turn, at, heard>>
  BY DEF ReadRow
<1>2. /\ size \in Range(Sizes) /\ N <= size /\ K = RoomId \ unread
      /\ \A s \in RoomId \ unread, i \in 1..8 : slot[s][i - 1] = Raw(s, i)
  BY <1>1 DEF WorldWalks, Loaded
<1>3. /\ HashTable(table, K) /\ IsFiniteSet(K) /\ K \subseteq Nat \ {0}
      /\ db \in Maps /\ unread \subseteq RoomId /\ slot \in [RoomId -> [Dir -> Nat]]
      /\ zone \in [RoomId -> ZoneId \cup {0}] /\ r \in Nat \ {0}
  BY WorldAssumption DEF WorldTypes
<1>4. r \notin K /\ K \cup {r} \in SUBSET Targets /\ K \cup {r} = RoomId \ unread'
  BY <1>1, <1>2, <1>3, FiniteTargets
<1>5. N \in Nat /\ Cardinality(K \cup {r}) = N + 1 /\ N + 1 <= Cardinality(Targets)
  <2>1. Cardinality(K \cup {r}) <= Cardinality(Targets)
    BY <1>3, <1>4, FiniteTargets
  <2>2. N \in Nat /\ Cardinality(K \cup {r}) = N + 1
    BY <1>3, <1>4, FS_AddElement, FS_CardinalityType
  <2> QED BY <2>1, <2>2
<1>6. DOMAIN rooms' = K \cup {r} /\ rooms'[r] = Address[r]
      /\ \A k \in K : rooms'[k] = rooms[k]
  BY <1>1, <1>4 DEF Entered
<1>7. Len(Grown(table)) \in Range(Sizes) /\ N + 1 <= Len(Grown(table))
  <2>1. \A i \in DOMAIN Sizes : Sizes[i] \in Range(Sizes) /\ Sizes[i] \in Nat
    BY WorldAssumption DEF Range
  <2>2. PICK j \in DOMAIN Sizes : Sizes[j] > Cardinality(Targets)
    BY DEF Roomy
  <2>3. Cardinality(Targets) \in Nat
    BY <1>3, FiniteTargets
  <2>4. ~(\A i \in DOMAIN Sizes : Sizes[i] < N + 1)
    BY <1>5, <2>1, <2>2, <2>3
  <2>5. \/ /\ Grown(table) = table
           /\ N + 1 <= size \/ \A i \in DOMAIN Sizes : Sizes[i] < N + 1
        \/ \E i \in DOMAIN Sizes : Len(Grown(table)) = Sizes[i] /\ Sizes[i] >= N + 1
    BY <1>3, GrownIs
  <2>6. CASE Grown(table) = table /\ N + 1 <= size
    BY <1>2, <2>6 DEF size
  <2>7. CASE \E i \in DOMAIN Sizes : Len(Grown(table)) = Sizes[i] /\ Sizes[i] >= N + 1
    BY <1>5, <2>1, <2>7
  <2> QED BY <2>4, <2>5, <2>6, <2>7
<1>8. size' = Len(Grown(table))
  BY <1>1, <1>3, LookedUp DEF size
<1>9. /\ ReadExits(r) \in [Dir -> Nat]
      /\ \A i \in 1..8 : ReadExits(r)[i - 1] = Raw(r, i)
  BY <1>3, ExitsRead
<1>10. Loaded'
  <2>1. size' \in Range(Sizes) /\ Cardinality(DOMAIN rooms') <= size'
    BY <1>5, <1>6, <1>7, <1>8
  <2>2. DOMAIN rooms' = RoomId \ unread'
    BY <1>4, <1>6
  <2>3. ASSUME NEW s \in RoomId \ unread', NEW i \in 1..8
        PROVE  slot'[s][i - 1] = Raw(s, i)
    BY <1>1, <1>2, <1>3, <1>9
  <2>4. \A s, i : Raw(s, i)' = Raw(s, i)
    BY <1>1 DEF Raw
  <2> QED BY <2>1, <2>2, <2>3, <2>4 DEF Loaded
<1>11. Read'
  <2>1. /\ \A s \in RoomId \ unread :
              /\ s \in K /\ rooms[s] = Address[s]
              /\ zone[s] = IF db.zone[s] \in ZoneId THEN db.zone[s] ELSE 0
        /\ at = 0 /\ heard = Nothing
    BY <1>1 DEF WorldWalks, Read
  <2>2. \A s \in RoomId \ unread' :
           /\ s \in DOMAIN rooms' /\ rooms'[s] = Address[s]
           /\ zone'[s] = IF db.zone[s] \in ZoneId THEN db.zone[s] ELSE 0
    BY <1>1, <1>3, <1>6, <2>1
  <2> QED BY <1>1, <2>1, <2>2 DEF Read
<1>12. Linking' /\ Linked' /\ ClosedIsSafe' /\ ListIsTrue'
  <2>1. status' = "load" /\ heard' = Nothing
    BY <1>1 DEF WorldWalks, Read
  <2> QED BY <2>1 DEF Linking, Linked, ClosedIsSafe, ListIsTrue, Nothing
<1> QED BY <1>10, <1>11, <1>12 DEF WorldWalks

LEMMA WalkBegin ==
  ASSUME WorldTypes, Roomy, WorldWalks, BeginLinks
  PROVE  WorldWalks'
<1>1. /\ status = "load" /\ unread = {} /\ status' = "link" /\ turn' = 0
      /\ cursor' = HeadFrom(table, 1)
      /\ UNCHANGED <<db, unread, table, rooms, slot, zone, at, heard>>
  BY DEF BeginLinks
<1>2. /\ size \in Range(Sizes) /\ Cardinality(DOMAIN rooms) <= size
      /\ DOMAIN rooms = RoomId
      /\ \A r \in RoomId, i \in 1..8 : slot[r][i - 1] = Raw(r, i)
  BY <1>1 DEF WorldWalks, Loaded
<1>3. HashTable(table, RoomId) /\ db \in Maps
  BY <1>2 DEF WorldTypes
<1>4. size > Cardinality(Targets)
  <2>1. Cardinality(Targets) \in Nat /\ Cardinality(RoomId) \in Nat
    BY <1>3, FiniteTargets
  <2>2. PICK i \in DOMAIN Sizes : size = Sizes[i]
    BY <1>2 DEF Range
  <2>3. size \in Nat /\ size \notin Cardinality(RoomId)..Cardinality(Targets)
    BY <2>2, WorldAssumption DEF Roomy
  <2> QED BY <1>2, <2>1, <2>3
<1>5. RoomId \subseteq Targets
  BY <1>3, FiniteTargets
<1>6. \/ cursor' = 0 /\ RoomId = {}
      \/ cursor' \in RoomId /\ \A k \in RoomId : ~Before(table, k, cursor')
  <2> DEFINE h == HeadFrom(table, 1)
  <2>1. \A k \in RoomId : Bucket(table, k) \in Nat /\ Bucket(table, k) >= 1
    <3> SUFFICES ASSUME NEW k \in RoomId
                 PROVE  Bucket(table, k) \in Nat /\ Bucket(table, k) >= 1
      OBVIOUS
    <3>1. Bucket(table, k) \in 1..Len(table)
      BY <1>3, Places
    <3> QED BY <3>1
  <2>2. \/ h = 0 /\ \A k \in RoomId : Bucket(table, k) < 1
        \/ /\ h \in RoomId /\ Bucket(table, h) >= 1
           /\ \A k \in RoomId : Bucket(table, k) >= 1 => k = h \/ Before(table, h, k)
    <3>1. 1 \in Nat \ {0}
      OBVIOUS
    <3> QED BY <1>3, <3>1, HeadIs
  <2> HIDE DEF h
  <2>3. CASE h = 0 /\ \A k \in RoomId : Bucket(table, k) < 1
    BY <1>1, <2>1, <2>3 DEF h
  <2>4. CASE h \in RoomId /\ \A k \in RoomId : k = h \/ Before(table, h, k)
    <3>1. \A k \in RoomId : ~Before(table, k, h)
      BY <1>3, <2>4, TotalOrder
    <3> QED BY <1>1, <2>4, <3>1 DEF h
  <2> QED BY <2>1, <2>2, <2>3, <2>4
<1>7. Linking'
  <2>1. ASSUME NEW r \in RoomId, NEW i \in 1..8
        PROVE  ~Past(r, i)' /\ Raw(r, i)' = Raw(r, i)
    <3>1. cursor' # 0
      BY <1>6, WorldAssumption
    <3>2. ~Before(table', r, cursor') /\ ~(i <= turn')
      BY <1>1, <1>6
    <3> QED BY <1>1, <3>1, <3>2 DEF Past, Raw
  <2>2. size' = size /\ Targets' = Targets
    BY <1>1 DEF size, Targets
  <2> QED BY <1>1, <1>2, <1>4, <1>5, <2>1, <2>2 DEF Linking
<1>8. Read'
  BY <1>1 DEF WorldWalks, Read
<1> QED BY <1>1, <1>7, <1>8
        DEF WorldWalks, Loaded, Linked, ClosedIsSafe, ListIsTrue, Closed, Leads, Read, Nothing

LEMMA LeadsIs ==
  ASSUME NEW r \in RoomId, NEW i \in 1..8
  PROVE  /\ Leads(r, Column[i]) = IF Raw(r, i) \in RoomId THEN Address[Raw(r, i)] ELSE 0
         /\ Raw(r, i) = 0 => Leads(r, Column[i]) = 0
<1>1. 0 \notin RoomId
  BY WorldAssumption
<1> QED BY <1>1 DEF Leads, Raw

LEMMA WalkLink ==
  ASSUME WorldTypes, Roomy, WorldWalks, LinkExit
  PROVE  WorldWalks'
<1> DEFINE valor == slot[cursor][turn]
           new == Found(valor)
           K == DOMAIN rooms
<1>1. /\ cursor \in RoomId /\ cursor \in K /\ cursor # 0
      /\ turn \in 0..7 /\ turn + 1 \in 1..8 /\ turn \in Dir
      /\ valor \in Nat
      /\ IF valor = 0
         THEN UNCHANGED <<table, rooms, slot>>
         ELSE /\ table' = With(valor)
              /\ rooms' = Entered(valor, new)
              /\ slot' = [slot EXCEPT ![cursor] = [@ EXCEPT ![turn] = new]]
  <2>1. cursor # 0
    BY DEF LinkExit
  <2> QED BY <2>1, UnderCursor
<1>2. /\ status = "link" /\ status' = "link" /\ turn' = turn + 1
      /\ UNCHANGED <<db, status, unread, zone, cursor, at, heard>>
  BY DEF LinkExit
<1>3. /\ size > Cardinality(Targets) /\ K \subseteq Targets
      /\ \A r \in RoomId, i \in 1..8 :
            slot[r][i - 1] = IF Past(r, i) THEN Leads(r, Column[i]) ELSE Raw(r, i)
  BY <1>2 DEF WorldWalks, Linking
<1>4. /\ HashTable(table, K) /\ IsFiniteSet(K) /\ K \subseteq Nat \ {0} /\ db \in Maps
      /\ \A k \in K : rooms[k] = 0 \/ (k \in RoomId /\ rooms[k] = Address[k])
      /\ slot \in [RoomId -> [Dir -> Nat]]
  BY DEF WorldTypes
<1>5. /\ unread = {} /\ \A r \in RoomId : r \in K /\ rooms[r] = Address[r]
      /\ at = 0 /\ heard = Nothing
  BY <1>2 DEF WorldWalks, Read
<1>6. ~Before(table, cursor, cursor)
  BY <1>1, <1>4, TotalOrder
<1>7. ~Past(cursor, turn + 1) /\ valor = Raw(cursor, turn + 1)
  <2>1. ~Past(cursor, turn + 1)
    BY <1>1, <1>6 DEF Past
  <2>2. (turn + 1) - 1 = turn
    BY <1>1
  <2> QED BY <1>1, <1>3, <2>1, <2>2
<1>8. valor # 0 => valor \in Targets
  BY <1>1, <1>4, <1>7, FiniteTargets
<1>9. new = IF valor \in RoomId THEN Address[valor] ELSE 0
  <2>1. CASE valor \in RoomId
    BY <1>5, <2>1 DEF Found
  <2>2. CASE valor \notin RoomId
    BY <1>4, <2>2 DEF Found
  <2> QED BY <2>1, <2>2
<1>10. (IF valor = 0 THEN 0 ELSE new) = Leads(cursor, Column[turn + 1])
  <2>1. /\ Leads(cursor, Column[turn + 1]) =
             IF Raw(cursor, turn + 1) \in RoomId THEN Address[Raw(cursor, turn + 1)] ELSE 0
        /\ Raw(cursor, turn + 1) = 0 => Leads(cursor, Column[turn + 1]) = 0
    BY <1>1, LeadsIs
  <2> HIDE DEF valor, new
  <2> QED BY <1>7, <1>9, <2>1
<1> HIDE DEF valor, new
<1>11. /\ size' = size /\ K \subseteq DOMAIN rooms' /\ DOMAIN rooms' \subseteq Targets
       /\ \A k \in K : rooms'[k] = rooms[k] \/ (k = valor /\ valor # 0 /\ rooms'[k] = new)
       /\ \A i, j \in K : Before(table', i, j) <=> Before(table, i, j)
  <2>1. CASE valor = 0
    BY <1>1, <1>3, <2>1 DEF size
  <2>2. CASE valor # 0
    <3>1. Cardinality(K) + 1 <= size
      <4>1. Cardinality(K) \in Nat /\ Cardinality(Targets) \in Nat
            /\ Cardinality(K) <= Cardinality(Targets)
        BY <1>3, <1>4, FiniteTargets
      <4>2. size \in Nat
        BY <1>4, Chains DEF size
      <4> QED BY <1>3, <4>1, <4>2
    <3>2. table' = With(valor) /\ rooms' = Entered(valor, new) /\ valor \in Nat \ {0}
      BY <1>1, <2>2
    <3>3. /\ Len(With(valor)) = size
          /\ \A i, j \in K : Before(With(valor), i, j) <=> Before(table, i, j)
      BY <1>4, <3>1, <3>2, LookedUp
    <3>4. DOMAIN rooms' = K \cup {valor}
          /\ \A k \in K : rooms'[k] = IF k = valor THEN new ELSE rooms[k]
      BY <3>2 DEF Entered
    <3> QED BY <1>3, <1>8, <2>2, <3>2, <3>3, <3>4 DEF size
  <2> QED BY <2>1, <2>2
<1>12. \A r \in RoomId, i \in 1..8 :
          /\ Past(r, i)' <=> Past(r, i) \/ (r = cursor /\ i = turn + 1)
          /\ Raw(r, i)' = Raw(r, i) /\ Leads(r, Column[i])' = Leads(r, Column[i])
  <2> SUFFICES ASSUME NEW r \in RoomId, NEW i \in 1..8
               PROVE  /\ Past(r, i)' <=> Past(r, i) \/ (r = cursor /\ i = turn + 1)
                      /\ Raw(r, i)' = Raw(r, i)
                      /\ Leads(r, Column[i])' = Leads(r, Column[i])
    OBVIOUS
  <2>1. Before(table', r, cursor) <=> Before(table, r, cursor)
    BY <1>1, <1>5, <1>11
  <2>2. i <= turn + 1 <=> i <= turn \/ i = turn + 1
    BY <1>1
  <2>3. Past(r, i)' <=> \/ cursor = 0 \/ Before(table', r, cursor)
                        \/ r = cursor /\ i <= turn + 1
    BY <1>2 DEF Past
  <2>4. Past(r, i) <=> \/ cursor = 0 \/ Before(table, r, cursor)
                       \/ r = cursor /\ i <= turn
    BY DEF Past
  <2> QED BY <1>2, <2>1, <2>2, <2>3, <2>4 DEF Raw, Leads
<1>13. \A r \in RoomId, i \in 1..8 :
          slot'[r][i - 1] = IF r = cursor /\ i = turn + 1 THEN Leads(r, Column[i])
                            ELSE slot[r][i - 1]
  <2> SUFFICES ASSUME NEW r \in RoomId, NEW i \in 1..8
               PROVE  slot'[r][i - 1] = IF r = cursor /\ i = turn + 1 THEN Leads(r, Column[i])
                                        ELSE slot[r][i - 1]
    OBVIOUS
  <2>1. i - 1 \in Dir /\ (i - 1 = turn <=> i = turn + 1)
    BY <1>1 DEF Dir
  <2>2. CASE valor = 0
    <3>1. slot[cursor][turn] = 0
      BY <2>2 DEF valor
    <3> QED BY <1>1, <1>10, <2>1, <2>2, <3>1
  <2>3. CASE valor # 0
    <3>1. new = Leads(cursor, Column[turn + 1])
      BY <1>10, <2>3
    <3>2. slot' = [slot EXCEPT ![cursor] = [slot[cursor] EXCEPT ![turn] = new]]
      BY <1>1, <2>3
    <3>3. slot[cursor] \in [Dir -> Nat]
      BY <1>1, <1>4
    <3>4. slot'[r] = IF r = cursor THEN [slot[cursor] EXCEPT ![turn] = new] ELSE slot[r]
      BY <1>4, <3>2
    <3> QED BY <2>1, <3>1, <3>3, <3>4
  <2> QED BY <2>2, <2>3
<1>14. Linking'
  <2>1. \A r \in RoomId, i \in 1..8 :
           slot'[r][i - 1] = IF Past(r, i)' THEN Leads(r, Column[i])' ELSE Raw(r, i)'
    BY <1>3, <1>12, <1>13
  <2>2. Targets' = Targets
    BY <1>2 DEF Targets
  <2> QED BY <1>3, <1>11, <2>1, <2>2 DEF Linking
<1>15. Read'
  <2>1. \A r \in RoomId : r \in DOMAIN rooms' /\ rooms'[r] = Address[r]
    BY <1>5, <1>9, <1>11
  <2>2. \A r \in RoomId \ unread' :
           zone'[r] = IF db'.zone[r] \in ZoneId THEN db'.zone[r] ELSE 0
    BY <1>2 DEF WorldWalks, Read
  <2> QED BY <1>2, <1>5, <2>1, <2>2 DEF Read, Nothing
<1> QED BY <1>2, <1>5, <1>14, <1>15
        DEF WorldWalks, Loaded, Linked, ClosedIsSafe, ListIsTrue, Nothing

\* A closed data base makes link_rooms() look up rooms only.
LEMMA ClosedTargets ==
  ASSUME WorldTypes, Closed
  PROVE  Targets = RoomId
<1>1. \A r \in RoomId, c \in Name : db.exit[r][c] \in RoomId \cup {0}
  BY DEF Closed
<1>2. 0 \notin RoomId
  BY WorldAssumption
<1> QED BY <1>1, <1>2 DEF Targets

LEMMA WalkNull ==
  ASSUME WorldTypes, Roomy, WorldWalks, LinkNull
  PROVE  WorldWalks'
<1>1. /\ status = "link" /\ cursor # 0 /\ rooms[cursor] = 0 /\ status' = "segfault"
      /\ UNCHANGED <<db, unread, table, rooms, slot, zone, cursor, turn, at, heard>>
  BY DEF LinkNull
<1>2. ~Closed
  <2> SUFFICES ASSUME Closed PROVE FALSE
    OBVIOUS
  <2>1. cursor \in Targets
    BY <1>1 DEF WorldWalks, Linking, WorldTypes
  <2>2. cursor \in RoomId
    BY <2>1, ClosedTargets
  <2>3. rooms[cursor] = Address[cursor]
    BY <1>1, <2>2 DEF WorldWalks, Read
  <2> QED BY <1>1, <2>2, <2>3, Addresses
<1> QED BY <1>1, <1>2 DEF WorldWalks, Loaded, Linking, Read, Linked, ClosedIsSafe,
                          ListIsTrue, Closed, Nothing

LEMMA WalkNext ==
  ASSUME WorldTypes, Roomy, WorldWalks, NextRoom
  PROVE  WorldWalks'
<1> DEFINE K == DOMAIN rooms
<1>1. /\ status = "link" /\ cursor # 0 /\ turn = 8 /\ cursor' = Succ(cursor) /\ turn' = 0
      /\ UNCHANGED <<db, status, unread, table, rooms, slot, zone, at, heard>>
  BY DEF NextRoom
<1>2. HashTable(table, K) /\ cursor \in K /\ 0 \notin K
  BY <1>1 DEF WorldTypes
<1>3. /\ unread = {} /\ RoomId \subseteq K /\ at = 0 /\ heard = Nothing
  BY <1>1 DEF WorldWalks, Read
<1>4. ASSUME NEW r \in RoomId, NEW i \in 1..8
      PROVE  Past(r, i)' <=> Past(r, i)
  <2>1. Past(r, i) <=> r = cursor \/ Before(table, r, cursor)
    BY <1>1 DEF Past
  <2>2. Past(r, i)' <=> cursor' = 0 \/ Before(table, r, cursor')
    BY <1>1 DEF Past
  <2> DEFINE h == Succ(cursor)
  <2>3. \/ h = 0 /\ \A j \in K : j = cursor \/ Before(table, j, cursor)
        \/ /\ h \in K
           /\ \A j \in K : Before(table, j, h) <=> j = cursor \/ Before(table, j, cursor)
    BY <1>2, NextKey
  <2>4. cursor' = h /\ r \in K
    BY <1>1, <1>3
  <2> HIDE DEF h
  <2> QED BY <1>2, <2>1, <2>2, <2>3, <2>4
<1>5. Linking'
  <2>1. /\ size > Cardinality(Targets) /\ K \subseteq Targets
        /\ \A r \in RoomId, i \in 1..8 :
              slot[r][i - 1] = IF Past(r, i) THEN Leads(r, Column[i]) ELSE Raw(r, i)
    BY <1>1 DEF WorldWalks, Linking
  <2>2. size' = size /\ Targets' = Targets
    BY <1>1 DEF size, Targets
  <2>3. \A r \in RoomId, i \in 1..8 : Leads(r, Column[i])' = Leads(r, Column[i])
                                      /\ Raw(r, i)' = Raw(r, i)
    BY <1>1 DEF Leads, Raw
  <2>4. \A r \in RoomId, i \in 1..8 :
           slot'[r][i - 1] = IF Past(r, i)' THEN Leads(r, Column[i])' ELSE Raw(r, i)'
    BY <1>1, <1>4, <2>1, <2>3
  <2> QED BY <1>1, <2>1, <2>2, <2>4 DEF Linking
<1>6. Read'
  BY <1>1, <1>3 DEF WorldWalks, Read, Nothing
<1> QED BY <1>1, <1>3, <1>5, <1>6
        DEF WorldWalks, Loaded, Linked, ClosedIsSafe, ListIsTrue, Nothing

LEMMA WalkEnd ==
  ASSUME WorldTypes, Roomy, WorldWalks, EndLinks
  PROVE  WorldWalks'
<1>1. /\ status = "link" /\ cursor = 0 /\ status' = "ready"
      /\ UNCHANGED <<db, unread, table, rooms, slot, zone, cursor, turn, at, heard>>
  BY DEF EndLinks
<1>2. unread = {} /\ at = 0 /\ heard = Nothing
  BY <1>1 DEF WorldWalks, Read
<1>3. Linked'
  <2>1. \A r \in RoomId, i \in 1..8 : slot[r][i - 1] = Leads(r, Column[i])
    BY <1>1 DEF WorldWalks, Linking, Past
  <2>2. ASSUME NEW r \in RoomId, NEW c \in Name
        PROVE  slot[r][Compass[c]] = Leads(r, c)
    <3>1. PICK i \in 1..8 : c = Column[i]
      BY Columns
    <3>2. Compass[c] = i - 1
      BY <3>1, Columns
    <3> QED BY <2>1, <3>1, <3>2
  <2>3. \A r, c : Leads(r, c)' = Leads(r, c)
    BY <1>1 DEF Leads
  <2> QED BY <1>1, <2>2, <2>3 DEF Linked
<1>4. Read'
  BY <1>1, <1>2 DEF WorldWalks, Read, Nothing
<1> QED BY <1>1, <1>2, <1>3, <1>4
        DEF WorldWalks, Loaded, Linking, ClosedIsSafe, ListIsTrue, Nothing

(***************************************************************************)
(* The game: valid_exits() packs the slots into a byte and glance()        *)
(* unpacks it.                                                             *)
(***************************************************************************)
LEMMA ListIs ==
  ASSUME WorldTypes, NEW r \in RoomId
  PROVE  Listed(r) = {c \in Name : slot[r][Compass[c]] # 0}
<1> DEFINE bit(d) == IF slot[r][d] > 0 THEN 1 ELSE 0
           v == valid_exits(r)
<1>1. \A d \in Dir : bit(d) \in {0, 1} /\ (bit(d) = 1 <=> slot[r][d] # 0)
  BY DEF WorldTypes
<1>2. \A d \in 0..7 : bit(d) \in {0, 1}
  BY <1>1 DEF Dir
<1>3. v = 128 * bit(0) + 64 * bit(1) + 32 * bit(2) + 16 * bit(3)
          + 8 * bit(4) + 4 * bit(5) + 2 * bit(6) + bit(7)
  BY DEF valid_exits
<1>4. \A j \in 1..8 : (v \div 2^(8 - j)) % 2 = 1 <=> bit(j - 1) = 1
  <2>1. /\ (v \div 128) % 2 = bit(0) /\ (v \div 64) % 2 = bit(1)
        /\ (v \div 32) % 2 = bit(2) /\ (v \div 16) % 2 = bit(3)
        /\ (v \div 8) % 2 = bit(4) /\ (v \div 4) % 2 = bit(5)
        /\ (v \div 2) % 2 = bit(6) /\ (v \div 1) % 2 = bit(7)
    <3> HIDE DEF bit, v
    <3>1. /\ bit(0) \in {0, 1} /\ bit(1) \in {0, 1} /\ bit(2) \in {0, 1} /\ bit(3) \in {0, 1}
          /\ bit(4) \in {0, 1} /\ bit(5) \in {0, 1} /\ bit(6) \in {0, 1} /\ bit(7) \in {0, 1}
      BY <1>2
    <3>2. (v \div 128) % 2 = bit(0)
      BY <1>3, <3>1
    <3>3. (v \div 64) % 2 = bit(1)
      BY <1>3, <3>1
    <3>4. (v \div 32) % 2 = bit(2)
      BY <1>3, <3>1
    <3>5. (v \div 16) % 2 = bit(3)
      BY <1>3, <3>1
    <3>6. (v \div 8) % 2 = bit(4)
      BY <1>3, <3>1
    <3>7. (v \div 4) % 2 = bit(5)
      BY <1>3, <3>1
    <3>8. (v \div 2) % 2 = bit(6)
      BY <1>3, <3>1
    <3>9. (v \div 1) % 2 = bit(7)
      BY <1>3, <3>1
    <3> QED BY <3>2, <3>3, <3>4, <3>5, <3>6, <3>7, <3>8, <3>9
  <2> DEFINE weight(j) == 2^(8 - j)
  <2>2. /\ weight(1) = 128 /\ weight(2) = 64 /\ weight(3) = 32 /\ weight(4) = 16
        /\ weight(5) = 8 /\ weight(6) = 4 /\ weight(7) = 2 /\ weight(8) = 1
    OBVIOUS
  <2> HIDE DEF bit, v, weight
  <2>3. \A j \in 1..8 : (v \div weight(j)) % 2 = bit(j - 1)
    BY <2>1, <2>2
  <2>4. \A j \in 1..8 : (v \div weight(j)) % 2 = 1 <=> bit(j - 1) = 1
    BY <2>3
  <2> QED BY <2>4 DEF weight
<1>5. \A j \in 1..8 : (v \div 2^(8 - j)) % 2 = 1 <=> slot[r][Compass[Column[j]]] # 0
  <2> SUFFICES ASSUME NEW j \in 1..8
               PROVE  (v \div 2^(8 - j)) % 2 = 1 <=> slot[r][Compass[Column[j]]] # 0
    OBVIOUS
  <2>1. j - 1 \in Dir /\ Compass[Column[j]] = j - 1
    BY Columns
  <2>2. (v \div 2^(8 - j)) % 2 = 1 <=> bit(j - 1) = 1
    BY <1>4
  <2>3. bit(j - 1) = 1 <=> slot[r][j - 1] # 0
    BY <1>1, <2>1
  <2> QED BY <2>1, <2>2, <2>3
<1>6. Listed(r) = {Column[i] : i \in {j \in 1..8 : (v \div 2^(8 - j)) % 2 = 1}}
  BY DEF Listed
<1> HIDE DEF v
<1>7. Listed(r) = {Column[i] : i \in {j \in 1..8 : slot[r][Compass[Column[j]]] # 0}}
  BY <1>5, <1>6
<1> QED BY <1>7, Columns

LEMMA WalkEnter ==
  ASSUME WorldTypes, Roomy, WorldWalks, Enter
  PROVE  WorldWalks'
<1>1. /\ status = "ready" /\ at = 0 /\ rooms' = Entered(Home, Found(Home))
      /\ at' = Found(Home)
      /\ UNCHANGED <<db, status, unread, slot, zone, cursor, turn, heard>>
  BY DEF Enter
<1>2. /\ unread = {} /\ heard = Nothing
      /\ \A r \in RoomId : r \in DOMAIN rooms /\ rooms[r] = Address[r]
  BY <1>1 DEF WorldWalks, Read
<1>3. Home \in RoomId
  BY WorldAssumption
<1>4. \A r \in RoomId : r \in DOMAIN rooms' /\ rooms'[r] = Address[r]
  <2>1. rooms' = [j \in DOMAIN rooms |-> rooms[j]]
    BY <1>1, <1>2, <1>3 DEF Entered, Found
  <2> QED BY <1>2, <2>1
<1> QED BY <1>1, <1>2, <1>4
        DEF WorldWalks, Loaded, Linking, Read, Linked, ClosedIsSafe, ListIsTrue, Leads,
            Closed, Nothing

\* What a player finds who walks: the slot is the column, as a pointer.
LEMMA WalkFinds ==
  ASSUME WorldTypes, WorldWalks, NEW e \in Name, Walk(e)
  PROVE  /\ status = "ready" /\ RoomAt(at) \in RoomId /\ Address[RoomAt(at)] = at
         /\ get_exit(RoomAt(at), str2card(e)) = Leads(RoomAt(at), e)
         /\ has_exit(RoomAt(at), str2card(e)) <=> Leads(RoomAt(at), e) # 0
         /\ Leads(RoomAt(at), e) # 0 => IsRoom(Leads(RoomAt(at), e))
<1>1. status = "ready" /\ at # 0 /\ IsRoom(at)
  BY DEF Walk, WorldTypes
<1> DEFINE r == RoomAt(at)
           p == Leads(r, e)
<1>2. r \in RoomId /\ Address[r] = at
  BY <1>1, IsRoomAt
<1> HIDE DEF r
<1>3. str2card(e) = Compass[e] /\ str2card(e) \in Dir
  BY Columns
<1>4. slot[r][str2card(e)] = p /\ p \in Nat
  <2>1. slot[r][Compass[e]] = p
    BY <1>1, <1>2 DEF WorldWalks, Linked
  <2>2. slot[r][str2card(e)] \in Nat
    BY <1>2, <1>3 DEF WorldTypes
  <2> QED BY <1>3, <2>1, <2>2
<1>5. p # 0 => IsRoom(p)
  BY Addresses DEF Leads
<1> HIDE DEF p
<1>6. /\ get_exit(r, str2card(e)) = p
      /\ has_exit(r, str2card(e)) <=> p # 0
  BY <1>4 DEF get_exit, has_exit
<1> QED BY <1>1, <1>2, <1>5, <1>6 DEF r, p

LEMMA WalkWalk ==
  ASSUME WorldTypes, Roomy, WorldWalks, NEW e \in Name, Walk(e)
  PROVE  WorldWalks'
<1> DEFINE r == RoomAt(at)
           p == Leads(r, e)
<1>1. /\ status = "ready" /\ r \in RoomId /\ Address[r] = at
      /\ get_exit(r, str2card(e)) = p
      /\ has_exit(r, str2card(e)) <=> p # 0
      /\ p # 0 => IsRoom(p)
  BY WalkFinds
<1>2. at # 0 /\ UNCHANGED <<db, unread, table, rooms, slot, zone, cursor, turn>>
  BY DEF Walk
<1>3. unread = {}
  BY <1>1 DEF WorldWalks, Read
<1> HIDE DEF r, p
<1>4. \A s, c : Leads(s, c)' = Leads(s, c)
  BY <1>2 DEF Leads
<1>5. Closed' = Closed
  BY <1>2 DEF Closed
<1>6. CASE Stays(e)
  <2>1. heard' = Nothing /\ UNCHANGED <<status, at>>
    BY <1>6 DEF Stays
  <2> QED BY <1>1, <1>2, <1>3, <1>4, <1>5, <2>1
          DEF WorldWalks, Loaded, Linking, Read, Linked, ClosedIsSafe, ListIsTrue, Nothing
<1>7. CASE Moves(e)
  <2>1. /\ p # 0 /\ IsRoom(p)
        /\ \/ /\ IsRoom(p) /\ Glances(RoomAt(p)) /\ at' = p /\ UNCHANGED status
              /\ heard'.list = Listed(RoomAt(p))
           \/ /\ ~(IsRoom(p) /\ Glances(RoomAt(p)))
              /\ status' = "segfault" /\ UNCHANGED <<at, heard>>
    BY <1>1, <1>7 DEF Moves, r
  <2>2. RoomAt(p) \in RoomId /\ Address[RoomAt(p)] = p /\ p \in Nat \ {0}
    BY <2>1, IsRoomAt
  <2>3. CASE ~(IsRoom(p) /\ Glances(RoomAt(p)))
    <3>1. status' = "segfault" /\ UNCHANGED <<at, heard>> /\ ~Glances(RoomAt(p))
      BY <2>1, <2>3
    <3>2. ~Closed
      <4> SUFFICES ASSUME Closed PROVE FALSE
        OBVIOUS
      <4>1. db.zone[RoomAt(p)] \in ZoneId
        BY <2>2 DEF Closed
      <4>2. zone[RoomAt(p)] = db.zone[RoomAt(p)]
        BY <1>3, <2>2, <4>1 DEF WorldWalks, Read
      <4>3. db.zone[RoomAt(p)] # 0
        <5>1. db \in Maps
          BY DEF WorldTypes
        <5>2. db.zone \in [RoomId -> Nat \ {0}]
          BY <5>1, WorldAssumption
        <5> QED BY <2>2, <5>2
      <4> QED BY <3>1, <4>2, <4>3 DEF Glances
    <3> QED BY <1>1, <1>2, <1>3, <1>4, <1>5, <3>1, <3>2
            DEF WorldWalks, Loaded, Linking, Read, Linked, ClosedIsSafe, ListIsTrue, Nothing
  <2>4. CASE IsRoom(p) /\ Glances(RoomAt(p))
    <3>1. at' = p /\ status' = "ready" /\ heard'.list = Listed(RoomAt(p))
      BY <1>1, <2>1, <2>4
    <3>2. Listed(RoomAt(p)) = {c \in Name : slot[RoomAt(p)][Compass[c]] # 0}
      BY <2>2, ListIs
    <3>3. \A c \in Name : slot[RoomAt(p)][Compass[c]] = Leads(RoomAt(p), c)
      BY <1>1, <2>2 DEF WorldWalks, Linked
    <3>4. ListIsTrue'
      <4>1. heard'.list = {c \in Name : Leads(RoomAt(at'), c) # 0}
        BY <3>1, <3>2, <3>3
      <4>2. RoomAt(at)' = RoomAt(at')
        BY DEF RoomAt
      <4> QED BY <1>4, <4>1, <4>2 DEF ListIsTrue, RoomAt
    <3>5. at' # 0
      BY <2>2, <3>1
    <3> QED BY <1>1, <1>2, <1>3, <1>4, <1>5, <3>1, <3>4, <3>5
            DEF WorldWalks, Loaded, Linking, Read, Linked, ClosedIsSafe, Nothing
  <2> QED BY <2>3, <2>4
<1> QED BY <1>6, <1>7 DEF Walk

-----------------------------------------------------------------------------
(***************************************************************************)
(* The theorems.  Roomy speaks of the data base only, which no action      *)
(* changes.                                                                *)
(***************************************************************************)
RoomyInv == WorldTypes /\ Roomy /\ WorldWalks

LEMMA RoomyStart == WorldInit /\ Roomy => RoomyInv
BY WorldStart, WalkStart DEF RoomyInv

LEMMA RoomyStays ==
  ASSUME WorldTypes, Roomy, UNCHANGED db
  PROVE  Roomy'
BY DEF Roomy, Targets

LEMMA WalksStep ==
  ASSUME WorldTypes, Roomy, WorldWalks, [WorldNext]_worldVars
  PROVE  WorldWalks'
<1>1. ASSUME NEW r \in RoomId, ReadRow(r) PROVE WorldWalks'
  BY <1>1, WalkRead
<1>2. CASE BeginLinks
  BY <1>2, WalkBegin
<1>3. CASE LinkExit
  BY <1>3, WalkLink
<1>4. CASE LinkNull
  BY <1>4, WalkNull
<1>5. CASE NextRoom
  BY <1>5, WalkNext
<1>6. CASE EndLinks
  BY <1>6, WalkEnd
<1>7. CASE Enter
  BY <1>7, WalkEnter
<1>8. ASSUME NEW e \in Name, Walk(e) PROVE WorldWalks'
  BY <1>8, WalkWalk
<1>9. CASE UNCHANGED worldVars
  <2>1. \A r, c : Leads(r, c)' = Leads(r, c)
    BY <1>9 DEF Leads, worldVars
  <2>2. \A r, i : Raw(r, i)' = Raw(r, i) /\ (Past(r, i)' <=> Past(r, i))
    BY <1>9 DEF Raw, Past, worldVars
  <2>3. Targets' = Targets /\ Closed' = Closed /\ size' = size
    BY <1>9 DEF Targets, Closed, size, worldVars
  <2>4. /\ status' = status /\ unread' = unread /\ rooms' = rooms /\ slot' = slot
        /\ zone' = zone /\ at' = at /\ heard' = heard /\ db' = db
    BY <1>9 DEF worldVars
  <2>5. Loaded' /\ Linking' /\ Read'
    BY <2>1, <2>2, <2>3, <2>4 DEF WorldWalks, Loaded, Linking, Read, Nothing
  <2>6. Linked' /\ ClosedIsSafe'
    BY <2>1, <2>3, <2>4 DEF WorldWalks, Linked, ClosedIsSafe
  <2>7. ListIsTrue'
    BY <2>1, <2>4 DEF WorldWalks, ListIsTrue, RoomAt, Nothing
  <2> QED BY <2>5, <2>6, <2>7 DEF WorldWalks
<1>10. CASE Killed
  BY <1>9, <1>10 DEF Killed
<1> QED BY <1>1, <1>2, <1>3, <1>4, <1>5, <1>6, <1>7, <1>8, <1>9, <1>10
        DEF WorldNext, make_world

LEMMA RoomyStep == RoomyInv /\ [WorldNext]_worldVars => RoomyInv'
<1> SUFFICES ASSUME WorldTypes, Roomy, WorldWalks, [WorldNext]_worldVars PROVE RoomyInv'
  BY DEF RoomyInv
<1>1. UNCHANGED db
  BY DEF WorldNext, make_world, worldVars, ReadRow, BeginLinks, LinkExit, LinkNull, NextRoom,
         EndLinks, Enter, Walk, Killed
<1> QED BY <1>1, WorldTypesStep, RoomyStays, WalksStep DEF RoomyInv

LEMMA RoomyInvariance == WorldSpec /\ Roomy => []RoomyInv
BY RoomyStart, RoomyStep, PTL DEF WorldSpec

(***************************************************************************)
(* When make_world() is done, a slot holds the pointer to the room its     *)
(* column names, whatever the order in which rooms are read and walked     *)
(* over (link_rooms(), worldController.cpp:142).                           *)
(***************************************************************************)
THEOREM SlotsAreLinked == WorldSpec /\ Roomy => []Linked
BY RoomyInvariance, PTL DEF RoomyInv, WorldWalks

(***************************************************************************)
(* A closed data base never leads the server to a null pointer.            *)
(***************************************************************************)
THEOREM ClosedWorldIsSafe == WorldSpec /\ Roomy => []ClosedIsSafe
BY RoomyInvariance, PTL DEF RoomyInv, WorldWalks

(***************************************************************************)
(* The exits a player reads on arrival are those of the data base: the     *)
(* byte of valid_exits() and glance() agree.                               *)
(***************************************************************************)
THEOREM ListsAreTrue == WorldSpec /\ Roomy => []ListIsTrue
BY RoomyInvariance, PTL DEF RoomyInv, WorldWalks

(***************************************************************************)
(* Who types a direction ends where the data base leads                    *)
(* (move_wrapper(), Player::move()).                                       *)
(***************************************************************************)
THEOREM WalkersFollowTheMap == WorldSpec /\ Roomy => WalksTheMap
<1> DEFINE A == \A c \in Name :
                   Walk(c) /\ status' = "ready" =>
                      at' = IF Leads(RoomAt(at), c) # 0 THEN Leads(RoomAt(at), c) ELSE at
<1>1. RoomyInv => A
  <2> SUFFICES ASSUME WorldTypes, WorldWalks, NEW c \in Name, Walk(c), status' = "ready"
               PROVE  at' = IF Leads(RoomAt(at), c) # 0 THEN Leads(RoomAt(at), c) ELSE at
    BY DEF RoomyInv
  <2>1. /\ get_exit(RoomAt(at), str2card(c)) = Leads(RoomAt(at), c)
        /\ has_exit(RoomAt(at), str2card(c)) <=> Leads(RoomAt(at), c) # 0
    BY WalkFinds
  <2>2. CASE Stays(c)
    BY <2>1, <2>2 DEF Stays
  <2>3. CASE Moves(c)
    BY <2>1, <2>3 DEF Moves
  <2> QED BY <2>2, <2>3 DEF Walk
<1> HIDE DEF A
<1>2. WorldSpec /\ Roomy => [][A]_worldVars
  BY <1>1, RoomyInvariance, PTL DEF WorldSpec
<1> QED BY <1>2 DEF WalksTheMap, A

\* reverse() turns the number of a name into that of the opposite one.
LEMMA Turned ==
  ASSUME NEW c \in Name, NEW b \in Name, Opposite(c, b)
  PROVE  reverse(str2card(c)) = Compass[b]
<1>1. Plane[c][1] + Plane[b][1] = 0 /\ Plane[c][2] + Plane[b][2] = 0
  BY DEF Opposite
<1>2. str2card(c) = Compass[c]
  BY DEF str2card
<1> USE DEF Plane, Compass, reverse, NORTH, NORTHEAST, EAST, SOUTHEAST, SOUTH, SOUTHWEST,
            WEST, NORTHWEST
<1>3. c = "n" \/ c = "ne" \/ c = "e" \/ c = "se" \/ c = "s" \/ c = "so" \/ c = "o" \/ c = "no"
  BY DEF Name, Column
<1>4. b = "n" \/ b = "ne" \/ b = "e" \/ b = "se" \/ b = "s" \/ b = "so" \/ b = "o" \/ b = "no"
  BY DEF Name, Column
<1>5. CASE c = "n"
  BY <1>1, <1>2, <1>4, <1>5
<1>6. CASE c = "ne"
  BY <1>1, <1>2, <1>4, <1>6
<1>7. CASE c = "e"
  BY <1>1, <1>2, <1>4, <1>7
<1>8. CASE c = "se"
  BY <1>1, <1>2, <1>4, <1>8
<1>9. CASE c = "s"
  BY <1>1, <1>2, <1>4, <1>9
<1>10. CASE c = "so"
  BY <1>1, <1>2, <1>4, <1>10
<1>11. CASE c = "o"
  BY <1>1, <1>2, <1>4, <1>11
<1>12. CASE c = "no"
  BY <1>1, <1>2, <1>4, <1>12
<1> QED BY <1>3, <1>5, <1>6, <1>7, <1>8, <1>9, <1>10, <1>11, <1>12

(***************************************************************************)
(* Where the data base has a way back, those who see a player arrive read  *)
(* its name, and it leads back (Direction::reverse(), types.cpp:47).       *)
(***************************************************************************)
THEOREM TheWayBackIsNamed == WorldSpec /\ Roomy => WayBack
<1> DEFINE A == \A c, b \in Name :
                   /\ Walk(c) /\ status' = "ready" /\ heard'.arrived # {}
                   /\ Opposite(c, b) /\ Leads(RoomAt(at'), b) = at
                   => heard'.arrived = {description(Compass[b])}
                      /\ get_exit(RoomAt(at'), str2card(b)) = at
<1>1. RoomyInv => A
  <2> SUFFICES ASSUME WorldTypes, WorldWalks, NEW c \in Name, NEW b \in Name,
                      Walk(c), status' = "ready", heard'.arrived # {},
                      Opposite(c, b), Leads(RoomAt(at'), b) = at
               PROVE  /\ heard'.arrived = {description(Compass[b])}
                      /\ get_exit(RoomAt(at'), str2card(b)) = at
    BY DEF RoomyInv
  <2> DEFINE p == Leads(RoomAt(at), c)
  <2>1. /\ status = "ready" /\ get_exit(RoomAt(at), str2card(c)) = p
        /\ has_exit(RoomAt(at), str2card(c)) <=> p # 0
        /\ p # 0 => IsRoom(p)
    BY WalkFinds
  <2> HIDE DEF p
  <2>2. ~Stays(c)
    BY DEF Stays, Nothing
  <2>3. /\ p # 0 /\ at' = p
        /\ heard'.arrived = {description(reverse(str2card(c)))}
    BY <2>1, <2>2 DEF Walk, Moves
  <2>4. RoomAt(at') \in RoomId
    BY <2>1, <2>3, IsRoomAt
  <2>5. slot[RoomAt(at')][Compass[b]] = Leads(RoomAt(at'), b)
    BY <2>1, <2>4 DEF WorldWalks, Linked
  <2>6. str2card(b) = Compass[b]
    BY DEF str2card
  <2> QED BY <2>3, <2>5, <2>6, Turned DEF get_exit
<1> HIDE DEF A
<1>2. WorldSpec /\ Roomy => [][A]_worldVars
  BY <1>1, RoomyInvariance, PTL DEF WorldSpec
<1> QED BY <1>2 DEF WayBack, A

=============================================================================
