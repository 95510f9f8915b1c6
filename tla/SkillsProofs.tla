---------------------------- MODULE SkillsProofs ----------------------------
(***************************************************************************)
(* The life of a command, for any number of players, any words typed and   *)
(* any addresses of the copies, proved.                                    *)
(*                                                                         *)
(* SkillsInv is inductive.  Registry says what the three tables hold after *)
(* the commands added so far, and thereby that an id found by a name leads *)
(* back to that name.  Possess is why a copy is never refused, and so not  *)
(* leaked.  Served is why no queue is ever forgotten with a copy in it:    *)
(* whoever has something to run is still to be visited, and out of the     *)
(* tick all queues are empty.                                              *)
(***************************************************************************)
EXTENDS Skills, FiniteSetTheorems, SequenceTheorems, TLAPS

InGame == {p \in PlayerId : state[p] # "out"}

SkillsTypeOK ==
    /\ phase \in {"init", "accept", "read", "exec"}
    /\ state \in [PlayerId -> {"out", "Normal", "Disconnected", "leaving"}]
    /\ IsFiniteSet(InGame)
    /\ unread \subseteq PlayerId
    /\ todo \in Seq(PlayerId)
    /\ skills \in [PlayerId -> SUBSET Nat]
    /\ skills_to_do \in [PlayerId -> Seq(Copy)]
    /\ DOMAIN copies \subseteq Copy

\* A table holds the first n commands of its type, each name with the id of one
\* of that name.
Holds(table, type, n) ==
    /\ \A i \in 1..n : Commands[i].type = type => Commands[i].name \in DOMAIN table
    /\ \A name \in DOMAIN table : \E i \in 1..n :
          /\ Commands[i].name = name
          /\ table[name] = [id |-> i, class |-> class(Commands[i])]

Registry ==
    /\ added \in 0..Len(Commands) /\ id = added + 1
    /\ skill_handlers = [i \in 1..added |-> Commands[i].name]
    /\ Holds(character_skills, "character", added)
    /\ Holds(player_skills, "player", added)
    /\ phase # "init" => added = Len(Commands)

Possess ==
    /\ InGame # {} => phase # "init"
    /\ \A p \in InGame : skills[p] = init_player

\* A copy leads where the table it was taken from leads.
Copied ==
    /\ DOMAIN copies # {} => phase # "init"
    /\ \A c \in DOMAIN copies :
          /\ Known(copies[c].name)
          /\ copies[c].id = found(copies[c].name).id
          /\ copies[c].class = "Skill"

Queued(p) == 1..Len(skills_to_do[p])

\* Every copy is in one place and every place holds a copy.
Owned ==
    /\ \A p \in PlayerId : \A i \in Queued(p) : skills_to_do[p][i] \in DOMAIN copies
    /\ \A c \in DOMAIN copies :
          \E p \in PlayerId : \E i \in Queued(p) : skills_to_do[p][i] = c
    /\ \A p, q \in PlayerId : \A i \in Queued(p), j \in Queued(q) :
          skills_to_do[p][i] = skills_to_do[q][j] => p = q /\ i = j

Served ==
    /\ phase = "read" => unread \subseteq {p \in PlayerId : state[p] = "Normal"}
    /\ \A p \in PlayerId : skills_to_do[p] # <<>> =>
          /\ state[p] # "out"
          /\ phase \in {"read", "exec"}
          /\ phase = "exec" => \E i \in 1..Len(todo) : todo[i] = p

SkillsInv == /\ SkillsTypeOK
             /\ Registry
             /\ Possess
             /\ Copied
             /\ Owned
             /\ Served

-----------------------------------------------------------------------------
(***************************************************************************)
(* The list of commands: only golpear has turns, and glance is for         *)
(* players.                                                                *)
(***************************************************************************)
Sound(S) == {c \in [name : S, type : {"character", "player"}, turns : Nat] :
                c.turns = 0 \/ c.name = "golpear"}

LEMMA CommandList ==
  ASSUME NEW S, NEW names \in Seq(S), NEW type \in {"character", "player"},
         NEW turns \in Nat, turns = 0 \/ \A i \in 1..Len(names) : names[i] = "golpear"
  PROVE  /\ Command(names, type, turns) \in Seq(Sound(S))
         /\ Len(Command(names, type, turns)) = Len(names)
         /\ \A i \in 1..Len(names) :
               Command(names, type, turns)[i] =
                  [name |-> names[i], type |-> type, turns |-> turns]
  BY DEF Command, Sound

LEMMA CommandsAre ==
  /\ \E S : Commands \in Seq(Sound(S))
  /\ \E i \in 1..Len(Commands) :
        Commands[i].name = "glance" /\ Commands[i].type = "player"
<1> DEFINE a == <<"n", "ne", "e", "se", "s", "so", "o", "no", "decir", "matar">>
           b == <<"glance", "sc", "tell", "salir", "ficha", "peleas", "stoppeleas",
                  "tell", "gcritico">>
           S == {"n", "ne", "e", "se", "s", "so", "o", "no", "decir", "matar",
                 "glance", "sc", "tell", "salir", "ficha", "peleas", "stoppeleas",
                 "gcritico", "golpear", "formular"}
           A == Command(a, "character", 0)
           B == Command(b, "player", 0)
           C == Command(<<"golpear">>, "player", 1)
           D == Command(<<"formular">>, "player", 0)
<1>1. A \in Seq(Sound(S)) /\ Len(A) = 10
  <2>1. a \in Seq(S) /\ Len(a) = 10
    OBVIOUS
  <2> HIDE DEF a, S
  <2> QED BY <2>1, CommandList
<1>2. /\ B \in Seq(Sound(S)) /\ Len(B) = 9
      /\ B[1] = [name |-> "glance", type |-> "player", turns |-> 0]
  <2>1. b \in Seq(S) /\ Len(b) = 9 /\ b[1] = "glance"
    OBVIOUS
  <2> HIDE DEF b, S
  <2> QED BY <2>1, CommandList
<1>3. C \in Seq(Sound(S))
  <2>1. <<"golpear">> \in Seq(S) /\ \A i \in 1..Len(<<"golpear">>) : <<"golpear">>[i] = "golpear"
    OBVIOUS
  <2> HIDE DEF S
  <2> QED BY <2>1, CommandList
<1>4. D \in Seq(Sound(S))
  <2>1. <<"formular">> \in Seq(S)
    OBVIOUS
  <2> HIDE DEF S
  <2> QED BY <2>1, CommandList
<1>5. Commands = ((A \o B) \o C) \o D
  BY DEF Commands
<1> HIDE DEF a, b, A, B, C, D, S
<1> DEFINE T == Sound(S)
<1> HIDE DEF T
<1>6. /\ A \in Seq(T) /\ B \in Seq(T) /\ C \in Seq(T) /\ D \in Seq(T)
      /\ Len(A) = 10 /\ Len(B) = 9
  BY <1>1, <1>2, <1>3, <1>4 DEF T
<1>7. A \o B \in Seq(T) /\ Len(A \o B) = 19 /\ (A \o B)[11] = B[1]
  <2>1. A \o B \in Seq(T) /\ Len(A \o B) = Len(A) + Len(B)
    BY <1>6, ConcatProperties
  <2>2. 11 \in 1..Len(A) + Len(B) /\ ~(11 <= Len(A)) /\ 11 - Len(A) = 1
    BY <1>6
  <2>3. \A i \in 1..Len(A) + Len(B) :
           (A \o B)[i] = IF i <= Len(A) THEN A[i] ELSE B[i - Len(A)]
    BY <1>6, ConcatProperties
  <2> QED BY <1>6, <2>1, <2>2, <2>3
<1> DEFINE AB == A \o B
<1> HIDE DEF AB
<1>8. /\ AB \o C \in Seq(T) /\ Len(AB \o C) >= 19
      /\ (AB \o C)[11] = B[1]
  BY <1>6, <1>7 DEF AB
<1> DEFINE ABC == AB \o C
<1> HIDE DEF ABC
<1>9. ABC \o D \in Seq(T) /\ 11 \in 1..Len(ABC \o D) /\ (ABC \o D)[11] = B[1]
  BY <1>6, <1>8 DEF ABC
<1>10. Commands \in Seq(T) /\ 11 \in 1..Len(Commands) /\ Commands[11] = B[1]
  BY <1>5, <1>9 DEF AB, ABC
<1>11. \E W : Commands \in Seq(Sound(W))
  BY <1>10 DEF T
<1> QED BY <1>2, <1>10, <1>11

(***************************************************************************)
(* Walks visit everybody: SetToSeqs(S) enumerates S.                       *)
(***************************************************************************)
LEMMA WalkMeetsAll ==
  ASSUME NEW S, IsFiniteSet(S), NEW f \in SetToSeqs(S)
  PROVE  /\ f \in Seq(S)
         /\ \A x \in S : \E i \in 1..Len(f) : f[i] = x
<1> DEFINE D == 1..Cardinality(S)
<1>1. Cardinality(S) \in Nat
  BY FS_CardinalityType
<1>2. f \in [D -> S] /\ \A i, j \in D : i # j => f[i] # f[j]
  BY DEF SetToSeqs
<1>3. f \in Seq(S) /\ Len(f) = Cardinality(S)
  BY <1>1, <1>2
<1>4. IsFiniteSet(D) /\ Cardinality(D) = Cardinality(S)
  BY <1>1, FS_Interval
<1>5. f \in Injection(D, S)
  BY <1>2 DEF Injection, IsInjective
<1>6. f \in Surjection(D, S)
  BY <1>4, <1>5, FS_Injection
<1> QED BY <1>3, <1>6 DEF Surjection

-----------------------------------------------------------------------------
(***************************************************************************)
(* The registry.                                                           *)
(***************************************************************************)
LEMMA CommandCount == Len(Commands) \in Nat
  BY CommandsAre

(***************************************************************************)
(* Once the tables are filled, a name that is known leads to a command of  *)
(* that name, every player is given its id, and the id leads back.         *)
(***************************************************************************)
LEMMA NamesLead ==
  ASSUME Registry, phase # "init", NEW name, Known(name)
  PROVE  /\ \E i \in 1..Len(Commands) :
               /\ Commands[i].name = name
               /\ found(name) = [id |-> i, class |-> class(Commands[i])]
         /\ found(name).id \in init_player
         /\ skill_handlers[found(name).id] = name
<1>1. PICK i \in 1..Len(Commands) :
        /\ Commands[i].name = name
        /\ found(name) = [id |-> i, class |-> class(Commands[i])]
  BY DEF Registry, Holds, Known, found
<1>2. found(name).id \in init_player
  BY DEF Known, found, init_player, ids
<1>3. skill_handlers[i] = name
  BY <1>1 DEF Registry
<1> QED BY <1>1, <1>2, <1>3

LEMMA GlanceIsKnown ==
  ASSUME Registry, phase # "init"
  PROVE  Known("glance")
  BY CommandsAre DEF Registry, Holds, Known

LEMMA RegistryKept ==
  ASSUME Registry, phase # "init", UNCHANGED registryVars
  PROVE  /\ Registry'
         /\ init_player' = init_player
         /\ \A name : /\ Known(name)' <=> Known(name)
                      /\ found(name)' = found(name)
<1> USE DEF registryVars
<1>1. Registry'
  BY DEF Registry, Holds
<1>2. init_player' = init_player
  BY DEF init_player, ids
<1> QED BY <1>1, <1>2 DEF Known, found

(***************************************************************************)
(* A table with one more command in it.                                    *)
(***************************************************************************)
LEMMA TableGrows ==
  ASSUME NEW n \in Nat, NEW table, NEW type, Holds(table, type, n)
  PROVE  LET c == Commands[n + 1]
             t == IF c.type = type
                  THEN Assign(table, c.name, [id |-> n + 1, class |-> class(c)])
                  ELSE table
         IN  Holds(t, type, n + 1)
<1> DEFINE c == Commands[n + 1]
<1>1. \A i : i \in 1..(n + 1) <=> i \in 1..n \/ i = n + 1
  OBVIOUS
<1>2. CASE c.type = type
  BY <1>1, <1>2 DEF Holds, Assign
<1>3. CASE c.type # type
  BY <1>1, <1>3 DEF Holds
<1> QED BY <1>2, <1>3

(***************************************************************************)
(* The queues when a copy is added, and when the first of one is run.      *)
(***************************************************************************)
LEMMA CopyQueued ==
  ASSUME SkillsTypeOK, Owned, NEW p \in PlayerId, NEW c \in Copy \ DOMAIN copies,
         skills_to_do' = [skills_to_do EXCEPT ![p] = Append(@, c)],
         DOMAIN copies' = DOMAIN copies \cup {c}
  PROVE  /\ skills_to_do' \in [PlayerId -> Seq(Copy)]
         /\ DOMAIN copies' \subseteq Copy
         /\ Owned'
<1> DEFINE q == skills_to_do[p]
           q1 == Append(q, c)
<1>1. /\ q \in Seq(Copy) /\ q1 \in Seq(Copy) /\ Len(q) \in Nat
      /\ Len(q1) = Len(q) + 1 /\ q1[Len(q) + 1] = c
      /\ \A i \in 1..Len(q) : q1[i] = q[i]
  BY AppendProperties DEF SkillsTypeOK
<1>2. skills_to_do' \in [PlayerId -> Seq(Copy)]
  BY <1>1 DEF SkillsTypeOK
<1>3. /\ skills_to_do'[p] = q1
      /\ \A r \in PlayerId \ {p} : skills_to_do'[r] = skills_to_do[r]
  BY DEF SkillsTypeOK
<1>4. /\ \A r \in PlayerId : \A i \in Queued(r) :
            i \in Queued(r)' /\ skills_to_do'[r][i] = skills_to_do[r][i]
      /\ Len(q) + 1 \in Queued(p)' /\ skills_to_do'[p][Len(q) + 1] = c
      /\ \A r \in PlayerId : \A i \in Queued(r)' :
            \/ i \in Queued(r) /\ skills_to_do'[r][i] = skills_to_do[r][i]
            \/ r = p /\ i = Len(q) + 1 /\ skills_to_do'[r][i] = c
  <2> HIDE DEF q1
  <2> QED BY <1>1, <1>3 DEF Queued
<1> HIDE DEF q, q1
<1>5. \A r \in PlayerId : \A i \in Queued(r)' : skills_to_do'[r][i] \in DOMAIN copies'
  BY <1>4 DEF Owned
<1>6. ASSUME NEW d \in DOMAIN copies'
      PROVE  \E r \in PlayerId : \E i \in Queued(r)' : skills_to_do'[r][i] = d
  <2>1. CASE d = c
    BY <2>1, <1>4
  <2>2. CASE d \in DOMAIN copies
    <3>1. PICK r \in PlayerId : \E i \in Queued(r) : skills_to_do[r][i] = d
      BY <2>2 DEF Owned
    <3>2. PICK i \in Queued(r) : skills_to_do[r][i] = d
      BY <3>1
    <3>3. i \in Queued(r)' /\ skills_to_do'[r][i] = d
      BY <1>4, <3>2
    <3> QED BY <3>3
  <2> QED BY <2>1, <2>2
<1>7. ASSUME NEW r \in PlayerId, NEW s \in PlayerId, NEW i \in Queued(r)', NEW j \in Queued(s)',
             skills_to_do'[r][i] = skills_to_do'[s][j]
      PROVE  r = s /\ i = j
  <2>1. \A t \in PlayerId : \A k \in Queued(t) : skills_to_do[t][k] # c
    BY DEF Owned
  <2>2. CASE i \in Queued(r) /\ skills_to_do'[r][i] = skills_to_do[r][i]
    <3>1. skills_to_do'[s][j] # c
      BY <1>7, <2>1, <2>2
    <3>2. j \in Queued(s) /\ skills_to_do'[s][j] = skills_to_do[s][j]
      BY <1>4, <3>1
    <3>3. skills_to_do[r][i] = skills_to_do[s][j]
      BY <1>7, <2>2, <3>2
    <3> QED BY <2>2, <3>2, <3>3 DEF Owned
  <2>3. CASE r = p /\ i = Len(q) + 1 /\ skills_to_do'[r][i] = c
    <3>1. ~(j \in Queued(s) /\ skills_to_do'[s][j] = skills_to_do[s][j])
      BY <1>7, <2>1, <2>3
    <3> QED BY <1>4, <2>3, <3>1
  <2> QED BY <1>4, <2>2, <2>3
<1>8. Owned'
  BY <1>5, <1>6, <1>7 DEF Owned
<1> QED BY <1>2, <1>8 DEF SkillsTypeOK

LEMMA CopyRun ==
  ASSUME SkillsTypeOK, Owned, NEW p \in PlayerId, skills_to_do[p] # <<>>,
         skills_to_do' = [skills_to_do EXCEPT ![p] = Tail(@)],
         DOMAIN copies' = DOMAIN copies \ {Head(skills_to_do[p])}
  PROVE  /\ skills_to_do' \in [PlayerId -> Seq(Copy)]
         /\ Owned'
<1> DEFINE q == skills_to_do[p]
           q1 == Tail(q)
           c == Head(q)
<1>1. /\ q \in Seq(Copy) /\ q1 \in Seq(Copy) /\ Len(q) \in Nat \ {0}
      /\ Len(q1) = Len(q) - 1 /\ q[1] = c
      /\ \A i \in 1..Len(q1) : q1[i] = q[i + 1]
  BY HeadTailProperties DEF SkillsTypeOK
<1>2. skills_to_do' \in [PlayerId -> Seq(Copy)]
  BY <1>1 DEF SkillsTypeOK
<1>3. /\ skills_to_do'[p] = q1
      /\ \A r \in PlayerId \ {p} : skills_to_do'[r] = skills_to_do[r]
  BY DEF SkillsTypeOK
\* Where the copy of place i of r was before, and where it is now.
<1> DEFINE was(r, i) == IF r = p THEN i + 1 ELSE i
           now(r, i) == IF r = p THEN i - 1 ELSE i
<1>4. /\ 1 \in Queued(p) /\ skills_to_do[p][1] = c
      /\ \A r \in PlayerId : \A i \in Queued(r)' :
            /\ was(r, i) \in Queued(r) /\ i \in Nat
            /\ skills_to_do'[r][i] = skills_to_do[r][was(r, i)]
            /\ r = p => was(r, i) # 1
      /\ \A r \in PlayerId : \A i \in Queued(r) :
            \/ r = p /\ i = 1
            \/ /\ now(r, i) \in Queued(r)'
               /\ skills_to_do'[r][now(r, i)] = skills_to_do[r][i]
  <2> HIDE DEF q1
  <2> QED BY <1>1, <1>3 DEF Queued
<1>a. DOMAIN copies' = DOMAIN copies \ {c}
  OBVIOUS
<1> HIDE DEF q, q1, c, was, now
<1>b. \A r \in PlayerId : \A i \in Queued(r) :
         /\ skills_to_do[r][i] \in DOMAIN copies
         /\ skills_to_do[r][i] = c => r = p /\ i = 1
  BY <1>4 DEF Owned
<1>5. ASSUME NEW r \in PlayerId, NEW i \in Queued(r)'
      PROVE  skills_to_do'[r][i] \in DOMAIN copies'
  <2> DEFINE k == was(r, i)
  <2>1. k \in Queued(r) /\ skills_to_do'[r][i] = skills_to_do[r][k] /\ (r = p => k # 1)
    BY <1>4
  <2> HIDE DEF k
  <2> QED BY <1>a, <1>b, <2>1
<1>6. ASSUME NEW d \in DOMAIN copies'
      PROVE  \E r \in PlayerId : \E i \in Queued(r)' : skills_to_do'[r][i] = d
  <2>1. d \in DOMAIN copies /\ d # c
    BY <1>a
  <2>2. PICK r \in PlayerId : \E i \in Queued(r) : skills_to_do[r][i] = d
    BY <2>1 DEF Owned
  <2>3. PICK i \in Queued(r) : skills_to_do[r][i] = d
    BY <2>2
  <2>4. ~(r = p /\ i = 1)
    BY <1>4, <2>1, <2>3
  <2>5. now(r, i) \in Queued(r)' /\ skills_to_do'[r][now(r, i)] = d
    BY <1>4, <2>3, <2>4
  <2> QED BY <2>5
<1>7. ASSUME NEW r \in PlayerId, NEW s \in PlayerId, NEW i \in Queued(r)', NEW j \in Queued(s)',
             skills_to_do'[r][i] = skills_to_do'[s][j]
      PROVE  r = s /\ i = j
  <2>1. skills_to_do[r][was(r, i)] = skills_to_do[s][was(s, j)]
    BY <1>4, <1>7
  <2>2. r = s /\ was(r, i) = was(s, j)
    BY <1>4, <2>1 DEF Owned
  <2> QED BY <1>4, <2>2 DEF was
<1>8. Owned'
  BY <1>5, <1>6, <1>7 DEF Owned
<1> QED BY <1>2, <1>8

-----------------------------------------------------------------------------
LEMMA SkillsStart == SkillsInit => SkillsInv
<1> SUFFICES ASSUME SkillsInit PROVE SkillsInv
  OBVIOUS
<1> USE DEF SkillsInit
<1>1. SkillsTypeOK
  <2>1. InGame = {}
    BY DEF InGame
  <2> QED BY <2>1, FS_EmptySet DEF SkillsTypeOK, Empty
<1>2. Registry
  BY CommandCount DEF Registry, Holds, Empty
<1>3. Owned
  BY DEF Owned, Queued, Empty
<1> QED BY <1>1, <1>2, <1>3 DEF SkillsInv, Possess, InGame, Copied, Served, Empty

(***************************************************************************)
(* init_skills() runs before there is anybody or any copy.                 *)
(***************************************************************************)
LEMMA AddInv ==
  ASSUME SkillsInv, init_skills
  PROVE  SkillsInv'
<1> USE DEF SkillsInv, init_skills, playerVars
<1>1. SkillsTypeOK'
  BY DEF SkillsTypeOK, InGame
<1>2. Registry'
  <2> USE DEF Registry, add_skill
  <2>1. added \in Nat /\ added' = added + 1 /\ added' \in 0..Len(Commands)
    BY CommandCount
  <2>2. Holds(character_skills', "character", added')
    BY <2>1, TableGrows DEF Tabled
  <2>3. Holds(player_skills', "player", added')
    BY <2>1, TableGrows DEF Tabled
  <2>4. skill_handlers' = [i \in 1..added' |-> Commands[i].name]
    BY <2>1 DEF Assign
  <2>5. id' = added' + 1
    BY <2>1
  <2> QED BY <2>1, <2>2, <2>3, <2>4, <2>5
<1>3. InGame = {} /\ DOMAIN copies = {}
  BY DEF Possess, Copied
<1>4. Owned'
  BY DEF Owned, Queued
<1> QED BY <1>1, <1>2, <1>3, <1>4 DEF Possess, Copied, InGame, Served

LEMMA ReadyInv ==
  ASSUME SkillsInv, Ready
  PROVE  SkillsInv'
<1> USE DEF SkillsInv, Ready, playerVars, registryVars
<1>1. SkillsTypeOK'
  BY DEF SkillsTypeOK, InGame
<1>2. Registry'
  BY DEF Registry, Holds
<1>3. InGame = {} /\ DOMAIN copies = {}
  BY DEF Possess, Copied
<1>4. Owned'
  BY DEF Owned, Queued
<1> QED BY <1>1, <1>2, <1>3, <1>4 DEF Possess, Copied, InGame, Served

-----------------------------------------------------------------------------
(***************************************************************************)
(* A tick.  Nothing of it touches the registry.                            *)
(***************************************************************************)
LEMMA QueuesKept ==
  ASSUME Owned, UNCHANGED skills_to_do, DOMAIN copies' = DOMAIN copies
  PROVE  Owned'
  BY DEF Owned, Queued

LEMMA CopiesKept ==
  ASSUME Registry, Copied, phase # "init", UNCHANGED registryVars, phase' # "init",
         \A c \in DOMAIN copies' : c \in DOMAIN copies /\ copies'[c] = copies[c]
  PROVE  Copied'
  BY RegistryKept DEF Copied

(***************************************************************************)
(* A copy of what is known is a good copy.                                 *)
(***************************************************************************)
LEMMA CopyMade ==
  ASSUME Registry, Copied, phase # "init", UNCHANGED registryVars, phase' # "init",
         NEW name, Known(name), NEW c, get_skill_by_name(name, c)
  PROVE  /\ Copied'
         /\ DOMAIN copies' = DOMAIN copies \cup {c}
         /\ copies'[c].id = found(name).id
<1>1. /\ DOMAIN copies' = DOMAIN copies \cup {c}
      /\ copies'[c] = [id |-> found(name).id, class |-> "Skill", name |-> name]
      /\ \A d \in DOMAIN copies : copies'[d] = copies[d]
  BY DEF get_skill_by_name, Assign
<1>2. Copied'
  BY <1>1, RegistryKept DEF Copied
<1> QED BY <1>1, <1>2

LEMMA LoginInv ==
  ASSUME SkillsInv, NEW p \in PlayerId, Login(p)
  PROVE  SkillsInv'
<1> USE DEF SkillsInv
<1>1. /\ phase = "accept" /\ phase' = "read" /\ UNCHANGED registryVars /\ todo' = todo
      /\ state' = [state EXCEPT ![p] = "Normal"]
      /\ unread' = {q \in PlayerId : state'[q] = "Normal"}
      /\ skills' = [skills EXCEPT ![p] = init_player]
  BY DEF Login, create_player
<1>2. PICK c \in Copy : /\ get_skill_by_name("glance", c)
                        /\ skills_to_do' = [skills_to_do EXCEPT ![p] = <<c>>]
  BY DEF Login, create_player
<1>3. skills_to_do[p] = <<>>
  BY <1>1 DEF Served
<1>4. skills_to_do' = [skills_to_do EXCEPT ![p] = Append(@, c)]
  BY <1>2, <1>3
<1>5. /\ Registry' /\ init_player' = init_player
  BY <1>1, RegistryKept
<1>6. Copied' /\ DOMAIN copies' = DOMAIN copies \cup {c}
  BY <1>1, <1>2, GlanceIsKnown, CopyMade
<1>7. c \in Copy \ DOMAIN copies
  BY <1>2 DEF get_skill_by_name
<1>8. /\ skills_to_do' \in [PlayerId -> Seq(Copy)]
      /\ DOMAIN copies' \subseteq Copy
      /\ Owned'
  BY <1>4, <1>6, <1>7, CopyQueued
<1>9. InGame' = InGame \cup {p}
  BY <1>1 DEF InGame, SkillsTypeOK
<1>10. init_player \in SUBSET Nat
  <2>1. ASSUME NEW x \in init_player PROVE x \in Nat
    BY <2>1, <1>1, CommandCount DEF init_player, ids, Registry, Holds
  <2> QED BY <2>1
<1>11. SkillsTypeOK'
  <2>1. IsFiniteSet(InGame')
    BY <1>9, FS_AddElement DEF SkillsTypeOK
  <2> QED BY <1>1, <1>8, <1>10, <2>1 DEF SkillsTypeOK
<1>12. Possess'
  BY <1>1, <1>5, <1>9 DEF Possess, InGame, SkillsTypeOK
<1>13. Served'
  BY <1>1, <1>2 DEF Served, SkillsTypeOK
<1> QED BY <1>5, <1>6, <1>8, <1>11, <1>12, <1>13

LEMMA NobodyNewInv ==
  ASSUME SkillsInv, NobodyNew
  PROVE  SkillsInv'
<1> USE DEF SkillsInv, NobodyNew, playerVars
<1>1. SkillsTypeOK'
  BY DEF SkillsTypeOK, InGame
<1>2. Registry' /\ init_player' = init_player
  BY RegistryKept
<1>3. Copied'
  BY CopiesKept
<1>4. Owned'
  BY QueuesKept
<1>5. Possess'
  BY <1>2 DEF Possess, InGame
<1>6. Served'
  BY DEF Served
<1> QED BY <1>1, <1>2, <1>3, <1>4, <1>5, <1>6

LEMMA NotValidInv ==
  ASSUME SkillsInv, NEW p \in PlayerId, NEW name, NotValid(p, name)
  PROVE  SkillsInv'
<1> USE DEF SkillsInv, NotValid, Read
<1>1. SkillsTypeOK'
  BY DEF SkillsTypeOK, InGame
<1>2. Registry' /\ init_player' = init_player
  BY RegistryKept
<1>3. Copied'
  BY CopiesKept
<1>4. Owned'
  BY QueuesKept
<1>5. Possess'
  BY <1>2 DEF Possess, InGame
<1>6. Served'
  BY DEF Served
<1> QED BY <1>1, <1>2, <1>3, <1>4, <1>5, <1>6

(***************************************************************************)
(* A command of a player in the game is one it possesses: it is queued.    *)
(***************************************************************************)
LEMMA ParseInv ==
  ASSUME SkillsInv, NEW p \in PlayerId, NEW name, parse(p, name)
  PROVE  SkillsInv'
<1> USE DEF SkillsInv
<1>1. /\ phase = "read" /\ p \in unread /\ unread' = unread \ {p}
      /\ UNCHANGED <<registryVars, phase, todo, skills, state>>
      /\ Known(name)
  BY DEF parse, Read
<1>2. PICK c \in Copy :
        /\ get_skill_by_name(name, c)
        /\ skills_to_do' = IF copies'[c].id \in skills[p]
                           THEN [skills_to_do EXCEPT ![p] = Append(@, c)]
                           ELSE skills_to_do
  BY DEF parse
<1>3. Registry' /\ init_player' = init_player
  BY <1>1, RegistryKept
<1>4. /\ Copied' /\ DOMAIN copies' = DOMAIN copies \cup {c}
      /\ copies'[c].id = found(name).id
  BY <1>1, <1>2, CopyMade
<1>5. state[p] = "Normal" /\ p \in InGame
  BY <1>1 DEF Served, InGame
<1>6. copies'[c].id \in skills[p]
  BY <1>1, <1>4, <1>5, NamesLead DEF Possess
<1>7. skills_to_do' = [skills_to_do EXCEPT ![p] = Append(@, c)]
  BY <1>2, <1>6
<1>8. c \in Copy \ DOMAIN copies
  BY <1>2 DEF get_skill_by_name
<1>9. /\ skills_to_do' \in [PlayerId -> Seq(Copy)]
      /\ DOMAIN copies' \subseteq Copy
      /\ Owned'
  BY <1>4, <1>7, <1>8, CopyQueued
<1>10. SkillsTypeOK'
  BY <1>1, <1>9 DEF SkillsTypeOK, InGame
<1>11. Possess'
  BY <1>1, <1>3 DEF Possess, InGame
<1>12. Served'
  BY <1>1, <1>5, <1>7 DEF Served, SkillsTypeOK
<1> QED BY <1>3, <1>4, <1>9, <1>10, <1>11, <1>12

LEMMA HangUpInv ==
  ASSUME SkillsInv, NEW p \in PlayerId, HangUp(p)
  PROVE  SkillsInv'
<1> USE DEF SkillsInv
<1>1. /\ phase = "read" /\ p \in unread /\ unread' = unread \ {p}
      /\ UNCHANGED <<registryVars, phase, todo, skills, skills_to_do, copies>>
  BY DEF HangUp, Read
<1>2. PICK s \in {"leaving", "Disconnected"} : state' = [state EXCEPT ![p] = s]
  BY DEF HangUp
<1>3. state[p] = "Normal" /\ InGame' = InGame
  BY <1>1, <1>2 DEF Served, InGame, SkillsTypeOK
<1>4. SkillsTypeOK'
  BY <1>1, <1>2, <1>3 DEF SkillsTypeOK
<1>5. Registry' /\ init_player' = init_player
  BY <1>1, RegistryKept
<1>6. Copied'
  BY <1>1, CopiesKept
<1>7. Owned'
  BY <1>1, QueuesKept
<1>8. Possess'
  BY <1>1, <1>3, <1>5 DEF Possess
<1>9. Served'
  BY <1>1, <1>2, <1>3 DEF Served, SkillsTypeOK
<1> QED BY <1>4, <1>5, <1>6, <1>7, <1>8, <1>9

(***************************************************************************)
(* The walk over the players visits all that can have something to run.    *)
(***************************************************************************)
LEMMA AllReadInv ==
  ASSUME SkillsInv, AllRead
  PROVE  SkillsInv'
<1> USE DEF SkillsInv
<1>1. /\ phase = "read" /\ phase' = "exec" /\ unread' = {}
      /\ todo' \in SetToSeqs(InGame)
      /\ UNCHANGED <<registryVars, state, skills, skills_to_do, copies>>
  BY DEF AllRead, playerVars, InGame
<1>2. /\ todo' \in Seq(InGame)
      /\ \A p \in InGame : \E i \in 1..Len(todo') : todo'[i] = p
  BY <1>1, WalkMeetsAll DEF SkillsTypeOK
<1>3. todo' \in Seq(PlayerId) /\ InGame' = InGame
  <2>1. InGame \subseteq PlayerId
    BY DEF InGame
  <2> QED BY <1>1, <1>2, <2>1 DEF InGame
<1>4. SkillsTypeOK'
  BY <1>1, <1>3 DEF SkillsTypeOK
<1>5. Registry' /\ init_player' = init_player
  BY <1>1, RegistryKept
<1>6. Copied'
  BY <1>1, CopiesKept
<1>7. Owned'
  BY <1>1, QueuesKept
<1>8. Possess'
  BY <1>1, <1>3, <1>5 DEF Possess
<1>9. Served'
  BY <1>1, <1>2 DEF Served, InGame
<1> QED BY <1>4, <1>5, <1>6, <1>7, <1>8, <1>9

LEMMA FlushInv ==
  ASSUME SkillsInv, NEW p \in PlayerId, flush_commands(p)
  PROVE  SkillsInv'
<1> USE DEF SkillsInv
<1> DEFINE c == Head(skills_to_do[p])
<1>1. /\ phase = "exec" /\ skills_to_do[p] # <<>>
      /\ copies' = Restrict(copies, DOMAIN copies \ {c})
      /\ skills_to_do' = [skills_to_do EXCEPT ![p] = Tail(@)]
      /\ UNCHANGED <<registryVars, phase, unread, todo, skills>>
  BY DEF flush_commands, Visiting
<1>2. PICK s \in {state[p], "leaving"} : state' = [state EXCEPT ![p] = s]
  BY DEF flush_commands, execute, SkillsTypeOK
<1>3. state[p] # "out" /\ InGame' = InGame
  BY <1>1, <1>2 DEF Served, InGame, SkillsTypeOK
<1>4. /\ DOMAIN copies' = DOMAIN copies \ {c}
      /\ \A d \in DOMAIN copies' : copies'[d] = copies[d]
  BY <1>1 DEF Restrict
<1>5. /\ skills_to_do' \in [PlayerId -> Seq(Copy)]
      /\ Owned'
  BY <1>1, <1>4, CopyRun
<1>6. state' \in [PlayerId -> {"out", "Normal", "Disconnected", "leaving"}]
  BY <1>2 DEF SkillsTypeOK
<1>7. SkillsTypeOK'
  BY <1>1, <1>3, <1>4, <1>5, <1>6 DEF SkillsTypeOK
<1>8. Registry' /\ init_player' = init_player
  BY <1>1, RegistryKept
<1>9. Copied'
  BY <1>1, <1>4, CopiesKept
<1>10. Possess'
  BY <1>1, <1>3, <1>8 DEF Possess
<1>11. Served'
  BY <1>1, <1>2, <1>3 DEF Served, SkillsTypeOK
<1> QED BY <1>5, <1>7, <1>8, <1>9, <1>10, <1>11

LEMMA FlushedInv ==
  ASSUME SkillsInv, NEW p \in PlayerId, Flushed(p)
  PROVE  SkillsInv'
<1> USE DEF SkillsInv
<1>1. /\ phase = "exec" /\ todo # <<>> /\ p = Head(todo) /\ skills_to_do[p] = <<>>
      /\ todo' = Tail(todo)
      /\ UNCHANGED <<registryVars, state, skills, skills_to_do, phase, unread, copies>>
  BY DEF Flushed, Visiting, playerVars
<1>2. /\ todo' \in Seq(PlayerId) /\ Len(todo) \in Nat \ {0} /\ todo[1] = p
      /\ Len(todo') = Len(todo) - 1
      /\ \A i \in 1..Len(todo') : todo'[i] = todo[i + 1]
  BY <1>1, HeadTailProperties DEF SkillsTypeOK
<1>3. SkillsTypeOK'
  BY <1>1, <1>2 DEF SkillsTypeOK, InGame
<1>4. Registry' /\ init_player' = init_player
  BY <1>1, RegistryKept
<1>5. Copied'
  BY <1>1, CopiesKept
<1>6. Owned'
  BY <1>1, QueuesKept
<1>7. Possess'
  BY <1>1, <1>4 DEF Possess, InGame
<1>8. Served'
  <2>1. ASSUME NEW q \in PlayerId, skills_to_do[q] # <<>>
        PROVE  \E i \in 1..Len(todo') : todo'[i] = q
    <3>1. PICK i \in 1..Len(todo) : todo[i] = q
      BY <1>1, <2>1 DEF Served
    <3>2. i - 1 \in 1..Len(todo') /\ todo'[i - 1] = q
      BY <1>1, <1>2, <2>1, <3>1
    <3> QED BY <3>2
  <2> QED BY <1>1, <2>1 DEF Served
<1> QED BY <1>3, <1>4, <1>5, <1>6, <1>7, <1>8

(***************************************************************************)
(* The walk is over, so no queue has anything in it to be forgotten.       *)
(***************************************************************************)
LEMMA RemoveInv ==
  ASSUME SkillsInv, remove_players
  PROVE  SkillsInv'
<1> USE DEF SkillsInv
<1>1. /\ phase = "exec" /\ phase' = "accept" /\ todo = <<>>
      /\ UNCHANGED <<registryVars, unread, todo, copies>>
      /\ state' = [p \in PlayerId |-> IF state[p] = "leaving" THEN "out" ELSE state[p]]
      /\ skills' = [p \in PlayerId |-> IF state[p] = "leaving" THEN {} ELSE skills[p]]
      /\ skills_to_do' = [p \in PlayerId |->
                             IF state[p] = "leaving" THEN <<>> ELSE skills_to_do[p]]
  BY DEF remove_players
<1>2. \A p \in PlayerId : skills_to_do[p] = <<>>
  <2>1. Len(todo) = 0
    BY <1>1
  <2> QED BY <1>1, <2>1 DEF Served
<1>3. skills_to_do' = skills_to_do
  BY <1>1, <1>2 DEF SkillsTypeOK
<1>4. InGame' \subseteq InGame
  BY <1>1 DEF InGame
<1>5. IsFiniteSet(InGame')
  BY <1>4, FS_Subset DEF SkillsTypeOK
<1>6. SkillsTypeOK'
  BY <1>1, <1>3, <1>5 DEF SkillsTypeOK
<1>7. Registry' /\ init_player' = init_player
  BY <1>1, RegistryKept
<1>8. Copied'
  BY <1>1, CopiesKept
<1>9. Owned'
  BY <1>1, <1>3, QueuesKept
<1>10. Possess'
  BY <1>1, <1>7 DEF Possess, InGame
<1>11. Served'
  BY <1>1, <1>2, <1>3 DEF Served
<1> QED BY <1>6, <1>7, <1>8, <1>9, <1>10, <1>11

-----------------------------------------------------------------------------
LEMMA SkillsStep == SkillsInv /\ [SkillsNext]_skillsVars => SkillsInv'
<1> SUFFICES ASSUME SkillsInv, [SkillsNext]_skillsVars
             PROVE  SkillsInv'
  OBVIOUS
<1>1. CASE init_skills
  BY <1>1, AddInv
<1>2. CASE Ready
  BY <1>2, ReadyInv
<1>3. CASE NobodyNew
  BY <1>3, NobodyNewInv
<1>4. CASE AllRead
  BY <1>4, AllReadInv
<1>5. CASE remove_players
  BY <1>5, RemoveInv
<1>6. ASSUME NEW p \in PlayerId, Login(p) PROVE SkillsInv'
  BY <1>6, LoginInv
<1>7. ASSUME NEW p \in PlayerId, HangUp(p) PROVE SkillsInv'
  BY <1>7, HangUpInv
<1>8. ASSUME NEW p \in PlayerId, flush_commands(p) PROVE SkillsInv'
  BY <1>8, FlushInv
<1>9. ASSUME NEW p \in PlayerId, Flushed(p) PROVE SkillsInv'
  BY <1>9, FlushedInv
<1>10. ASSUME NEW p \in PlayerId, NEW name \in Typed, NotValid(p, name) PROVE SkillsInv'
  BY <1>10, NotValidInv
<1>11. ASSUME NEW p \in PlayerId, NEW name \in Typed, parse(p, name) PROVE SkillsInv'
  BY <1>11, ParseInv
<1>12. CASE UNCHANGED skillsVars
  <2> USE <1>12 DEF skillsVars, registryVars, playerVars, SkillsInv
  <2>1. SkillsTypeOK'
    BY DEF SkillsTypeOK, InGame
  <2>2. Registry'
    BY DEF Registry, Holds
  <2>3. Possess'
    BY DEF Possess, InGame, init_player, ids
  <2>4. Copied'
    BY DEF Copied, Known, found
  <2>5. Owned'
    BY DEF Owned, Queued
  <2>6. Served'
    BY DEF Served
  <2> QED BY <2>1, <2>2, <2>3, <2>4, <2>5, <2>6
<1> QED BY <1>1, <1>2, <1>3, <1>4, <1>5, <1>6, <1>7, <1>8, <1>9, <1>10, <1>11, <1>12
        DEF SkillsNext

LEMMA SkillsInvariance == SkillsSpec => []SkillsInv
<1> QED BY SkillsStart, SkillsStep, PTL DEF SkillsSpec

(***************************************************************************)
(* Every copy of a command is in one place of one queue and every place    *)
(* holds a live copy of a command its player possesses: none is run twice, *)
(* run after its deletion, or leaked, whoever hangs up, leaves or returns  *)
(* to a statue in between; and between two ticks there are none.           *)
(***************************************************************************)
THEOREM CopiesAreOwned == SkillsSpec => []EveryCopyIsOwned
<1>1. SkillsInv => EveryCopyIsOwned
  <2> SUFFICES ASSUME SkillsInv PROVE EveryCopyIsOwned
    OBVIOUS
  <2> USE DEF SkillsInv
  <2>1. /\ \A p \in PlayerId : \A i \in Queued(p) : <<p, i>> \in Places
        /\ \A l \in Places : \E p \in PlayerId : \E i \in Queued(p) : l = <<p, i>>
        /\ \A p \in PlayerId : \A i \in Queued(p) : holds(<<p, i>>) = skills_to_do[p][i]
    BY DEF Places, holds, Queued, SkillsTypeOK
  <2>2. ASSUME NEW c \in DOMAIN copies
        PROVE  Cardinality({l \in Places : holds(l) = c}) = 1
    <3>1. PICK p \in PlayerId : \E i \in Queued(p) : skills_to_do[p][i] = c
      BY DEF Owned
    <3>2. PICK i \in Queued(p) : skills_to_do[p][i] = c
      BY <3>1
    <3>3. ASSUME NEW l \in Places, holds(l) = c PROVE l = <<p, i>>
      <4>1. PICK q \in PlayerId : \E j \in Queued(q) : l = <<q, j>>
        BY <2>1
      <4>2. PICK j \in Queued(q) : l = <<q, j>>
        BY <4>1
      <4> QED BY <2>1, <3>2, <3>3, <4>2 DEF Owned
    <3>4. {l \in Places : holds(l) = c} = {<<p, i>>}
      BY <2>1, <3>2, <3>3
    <3> QED BY <3>4, FS_Singleton
  <2>3. ASSUME NEW l \in Places
        PROVE  holds(l) \in DOMAIN copies /\ copies[holds(l)].id \in skills[l[1]]
    <3>1. PICK p \in PlayerId : \E i \in Queued(p) : l = <<p, i>>
      BY <2>1
    <3>2. PICK i \in Queued(p) : l = <<p, i>>
      BY <3>1
    <3>3. holds(l) = skills_to_do[p][i] /\ holds(l) \in DOMAIN copies /\ l[1] = p
      BY <2>1, <3>2 DEF Owned
    <3>4. skills_to_do[p] # <<>>
      BY <3>2 DEF Queued
    <3>5. p \in InGame /\ phase # "init"
      BY <3>3, <3>4 DEF Served, InGame, Copied
    <3>6. copies[holds(l)].id \in init_player
      BY <3>3, <3>5, NamesLead DEF Copied
    <3> QED BY <3>3, <3>5, <3>6 DEF Possess
  <2>4. ASSUME phase = "accept" PROVE Places = {}
    <3>1. \A p \in PlayerId : skills_to_do[p] = <<>>
      BY <2>4 DEF Served
    <3> QED BY <3>1 DEF Places
  <2> QED BY <2>2, <2>3, <2>4 DEF EveryCopyIsOwned
<1> QED BY SkillsInvariance, <1>1, PTL

(***************************************************************************)
(* A copy leads to the handler of the name that was typed, and is of the   *)
(* class that was registered unless it is of golpear.                      *)
(***************************************************************************)
THEOREM CopiesLeadBack == SkillsSpec => []CopyOfWhatWasTyped
<1>1. SkillsInv => CopyOfWhatWasTyped
  <2> SUFFICES ASSUME SkillsInv, NEW c \in DOMAIN copies
               PROVE  /\ skill_handlers[copies[c].id] = copies[c].name
                      /\ \/ copies[c].class = found(copies[c].name).class
                         \/ copies[c].name = "golpear"
    BY DEF CopyOfWhatWasTyped
  <2>1. /\ phase # "init" /\ Known(copies[c].name)
        /\ copies[c].id = found(copies[c].name).id /\ copies[c].class = "Skill"
    BY DEF SkillsInv, Copied
  <2>2. skill_handlers[copies[c].id] = copies[c].name
    BY <2>1, NamesLead DEF SkillsInv
  <2>3. PICK i \in 1..Len(Commands) :
          /\ Commands[i].name = copies[c].name
          /\ found(copies[c].name) = [id |-> i, class |-> class(Commands[i])]
    BY <2>1, NamesLead DEF SkillsInv
  <2>4. Commands[i].turns = 0 \/ Commands[i].name = "golpear"
    BY CommandsAre DEF Sound
  <2> QED BY <2>1, <2>2, <2>3, <2>4 DEF class
<1> QED BY SkillsInvariance, <1>1, PTL

=============================================================================
