---------------------------- MODULE CombatProofs ----------------------------
(***************************************************************************)
(* What module Combat promises for any number of characters, any life and  *)
(* any subset of the rolls of the die, proved.                             *)
(*                                                                         *)
(* No single property of Combat is inductive.  CombatInv is: it adds that  *)
(* the characters in a list are live objects and alive, which is what      *)
(* makes the delete of an idle character and the next blow harmless.       *)
(***************************************************************************)
EXTENDS Combat, TLAPS

Fighters == \A a, b \in Addr : b \in in_combat[a] => b \in chars /\ is_alive(b)

CombatInv == CombatTypeOK /\ Mutual /\ Fighters

-----------------------------------------------------------------------------
(***************************************************************************)
(* A blow of injure_mele takes between 9 and 17 points.                    *)
(***************************************************************************)
LEMMA MalRange == ASSUME NEW r \in Roll PROVE Mal(r) \in 9..17
  BY CombatAssumption DEF Mal

LEMMA CombatStart == CombatInit => CombatInv
  BY CombatAssumption DEF CombatInit, CombatInv, CombatTypeOK, Mutual, Fighters, Mal

(***************************************************************************)
(* A new character is idle and alive.                                      *)
(***************************************************************************)
LEMMA NewInv ==
  ASSUME CombatInv, NEW a \in Addr, NewCharacter(a)
  PROVE  CombatInv'
  BY CombatAssumption DEF CombatInv, CombatTypeOK, Mutual, Fighters, NewCharacter, is_alive, Mal

(***************************************************************************)
(* The delete of an idle character: by Mutual nobody else points to it.    *)
(***************************************************************************)
LEMMA DeleteInv ==
  ASSUME CombatInv, NEW a \in Addr, DeleteCharacter(a)
  PROVE  CombatInv'
<1>1. in_combat[a] = {}
  BY DEF DeleteCharacter, Delete, can_quit, is_in_combat
<1>2. in_combat' = in_combat
  BY <1>1 DEF DeleteCharacter, Delete, CombatInv, CombatTypeOK
<1>3. \A b \in Addr : a \notin in_combat[b]
  BY <1>1 DEF CombatInv, Mutual
<1>4. CombatTypeOK'
  BY <1>2, CombatAssumption DEF CombatInv, CombatTypeOK, DeleteCharacter, Delete, Mal
<1>5. Mutual'
  BY <1>2 DEF CombatInv, Mutual
<1>6. Fighters'
  BY <1>2, <1>3 DEF CombatInv, CombatTypeOK, Fighters, DeleteCharacter, Delete, is_alive
<1> QED BY <1>4, <1>5, <1>6 DEF CombatInv

(***************************************************************************)
(* matar: both sides of the new fight are distinct, live and alive.        *)
(***************************************************************************)
LEMMA MatarInv ==
  ASSUME CombatInv, NEW p \in Addr, NEW c \in Addr,
         {p, c} \subseteq chars, Matar(p, c)
  PROVE  CombatInv'
<1> USE DEF CombatInv
<1>1. p # c /\ is_alive(p) /\ is_alive(c)
  BY DEF Matar, MayFight
<1>2. in_combat' = [in_combat EXCEPT ![p] = @ \cup {c}, ![c] = @ \cup {p}]
  BY DEF Matar, StartFight
<1>3. CombatTypeOK'
  BY <1>2 DEF CombatTypeOK, Matar
<1>4. \A a, b \in Addr :
         b \in in_combat'[a] <=> \/ b \in in_combat[a]
                                 \/ a = p /\ b = c
                                 \/ a = c /\ b = p
  BY <1>1, <1>2 DEF CombatTypeOK
<1>5. Mutual'
  BY <1>1, <1>4 DEF Mutual
<1>6. Fighters'
  BY <1>1, <1>4 DEF Fighters, Matar, is_alive
<1> QED BY <1>3, <1>5, <1>6

(***************************************************************************)
(* What is left of the fights when p falls: those p has no part in.        *)
(***************************************************************************)
LEMMA AfterDeathFights ==
  ASSUME CombatTypeOK, Mutual, NEW p \in Addr
  PROVE  /\ AfterDeath(p) \in [Addr -> SUBSET Addr]
         /\ \A a, b \in Addr : b \in AfterDeath(p)[a] <=>
                                 b \in in_combat[a] /\ a # p /\ b # p
  BY DEF AfterDeath, CombatTypeOK, Mutual

(***************************************************************************)
(* A blow: the victim was alive, so it is left with at least -17 points,   *)
(* and if it dies every list forgets it.                                   *)
(***************************************************************************)
LEMMA StrikeInv ==
  ASSUME CombatInv, NEW a \in Addr, NEW b \in Addr, NEW r \in Roll,
         Strike(a, b, r)
  PROVE  CombatInv'
<1> USE DEF CombatInv
<1>1. b \in in_combat[a] /\ b \in chars /\ is_alive(b)
  BY DEF Strike, Fighters
<1>2. /\ pvs' = [pvs EXCEPT ![b] = @ - Mal(r)]
      /\ in_combat' = IF is_alive(b)' THEN in_combat ELSE AfterDeath(b)
      /\ chars' = chars
  BY DEF Strike, injure_mele, injure
<1>3. /\ AfterDeath(b) \in [Addr -> SUBSET Addr]
      /\ \A c, d \in Addr : d \in AfterDeath(b)[c] <=>
                              d \in in_combat[c] /\ c # b /\ d # b
  BY AfterDeathFights
<1>4. CombatTypeOK'
  <2>1. pvs[b] \in 0..MaxPvs /\ Mal(r) \in 9..17 /\ Mal(9) = 17
    BY <1>1, MalRange, CombatAssumption DEF CombatTypeOK, is_alive, Mal
  <2>2. pvs[b] - Mal(r) \in (-Mal(9))..MaxPvs
    BY <2>1, CombatAssumption
  <2>3. pvs' \in [Addr -> (-Mal(9))..MaxPvs]
    BY <1>2, <2>2 DEF CombatTypeOK
  <2> QED BY <1>2, <1>3, <2>3 DEF CombatTypeOK
<1>5. Mutual'
  BY <1>2, <1>3 DEF Mutual
<1>6. Fighters'
  <2> SUFFICES ASSUME NEW c \in Addr, NEW d \in Addr, d \in in_combat'[c]
               PROVE  d \in chars' /\ is_alive(d)'
    BY DEF Fighters
  <2>1. d \in in_combat[c]
    BY <1>2, <1>3
  <2>2. d # b => is_alive(d)'
    BY <1>2, <2>1 DEF Fighters, CombatTypeOK, is_alive
  <2>3. d = b => is_alive(d)'
    BY <1>2, <1>3
  <2> QED BY <1>2, <2>1, <2>2, <2>3 DEF Fighters
<1> QED BY <1>4, <1>5, <1>6

LEMMA CombatStep == CombatInv /\ [CombatNext]_combatVars => CombatInv'
<1> SUFFICES ASSUME CombatInv, [CombatNext]_combatVars
             PROVE  CombatInv'
  OBVIOUS
<1>1. CASE UNCHANGED combatVars
  BY <1>1 DEF combatVars, CombatInv, CombatTypeOK, Mutual, Fighters, is_alive
<1>2. ASSUME NEW a \in Addr, NewCharacter(a) PROVE CombatInv'
  BY <1>2, NewInv
<1>3. ASSUME NEW a \in Addr, DeleteCharacter(a) PROVE CombatInv'
  BY <1>3, DeleteInv
<1>4. ASSUME NEW a \in Addr, NEW b \in Addr,
             {a, b} \subseteq chars, Matar(a, b)
      PROVE  CombatInv'
  BY <1>4, MatarInv
<1>5. ASSUME NEW a \in Addr, NEW b \in Addr, NEW r \in Roll, Strike(a, b, r)
      PROVE  CombatInv'
  BY <1>5, StrikeInv
<1> QED BY <1>1, <1>2, <1>3, <1>4, <1>5 DEF CombatNext

LEMMA CombatInvariance == CombatSpec => []CombatInv
  BY CombatStart, CombatStep, PTL DEF CombatSpec

-----------------------------------------------------------------------------
(***************************************************************************)
(* The type invariant holds in every reachable state; in particular no     *)
(* life ever falls below -17.                                              *)
(***************************************************************************)
THEOREM CombatTypes == CombatSpec => []CombatTypeOK
<1>1. CombatInv => CombatTypeOK
  BY DEF CombatInv
<1> QED BY CombatInvariance, <1>1, PTL

(***************************************************************************)
(* Fights are always mutual, and nobody fights himself.                    *)
(***************************************************************************)
THEOREM FightsMutual == CombatSpec => []Mutual
<1>1. CombatInv => Mutual
  BY DEF CombatInv
<1> QED BY CombatInvariance, <1>1, PTL

(***************************************************************************)
(* No list of opponents ever holds a pointer to a deleted character.       *)
(***************************************************************************)
THEOREM NoFighterDangles == CombatSpec => []NoDanglingFighter
<1>1. CombatInv => NoDanglingFighter
  BY DEF CombatInv, CombatTypeOK, Fighters, NoDanglingFighter
<1> QED BY CombatInvariance, <1>1, PTL

(***************************************************************************)
(* The dead fight nobody and are fought by nobody.                         *)
(***************************************************************************)
THEOREM DeadLeaveTheFight == CombatSpec => []DeadAtPeace
<1>1. CombatInv => DeadAtPeace
  BY DEF CombatInv, CombatTypeOK, Mutual, Fighters, DeadAtPeace,
         can_quit, is_in_combat
<1> QED BY CombatInvariance, <1>1, PTL

(***************************************************************************)
(* A dead character neither revives nor takes a blow: the only action that *)
(* writes a life is the blow, and its victim is alive.                     *)
(***************************************************************************)
LEMMA DeadStep ==
  ASSUME CombatInv, CombatNext, NEW a \in chars, ~is_alive(a), a \in chars'
  PROVE  pvs'[a] = pvs[a]
<1> USE DEF CombatInv, CombatTypeOK
<1>1. ASSUME NEW b \in Addr, NewCharacter(b) PROVE pvs'[a] = pvs[a]
  BY <1>1 DEF NewCharacter
<1>2. ASSUME NEW b \in Addr, DeleteCharacter(b) PROVE pvs'[a] = pvs[a]
  BY <1>2 DEF DeleteCharacter, Delete
<1>3. ASSUME NEW b \in Addr, NEW c \in Addr, Matar(b, c) PROVE pvs'[a] = pvs[a]
  BY <1>3 DEF Matar
<1>4. ASSUME NEW b \in Addr, NEW c \in Addr, NEW r \in Roll, Strike(b, c, r)
      PROVE  pvs'[a] = pvs[a]
  <2>1. c # a
    BY <1>4 DEF Strike, Fighters
  <2> QED BY <1>4, <2>1 DEF Strike, injure_mele, injure
<1> QED BY <1>1, <1>2, <1>3, <1>4 DEF CombatNext

THEOREM DeadStayDead == CombatSpec => DeathIsFinal
<1>1. CombatInv /\ [CombatNext]_combatVars =>
        [\A a \in chars : ~is_alive(a) /\ a \in chars' => pvs'[a] = pvs[a]]_combatVars
  BY DeadStep
<1> QED BY CombatInvariance, <1>1, PTL DEF CombatSpec, DeathIsFinal

-----------------------------------------------------------------------------
(***************************************************************************)
(* Combat implements Fights.  Each step of Combat is a step of Fights on   *)
(* the living and their pairs, or leaves both alone.                       *)
(***************************************************************************)
LEMMA PairOf ==
  ASSUME CombatTypeOK
  PROVE  \A f : f \in fights <=> \E a, b \in Addr : b \in in_combat[a] /\ f = {a, b}
  BY DEF fights, CombatTypeOK

LEMMA NewMaps ==
  ASSUME CombatInv, NEW a \in Addr, NewCharacter(a)
  PROVE  F!Enter(a)
<1>1. in_combat[a] = {}
  BY DEF CombatInv, CombatTypeOK, Mutual, Fighters, NewCharacter
<1>2. in_combat' = in_combat
  BY <1>1 DEF NewCharacter, CombatInv, CombatTypeOK
<1>3. fights' = fights
  BY <1>2 DEF fights
<1>4. a \notin living /\ living' = living \cup {a}
  BY CombatAssumption DEF CombatInv, CombatTypeOK, NewCharacter, living, is_alive
<1> QED BY <1>3, <1>4 DEF F!Enter

LEMMA DeleteMaps ==
  ASSUME CombatInv, NEW a \in Addr, DeleteCharacter(a)
  PROVE  F!Leave(a) \/ UNCHANGED <<living, fights>>
<1>1. in_combat[a] = {}
  BY DEF DeleteCharacter, Delete, can_quit, is_in_combat
<1>2. in_combat' = in_combat
  BY <1>1 DEF DeleteCharacter, Delete, CombatInv, CombatTypeOK
<1>3. fights' = fights
  BY <1>2 DEF fights
<1>4. living' = living \ {a}
  BY DEF CombatInv, CombatTypeOK, DeleteCharacter, Delete, living, is_alive
<1>5. ~F!Fighting(a)
  BY <1>1, PairOf DEF CombatInv, Mutual, F!Fighting
<1> QED BY <1>3, <1>4, <1>5 DEF F!Leave

LEMMA MatarMaps ==
  ASSUME CombatInv, NEW p \in Addr, NEW c \in Addr,
         {p, c} \subseteq chars, Matar(p, c)
  PROVE  F!Challenge(p, c)
<1>1. p # c /\ {p, c} \subseteq living
  BY DEF Matar, MayFight, living
<1>2. living' = living
  BY DEF Matar, living, is_alive
<1>3. CombatTypeOK /\ CombatTypeOK'
  BY MatarInv DEF CombatInv
<1>4. \A a, b \in Addr :
         b \in in_combat'[a] <=> \/ b \in in_combat[a]
                                 \/ a = p /\ b = c
                                 \/ a = c /\ b = p
  BY <1>1, <1>3 DEF Matar, StartFight, CombatTypeOK
<1>5. \A f : f \in fights' <=>
               \E a, b \in Addr : b \in in_combat'[a] /\ f = {a, b}
  BY <1>3 DEF fights, CombatTypeOK
<1>6. \A f : f \in fights' <=> f \in fights \/ f = {p, c}
  BY <1>3, <1>4, <1>5, PairOf
<1>7. fights' = fights \cup {{p, c}}
  BY <1>6
<1> QED BY <1>1, <1>2, <1>7 DEF F!Challenge

LEMMA StrikeMaps ==
  ASSUME CombatInv, NEW a \in Addr, NEW b \in Addr, NEW r \in Roll,
         Strike(a, b, r)
  PROVE  F!Death(b) \/ UNCHANGED <<living, fights>>
<1>1. b \in in_combat[a] /\ b \in chars /\ is_alive(b)
  BY DEF Strike, CombatInv, Fighters
<1>2. /\ pvs' = [pvs EXCEPT ![b] = @ - Mal(r)]
      /\ in_combat' = IF is_alive(b)' THEN in_combat ELSE AfterDeath(b)
      /\ chars' = chars
  BY DEF Strike, injure_mele, injure
<1>3. CombatTypeOK /\ CombatTypeOK'
  BY StrikeInv DEF CombatInv
<1>4. \A c \in chars : c # b => (is_alive(c)' <=> is_alive(c))
  BY <1>2, <1>3 DEF CombatTypeOK, is_alive
<1>5. CASE is_alive(b)'
  <2>1. living' = living
    BY <1>1, <1>2, <1>4, <1>5 DEF living
  <2>2. fights' = fights
    BY <1>2, <1>5 DEF fights
  <2> QED BY <2>1, <2>2
<1>6. CASE ~is_alive(b)'
  <2>1. b \in living /\ living' = living \ {b}
    BY <1>1, <1>2, <1>4, <1>6 DEF living
  <2>2. F!Fighting(b)
    <3>1. {a, b} \in fights
      BY <1>1, <1>3, PairOf
    <3> QED BY <3>1 DEF F!Fighting
  <2>3. \A c, d \in Addr : d \in in_combat'[c] <=>
                             d \in in_combat[c] /\ c # b /\ d # b
    BY <1>2, <1>6, AfterDeathFights DEF CombatInv
  <2>4. \A f : f \in fights' <=>
                 \E c, d \in Addr : d \in in_combat'[c] /\ f = {c, d}
    BY <1>3 DEF fights, CombatTypeOK
  <2>5. \A f : f \in fights' <=> f \in fights /\ b \notin f
    BY <1>3, <2>3, <2>4, PairOf
  <2>6. fights' = {f \in fights : b \notin f}
    BY <2>5
  <2> QED BY <2>1, <2>2, <2>6 DEF F!Death
<1> QED BY <1>5, <1>6

LEMMA InitMaps == CombatInit => F!FightsInit
  BY DEF CombatInit, F!FightsInit, living, fights

LEMMA StepMaps == CombatInv /\ [CombatNext]_combatVars => [F!FightsNext]_(F!fightVars)
<1> SUFFICES ASSUME CombatInv, [CombatNext]_combatVars
             PROVE  F!FightsNext \/ UNCHANGED <<living, fights>>
  BY DEF F!fightVars
<1>1. CASE UNCHANGED combatVars
  BY <1>1 DEF combatVars, living, fights, is_alive
<1>2. ASSUME NEW a \in Addr, NewCharacter(a) PROVE F!FightsNext
  BY <1>2, NewMaps DEF F!FightsNext
<1>3. ASSUME NEW a \in Addr, DeleteCharacter(a)
      PROVE  F!FightsNext \/ UNCHANGED <<living, fights>>
  BY <1>3, DeleteMaps DEF F!FightsNext
<1>4. ASSUME NEW a \in Addr, NEW b \in Addr,
             {a, b} \subseteq chars, Matar(a, b)
      PROVE  F!FightsNext
  BY <1>4, MatarMaps DEF F!FightsNext
<1>5. ASSUME NEW a \in Addr, NEW b \in Addr, NEW r \in Roll, Strike(a, b, r)
      PROVE  F!FightsNext \/ UNCHANGED <<living, fights>>
  BY <1>5, StrikeMaps DEF F!FightsNext
<1> QED BY <1>1, <1>2, <1>3, <1>4, <1>5 DEF CombatNext

THEOREM CombatKeepsFights == CombatSpec => FightsKept
  BY CombatInvariance, InitMaps, StepMaps, PTL DEF CombatSpec, FightsKept, F!FightsSpec

=============================================================================
